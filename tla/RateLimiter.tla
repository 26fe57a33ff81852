---------------------------- MODULE RateLimiter -----------------------------
(***************************************************************************)
(* api-gateway: RateLimitMiddleware over the sorted set of one key in        *)
(* Redis. Gateways read their own clocks, so a request carries a timestamp   *)
(* that is neither Redis' nor that of the moment its script runs.            *)
(***************************************************************************)
EXTENDS Integers, FiniteSets

CONSTANTS
    Requests,      \* requests for the key (one client address and path)
    Skipping,      \* those whose path is in SkipPaths
    MaxReqs,       \* Config.RequestsPerMinute
    Window,        \* Config.Window, in ticks
    Suffixes,      \* values of math.random in a script
    Skew,          \* bound: how far a gateway's clock is ahead of Redis'
    Delay,         \* bound: ticks between reading the clock and running the script
    MaxTime        \* bound: ticks

ASSUME LimiterAssumption ==
    /\ Skipping \subseteq Requests
    /\ MaxReqs \in Nat /\ Window \in Nat
    /\ Skew \in Nat /\ Delay \in Nat /\ MaxTime \in Nat

VARIABLES
    clock,      \* Redis' clock
    zset,       \* the members of the key: [score, suffix]
    expiry,     \* when the key expires
    pc,         \* request -> where it is
    now,        \* request -> ARGV[1], the timestamp its gateway took
    taken,      \* request -> when it took it, by Redis' clock
    counted     \* history: every member ever added

vars == <<clock, zset, expiry, pc, now, taken, counted>>

Member == [score : Nat, suffix : Suffixes]
Points == {"new", "sampled", "allowed", "rejected", "passed"}

Init ==
    /\ clock = 0
    /\ zset = {}
    /\ expiry = 0
    /\ pc = [r \in Requests |-> "new"]
    /\ now = [r \in Requests |-> 0]
    /\ taken = [r \in Requests |-> 0]
    /\ counted = {}

-----------------------------------------------------------------------------
(* The Lua script, atomic in Redis. *)

\* Mutants of Current: members leave a tick early; members never leave.
CurrentShort(t) == {m \in zset : m.score > t - Window + 1}
CurrentAll(t) == zset

\* ZREMRANGEBYSCORE key 0 now-window
Current(t) == {m \in zset : m.score > t - Window}

\* ZADD of a member that is there already adds nothing.
Add(t) == \E s \in Suffixes :
    LET m == [score |-> t, suffix |-> s] IN
    /\ zset' = Current(t) \cup {m}
    /\ counted' = counted \cup {m}

Accept(t) ==
    /\ Cardinality(Current(t)) < MaxReqs
    /\ Add(t)
    /\ expiry' = clock + Window

\* Mutant of Refuse: a refused request is counted as well.
RefuseCounting(t) == Cardinality(Current(t)) >= MaxReqs /\ Add(t) /\ UNCHANGED expiry

Refuse(t) ==
    /\ Cardinality(Current(t)) >= MaxReqs
    /\ zset' = Current(t)
    /\ UNCHANGED <<expiry, counted>>

-----------------------------------------------------------------------------
(* The gateway. *)

Go(r, point) == pc' = [pc EXCEPT ![r] = point]

\* A path of SkipPaths goes past the limiter.
Skip(r) ==
    /\ pc[r] = "new"
    /\ r \in Skipping
    /\ Go(r, "passed")
    /\ UNCHANGED <<clock, zset, expiry, now, taken, counted>>

\* Allow: time.Now().UnixMilli()
Sample(r) ==
    /\ pc[r] = "new"
    /\ r \notin Skipping
    /\ \E ahead \in 0..Skew : now' = [now EXCEPT ![r] = clock + ahead]
    /\ taken' = [taken EXCEPT ![r] = clock]
    /\ Go(r, "sampled")
    /\ UNCHANGED <<clock, zset, expiry, counted>>

\* Allow: script.Run
RunScript(r) ==
    /\ pc[r] = "sampled"
    /\ \/ Accept(now[r]) /\ Go(r, "allowed")
       \/ Refuse(now[r]) /\ Go(r, "rejected")
    /\ UNCHANGED <<clock, now, taken>>

\* An error of Redis lets the request pass, whether its script did not run or only
\* the answer was lost.
FailOpen(r) ==
    /\ pc[r] = "sampled"
    /\ UNCHANGED <<zset, expiry, counted>> \/ Accept(now[r]) \/ Refuse(now[r])
    /\ Go(r, "passed")
    /\ UNCHANGED <<clock, now, taken>>

RateLimit(r) == Skip(r) \/ Sample(r) \/ RunScript(r) \/ FailOpen(r)

-----------------------------------------------------------------------------

\* A script runs at most Delay ticks after its timestamp was taken. PEXPIRE: the key is
\* gone a window after the last member was added.
Tick ==
    /\ clock < MaxTime
    /\ \A r \in Requests : pc[r] = "sampled" => clock < taken[r] + Delay
    /\ clock' = clock + 1
    /\ zset' = IF clock + 1 > expiry THEN {} ELSE zset
    /\ UNCHANGED <<expiry, pc, now, taken, counted>>

Next == Tick \/ \E r \in Requests : RateLimit(r)

Spec == Init /\ [][Next]_vars

-----------------------------------------------------------------------------
(* Properties *)

\* Types; the set in Redis holds members that were added, and no more than the limit.
TypeOK ==
    /\ clock \in Nat
    /\ zset \subseteq counted
    /\ expiry \in Nat
    /\ pc \in [Requests -> Points]
    /\ now \in [Requests -> Nat]
    /\ taken \in [Requests -> Nat]
    /\ counted \subseteq Member
    /\ IsFiniteSet(counted) /\ Cardinality(zset) <= MaxReqs

\* How far apart two timestamps can be from the order in which their scripts run.
Lag == Skew + Delay

Within(from, to) == {m \in counted : from < m.score /\ m.score <= to}

\* The sliding window (redis_limiter.go:28-48): of the timestamps of any window no more
\* than the limit are let in. Scripts that run out of order, because clocks
\* differ or requests overtake each other, remove members early: they shorten the
\* window by Lag, and no more.
RateBound ==
    \A r \in Requests : \A t \in now[r]..now[r] + Window :
        Cardinality(Within(t - (Window - Lag), t)) <= MaxReqs

\* A request is refused only if the limit was used up by members of its own window
\* (redis_limiter.go:45): neither refused requests nor members that have left count.
RefusedWhenFull ==
    \A r \in Requests : pc[r] = "rejected" =>
        Cardinality(Within(now[r] - Window, now[r] + Lag)) >= MaxReqs
=============================================================================
