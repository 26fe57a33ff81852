------------------------ MODULE RateLimiter_proofs ------------------------
(***************************************************************************)
(* The sliding window for any number of requests, any limit and window, and  *)
(* any bounds on the clocks' difference and the scripts' delay.              *)
(*                                                                         *)
(* The bound is on every member ever added, but a script sees only those     *)
(* still in Redis. What has to be shown is that a member that has left, in   *)
(* another script or with the whole key, is too old to share a (shortened)   *)
(* window with a timestamp that can still be added (IInv: Left).             *)
(***************************************************************************)
EXTENDS RateLimiter, FiniteSetTheorems, TLAPS

\* No timestamp is further ahead than the clocks allow.
Past == \A m \in counted : m.score <= clock + Skew

\* A timestamp is not older than the delay when its script runs.
Timely ==
    \A r \in Requests : pc[r] = "sampled" =>
        /\ taken[r] <= clock /\ clock <= taken[r] + Delay
        /\ taken[r] <= now[r] /\ now[r] <= taken[r] + Skew

\* The key expires a window after its last member was added.
Expiry ==
    /\ expiry <= clock + Window
    /\ \A m \in zset : m.score + Window <= expiry + Skew

\* A member leaves when it is a window old.
Left == \A m \in counted \ zset : m.score + Window <= clock + Skew

\* RateBound, for any window at all.
Bounded == \A t \in Int : Cardinality(Within(t - (Window - Lag), t)) <= MaxReqs

IInv == TypeOK /\ Past /\ Timely /\ Expiry /\ Left /\ Bounded /\ RefusedWhenFull

-----------------------------------------------------------------------------
LEMMA CountedSubset ==
    ASSUME TypeOK, NEW A \in SUBSET counted, NEW B \in SUBSET A
    PROVE  /\ IsFiniteSet(A) /\ IsFiniteSet(B)
           /\ Cardinality(A) \in Nat /\ Cardinality(B) \in Nat
           /\ Cardinality(B) <= Cardinality(A)
<1>1. IsFiniteSet(A)
      BY FS_Subset DEF TypeOK
<1> QED BY <1>1, FS_Subset, FS_CardinalityType

LEMMA InitIInv == Init => IInv
<1> SUFFICES ASSUME Init PROVE IInv
    OBVIOUS
<1> USE LimiterAssumption
<1>1. IsFiniteSet({}) /\ Cardinality({}) = 0
      BY FS_EmptySet
<1>2. \A a, b : Within(a, b) = {}
      BY DEF Init, Within
<1> QED BY <1>1, <1>2 DEF Init, IInv, TypeOK, Points, Past, Timely, Expiry, Left, Bounded,
             RefusedWhenFull

-----------------------------------------------------------------------------
(* A script, whether or not its answer arrives *)

\* What remains in Redis is finite and within the limit.
LEMMA Remaining ==
    ASSUME TypeOK, NEW s \in Nat
    PROVE  /\ Current(s) \subseteq zset /\ Current(s) \subseteq counted
           /\ IsFiniteSet(Current(s)) /\ Cardinality(Current(s)) \in Nat
           /\ Cardinality(Current(s)) <= MaxReqs
<1>1. Current(s) \subseteq zset /\ zset \subseteq counted
      BY DEF Current, TypeOK
<1>2. /\ IsFiniteSet(Current(s)) /\ Cardinality(Current(s)) \in Nat
      /\ Cardinality(zset) \in Nat /\ Cardinality(Current(s)) <= Cardinality(zset)
      BY <1>1, CountedSubset
<1> QED BY <1>1, <1>2, LimiterAssumption DEF TypeOK

LEMMA AcceptKeeps ==
    ASSUME IInv, NEW r \in Requests, pc[r] = "sampled", Accept(now[r]),
           UNCHANGED clock
    PROVE  /\ zset' \subseteq counted' /\ counted' \subseteq Member /\ expiry' \in Nat
           /\ counted \subseteq counted'
           /\ IsFiniteSet(counted') /\ Cardinality(zset') <= MaxReqs
           /\ Past' /\ Expiry' /\ Left' /\ Bounded'
<1> DEFINE s == now[r]
<1> USE LimiterAssumption
<1>1. PICK x \in Suffixes : /\ zset' = Current(s) \cup {[score |-> s, suffix |-> x]}
                            /\ counted' = counted \cup {[score |-> s, suffix |-> x]}
      BY DEF Accept, Add
<1> DEFINE m == [score |-> s, suffix |-> x]
<1>2. /\ s \in Nat /\ clock \in Nat /\ taken[r] \in Nat /\ expiry \in Nat
      /\ s <= clock + Skew /\ clock <= s + Delay
      BY DEF IInv, TypeOK, Timely
<1>3. m \in Member /\ m.score = s
      BY <1>2 DEF Member
<1>4. /\ Current(s) \subseteq zset /\ Current(s) \subseteq counted
      /\ IsFiniteSet(Current(s)) /\ Cardinality(Current(s)) \in Nat
      BY <1>2, Remaining DEF IInv
<1>5. \A c \in counted : c.score \in Nat
      BY DEF IInv, TypeOK, Member
<1>6. Cardinality(Current(s)) < MaxReqs
      BY DEF Accept
<1>7. IsFiniteSet(zset') /\ Cardinality(zset') \in Nat /\ Cardinality(zset') <= MaxReqs
  <2> HIDE DEF m
  <2>1. /\ IsFiniteSet(Current(s) \cup {m})
        /\ Cardinality(Current(s) \cup {m}) =
              IF m \in Current(s) THEN Cardinality(Current(s)) ELSE Cardinality(Current(s)) + 1
        BY <1>4, FS_AddElement
  <2> QED BY <2>1, <1>1, <1>4, <1>6 DEF m
<1>8. IsFiniteSet(counted')
      BY <1>1, FS_AddElement DEF IInv, TypeOK
<1>9. Past'
      BY <1>1, <1>2, <1>3, <1>5 DEF IInv, Past
<1>10. expiry' = clock + Window
       BY DEF Accept
<1>11. Expiry'
       BY <1>1, <1>2, <1>3, <1>4, <1>5, <1>10 DEF IInv, Expiry, TypeOK
<1>12. Left'
  <2> SUFFICES ASSUME NEW c \in counted' \ zset' PROVE c.score + Window <= clock + Skew
      BY DEF Left
  <2>1. c \in counted /\ c \notin Current(s) /\ c.score \in Nat
        BY <1>1, <1>5
  <2>2. CASE c \in zset
        BY <2>1, <2>2, <1>2 DEF Current
  <2>3. CASE c \notin zset
        BY <2>1, <2>3 DEF IInv, Left
  <2> QED BY <2>2, <2>3
<1>13. Bounded'
  <2> SUFFICES ASSUME NEW t \in Int
               PROVE  Cardinality(Within(t - (Window - Lag), t)') <= MaxReqs
      BY DEF Bounded
  <2> DEFINE W == Within(t - (Window - Lag), t)
             V == Within(t - (Window - Lag), t)'
  <2>1. V \subseteq W \cup {m} /\ W \subseteq counted
        BY <1>1 DEF Within
  <2>2. CASE m \notin V
    <3>1. V \subseteq W
          BY <2>1, <2>2
    <3>2. /\ Cardinality(W) \in Nat /\ Cardinality(V) \in Nat
          /\ Cardinality(V) <= Cardinality(W)
          BY <2>1, <3>1, CountedSubset DEF IInv
    <3> QED BY <3>2 DEF IInv, Bounded
  <2>3. CASE m \in V
    <3>1. t - (Window - Lag) < s /\ s <= t
          BY <2>3, <1>3 DEF Within
    <3>2. ASSUME NEW c \in W PROVE c \in Current(s)
      <4>1. c \in counted /\ c.score \in Nat /\ t - (Window - Lag) < c.score
            BY <1>5 DEF Within
      <4>2. c.score > s - Window
            BY <4>1, <3>1, <1>2 DEF Lag
      <4>3. c \in zset
            BY <4>1, <3>1, <1>2 DEF Lag, IInv, Left
      <4> QED BY <4>2, <4>3 DEF Current
    <3>3. V \subseteq zset'
          BY <2>1, <3>2, <1>1
    <3>4. Cardinality(V) <= Cardinality(zset') /\ Cardinality(V) \in Nat
          BY <3>3, <1>7, FS_Subset, FS_CardinalityType
    <3> QED BY <3>4, <1>7
  <2> QED BY <2>2, <2>3
<1> QED BY <1>1, <1>2, <1>3, <1>4, <1>7, <1>8, <1>9, <1>10, <1>11, <1>12, <1>13
         DEF IInv, TypeOK

LEMMA RefuseKeeps ==
    ASSUME IInv, NEW r \in Requests, pc[r] = "sampled", Refuse(now[r]),
           UNCHANGED clock
    PROVE  /\ zset' \subseteq counted' /\ counted' = counted /\ expiry' = expiry
           /\ Cardinality(zset') <= MaxReqs
           /\ Past' /\ Expiry' /\ Left' /\ Bounded'
           /\ Cardinality(Within(now[r] - Window, now[r] + Lag)) >= MaxReqs
<1> DEFINE s == now[r]
<1> USE LimiterAssumption
<1>1. zset' = Current(s) /\ counted' = counted /\ expiry' = expiry /\ clock' = clock
      BY DEF Refuse
<1>2. /\ s \in Nat /\ clock \in Nat /\ taken[r] \in Nat /\ expiry \in Nat
      /\ s <= clock + Skew /\ clock <= s + Delay
      BY DEF IInv, TypeOK, Timely
<1>3. /\ Current(s) \subseteq zset /\ Current(s) \subseteq counted
      /\ Cardinality(Current(s)) \in Nat /\ Cardinality(Current(s)) <= MaxReqs
      BY <1>2, Remaining DEF IInv
<1>4. \A c \in counted : c.score \in Nat
      BY DEF IInv, TypeOK, Member
<1>5. Past' /\ Expiry' /\ Bounded'
      BY <1>1, <1>3 DEF IInv, Past, Expiry, Bounded, Within
<1>6. Left'
  <2> SUFFICES ASSUME NEW c \in counted \ Current(s) PROVE c.score + Window <= clock + Skew
      BY <1>1 DEF Left
  <2>1. CASE c \in zset
        BY <2>1, <1>2, <1>4 DEF Current
  <2>2. CASE c \notin zset
        BY <2>2 DEF IInv, Left
  <2> QED BY <2>1, <2>2
<1>7. Cardinality(Within(s - Window, s + Lag)) >= MaxReqs
  <2> DEFINE W == Within(s - Window, s + Lag)
  <2>1. W \subseteq counted
        BY DEF Within
  <2>2. ASSUME NEW c \in Current(s) PROVE c \in W
    <3>1. c \in counted /\ c.score \in Nat /\ c.score > s - Window
          BY <1>3, <1>4 DEF Current
    <3>2. c.score <= s + Lag
          BY <3>1, <1>2 DEF IInv, Past, Lag
    <3> QED BY <3>1, <3>2 DEF Within
  <2>3. Cardinality(Current(s)) <= Cardinality(W) /\ Cardinality(W) \in Nat
        BY <2>1, <2>2, CountedSubset DEF IInv
  <2>4. Cardinality(Current(s)) >= MaxReqs
        BY DEF Refuse
  <2> QED BY <2>3, <2>4, <1>3
<1> QED BY <1>1, <1>3, <1>5, <1>6, <1>7

\* What was added is never taken back, so a refusal stays justified.
LEMMA StillFull ==
    ASSUME TypeOK, counted \subseteq counted', IsFiniteSet(counted'), NEW s \in Int,
           Cardinality(Within(s - Window, s + Lag)) >= MaxReqs
    PROVE  Cardinality(Within(s - Window, s + Lag)') >= MaxReqs
<1> USE LimiterAssumption
<1> DEFINE W == Within(s - Window, s + Lag)
           V == Within(s - Window, s + Lag)'
<1>1. W \subseteq V /\ V \subseteq counted'
      BY DEF Within
<1>2. IsFiniteSet(V)
      BY <1>1, FS_Subset
<1>3. Cardinality(W) <= Cardinality(V) /\ Cardinality(V) \in Nat /\ Cardinality(W) \in Nat
      BY <1>1, <1>2, FS_Subset, FS_CardinalityType
<1> QED BY <1>3

-----------------------------------------------------------------------------
LEMMA SampleKeeps ==
    ASSUME IInv, NEW r \in Requests, Sample(r)
    PROVE  IInv'
<1> USE LimiterAssumption
<1>1. UNCHANGED <<clock, zset, expiry, counted>>
      BY DEF Sample
<1>2. PICK ahead \in 0..Skew : now' = [now EXCEPT ![r] = clock + ahead]
      BY DEF Sample
<1>3. /\ taken' = [taken EXCEPT ![r] = clock] /\ pc' = [pc EXCEPT ![r] = "sampled"]
      BY DEF Sample, Go
<1>4. TypeOK'
      BY <1>1, <1>2, <1>3 DEF IInv, TypeOK, Points
<1>5. Past' /\ Expiry' /\ Left' /\ Bounded'
      BY <1>1 DEF IInv, Past, Expiry, Left, Bounded, Within
<1>6. Timely'
      BY <1>1, <1>2, <1>3 DEF IInv, Timely, TypeOK
<1>7. RefusedWhenFull'
      BY <1>1, <1>2, <1>3 DEF IInv, RefusedWhenFull, TypeOK, Within
<1> QED BY <1>4, <1>5, <1>6, <1>7 DEF IInv

\* The answer of a script goes to "allowed", "rejected" or, if it is lost, "passed".
LEMMA ScriptKeeps ==
    ASSUME IInv, NEW r \in Requests, RunScript(r) \/ FailOpen(r)
    PROVE  IInv'
<1> USE LimiterAssumption
<1>1. /\ pc[r] = "sampled" /\ UNCHANGED <<clock, now, taken>> /\ now[r] \in Nat
      BY DEF RunScript, FailOpen, IInv, TypeOK
<1>2. PICK point \in {"allowed", "rejected", "passed"} : pc' = [pc EXCEPT ![r] = point]
      BY DEF RunScript, FailOpen, Go
<1>3. point = "rejected" => Refuse(now[r])
      BY <1>1, <1>2 DEF RunScript, FailOpen, Go, IInv, TypeOK
<1>4. /\ zset' \subseteq counted' /\ counted' \subseteq Member /\ expiry' \in Nat
      /\ counted \subseteq counted' /\ IsFiniteSet(counted') /\ Cardinality(zset') <= MaxReqs
      /\ Past' /\ Expiry' /\ Left' /\ Bounded'
  <2>1. CASE Accept(now[r])
        BY <2>1, <1>1, AcceptKeeps
  <2>2. CASE Refuse(now[r])
        BY <2>2, <1>1, RefuseKeeps DEF IInv, TypeOK
  <2>3. CASE UNCHANGED <<zset, expiry, counted>>
        BY <2>3, <1>1 DEF IInv, TypeOK, Past, Expiry, Left, Bounded, Within
  <2> QED BY <2>1, <2>2, <2>3 DEF RunScript, FailOpen
<1>5. TypeOK'
      BY <1>1, <1>2, <1>4 DEF IInv, TypeOK, Points
<1>6. Timely'
      BY <1>1, <1>2 DEF IInv, Timely, TypeOK
<1>7. RefusedWhenFull'
  <2> SUFFICES ASSUME NEW q \in Requests, pc'[q] = "rejected"
               PROVE  Cardinality(Within(now[q] - Window, now[q] + Lag)') >= MaxReqs
      BY <1>1 DEF RefusedWhenFull, Within
  <2>1. now[q] \in Int
        BY DEF IInv, TypeOK
  <2>2. Cardinality(Within(now[q] - Window, now[q] + Lag)) >= MaxReqs
    <3>1. CASE q = r
          BY <3>1, <1>1, <1>2, <1>3, RefuseKeeps DEF IInv, TypeOK
    <3>2. CASE q # r
          BY <3>2, <1>2 DEF IInv, TypeOK, RefusedWhenFull
    <3> QED BY <3>1, <3>2
  <2> QED BY <2>1, <2>2, <1>1, <1>4, StillFull DEF IInv, Within
<1> QED BY <1>4, <1>5, <1>6, <1>7 DEF IInv

LEMMA TickKeeps ==
    ASSUME IInv, Tick
    PROVE  IInv'
<1> USE LimiterAssumption
<1>1. /\ clock' = clock + 1 /\ UNCHANGED <<expiry, pc, now, taken, counted>>
      /\ zset' = IF clock + 1 > expiry THEN {} ELSE zset
      /\ \A r \in Requests : pc[r] = "sampled" => clock < taken[r] + Delay
      BY DEF Tick
<1>2. \A c \in counted : c.score \in Nat
      BY DEF IInv, TypeOK, Member
<1>3. clock \in Nat /\ expiry \in Nat
      BY DEF IInv, TypeOK
<1>4. Cardinality(zset') <= MaxReqs
      BY <1>1, FS_EmptySet DEF IInv, TypeOK
<1>5. TypeOK'
      BY <1>1, <1>3, <1>4 DEF IInv, TypeOK
<1>6. Past' /\ Timely' /\ Bounded' /\ RefusedWhenFull'
      BY <1>1, <1>2, <1>3 DEF IInv, Past, Timely, Bounded, Within, RefusedWhenFull, TypeOK
<1>7. Expiry'
      BY <1>1, <1>2, <1>3 DEF IInv, Expiry
<1>8. Left'
  <2> SUFFICES ASSUME NEW c \in counted \ zset' PROVE c.score + Window <= clock + 1 + Skew
      BY <1>1 DEF Left
  <2>1. CASE c \in zset
    <3>1. clock + 1 > expiry /\ c.score + Window <= expiry + Skew
          BY <2>1, <1>1 DEF IInv, Expiry
    <3> QED BY <3>1, <1>2, <1>3
  <2>2. CASE c \notin zset
        BY <2>2, <1>2, <1>3 DEF IInv, Left
  <2> QED BY <2>1, <2>2
<1> QED BY <1>5, <1>6, <1>7, <1>8 DEF IInv

LEMMA NextIInv == IInv /\ [Next]_vars => IInv'
<1> SUFFICES ASSUME IInv, [Next]_vars PROVE IInv'
    OBVIOUS
<1>1. CASE Tick
      BY <1>1, TickKeeps
<1>2. ASSUME NEW r \in Requests, Sample(r) PROVE IInv'
      BY <1>2, SampleKeeps
<1>3. ASSUME NEW r \in Requests, RunScript(r) \/ FailOpen(r) PROVE IInv'
      BY <1>3, ScriptKeeps
<1>4. ASSUME NEW r \in Requests, Skip(r) PROVE IInv'
  <2>1. pc' = [pc EXCEPT ![r] = "passed"] /\ UNCHANGED <<clock, zset, expiry, now, taken, counted>>
        BY <1>4 DEF Skip, Go
  <2>2. TypeOK'
        BY <2>1 DEF IInv, TypeOK, Points
  <2> QED BY <2>1, <2>2 DEF IInv, TypeOK, Past, Timely, Expiry, Left, Bounded, RefusedWhenFull,
               Within
<1>5. CASE UNCHANGED vars
      BY <1>5 DEF vars, IInv, TypeOK, Past, Timely, Expiry, Left, Bounded, RefusedWhenFull, Within
<1> QED BY <1>1, <1>2, <1>3, <1>4, <1>5 DEF Next, RateLimit

THEOREM Invariance == Spec => []IInv
BY InitIInv, NextIInv, PTL DEF Spec

-----------------------------------------------------------------------------
\* The limiter's variables keep their types and its set in Redis never exceeds the
\* limit (redis_limiter.go:39-44).
THEOREM TypeCorrect == Spec => []TypeOK
BY Invariance, PTL DEF IInv

\* No window, shortened by the clocks' difference and the delay, lets in more members
\* than the limit (redis_limiter.go:28-48), whatever Redis' failures and expiry do.
THEOREM WithinLimit == Spec => []RateBound
<1>1. IInv => RateBound
      BY LimiterAssumption DEF IInv, Bounded, RateBound, TypeOK
<1> QED BY <1>1, Invariance, PTL

\* No request is refused below the limit (redis_limiter.go:45).
THEOREM RefusedRightly == Spec => []RefusedWhenFull
BY Invariance, PTL DEF IInv
=============================================================================
