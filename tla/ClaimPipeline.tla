--------------------------- MODULE ClaimPipeline ---------------------------
(***************************************************************************)
(* The fraud-detection pipeline of GoShield, end to end: the HTTP handlers *)
(* of claim-service, the Kafka topics, the AI worker (ai-service-go), the  *)
(* consumer of claim-service, the consumer and the WebSocket hub of        *)
(* notification-service, and the dashboard in the browser.                 *)
(*                                                                         *)
(* Each handler writes PostgreSQL and then publishes, in two steps with    *)
(* nothing that ties them together.  Events of one claim go to different   *)
(* partitions (the producer balances by bytes), so a topic is the set of   *)
(* its undelivered events for each consumer group, taken in any order.  A  *)
(* worker's event stays in its topic until the worker is done with it,     *)
(* which is when Consumer.Consume commits it (KafkaConsumer says how); a   *)
(* worker that dies before that gets it again.                             *)
(*                                                                         *)
(* A claim's amount, description and the like are left out, and so are     *)
(* requests that change nothing (a failed INSERT, a refused upload).       *)
(* Scores are integers, in ten-thousandths: ai-service-py rounds to four   *)
(* decimals, and events carry them so; the column keeps three (Stored).    *)
(***************************************************************************)
EXTENDS Naturals, FiniteSets

CONSTANTS Claims,            \* claim ids
          Companies,
          Scores,            \* fraud scores the AI can return
          FlagThreshold,     \* the 0.80 of UpdateAnalysis and of the AI worker
          PublishThreshold,  \* claim-service's notification.fraud_threshold_flag
          AiWorkers,         \* consumers of claims.new (replicas of ai-service-go)
          ClaimWorkers,      \* consumers of claims.analyzed in claim-service
          Pods,              \* replicas of notification-service, each with its own hub
          MaxRetries,        \* Consumer.maxRetries
          MaxUploads,        \* bound: documents uploaded for one claim
          MaxReviews,        \* bound: decisions taken on one claim
          MaxLosses,         \* bound: publishes and updates that fail for good
          MaxCrashes,        \* bound: workers that die before their commit
          NoRow, NoCompany, Idle

ASSUME ScoresAssumption ==
    /\ Scores \subseteq Nat
    /\ FlagThreshold \in Nat \ {0}
    /\ FlagThreshold % 10 = 0        \* the column can hold it
    /\ PublishThreshold \in Nat

ASSUME BoundsAssumption ==
    /\ MaxRetries \in Nat \ {0}
    /\ MaxUploads \in Nat
    /\ MaxReviews \in Nat
    /\ MaxLosses \in Nat
    /\ MaxCrashes \in Nat

VARIABLES
    row,       \* row[c]: c's row in table claims, or NoRow
    requests,  \* what HTTP handlers have still to do after their database write
    pending,   \* pending[g]: events group g has not committed yet
    analysis,  \* analysis[w]: what an AI worker is doing, or Idle
    flagging,  \* flagging[w]: the result a claim-service consumer has applied but
               \* not yet announced, or Idle
    deadLetters, \* claims with an event in claims.failed, which nobody consumes
    home,      \* home[k]: the pod company k's dashboard is connected to
    fetching,  \* claims the dashboard has been told to fetch again
    view,      \* view[c]: the status the dashboard of c's company shows.  It is a
               \* browser that watches: the one a request comes from refetches anyway
    \* history
    issued,    \* issued[c]: the company that created c
    scored,    \* scored[c]: scores the AI gave c
    alerts,    \* <<claim, score>> of the alerts posted to Slack
    received,  \* <<company, claim>>: events that reached a company's dashboard
    uploads, reviews, losses, crashes

pipeline == <<requests, pending, analysis, flagging, deadLetters>>
dashboard == <<home, fetching, view>>
history == <<issued, scored, alerts, received>>
bounds == <<uploads, reviews, losses, crashes>>
vars == <<row, pipeline, dashboard, history, bounds>>

Statuses == {"PENDING", "FLAGGED", "APPROVED", "REJECTED", "MORE_INFO"}
Decisions == {"APPROVED", "REJECTED", "MORE_INFO"}
Rows == [company : Companies, status : Statuses, score : Nat, analyst : BOOLEAN]

\* A score as claims.fraud_score, NUMERIC(4,3), holds it: PostgreSQL rounds to the
\* nearest thousandth, halves up.
Stored(s) == 10 * ((s + 5) \div 10)

\* The status UpdateAnalysis derives, in SQL, from its parameter.
Verdict(s) == IF s >= FlagThreshold THEN "FLAGGED" ELSE "APPROVED"

\* The events, by topic.  A review event has no company: ReviewClaim leaves
\* CompanyID out of the envelope.
Created(c, k, doc) ==
    [type |-> "claim.created", claim |-> c, company |-> k, doc |-> doc]
Analyzed(c, k, s) ==
    [type |-> "claim.analyzed", claim |-> c, company |-> k, score |-> s]
Flagged(c, k, s) ==
    [type |-> "claim.flagged", claim |-> c, company |-> k, score |-> s]
Reviewed(c, decision) ==
    [type |-> IF decision = "REJECTED" THEN "claim.rejected" ELSE "claim.approved",
     claim |-> c, company |-> NoCompany, status |-> decision]

CreatedEvents ==
    [type : {"claim.created"}, claim : Claims, company : Companies, doc : BOOLEAN]
AnalyzedEvents ==
    [type : {"claim.analyzed"}, claim : Claims, company : Companies, score : Scores]
FlaggedEvents ==
    [type : {"claim.flagged"}, claim : Claims, company : Companies, score : Scores]
ReviewEvents ==
    [type : {"claim.approved", "claim.rejected"}, claim : Claims,
     company : {NoCompany}, status : Decisions]

ResultEvents == AnalyzedEvents \union ReviewEvents

\* The consumer groups: ai-service-go reads claims.new; claim-service and
\* notification-service ("dashboards") both read claims.analyzed, and
\* notification-service ("alerts") reads claims.flagged.
Topics == [ai : SUBSET CreatedEvents, claims : SUBSET ResultEvents,
           dashboards : SUBSET ResultEvents, alerts : SUBSET FlaggedEvents]

\* The topics once e is published.
Publish(e) ==
    CASE e.type = "claim.created" -> [pending EXCEPT !.ai = @ \union {e}]
      [] e.type = "claim.flagged" -> [pending EXCEPT !.alerts = @ \union {e}]
      [] OTHER -> [pending EXCEPT !.claims = @ \union {e}, !.dashboards = @ \union {e}]

Requests == [step : {"publish"}, event : CreatedEvents \union ReviewEvents]
            \union [step : {"reread"}, claim : Claims]
Work == [event : CreatedEvents, attempt : 0..(MaxRetries - 1), score : {0},
         next : {"analyze"}]
        \union [event : CreatedEvents, attempt : 0..(MaxRetries - 1), score : Scores,
                next : {"publish analyzed", "publish flagged"}]

ASSUME ValuesAssumption ==
    /\ NoRow \notin Rows
    /\ NoCompany \notin Companies
    /\ Idle \notin Work \union AnalyzedEvents

TypeOK ==
    /\ row \in [Claims -> Rows \union {NoRow}]
    /\ requests \subseteq Requests
    /\ pending \in Topics
    /\ analysis \in [AiWorkers -> Work \union {Idle}]
    /\ flagging \in [ClaimWorkers -> AnalyzedEvents \union {Idle}]
    /\ deadLetters \subseteq Claims
    /\ home \in [Companies -> Pods]
    /\ fetching \subseteq Claims
    /\ view \in [Claims -> Statuses \union {"none"}]
    /\ issued \in [Claims -> Companies \union {NoCompany}]
    /\ scored \in [Claims -> SUBSET Scores]
    /\ alerts \subseteq Claims \X Scores
    /\ received \subseteq Companies \X Claims
    /\ uploads \in [Claims -> 0..MaxUploads]
    /\ reviews \in [Claims -> 0..MaxReviews]
    /\ losses \in 0..MaxLosses
    /\ crashes \in 0..MaxCrashes

Init ==
    /\ row = [c \in Claims |-> NoRow]
    /\ requests = {}
    /\ pending = [ai |-> {}, claims |-> {}, dashboards |-> {}, alerts |-> {}]
    /\ analysis = [w \in AiWorkers |-> Idle]
    /\ flagging = [w \in ClaimWorkers |-> Idle]
    /\ deadLetters = {}
    /\ home \in [Companies -> Pods]
    /\ fetching = {}
    /\ view = [c \in Claims |-> "none"]
    /\ issued = [c \in Claims |-> NoCompany]
    /\ scored = [c \in Claims |-> {}]
    /\ alerts = {}
    /\ received = {}
    /\ uploads = [c \in Claims |-> 0]
    /\ reviews = [c \in Claims |-> 0]
    /\ losses = 0
    /\ crashes = 0

Loss == losses < MaxLosses /\ losses' = losses + 1 /\ UNCHANGED crashes
Crash == crashes < MaxCrashes /\ crashes' = crashes + 1 /\ UNCHANGED losses
NoFault == UNCHANGED <<losses, crashes>>

-----------------------------------------------------------------------------
(* claim-service: HTTP handlers. *)

CreateClaim(c, k) ==
    /\ issued[c] = NoCompany
    /\ row' = [row EXCEPT ![c] =
                 [company |-> k, status |-> "PENDING", score |-> 0, analyst |-> FALSE]]
    /\ issued' = [issued EXCEPT ![c] = k]
    /\ requests' = requests \union {[step |-> "publish", event |-> Created(c, k, FALSE)]}
    /\ UNCHANGED <<pending, analysis, flagging, deadLetters, dashboard,
                   scored, alerts, received, bounds>>

\* UploadDocument up to UpdateDocURL.
UploadDocument(c) ==
    /\ row[c] # NoRow
    /\ uploads[c] < MaxUploads
    /\ uploads' = [uploads EXCEPT ![c] = @ + 1]
    /\ requests' = requests \union {[step |-> "reread", claim |-> c]}
    /\ UNCHANGED <<row, pending, analysis, flagging, deadLetters, dashboard,
                   history, reviews, losses, crashes>>

\* UploadDocument's GetByID: it publishes again only if it gets the claim.
RereadClaim(c) ==
    LET r == [step |-> "reread", claim |-> c]
    IN /\ r \in requests
       /\ \/ /\ row[c] # NoRow
             /\ requests' = (requests \ {r}) \union
                  {[step |-> "publish", event |-> Created(c, row[c].company, TRUE)]}
             /\ NoFault
          \/ /\ row[c] = NoRow
             /\ requests' = requests \ {r}
             /\ NoFault
          \/ /\ Loss
             /\ requests' = requests \ {r}
       /\ UNCHANGED <<row, pending, analysis, flagging, deadLetters, dashboard,
                      history, uploads, reviews>>

\* UpdateStatus does not look at the status it replaces.
ReviewClaim(c, decision) ==
    /\ row[c] # NoRow
    /\ reviews[c] < MaxReviews
    /\ reviews' = [reviews EXCEPT ![c] = @ + 1]
    /\ row' = [row EXCEPT ![c].status = decision, ![c].analyst = TRUE]
    /\ requests' = requests \union {[step |-> "publish", event |-> Reviewed(c, decision)]}
    /\ UNCHANGED <<pending, analysis, flagging, deadLetters, dashboard,
                   history, uploads, losses, crashes>>

DeleteClaim(c) ==
    /\ row[c] # NoRow
    /\ row' = [row EXCEPT ![c] = NoRow]
    /\ UNCHANGED <<pipeline, dashboard, history, bounds>>

\* The handler's last step: publish, or fail to (an error is only logged; the
\* process may also die between the database write and the publish).
FinishRequest(r) ==
    /\ r \in requests
    /\ r.step = "publish"
    /\ requests' = requests \ {r}
    /\ \/ pending' = Publish(r.event) /\ NoFault
       \/ Loss /\ UNCHANGED pending
    /\ UNCHANGED <<row, analysis, flagging, deadLetters, dashboard, history,
                   uploads, reviews>>

-----------------------------------------------------------------------------
(* ai-service-go: ClaimConsumer.Handle, called from Consumer.Consume.        *)
(* A rebalance can hand an event to a second worker while the first is on it. *)

\* Mutant of TakeCreated: the event is committed when it is fetched.
TakeAndCommit(w, e) ==
    /\ analysis[w] = Idle
    /\ e \in pending.ai
    /\ analysis' = [analysis EXCEPT ![w] =
                      [event |-> e, attempt |-> 0, score |-> 0, next |-> "analyze"]]
    /\ pending' = [pending EXCEPT !.ai = @ \ {e}]
    /\ UNCHANGED <<row, requests, flagging, deadLetters, dashboard, history, bounds>>

TakeCreated(w, e) ==
    /\ analysis[w] = Idle
    /\ e \in pending.ai
    /\ analysis' = [analysis EXCEPT ![w] =
                      [event |-> e, attempt |-> 0, score |-> 0, next |-> "analyze"]]
    /\ UNCHANGED <<row, requests, pending, flagging, deadLetters, dashboard,
                   history, bounds>>

Analyze(w, s) ==
    /\ analysis[w] # Idle
    /\ analysis[w].next = "analyze"
    /\ analysis' = [analysis EXCEPT ![w].score = s, ![w].next = "publish analyzed"]
    /\ scored' = [scored EXCEPT ![analysis[w].event.claim] = @ \union {s}]
    /\ UNCHANGED <<row, requests, pending, flagging, deadLetters, dashboard,
                   issued, alerts, received, bounds>>

\* Mutants of AnalyzeFails: one attempt too many; giving up without claims.failed.
AnalyzeFailsOnceMore(w) ==
    /\ analysis[w] # Idle
    /\ analysis[w].next = "analyze"
    /\ deadLetters' = deadLetters \union {analysis[w].event.claim}
    /\ \/ /\ analysis[w].attempt + 1 <= MaxRetries
          /\ analysis' = [analysis EXCEPT ![w].attempt = @ + 1]
          /\ UNCHANGED pending
       \/ /\ analysis[w].attempt + 1 > MaxRetries
          /\ analysis' = [analysis EXCEPT ![w] = Idle]
          /\ pending' = [pending EXCEPT !.ai = @ \ {analysis[w].event}]
    /\ UNCHANGED <<row, requests, flagging, dashboard, history, bounds>>

AnalyzeFailsSilently(w) ==
    /\ analysis[w] # Idle
    /\ analysis[w].next = "analyze"
    /\ analysis' = [analysis EXCEPT ![w] = Idle]
    /\ pending' = [pending EXCEPT !.ai = @ \ {analysis[w].event}]
    /\ UNCHANGED <<row, requests, flagging, deadLetters, dashboard, history, bounds>>

\* Every failed attempt, not only the last one, goes to claims.failed.
AnalyzeFails(w) ==
    /\ analysis[w] # Idle
    /\ analysis[w].next = "analyze"
    /\ \/ deadLetters' = deadLetters \union {analysis[w].event.claim} /\ NoFault
       \/ Loss /\ UNCHANGED deadLetters
    /\ \/ /\ analysis[w].attempt + 1 < MaxRetries
          /\ analysis' = [analysis EXCEPT ![w].attempt = @ + 1]
          /\ UNCHANGED pending
       \/ /\ analysis[w].attempt + 1 = MaxRetries
          /\ analysis' = [analysis EXCEPT ![w] = Idle]
          /\ pending' = [pending EXCEPT !.ai = @ \ {analysis[w].event}]
    /\ UNCHANGED <<row, requests, flagging, dashboard, history, uploads, reviews>>

\* The result is published to claims.analyzed; when that fails it is only logged.
PublishAnalyzed(w) ==
    LET e == analysis[w].event
    IN /\ analysis[w] # Idle
       /\ analysis[w].next = "publish analyzed"
       /\ analysis' = [analysis EXCEPT ![w].next = "publish flagged"]
       /\ \/ /\ pending' = Publish(Analyzed(e.claim, e.company, analysis[w].score))
             /\ NoFault
          \/ Loss /\ UNCHANGED pending
       /\ UNCHANGED <<row, requests, flagging, deadLetters, dashboard, history,
                      uploads, reviews>>

\* Mutants of FinishAnalysis: claim.flagged whatever the score; claim.flagged
\* left to claim-service.
FinishAlwaysFlagged(w) ==
    LET e == analysis[w].event
    IN /\ analysis[w] # Idle
       /\ analysis[w].next = "publish flagged"
       /\ analysis' = [analysis EXCEPT ![w] = Idle]
       /\ pending' = [Publish(Flagged(e.claim, e.company, analysis[w].score))
                        EXCEPT !.ai = @ \ {e}]
       /\ UNCHANGED <<row, requests, flagging, deadLetters, dashboard, history, bounds>>

FinishUnflagged(w) ==
    /\ analysis[w] # Idle
    /\ analysis[w].next = "publish flagged"
    /\ analysis' = [analysis EXCEPT ![w] = Idle]
    /\ pending' = [pending EXCEPT !.ai = @ \ {analysis[w].event}]
    /\ UNCHANGED <<row, requests, flagging, deadLetters, dashboard, history, bounds>>

\* A high score is also published to claims.flagged; Handle returns nil.
FinishAnalysis(w) ==
    LET e == analysis[w].event
    IN /\ analysis[w] # Idle
       /\ analysis[w].next = "publish flagged"
       /\ analysis' = [analysis EXCEPT ![w] = Idle]
       /\ \/ /\ analysis[w].score < FlagThreshold
             /\ pending' = [pending EXCEPT !.ai = @ \ {e}]
             /\ NoFault
          \/ /\ analysis[w].score >= FlagThreshold
             /\ pending' = [Publish(Flagged(e.claim, e.company, analysis[w].score))
                              EXCEPT !.ai = @ \ {e}]
             /\ NoFault
          \/ /\ analysis[w].score >= FlagThreshold
             /\ Loss
             /\ pending' = [pending EXCEPT !.ai = @ \ {e}]
       /\ UNCHANGED <<row, requests, flagging, deadLetters, dashboard, history,
                      uploads, reviews>>

AiCrash(w) ==
    /\ analysis[w] # Idle
    /\ Crash
    /\ analysis' = [analysis EXCEPT ![w] = Idle]
    /\ UNCHANGED <<row, requests, pending, flagging, deadLetters, dashboard,
                   history, uploads, reviews>>

-----------------------------------------------------------------------------
(* claim-service: KafkaHandler.HandleEvent, HandleAnalysisResult.            *)

\* Mutants of ApplyAnalysis: the status is derived from the column; the row is
\* inserted when it is missing; claim.flagged is left to the AI worker.
ApplyStored(w, e) ==
    /\ flagging[w] = Idle
    /\ e \in pending.claims
    /\ e.type = "claim.analyzed"
    /\ row[e.claim] # NoRow
    /\ row' = [row EXCEPT ![e.claim].score = Stored(e.score),
                          ![e.claim].status = Verdict(Stored(e.score))]
    /\ pending' = [pending EXCEPT !.claims = @ \ {e}]
    /\ UNCHANGED <<requests, analysis, flagging, deadLetters, dashboard, history, bounds>>

ApplyOrInsert(w, e) ==
    /\ flagging[w] = Idle
    /\ e \in pending.claims
    /\ e.type = "claim.analyzed"
    /\ row' = [row EXCEPT ![e.claim] =
                 [company |-> e.company, score |-> Stored(e.score), analyst |-> FALSE,
                  status |-> Verdict(e.score)]]
    /\ pending' = [pending EXCEPT !.claims = @ \ {e}]
    /\ UNCHANGED <<requests, analysis, flagging, deadLetters, dashboard, history, bounds>>

ApplyUnflagged(w, e) ==
    /\ flagging[w] = Idle
    /\ e \in pending.claims
    /\ e.type = "claim.analyzed"
    /\ row[e.claim] # NoRow
    /\ row' = [row EXCEPT ![e.claim].score = Stored(e.score),
                          ![e.claim].status = Verdict(e.score)]
    /\ pending' = [pending EXCEPT !.claims = @ \ {e}]
    /\ UNCHANGED <<requests, analysis, flagging, deadLetters, dashboard, history, bounds>>

\* UpdateAnalysis derives the status from the result's score, not from what the
\* column makes of it, and finds the row by id; no status, a human decision neither,
\* holds it off.
ApplyAnalysis(w, e) ==
    /\ flagging[w] = Idle
    /\ e \in pending.claims
    /\ e.type = "claim.analyzed"
    /\ row[e.claim] # NoRow
    /\ row' = [row EXCEPT ![e.claim].score = Stored(e.score),
                          ![e.claim].status = Verdict(e.score)]
    /\ \/ /\ e.score >= PublishThreshold
          /\ flagging' = [flagging EXCEPT ![w] = e]
          /\ UNCHANGED pending
       \/ /\ e.score < PublishThreshold
          /\ pending' = [pending EXCEPT !.claims = @ \ {e}]
          /\ UNCHANGED flagging
    /\ UNCHANGED <<requests, analysis, deadLetters, dashboard, history, bounds>>

\* HandleAnalysisResult publishes claim.flagged, or logs that it could not.
PublishFlagged(w) ==
    LET e == flagging[w]
    IN /\ e # Idle
       /\ flagging' = [flagging EXCEPT ![w] = Idle]
       /\ \/ /\ pending' = [Publish(Flagged(e.claim, e.company, e.score))
                              EXCEPT !.claims = @ \ {e}]
             /\ NoFault
          \/ /\ Loss
             /\ pending' = [pending EXCEPT !.claims = @ \ {e}]
       /\ UNCHANGED <<row, requests, analysis, deadLetters, dashboard, history,
                      uploads, reviews>>

\* An event with nothing to apply to: another type is ignored; a result whose
\* claim is gone, or that the database refused at every attempt, is skipped.
SkipAnalyzed(e) ==
    /\ e \in pending.claims
    /\ \/ e.type # "claim.analyzed" /\ NoFault
       \/ row[e.claim] = NoRow /\ NoFault
       \/ Loss
    /\ pending' = [pending EXCEPT !.claims = @ \ {e}]
    /\ UNCHANGED <<row, requests, analysis, flagging, deadLetters, dashboard,
                   history, uploads, reviews>>

ClaimConsumerCrash(w) ==
    /\ flagging[w] # Idle
    /\ Crash
    /\ flagging' = [flagging EXCEPT ![w] = Idle]
    /\ UNCHANGED <<row, requests, pending, analysis, deadLetters, dashboard,
                   history, uploads, reviews>>

-----------------------------------------------------------------------------
(* notification-service and the dashboards.                                  *)

\* Mutant of Reached: an event without a company goes to every client.
ReachedAll(p, e) == {k \in Companies : e.company \in {k, NoCompany} /\ home[k] = p}

\* Hub.Broadcast on pod p: only clients of the event's company on that pod.
Reached(p, e) == {k \in Companies : e.company = k /\ home[k] = p}

\* The dashboards the hub sends e to fetch the claim again, if it is theirs.
Broadcast(p, e) ==
    /\ received' = received \union (Reached(p, e) \X {e.claim})
    /\ fetching' = IF issued[e.claim] \in Reached(p, e)
                   THEN fetching \union {e.claim} ELSE fetching

\* handleClaimFlagged: WebSocket, then Slack.  The e-mail between them goes to the
\* event's analyst_email, which no producer fills in.  Errors are dropped: the
\* event is committed unless the pod dies first.
NotifyFlagged(p, e) ==
    /\ e \in pending.alerts
    /\ Broadcast(p, e)
    /\ alerts' = alerts \union {<<e.claim, e.score>>}
    /\ \/ pending' = [pending EXCEPT !.alerts = @ \ {e}] /\ NoFault
       \/ Crash /\ UNCHANGED pending
    /\ UNCHANGED <<row, requests, analysis, flagging, deadLetters, home, view,
                   issued, scored, uploads, reviews>>

\* handleClaimAnalyzed and handleClaimStatusChange.
NotifyAnalyzed(p, e) ==
    /\ e \in pending.dashboards
    /\ Broadcast(p, e)
    /\ \/ pending' = [pending EXCEPT !.dashboards = @ \ {e}] /\ NoFault
       \/ Crash /\ UNCHANGED pending
    /\ UNCHANGED <<row, requests, analysis, flagging, deadLetters, home, view,
                   issued, scored, alerts, uploads, reviews>>

\* The dashboard's refetch reads the row as it is by now.
Refetch(c) ==
    /\ c \in fetching
    /\ fetching' = fetching \ {c}
    /\ view' = [view EXCEPT ![c] = IF row[c] = NoRow THEN "none" ELSE row[c].status]
    /\ UNCHANGED <<row, pipeline, home, history, bounds>>

-----------------------------------------------------------------------------
AiStep(w) ==
    \/ \E e \in pending.ai : TakeCreated(w, e)
    \/ \E s \in Scores : Analyze(w, s)
    \/ AnalyzeFails(w)
    \/ PublishAnalyzed(w)
    \/ FinishAnalysis(w)

ClaimConsumerStep(w) ==
    \/ \E e \in pending.claims : ApplyAnalysis(w, e) \/ SkipAnalyzed(e)
    \/ PublishFlagged(w)

Notify ==
    \E p \in Pods :
       \/ \E e \in pending.alerts : NotifyFlagged(p, e)
       \/ \E e \in pending.dashboards : NotifyAnalyzed(p, e)

HttpStep(c) ==
    \/ \E k \in Companies : CreateClaim(c, k)
    \/ UploadDocument(c)
    \/ \E decision \in Decisions : ReviewClaim(c, decision)
    \/ DeleteClaim(c)

Next ==
    \/ \E c \in Claims : HttpStep(c) \/ RereadClaim(c) \/ Refetch(c)
    \/ \E r \in requests : FinishRequest(r)
    \/ \E w \in AiWorkers : AiStep(w) \/ AiCrash(w)
    \/ \E w \in ClaimWorkers : ClaimConsumerStep(w) \/ ClaimConsumerCrash(w)
    \/ Notify

Spec == Init /\ [][Next]_vars

\* Handlers that have started run on, consumers work through their topics and a
\* browser sends the requests it has to.  Users are not obliged to do anything.
Fairness ==
    /\ \A c \in Claims : WF_vars(RereadClaim(c)) /\ WF_vars(Refetch(c))
    /\ WF_vars(\E r \in requests : FinishRequest(r))
    /\ \A w \in AiWorkers : WF_vars(AiStep(w))
    /\ \A w \in ClaimWorkers : WF_vars(ClaimConsumerStep(w))
    /\ WF_vars(Notify)

FairSpec == Spec /\ Fairness

-----------------------------------------------------------------------------
(* Safety. *)

\* A score the AI gave c explains both what its row holds and how it was judged.
JudgedByScore(c) ==
    \E s \in scored[c] : row[c].score = Stored(s) /\ row[c].status = Verdict(s)

\* Every status a claim can have is accounted for, however results and decisions
\* overtake each other (UpdateAnalysis, UpdateStatus): PENDING comes before any result,
\* FLAGGED and an APPROVED no analyst has signed from one score of that claim, REJECTED
\* and MORE_INFO from an analyst.  To one who reads the row only, FLAGGED has a score
\* at the threshold or above, and APPROVED without an analyst one below it, or the
\* threshold itself, to which a lower one has been rounded.
StatusExplained ==
    \A c \in Claims : row[c] # NoRow =>
        /\ row[c].status = "PENDING" => row[c].score = 0 /\ ~row[c].analyst
        /\ row[c].status = "FLAGGED" => JudgedByScore(c) /\ row[c].score >= FlagThreshold
        /\ row[c].status = "APPROVED" =>
              row[c].analyst \/ (JudgedByScore(c) /\ row[c].score <= FlagThreshold)
        /\ row[c].status \in {"REJECTED", "MORE_INFO"} => row[c].analyst

\* No false alarm: whatever was lost, repeated or deleted in between, analysts
\* are alerted only of scores the AI gave that very claim, and high ones
\* (the two publishers of claim.flagged, handleClaimFlagged).
AlertsJustified ==
    \A a \in alerts : a[2] \in scored[a[1]]
                    /\ (a[2] >= FlagThreshold \/ a[2] >= PublishThreshold)

\* A company's dashboard is only sent events of its own claims, on every path
\* an event can take to the hub (Event.CompanyID, ClaimFlaggedPayload.CompanyID).
DashboardsSeeOwnClaims ==
    \A x \in received : issued[x[2]] = x[1]

\* While every publish and every UPDATE succeeds, worker crashes lose no claim:
\* one that is still PENDING has its creation event or its result on the way,
\* or is in claims.failed.
PendingTracked ==
    losses = 0 => \A c \in Claims : row[c] # NoRow /\ row[c].status = "PENDING" =>
        \/ c \in deadLetters
        \/ \E r \in requests : r.step = "publish" /\ r.event.type = "claim.created"
                                                /\ r.event.claim = c
        \/ \E e \in pending.ai : e.claim = c
        \/ \E e \in pending.claims : e.type = "claim.analyzed" /\ e.claim = c

\* claim.flagged is published twice, by the AI worker and by claim-service, so
\* one fault of any kind never leaves a FLAGGED claim without an alert: it was
\* posted, is in the topic, or one of the two has still to publish it.
FlaggedIsAnnounced ==
    losses + crashes <= 1 => \A c \in Claims : row[c] # NoRow /\ row[c].status = "FLAGGED" =>
        \/ \E a \in alerts : a[1] = c
        \/ \E e \in pending.alerts : e.claim = c
        \/ \E w \in ClaimWorkers : flagging[w] # Idle /\ flagging[w].claim = c
        \/ \E e \in pending.claims : e.type = "claim.analyzed" /\ e.claim = c
                                       /\ e.score >= PublishThreshold
        \/ \E w \in AiWorkers : /\ analysis[w] # Idle
                                /\ analysis[w].event.claim = c
                                /\ analysis[w].next = "publish flagged"
                                /\ analysis[w].score >= FlagThreshold

\* The claims table implements the lifecycle an analyst relies on; in
\* particular no late result brings a deleted claim back.
Lifecycle == INSTANCE ClaimLifecycle
ImplementsLifecycle == Lifecycle!Spec

(* Liveness. *)

\* Every claim gets a verdict or ends in claims.failed.
EveryClaimSettles ==
    \A c \in Claims : (row[c] # NoRow /\ row[c].status = "PENDING") ~>
        (row[c] = NoRow \/ row[c].status # "PENDING" \/ c \in deadLetters)

\* A dashboard that is open comes to show each claim that stays FLAGGED: the
\* claim.flagged of claim-service follows its UPDATE.
FlaggedReachesDashboard ==
    \A c \in Claims : (row[c] # NoRow /\ row[c].status = "FLAGGED") ~>
        (row[c] = NoRow \/ row[c].status # "FLAGGED" \/ view[c] = "FLAGGED")

(* What comments and the README say, and the code does not do. *)

\* The dashboard comes to show every rejection that stays.  ReviewClaim leaves
\* the company out of its event, and the hub has no client without a company.
RejectionReachesDashboard ==
    \A c \in Claims : (row[c] # NoRow /\ row[c].status = "REJECTED") ~>
        (row[c] = NoRow \/ row[c].status # "REJECTED" \/ view[c] = "REJECTED")
=============================================================================
