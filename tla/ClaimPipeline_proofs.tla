------------------------ MODULE ClaimPipeline_proofs ------------------------
(***************************************************************************)
(* What ClaimPipeline guarantees for every set of claims, companies,       *)
(* scores and workers, and for any number of faults.                       *)
(*                                                                         *)
(* The invariants are about what comes out of the pipeline (a status, an   *)
(* alert, a message to a dashboard, a claim that is no longer PENDING) and *)
(* are not inductive: IInv says of everything on the way there that it     *)
(* belongs to the company that created the claim (Owned), that its score   *)
(* was given to that claim (Backed), and that the claim has its result     *)
(* under way (ResultsTracked).  What the column makes of a score is a lemma *)
(* of arithmetic (Rounding).                                               *)
(*                                                                         *)
(* FlaggedIsAnnounced counts the two publishers of claim.flagged apart:    *)
(* one fault breaks off one of them (TwiceCovered).                        *)
(***************************************************************************)
EXTENDS ClaimPipeline, TLAPS

\* An event names the company of its claim; a review event names none.
Own(e) == e.company # NoCompany => issued[e.claim] = e.company

Owned ==
    /\ \A c \in Claims : row[c] # NoRow => row[c].company = issued[c]
    /\ \A r \in requests : r.step = "publish" => Own(r.event)
    /\ \A e \in pending.ai : Own(e)
    /\ \A e \in pending.claims : Own(e)
    /\ \A e \in pending.dashboards : Own(e)
    /\ \A e \in pending.alerts : Own(e)
    /\ \A w \in AiWorkers : analysis[w] # Idle => Own(analysis[w].event)
    /\ \A w \in ClaimWorkers : flagging[w] # Idle => Own(flagging[w])

High(s) == s >= FlagThreshold \/ s >= PublishThreshold

\* A score anywhere in the pipeline is one the AI gave the claim it is for.
Backed ==
    /\ \A e \in pending.claims : e.type = "claim.analyzed" => e.score \in scored[e.claim]
    /\ \A e \in pending.alerts : e.score \in scored[e.claim] /\ High(e.score)
    /\ \A w \in AiWorkers :
          analysis[w] # Idle /\ analysis[w].next # "analyze"
          => analysis[w].score \in scored[analysis[w].event.claim]
    /\ \A w \in ClaimWorkers :
          flagging[w] # Idle => /\ flagging[w].score \in scored[flagging[w].claim]
                                /\ flagging[w].score >= PublishThreshold

Waiting(c) == row[c] # NoRow /\ row[c].status = "PENDING"
CreationUnderWay(c) ==
    \/ \E r \in requests : r.step = "publish" /\ r.event.type = "claim.created"
                                            /\ r.event.claim = c
    \/ \E e \in pending.ai : e.claim = c
ResultUnderWay(c) == \E e \in pending.claims : e.type = "claim.analyzed" /\ e.claim = c

\* A worker that has published a claim's result may forget the claim's creation.
ResultsTracked ==
    \A c \in Claims : Waiting(c) =>
        /\ losses = 0 => \A w \in AiWorkers :
              /\ analysis[w] # Idle
              /\ analysis[w].next = "publish flagged"
              /\ analysis[w].event.claim = c
              => ResultUnderWay(c)
        /\ \A w \in ClaimWorkers : flagging[w] # Idle => flagging[w].claim # c

IInv ==
    /\ TypeOK
    /\ StatusExplained
    /\ Owned
    /\ Backed
    /\ ResultsTracked
    /\ AlertsJustified
    /\ DashboardsSeeOwnClaims
    /\ PendingTracked

-----------------------------------------------------------------------------
(* Types. *)

LEMMA EventTypes ==
    /\ \A c \in Claims, k \in Companies :
          Created(c, k, FALSE) \in CreatedEvents /\ Created(c, k, TRUE) \in CreatedEvents
    /\ \A c \in Claims, k \in Companies, s \in Scores :
          Analyzed(c, k, s) \in AnalyzedEvents /\ Flagged(c, k, s) \in FlaggedEvents
    /\ \A c \in Claims, d \in Decisions : Reviewed(c, d) \in ReviewEvents
BY DEF Created, CreatedEvents, Analyzed, AnalyzedEvents, Flagged, FlaggedEvents,
       Reviewed, ReviewEvents

\* What publishing does to each topic.
LEMMA PublishCreated ==
    ASSUME pending \in Topics, NEW e \in CreatedEvents
    PROVE  Publish(e) = [pending EXCEPT !.ai = @ \union {e}] /\ Publish(e) \in Topics
BY DEF Topics, Publish, CreatedEvents

LEMMA PublishResult ==
    ASSUME pending \in Topics, NEW e \in ResultEvents
    PROVE  /\ Publish(e) = [pending EXCEPT !.claims = @ \union {e},
                                           !.dashboards = @ \union {e}]
           /\ Publish(e) \in Topics
BY DEF Topics, Publish, ResultEvents, AnalyzedEvents, ReviewEvents

LEMMA PublishAlert ==
    ASSUME pending \in Topics, NEW e \in FlaggedEvents
    PROVE  Publish(e) = [pending EXCEPT !.alerts = @ \union {e}] /\ Publish(e) \in Topics
BY DEF Topics, Publish, FlaggedEvents

LEMMA CommitType ==
    ASSUME NEW P \in Topics, NEW e
    PROVE  /\ [P EXCEPT !.ai = @ \ {e}] \in Topics
           /\ [P EXCEPT !.claims = @ \ {e}] \in Topics
           /\ [P EXCEPT !.dashboards = @ \ {e}] \in Topics
           /\ [P EXCEPT !.alerts = @ \ {e}] \in Topics
BY DEF Topics

LEMMA TypeInit == Init => TypeOK
BY BoundsAssumption DEF Init, TypeOK, Topics

LEMMA FaultTypes ==
    TypeOK /\ (Loss \/ Crash \/ NoFault)
    => losses' \in 0..MaxLosses /\ crashes' \in 0..MaxCrashes
BY BoundsAssumption DEF TypeOK, Loss, Crash, NoFault

LEMMA TypeNext == TypeOK /\ [Next]_vars => TypeOK'
<1> SUFFICES ASSUME TypeOK, [Next]_vars
             PROVE  TypeOK'
    OBVIOUS
<1> USE BoundsAssumption
<1>1. ASSUME NEW c \in Claims, NEW k \in Companies, CreateClaim(c, k)
      PROVE  TypeOK'
  <2>1. row' \in [Claims -> Rows \union {NoRow}]
        BY <1>1 DEF CreateClaim, TypeOK, Rows, Statuses
  <2>2. requests' \subseteq Requests
    <3>1. [step |-> "publish", event |-> Created(c, k, FALSE)] \in Requests
          BY EventTypes DEF Requests
    <3> QED BY <1>1, <3>1 DEF CreateClaim, TypeOK
  <2>3. issued' \in [Claims -> Companies \union {NoCompany}]
        BY <1>1 DEF CreateClaim, TypeOK
  <2>4. UNCHANGED <<pending, analysis, flagging, deadLetters, home, fetching, view,
                    scored, alerts, received, uploads, reviews, losses, crashes>>
        BY <1>1 DEF CreateClaim, dashboard, bounds
  <2> QED BY <2>1, <2>2, <2>3, <2>4 DEF TypeOK
<1>2. ASSUME NEW c \in Claims, UploadDocument(c)
      PROVE  TypeOK'
      BY <1>2 DEF UploadDocument, TypeOK, Requests, dashboard, history
<1>3. ASSUME NEW c \in Claims, RereadClaim(c)
      PROVE  TypeOK'
  <2>1. row[c] # NoRow => row[c].company \in Companies
        BY DEF TypeOK, Rows
  <2>2. requests' \subseteq Requests
    <3>1. CASE requests' \subseteq requests
          BY <3>1 DEF TypeOK
    <3>2. CASE ~(requests' \subseteq requests)
      <4>1. row[c] # NoRow
            BY <1>3, <3>2 DEF RereadClaim
      <4>2. [step |-> "publish", event |-> Created(c, row[c].company, TRUE)] \in Requests
            BY <2>1, <4>1, EventTypes DEF Requests
      <4> QED BY <1>3, <4>1, <4>2 DEF RereadClaim, TypeOK
    <3> QED BY <3>1, <3>2
  <2>3. losses' \in 0..MaxLosses /\ crashes' \in 0..MaxCrashes
    <3>1. Loss \/ NoFault
          BY <1>3 DEF RereadClaim
    <3> QED BY <3>1, FaultTypes
  <2>4. UNCHANGED <<row, pending, analysis, flagging, deadLetters, home, fetching, view,
                    issued, scored, alerts, received, uploads, reviews>>
        BY <1>3 DEF RereadClaim, dashboard, history
  <2> QED BY <2>2, <2>3, <2>4 DEF TypeOK
<1>4. ASSUME NEW c \in Claims, NEW d \in Decisions, ReviewClaim(c, d)
      PROVE  TypeOK'
  <2>1. row[c] \in Rows
        BY <1>4 DEF ReviewClaim, TypeOK
  <2>2. row' \in [Claims -> Rows \union {NoRow}]
        BY <1>4, <2>1 DEF ReviewClaim, TypeOK, Rows, Decisions, Statuses
  <2>3. requests' \subseteq Requests
        BY <1>4, EventTypes DEF ReviewClaim, TypeOK, Requests
  <2>4. reviews' \in [Claims -> 0..MaxReviews]
        BY <1>4 DEF ReviewClaim, TypeOK
  <2>5. UNCHANGED <<pending, analysis, flagging, deadLetters, home, fetching, view,
                    issued, scored, alerts, received, uploads, losses, crashes>>
        BY <1>4 DEF ReviewClaim, dashboard, history
  <2> QED BY <2>2, <2>3, <2>4, <2>5 DEF TypeOK
<1>5. ASSUME NEW c \in Claims, DeleteClaim(c)
      PROVE  TypeOK'
      BY <1>5 DEF DeleteClaim, TypeOK, pipeline, dashboard, history, bounds
<1>6. ASSUME NEW r \in requests, FinishRequest(r)
      PROVE  TypeOK'
  <2>1. r.event \in CreatedEvents \union ReviewEvents
        BY <1>6 DEF FinishRequest, TypeOK, Requests
  <2>2. pending' \in Topics
    <3>1. pending \in Topics
          BY DEF TypeOK
    <3>2. Publish(r.event) \in Topics
      <4>1. CASE r.event \in CreatedEvents
            BY <3>1, <4>1, PublishCreated
      <4>2. CASE r.event \in ReviewEvents
            BY <3>1, <4>2, PublishResult DEF ResultEvents
      <4> QED BY <2>1, <4>1, <4>2
    <3> QED BY <1>6, <3>1, <3>2 DEF FinishRequest
  <2>3. losses' \in 0..MaxLosses /\ crashes' \in 0..MaxCrashes
        BY <1>6 DEF FinishRequest, TypeOK, Loss, NoFault
  <2>4. requests' \subseteq Requests
        BY <1>6 DEF FinishRequest, TypeOK
  <2>5. UNCHANGED <<row, analysis, flagging, deadLetters, home, fetching, view,
                    issued, scored, alerts, received, uploads, reviews>>
        BY <1>6 DEF FinishRequest, dashboard, history
  <2> QED BY <2>2, <2>3, <2>4, <2>5 DEF TypeOK
<1>7. ASSUME NEW c \in Claims, Refetch(c)
      PROVE  TypeOK'
  <2>1. row[c] # NoRow => row[c].status \in Statuses
        BY DEF TypeOK, Rows
  <2>2. view' \in [Claims -> Statuses \union {"none"}]
        BY <1>7, <2>1 DEF Refetch, TypeOK
  <2>3. fetching' \subseteq Claims
        BY <1>7 DEF Refetch, TypeOK
  <2>4. UNCHANGED <<row, requests, pending, analysis, flagging, deadLetters, home,
                    issued, scored, alerts, received, uploads, reviews, losses, crashes>>
        BY <1>7 DEF Refetch, pipeline, history, bounds
  <2> QED BY <2>2, <2>3, <2>4 DEF TypeOK
<1>8. ASSUME NEW w \in AiWorkers, NEW e \in pending.ai, TakeCreated(w, e)
      PROVE  TypeOK'
  <2> DEFINE job == [event |-> e, attempt |-> 0, score |-> 0, next |-> "analyze"]
  <2>1. e \in CreatedEvents
        BY DEF TypeOK, Topics
  <2>2. job \in Work
        BY <2>1 DEF Work
  <2>3. analysis' = [analysis EXCEPT ![w] = job]
        BY <1>8 DEF TakeCreated
  <2>4. analysis' \in [AiWorkers -> Work \union {Idle}]
    <3> HIDE DEF job
    <3> QED BY <2>2, <2>3 DEF TypeOK
  <2>5. UNCHANGED <<row, requests, pending, flagging, deadLetters, home, fetching, view,
                    issued, scored, alerts, received, uploads, reviews, losses, crashes>>
        BY <1>8 DEF TakeCreated, dashboard, history, bounds
  <2> QED BY <2>4, <2>5 DEF TypeOK
<1>9. ASSUME NEW w \in AiWorkers, NEW s \in Scores, Analyze(w, s)
      PROVE  TypeOK'
  <2>1. analysis[w] \in Work
        BY <1>9 DEF Analyze, TypeOK
  <2>2. [analysis[w] EXCEPT !.score = s, !.next = "publish analyzed"] \in Work
        BY <2>1 DEF Work
  <2>3. analysis' \in [AiWorkers -> Work \union {Idle}]
        BY <1>9, <2>1, <2>2 DEF Analyze, TypeOK
  <2>4. analysis[w].event.claim \in Claims
        BY <2>1 DEF Work, CreatedEvents
  <2>5. scored' \in [Claims -> SUBSET Scores]
        BY <1>9, <2>4 DEF Analyze, TypeOK
  <2>6. UNCHANGED <<row, requests, pending, flagging, deadLetters, home, fetching, view,
                    issued, alerts, received, uploads, reviews, losses, crashes>>
        BY <1>9 DEF Analyze, dashboard, bounds
  <2> QED BY <2>3, <2>5, <2>6 DEF TypeOK
<1>10. ASSUME NEW w \in AiWorkers, AnalyzeFails(w)
       PROVE  TypeOK'
  <2>1. analysis[w] \in Work
        BY <1>10 DEF AnalyzeFails, TypeOK
  <2>2. analysis[w].event.claim \in Claims
        BY <2>1 DEF Work, CreatedEvents
  <2>3. analysis' \in [AiWorkers -> Work \union {Idle}]
    <3>1. CASE analysis[w].attempt + 1 < MaxRetries
      <4>1. analysis[w].attempt \in 0..(MaxRetries - 1)
            BY <2>1 DEF Work
      <4>2. analysis[w].attempt + 1 \in 0..(MaxRetries - 1)
            BY <3>1, <4>1
      <4>3. [analysis[w] EXCEPT !.attempt = @ + 1] \in Work
            BY <2>1, <4>2 DEF Work
      <4>4. analysis' = [analysis EXCEPT ![w].attempt = @ + 1]
            BY <1>10, <3>1 DEF AnalyzeFails
      <4> QED BY <4>3, <4>4 DEF TypeOK
    <3>2. CASE ~(analysis[w].attempt + 1 < MaxRetries)
          BY <1>10, <3>2 DEF AnalyzeFails, TypeOK
    <3> QED BY <3>1, <3>2
  <2>4. pending' \in Topics
    <3>1. pending \in Topics
          BY DEF TypeOK
    <3>2. [pending EXCEPT !.ai = @ \ {analysis[w].event}] \in Topics
          BY <3>1, CommitType
    <3> QED BY <1>10, <3>1, <3>2 DEF AnalyzeFails
  <2>5. losses' \in 0..MaxLosses /\ crashes' \in 0..MaxCrashes
        BY <1>10 DEF AnalyzeFails, TypeOK, Loss, NoFault
  <2>6. deadLetters' \subseteq Claims
        BY <1>10, <2>2 DEF AnalyzeFails, TypeOK
  <2>7. UNCHANGED <<row, requests, flagging, home, fetching, view,
                    issued, scored, alerts, received, uploads, reviews>>
        BY <1>10 DEF AnalyzeFails, dashboard, history
  <2> QED BY <2>3, <2>4, <2>5, <2>6, <2>7 DEF TypeOK
<1>11. ASSUME NEW w \in AiWorkers, PublishAnalyzed(w)
       PROVE  TypeOK'
  <2> DEFINE a == Analyzed(analysis[w].event.claim, analysis[w].event.company,
                           analysis[w].score)
  <2>1. analysis[w] \in Work /\ analysis[w].next = "publish analyzed"
        BY <1>11 DEF PublishAnalyzed, TypeOK
  <2>2. /\ analysis[w].event.claim \in Claims
        /\ analysis[w].event.company \in Companies
        /\ analysis[w].score \in Scores
        BY <2>1 DEF Work, CreatedEvents
  <2>3. [analysis[w] EXCEPT !.next = "publish flagged"] \in Work
        BY <2>1 DEF Work
  <2>4. analysis' \in [AiWorkers -> Work \union {Idle}]
        BY <1>11, <2>3 DEF PublishAnalyzed, TypeOK
  <2>5. pending \in Topics
        BY DEF TypeOK
  <2>6. a \in ResultEvents
        BY <2>2, EventTypes DEF ResultEvents
  <2>7. Publish(a) \in Topics
        BY <2>5, <2>6, PublishResult
  <2>8. pending' \in Topics
        BY <1>11, <2>5, <2>7 DEF PublishAnalyzed
  <2>9. losses' \in 0..MaxLosses /\ crashes' \in 0..MaxCrashes
    <3>1. Loss \/ NoFault
          BY <1>11 DEF PublishAnalyzed
    <3> QED BY <3>1, FaultTypes
  <2>10. UNCHANGED <<row, requests, flagging, deadLetters, home, fetching, view,
                     issued, scored, alerts, received, uploads, reviews>>
         BY <1>11 DEF PublishAnalyzed, dashboard, history
  <2> QED BY <2>4, <2>8, <2>9, <2>10 DEF TypeOK
<1>12. ASSUME NEW w \in AiWorkers, FinishAnalysis(w)
       PROVE  TypeOK'
  <2> DEFINE e == analysis[w].event
             f == Flagged(e.claim, e.company, analysis[w].score)
  <2>1. analysis[w] \in Work /\ analysis[w].next = "publish flagged"
        BY <1>12 DEF FinishAnalysis, TypeOK
  <2>2. e.claim \in Claims /\ e.company \in Companies /\ analysis[w].score \in Scores
        BY <2>1 DEF Work, CreatedEvents
  <2>3. analysis' \in [AiWorkers -> Work \union {Idle}]
        BY <1>12 DEF FinishAnalysis, TypeOK
  <2>4. pending \in Topics
        BY DEF TypeOK
  <2>5. f \in FlaggedEvents
        BY <2>2, EventTypes
  <2>6. Publish(f) \in Topics
        BY <2>4, <2>5, PublishAlert
  <2>7. /\ [pending EXCEPT !.ai = @ \ {e}] \in Topics
        /\ [Publish(f) EXCEPT !.ai = @ \ {e}] \in Topics
        BY <2>4, <2>6, CommitType
  <2>8. pending' \in Topics
        BY <1>12, <2>7 DEF FinishAnalysis
  <2>9. losses' \in 0..MaxLosses /\ crashes' \in 0..MaxCrashes
    <3>1. Loss \/ NoFault
          BY <1>12 DEF FinishAnalysis
    <3> QED BY <3>1, FaultTypes
  <2>10. UNCHANGED <<row, requests, flagging, deadLetters, home, fetching, view,
                     issued, scored, alerts, received, uploads, reviews>>
         BY <1>12 DEF FinishAnalysis, dashboard, history
  <2> QED BY <2>3, <2>8, <2>9, <2>10 DEF TypeOK
<1>13. ASSUME NEW w \in AiWorkers, AiCrash(w)
       PROVE  TypeOK'
       BY <1>13 DEF AiCrash, TypeOK, Crash, dashboard, history
<1>14. ASSUME NEW w \in ClaimWorkers, NEW e \in pending.claims, ApplyAnalysis(w, e)
       PROVE  TypeOK'
  <2>1. e \in AnalyzedEvents
        BY <1>14 DEF ApplyAnalysis, TypeOK, Topics, ResultEvents, ReviewEvents
  <2>2. e.claim \in Claims /\ e.score \in Nat
        BY <2>1, ScoresAssumption DEF AnalyzedEvents
  <2>3. row[e.claim] \in Rows
        BY <1>14, <2>2 DEF ApplyAnalysis, TypeOK
  <2>4. [row[e.claim] EXCEPT !.score = Stored(e.score), !.status = Verdict(e.score)] \in Rows
    <3>1. Stored(e.score) \in Nat /\ Verdict(e.score) \in Statuses
          BY <2>2 DEF Stored, Verdict, Statuses
    <3> QED BY <2>3, <3>1 DEF Rows
  <2>5. row' \in [Claims -> Rows \union {NoRow}]
        BY <1>14, <2>2, <2>4 DEF ApplyAnalysis, TypeOK
  <2>6. flagging' \in [ClaimWorkers -> AnalyzedEvents \union {Idle}]
        BY <1>14, <2>1 DEF ApplyAnalysis, TypeOK
  <2>7. pending \in Topics
        BY DEF TypeOK
  <2>8. [pending EXCEPT !.claims = @ \ {e}] \in Topics
        BY <2>7, CommitType
  <2>9. pending' \in Topics
        BY <1>14, <2>7, <2>8 DEF ApplyAnalysis
  <2>10. UNCHANGED <<requests, analysis, deadLetters, home, fetching, view,
                     issued, scored, alerts, received, uploads, reviews, losses, crashes>>
         BY <1>14 DEF ApplyAnalysis, dashboard, history, bounds
  <2> QED BY <2>5, <2>6, <2>9, <2>10 DEF TypeOK
<1>15. ASSUME NEW w \in ClaimWorkers, PublishFlagged(w)
       PROVE  TypeOK'
  <2> DEFINE e == flagging[w]
             f == Flagged(e.claim, e.company, e.score)
  <2>1. e \in AnalyzedEvents
        BY <1>15 DEF PublishFlagged, TypeOK
  <2>2. f \in FlaggedEvents
        BY <2>1, EventTypes DEF AnalyzedEvents
  <2>3. flagging' \in [ClaimWorkers -> AnalyzedEvents \union {Idle}]
        BY <1>15 DEF PublishFlagged, TypeOK
  <2>4. pending \in Topics
        BY DEF TypeOK
  <2>5. Publish(f) \in Topics
        BY <2>2, <2>4, PublishAlert
  <2>6. /\ [pending EXCEPT !.claims = @ \ {e}] \in Topics
        /\ [Publish(f) EXCEPT !.claims = @ \ {e}] \in Topics
        BY <2>4, <2>5, CommitType
  <2>7. pending' \in Topics
        BY <1>15, <2>6 DEF PublishFlagged
  <2>8. losses' \in 0..MaxLosses /\ crashes' \in 0..MaxCrashes
        BY <1>15 DEF PublishFlagged, TypeOK, Loss, NoFault
  <2>9. UNCHANGED <<row, requests, analysis, deadLetters, home, fetching, view,
                    issued, scored, alerts, received, uploads, reviews>>
        BY <1>15 DEF PublishFlagged, dashboard, history
  <2> QED BY <2>3, <2>7, <2>8, <2>9 DEF TypeOK
<1>16. ASSUME NEW e \in pending.claims, SkipAnalyzed(e)
       PROVE  TypeOK'
  <2>1. pending' \in Topics
        BY <1>16, CommitType DEF SkipAnalyzed, TypeOK
  <2>2. losses' \in 0..MaxLosses /\ crashes' \in 0..MaxCrashes
        BY <1>16 DEF SkipAnalyzed, TypeOK, Loss, NoFault
  <2>3. UNCHANGED <<row, requests, analysis, flagging, deadLetters, home, fetching, view,
                    issued, scored, alerts, received, uploads, reviews>>
        BY <1>16 DEF SkipAnalyzed, dashboard, history
  <2> QED BY <2>1, <2>2, <2>3 DEF TypeOK
<1>17. ASSUME NEW w \in ClaimWorkers, ClaimConsumerCrash(w)
       PROVE  TypeOK'
       BY <1>17 DEF ClaimConsumerCrash, TypeOK, Crash, dashboard, history
<1>18. ASSUME NEW p \in Pods, NEW e \in pending.alerts, NotifyFlagged(p, e)
       PROVE  TypeOK'
  <2>1. e \in FlaggedEvents
        BY DEF TypeOK, Topics
  <2>2. e.claim \in Claims /\ e.score \in Scores
        BY <2>1 DEF FlaggedEvents
  <2>3. received' \subseteq Companies \X Claims /\ fetching' \subseteq Claims
        BY <1>18, <2>2 DEF NotifyFlagged, Broadcast, Reached, TypeOK
  <2>4. alerts' \subseteq Claims \X Scores
        BY <1>18, <2>2 DEF NotifyFlagged, TypeOK
  <2>5. pending' \in Topics
    <3>1. pending \in Topics
          BY DEF TypeOK
    <3>2. [pending EXCEPT !.alerts = @ \ {e}] \in Topics
          BY <3>1, CommitType
    <3> QED BY <1>18, <3>1, <3>2 DEF NotifyFlagged
  <2>6. losses' \in 0..MaxLosses /\ crashes' \in 0..MaxCrashes
        BY <1>18 DEF NotifyFlagged, TypeOK, Crash, NoFault
  <2>7. UNCHANGED <<row, requests, analysis, flagging, deadLetters, home, view,
                    issued, scored, uploads, reviews>>
        BY <1>18 DEF NotifyFlagged
  <2> QED BY <2>3, <2>4, <2>5, <2>6, <2>7 DEF TypeOK
<1>19. ASSUME NEW p \in Pods, NEW e \in pending.dashboards, NotifyAnalyzed(p, e)
       PROVE  TypeOK'
  <2>1. e.claim \in Claims
        BY DEF TypeOK, Topics, ResultEvents, AnalyzedEvents, ReviewEvents
  <2>2. received' \subseteq Companies \X Claims /\ fetching' \subseteq Claims
        BY <1>19, <2>1 DEF NotifyAnalyzed, Broadcast, Reached, TypeOK
  <2>3. pending' \in Topics
    <3>1. pending \in Topics
          BY DEF TypeOK
    <3>2. [pending EXCEPT !.dashboards = @ \ {e}] \in Topics
          BY <3>1, CommitType
    <3> QED BY <1>19, <3>1, <3>2 DEF NotifyAnalyzed
  <2>4. losses' \in 0..MaxLosses /\ crashes' \in 0..MaxCrashes
        BY <1>19 DEF NotifyAnalyzed, TypeOK, Crash, NoFault
  <2>5. UNCHANGED <<row, requests, analysis, flagging, deadLetters, home, view,
                    issued, scored, alerts, uploads, reviews>>
        BY <1>19 DEF NotifyAnalyzed
  <2> QED BY <2>2, <2>3, <2>4, <2>5 DEF TypeOK
<1>20. CASE UNCHANGED vars
       BY <1>20 DEF TypeOK, vars, pipeline, dashboard, history, bounds
<1> QED
    BY <1>1, <1>2, <1>3, <1>4, <1>5, <1>6, <1>7, <1>8, <1>9, <1>10, <1>11, <1>12, <1>13,
       <1>14, <1>15, <1>16, <1>17, <1>18, <1>19, <1>20
    DEF Next, HttpStep, AiStep, ClaimConsumerStep, Notify

\* Every reachable state is one the code's types allow.
THEOREM TypeCorrect == Spec => []TypeOK
BY TypeInit, TypeNext, PTL DEF Spec

-----------------------------------------------------------------------------
(* The row. *)

LEMMA AnalyzedScores ==
    ASSUME TypeOK, NEW e \in pending.claims, e.type = "claim.analyzed"
    PROVE  e.claim \in Claims /\ e.score \in Scores /\ e.score \in Nat
<1>1. e \in AnalyzedEvents
      BY DEF TypeOK, Topics, ResultEvents, ReviewEvents
<1> QED BY <1>1, ScoresAssumption DEF AnalyzedEvents

\* Who writes the claims table.
LEMMA RowSteps ==
    ASSUME [Next]_vars, ~UNCHANGED row
    PROVE  \/ \E c \in Claims, k \in Companies : CreateClaim(c, k)
           \/ \E c \in Claims, d \in Decisions : ReviewClaim(c, d)
           \/ \E c \in Claims : DeleteClaim(c)
           \/ \E w \in ClaimWorkers : \E e \in pending.claims : ApplyAnalysis(w, e)
<1>1. /\ \A c \in Claims : UploadDocument(c) \/ RereadClaim(c) \/ Refetch(c) => UNCHANGED row
      /\ \A r \in requests : FinishRequest(r) => UNCHANGED row
      BY DEF UploadDocument, RereadClaim, Refetch, FinishRequest
<1>2. \A w \in AiWorkers : AiStep(w) \/ AiCrash(w) => UNCHANGED row
      BY DEF AiStep, TakeCreated, Analyze, AnalyzeFails, PublishAnalyzed, FinishAnalysis,
             AiCrash
<1>3. /\ \A w \in ClaimWorkers : PublishFlagged(w) \/ ClaimConsumerCrash(w) => UNCHANGED row
      /\ \A e \in pending.claims : SkipAnalyzed(e) => UNCHANGED row
      BY DEF PublishFlagged, ClaimConsumerCrash, SkipAnalyzed
<1>4. Notify => UNCHANGED row
      BY DEF Notify, NotifyFlagged, NotifyAnalyzed
<1>5. UNCHANGED vars => UNCHANGED row
      BY DEF vars
<1> QED BY <1>1, <1>2, <1>3, <1>4, <1>5 DEF Next, HttpStep, ClaimConsumerStep

-----------------------------------------------------------------------------
(* Whose claim an event is about. *)

\* issued[c] is set once.
LEMMA IssuedSteps ==
    ASSUME [Next]_vars, ~UNCHANGED issued
    PROVE  \E c \in Claims, k \in Companies : CreateClaim(c, k)
<1>1. /\ \A c \in Claims : UploadDocument(c) \/ RereadClaim(c) \/ Refetch(c) => UNCHANGED issued
      /\ \A c \in Claims : DeleteClaim(c) => UNCHANGED issued
      /\ \A c \in Claims, d \in Decisions : ReviewClaim(c, d) => UNCHANGED issued
      /\ \A r \in requests : FinishRequest(r) => UNCHANGED issued
      BY DEF UploadDocument, RereadClaim, Refetch, FinishRequest, DeleteClaim, ReviewClaim,
             history
<1>2. \A w \in AiWorkers : AiStep(w) \/ AiCrash(w) => UNCHANGED issued
      BY DEF AiStep, TakeCreated, Analyze, AnalyzeFails, PublishAnalyzed, FinishAnalysis,
             AiCrash, history
<1>3. /\ \A w \in ClaimWorkers : PublishFlagged(w) \/ ClaimConsumerCrash(w) => UNCHANGED issued
      /\ \A e \in pending.claims : SkipAnalyzed(e) => UNCHANGED issued
      /\ \A w \in ClaimWorkers : \A e \in pending.claims :
            ApplyAnalysis(w, e) => UNCHANGED issued
      BY DEF PublishFlagged, ClaimConsumerCrash, SkipAnalyzed, ApplyAnalysis, history
<1>4. Notify => UNCHANGED issued
      BY DEF Notify, NotifyFlagged, NotifyAnalyzed
<1>5. UNCHANGED vars => UNCHANGED issued
      BY DEF vars, history
<1> QED BY <1>1, <1>2, <1>3, <1>4, <1>5 DEF Next, HttpStep, ClaimConsumerStep

LEMMA IssuedKept ==
    ASSUME TypeOK, [Next]_vars, NEW c \in Claims, issued[c] # NoCompany
    PROVE  issued'[c] = issued[c]
<1>1. CASE UNCHANGED issued
      BY <1>1
<1>2. CASE ~UNCHANGED issued
  <2>1. PICK d \in Claims, k \in Companies : CreateClaim(d, k)
        BY <1>2, IssuedSteps
  <2> QED BY <2>1 DEF CreateClaim, TypeOK
<1> QED BY <1>1, <1>2

LEMMA OwnKept ==
    ASSUME TypeOK, [Next]_vars, NEW e, e.claim \in Claims, Own(e)
    PROVE  e.company # NoCompany => issued'[e.claim] = e.company
BY IssuedKept DEF Own

\* Everything in the pipeline is about a claim.
LEMMA AboutClaims ==
    ASSUME TypeOK
    PROVE  /\ \A r \in requests : r.step = "publish" => r.event.claim \in Claims
           /\ \A e \in pending.ai : e.claim \in Claims
           /\ \A e \in pending.claims : e.claim \in Claims
           /\ \A e \in pending.dashboards : e.claim \in Claims
           /\ \A e \in pending.alerts : e.claim \in Claims
           /\ \A w \in AiWorkers : analysis[w] # Idle => analysis[w].event.claim \in Claims
           /\ \A w \in ClaimWorkers : flagging[w] # Idle => flagging[w].claim \in Claims
<1>1. \A e \in CreatedEvents \union AnalyzedEvents \union FlaggedEvents \union ReviewEvents :
         e.claim \in Claims
      BY DEF CreatedEvents, AnalyzedEvents, FlaggedEvents, ReviewEvents
<1>2. \A r \in requests :
         r.step = "publish" => r.event \in CreatedEvents \union ReviewEvents
      BY DEF TypeOK, Requests
<1>3. /\ pending.ai \subseteq CreatedEvents
      /\ pending.claims \subseteq AnalyzedEvents \union ReviewEvents
      /\ pending.dashboards \subseteq AnalyzedEvents \union ReviewEvents
      /\ pending.alerts \subseteq FlaggedEvents
      BY DEF TypeOK, Topics, ResultEvents
<1>4. \A w \in AiWorkers : analysis[w] # Idle => analysis[w].event \in CreatedEvents
      BY DEF TypeOK, Work
<1>5. \A w \in ClaimWorkers : flagging[w] # Idle => flagging[w] \in AnalyzedEvents
      BY DEF TypeOK
<1> QED BY <1>1, <1>2, <1>3, <1>4, <1>5

-----------------------------------------------------------------------------
(* What comes and goes where. *)

LEMMA PendingSteps ==
    ASSUME [Next]_vars, ~UNCHANGED pending
    PROVE  \/ \E r \in requests : FinishRequest(r)
           \/ \E w \in AiWorkers : AnalyzeFails(w) \/ PublishAnalyzed(w) \/ FinishAnalysis(w)
           \/ \E w \in ClaimWorkers : \E e \in pending.claims : ApplyAnalysis(w, e)
           \/ \E e \in pending.claims : SkipAnalyzed(e)
           \/ \E w \in ClaimWorkers : PublishFlagged(w)
           \/ \E p \in Pods : \E e \in pending.alerts : NotifyFlagged(p, e)
           \/ \E p \in Pods : \E e \in pending.dashboards : NotifyAnalyzed(p, e)
<1>1. /\ \A c \in Claims, k \in Companies : CreateClaim(c, k) => UNCHANGED pending
      /\ \A c \in Claims : UploadDocument(c) \/ RereadClaim(c) \/ Refetch(c)
                           => UNCHANGED pending
      /\ \A c \in Claims : DeleteClaim(c) => UNCHANGED pending
      /\ \A c \in Claims, d \in Decisions : ReviewClaim(c, d) => UNCHANGED pending
      BY DEF CreateClaim, UploadDocument, RereadClaim, Refetch, DeleteClaim, ReviewClaim,
             pipeline
<1>2. \A w \in AiWorkers : /\ \A e \in pending.ai : TakeCreated(w, e) => UNCHANGED pending
                           /\ \A s \in Scores : Analyze(w, s) => UNCHANGED pending
                           /\ AiCrash(w) => UNCHANGED pending
      BY DEF TakeCreated, Analyze, AiCrash
<1>3. \A w \in ClaimWorkers : ClaimConsumerCrash(w) => UNCHANGED pending
      BY DEF ClaimConsumerCrash
<1>4. UNCHANGED vars => UNCHANGED pending
      BY DEF vars, pipeline
<1> QED BY <1>1, <1>2, <1>3, <1>4 DEF Next, HttpStep, AiStep, ClaimConsumerStep, Notify

\* The event a worker of the AI group, or of claim-service, publishes.
Result(w) == Analyzed(analysis[w].event.claim, analysis[w].event.company, analysis[w].score)
AiAlert(w) == Flagged(analysis[w].event.claim, analysis[w].event.company, analysis[w].score)
ClaimAlert(w) == Flagged(flagging[w].claim, flagging[w].company, flagging[w].score)

\* Who publishes to each topic, and who commits from it.
Traffic ==
    /\ \A e \in pending.ai \ pending'.ai :
          \E w \in AiWorkers : /\ AnalyzeFails(w) \/ FinishAnalysis(w)
                               /\ e = analysis[w].event
    /\ \A e \in pending.claims \ pending'.claims :
          \/ \E w \in ClaimWorkers : ApplyAnalysis(w, e)
          \/ SkipAnalyzed(e)
          \/ \E w \in ClaimWorkers : PublishFlagged(w) /\ e = flagging[w]
    /\ \A e \in pending'.ai \ pending.ai :
          \E r \in requests : r.step = "publish" /\ e = r.event
    /\ \A e \in (pending'.claims \ pending.claims) \union
                (pending'.dashboards \ pending.dashboards) :
          \/ \E r \in requests : r.step = "publish" /\ e = r.event
          \/ \E w \in AiWorkers : PublishAnalyzed(w) /\ e = Result(w)
    /\ \A e \in pending'.alerts \ pending.alerts :
          \/ \E w \in AiWorkers : FinishAnalysis(w) /\ analysis[w].score >= FlagThreshold
                                                  /\ e = AiAlert(w)
          \/ \E w \in ClaimWorkers : PublishFlagged(w) /\ e = ClaimAlert(w)

LEMMA TopicTraffic ==
    ASSUME TypeOK, [Next]_vars
    PROVE  Traffic
<1>1. pending \in Topics
      BY DEF TypeOK
<1>2. ASSUME NEW r \in requests, FinishRequest(r)
      PROVE  Traffic
  <2>1. r.step = "publish" /\ r.event \in CreatedEvents \union ReviewEvents
        BY <1>2 DEF FinishRequest, TypeOK, Requests
  <2>2. CASE r.event \in CreatedEvents
    <3>1. Publish(r.event) = [pending EXCEPT !.ai = @ \union {r.event}]
          BY <1>1, <2>2, PublishCreated
    <3>2. \/ pending' = [pending EXCEPT !.ai = @ \union {r.event}]
          \/ pending' = pending
          BY <1>2, <3>1 DEF FinishRequest
    <3> QED BY <1>1, <2>1, <3>2 DEF Traffic, Topics
  <2>3. CASE r.event \in ReviewEvents
    <3>1. Publish(r.event) = [pending EXCEPT !.claims = @ \union {r.event},
                                             !.dashboards = @ \union {r.event}]
          BY <1>1, <2>3, PublishResult DEF ResultEvents
    <3>2. \/ pending' = [pending EXCEPT !.claims = @ \union {r.event},
                                        !.dashboards = @ \union {r.event}]
          \/ pending' = pending
          BY <1>2, <3>1 DEF FinishRequest
    <3>3. /\ pending'.ai = pending.ai /\ pending'.alerts = pending.alerts
          /\ pending.claims \subseteq pending'.claims
          /\ pending'.claims \subseteq pending.claims \union {r.event}
          /\ pending'.dashboards \subseteq pending.dashboards \union {r.event}
          BY <1>1, <3>2 DEF Topics
    <3> QED BY <2>1, <3>3 DEF Traffic
  <2> QED BY <2>1, <2>2, <2>3
<1>3. ASSUME NEW w \in AiWorkers, AnalyzeFails(w)
      PROVE  Traffic
  <2>1. \/ pending' = [pending EXCEPT !.ai = @ \ {analysis[w].event}]
        \/ pending' = pending
        BY <1>3 DEF AnalyzeFails
  <2> QED BY <1>1, <1>3, <2>1 DEF Traffic, Topics
<1>4. ASSUME NEW w \in AiWorkers, PublishAnalyzed(w)
      PROVE  Traffic
  <2>1. analysis[w] \in Work /\ analysis[w].next = "publish analyzed"
        BY <1>4 DEF PublishAnalyzed, TypeOK
  <2>2. /\ analysis[w].event.claim \in Claims
        /\ analysis[w].event.company \in Companies
        /\ analysis[w].score \in Scores
        BY <2>1 DEF Work, CreatedEvents
  <2>3. Result(w) \in ResultEvents
        BY <2>2, EventTypes DEF Result, ResultEvents
  <2>4. Publish(Result(w)) = [pending EXCEPT !.claims = @ \union {Result(w)},
                                             !.dashboards = @ \union {Result(w)}]
        BY <1>1, <2>3, PublishResult
  <2>5. \/ pending' = [pending EXCEPT !.claims = @ \union {Result(w)},
                                      !.dashboards = @ \union {Result(w)}]
        \/ pending' = pending
        BY <1>4, <2>4 DEF PublishAnalyzed, Result
  <2> QED BY <1>1, <1>4, <2>5 DEF Traffic, Topics
<1>5. ASSUME NEW w \in AiWorkers, FinishAnalysis(w)
      PROVE  Traffic
  <2>1. analysis[w] \in Work /\ analysis[w].next = "publish flagged"
        BY <1>5 DEF FinishAnalysis, TypeOK
  <2>2. /\ analysis[w].event.claim \in Claims
        /\ analysis[w].event.company \in Companies
        /\ analysis[w].score \in Scores
        BY <2>1 DEF Work, CreatedEvents
  <2>3. AiAlert(w) \in FlaggedEvents
        BY <2>2, EventTypes DEF AiAlert
  <2>4. Publish(AiAlert(w)) = [pending EXCEPT !.alerts = @ \union {AiAlert(w)}]
        BY <1>1, <2>3, PublishAlert
  <2>5. \/ pending' = [pending EXCEPT !.ai = @ \ {analysis[w].event}]
        \/ /\ analysis[w].score >= FlagThreshold
           /\ pending' = [[pending EXCEPT !.alerts = @ \union {AiAlert(w)}]
                            EXCEPT !.ai = @ \ {analysis[w].event}]
        BY <1>5, <2>4 DEF FinishAnalysis, AiAlert
  <2> QED BY <1>1, <1>5, <2>5 DEF Traffic, Topics
<1>6. ASSUME NEW w \in ClaimWorkers, NEW e \in pending.claims, ApplyAnalysis(w, e)
      PROVE  Traffic
  <2>1. pending' = [pending EXCEPT !.claims = @ \ {e}] \/ pending' = pending
        BY <1>6 DEF ApplyAnalysis
  <2> QED BY <1>1, <1>6, <2>1 DEF Traffic, Topics
<1>7. ASSUME NEW e \in pending.claims, SkipAnalyzed(e)
      PROVE  Traffic
  <2>1. pending' = [pending EXCEPT !.claims = @ \ {e}]
        BY <1>7 DEF SkipAnalyzed
  <2> QED BY <1>1, <1>7, <2>1 DEF Traffic, Topics
<1>8. ASSUME NEW w \in ClaimWorkers, PublishFlagged(w)
      PROVE  Traffic
  <2>1. flagging[w] \in AnalyzedEvents
        BY <1>8 DEF PublishFlagged, TypeOK
  <2>2. ClaimAlert(w) \in FlaggedEvents
        BY <2>1, EventTypes DEF ClaimAlert, AnalyzedEvents
  <2>3. Publish(ClaimAlert(w)) = [pending EXCEPT !.alerts = @ \union {ClaimAlert(w)}]
        BY <1>1, <2>2, PublishAlert
  <2>4. \/ pending' = [pending EXCEPT !.claims = @ \ {flagging[w]}]
        \/ pending' = [[pending EXCEPT !.alerts = @ \union {ClaimAlert(w)}]
                         EXCEPT !.claims = @ \ {flagging[w]}]
        BY <1>8, <2>3 DEF PublishFlagged, ClaimAlert
  <2> QED BY <1>1, <1>8, <2>4 DEF Traffic, Topics
<1>9. ASSUME NEW p \in Pods, NEW e \in pending.alerts, NotifyFlagged(p, e)
      PROVE  Traffic
  <2>1. pending' = [pending EXCEPT !.alerts = @ \ {e}] \/ pending' = pending
        BY <1>9 DEF NotifyFlagged
  <2> QED BY <1>1, <2>1 DEF Traffic, Topics
<1>10. ASSUME NEW p \in Pods, NEW e \in pending.dashboards, NotifyAnalyzed(p, e)
       PROVE  Traffic
  <2>1. pending' = [pending EXCEPT !.dashboards = @ \ {e}] \/ pending' = pending
        BY <1>10 DEF NotifyAnalyzed
  <2> QED BY <1>1, <2>1 DEF Traffic, Topics
<1>11. CASE UNCHANGED pending
       BY <1>11 DEF Traffic
<1> QED BY <1>2, <1>3, <1>4, <1>5, <1>6, <1>7, <1>8, <1>9, <1>10, <1>11, PendingSteps

\* What a worker of the AI group, or of claim-service, can come to hold.
WorkArrivals ==
    /\ \A w \in AiWorkers : analysis'[w] # Idle =>
          \/ analysis'[w] = analysis[w]
          \/ \E e \in pending.ai : analysis'[w].event = e /\ analysis'[w].next = "analyze"
          \/ /\ analysis[w] # Idle
             /\ analysis'[w].event = analysis[w].event
             /\ \/ /\ analysis'[w].next = "analyze"
                \/ /\ analysis'[w].next = "publish analyzed"
                   /\ analysis'[w].score \in scored'[analysis[w].event.claim]
                \/ /\ PublishAnalyzed(w)
                   /\ analysis'[w].next = "publish flagged"
                   /\ analysis'[w].score = analysis[w].score
    /\ \A w \in ClaimWorkers : flagging'[w] # Idle =>
          \/ flagging'[w] = flagging[w]
          \/ \E e \in pending.claims : /\ ApplyAnalysis(w, e)
                                       /\ e.score >= PublishThreshold
                                       /\ flagging'[w] = e

LEMMA WorkSteps ==
    ASSUME [Next]_vars
    PROVE  \/ UNCHANGED <<analysis, flagging>>
           \/ \E w \in AiWorkers :
                 \/ \E e \in pending.ai : TakeCreated(w, e)
                 \/ \E s \in Scores : Analyze(w, s)
                 \/ AnalyzeFails(w) \/ PublishAnalyzed(w) \/ FinishAnalysis(w) \/ AiCrash(w)
           \/ \E w \in ClaimWorkers :
                 \/ \E e \in pending.claims : ApplyAnalysis(w, e)
                 \/ PublishFlagged(w) \/ ClaimConsumerCrash(w)
<1>1. /\ \A c \in Claims, k \in Companies : CreateClaim(c, k) => UNCHANGED <<analysis, flagging>>
      /\ \A c \in Claims : UploadDocument(c) \/ RereadClaim(c) \/ Refetch(c)
                           => UNCHANGED <<analysis, flagging>>
      /\ \A c \in Claims : DeleteClaim(c) => UNCHANGED <<analysis, flagging>>
      /\ \A c \in Claims, d \in Decisions : ReviewClaim(c, d) => UNCHANGED <<analysis, flagging>>
      /\ \A r \in requests : FinishRequest(r) => UNCHANGED <<analysis, flagging>>
      BY DEF CreateClaim, UploadDocument, RereadClaim, Refetch, DeleteClaim, ReviewClaim,
             FinishRequest, pipeline
<1>2. \A e \in pending.claims : SkipAnalyzed(e) => UNCHANGED <<analysis, flagging>>
      BY DEF SkipAnalyzed
<1>3. Notify => UNCHANGED <<analysis, flagging>>
      BY DEF Notify, NotifyFlagged, NotifyAnalyzed
<1>4. UNCHANGED vars => UNCHANGED <<analysis, flagging>>
      BY DEF vars, pipeline
<1> QED BY <1>1, <1>2, <1>3, <1>4 DEF Next, HttpStep, AiStep, ClaimConsumerStep

LEMMA WorkerArrivals ==
    ASSUME TypeOK, [Next]_vars
    PROVE  WorkArrivals
<1>1. /\ analysis \in [AiWorkers -> Work \union {Idle}]
      /\ flagging \in [ClaimWorkers -> AnalyzedEvents \union {Idle}]
      BY DEF TypeOK
<1>2. ASSUME NEW w \in AiWorkers, NEW e \in pending.ai, TakeCreated(w, e)
      PROVE  WorkArrivals
      BY <1>1, <1>2 DEF TakeCreated, WorkArrivals
<1>3. ASSUME NEW w \in AiWorkers, NEW s \in Scores, Analyze(w, s)
      PROVE  WorkArrivals
  <2>1. analysis[w] \in Work
        BY <1>1, <1>3 DEF Analyze
  <2>2. analysis[w].event.claim \in Claims
        BY <2>1 DEF Work, CreatedEvents
  <2>3. s \in scored'[analysis[w].event.claim]
        BY <1>3, <2>2 DEF Analyze, TypeOK
  <2>4. /\ UNCHANGED flagging
        /\ \A v \in AiWorkers \ {w} : analysis'[v] = analysis[v]
        /\ analysis'[w].event = analysis[w].event
        /\ analysis'[w].next = "publish analyzed"
        /\ analysis'[w].score = s
        BY <1>1, <1>3, <2>1 DEF Analyze, Work
  <2> QED BY <1>3, <2>3, <2>4 DEF WorkArrivals, Analyze
<1>4. ASSUME NEW w \in AiWorkers, AnalyzeFails(w)
      PROVE  WorkArrivals
  <2>1. analysis[w] \in Work /\ analysis[w].next = "analyze"
        BY <1>1, <1>4 DEF AnalyzeFails
  <2>2. /\ UNCHANGED flagging
        /\ \/ analysis' = [analysis EXCEPT ![w].attempt = @ + 1]
           \/ analysis' = [analysis EXCEPT ![w] = Idle]
        BY <1>4 DEF AnalyzeFails
  <2>3. /\ \A v \in AiWorkers \ {w} : analysis'[v] = analysis[v]
        /\ analysis'[w] # Idle => /\ analysis'[w].event = analysis[w].event
                                  /\ analysis'[w].next = "analyze"
        BY <1>1, <2>1, <2>2 DEF Work
  <2> QED BY <1>4, <2>2, <2>3 DEF WorkArrivals, AnalyzeFails
<1>5. ASSUME NEW w \in AiWorkers, PublishAnalyzed(w)
      PROVE  WorkArrivals
  <2>1. analysis[w] \in Work
        BY <1>1, <1>5 DEF PublishAnalyzed
  <2>2. /\ UNCHANGED flagging
        /\ \A v \in AiWorkers \ {w} : analysis'[v] = analysis[v]
        /\ analysis'[w].event = analysis[w].event
        /\ analysis'[w].next = "publish flagged"
        /\ analysis'[w].score = analysis[w].score
        BY <1>1, <1>5, <2>1 DEF PublishAnalyzed, Work
  <2> QED BY <1>5, <2>2 DEF WorkArrivals, PublishAnalyzed
<1>6. ASSUME NEW w \in AiWorkers, FinishAnalysis(w) \/ AiCrash(w)
      PROVE  WorkArrivals
      BY <1>1, <1>6 DEF FinishAnalysis, AiCrash, WorkArrivals
<1>7. ASSUME NEW w \in ClaimWorkers, NEW e \in pending.claims, ApplyAnalysis(w, e)
      PROVE  WorkArrivals
  <2>1. /\ UNCHANGED analysis
        /\ \/ flagging' = [flagging EXCEPT ![w] = e] /\ e.score >= PublishThreshold
           \/ UNCHANGED flagging
        BY <1>7 DEF ApplyAnalysis
  <2> QED BY <1>1, <1>7, <2>1 DEF WorkArrivals
<1>8. ASSUME NEW w \in ClaimWorkers, PublishFlagged(w) \/ ClaimConsumerCrash(w)
      PROVE  WorkArrivals
      BY <1>1, <1>8 DEF PublishFlagged, ClaimConsumerCrash, WorkArrivals
<1>9. CASE UNCHANGED <<analysis, flagging>>
      BY <1>9 DEF WorkArrivals
<1> QED BY <1>2, <1>3, <1>4, <1>5, <1>6, <1>7, <1>8, <1>9, WorkSteps

-----------------------------------------------------------------------------
(* Owned. *)

LEMMA RequestSteps ==
    ASSUME [Next]_vars, ~(requests' \subseteq requests)
    PROVE  \/ \E c \in Claims, k \in Companies : CreateClaim(c, k)
           \/ \E c \in Claims : UploadDocument(c) \/ RereadClaim(c)
           \/ \E c \in Claims, d \in Decisions : ReviewClaim(c, d)
<1>1. /\ \A c \in Claims : Refetch(c) \/ DeleteClaim(c) => requests' \subseteq requests
      /\ \A r \in requests : FinishRequest(r) => requests' \subseteq requests
      BY DEF Refetch, DeleteClaim, FinishRequest, pipeline
<1>2. \A w \in AiWorkers : AiStep(w) \/ AiCrash(w) => UNCHANGED requests
      BY DEF AiStep, TakeCreated, Analyze, AnalyzeFails, PublishAnalyzed, FinishAnalysis,
             AiCrash
<1>3. /\ \A w \in ClaimWorkers : PublishFlagged(w) \/ ClaimConsumerCrash(w) => UNCHANGED requests
      /\ \A e \in pending.claims : SkipAnalyzed(e) => UNCHANGED requests
      /\ \A w \in ClaimWorkers : \A e \in pending.claims :
            ApplyAnalysis(w, e) => UNCHANGED requests
      BY DEF PublishFlagged, ClaimConsumerCrash, SkipAnalyzed, ApplyAnalysis
<1>4. Notify => UNCHANGED requests
      BY DEF Notify, NotifyFlagged, NotifyAnalyzed
<1>5. UNCHANGED vars => UNCHANGED requests
      BY DEF vars, pipeline
<1> QED BY <1>1, <1>2, <1>3, <1>4, <1>5 DEF Next, HttpStep, ClaimConsumerStep

LEMMA RowOwnedNext ==
    ASSUME TypeOK, Owned, [Next]_vars, NEW c \in Claims, row'[c] # NoRow
    PROVE  row'[c].company = issued'[c]
<1>1. row[c] # NoRow => issued[c] # NoCompany /\ row[c].company = issued[c]
      BY ValuesAssumption DEF TypeOK, Owned, Rows
<1>2. CASE UNCHANGED row
      BY <1>1, <1>2, IssuedKept
<1>3. ASSUME NEW d \in Claims, NEW k \in Companies, CreateClaim(d, k)
      PROVE  row'[c].company = issued'[c]
      BY <1>1, <1>3 DEF CreateClaim, TypeOK
<1>4. ASSUME NEW d \in Claims, NEW decision \in Decisions, ReviewClaim(d, decision)
      PROVE  row'[c].company = issued'[c]
  <2>1. row[d] \in Rows
        BY <1>4 DEF ReviewClaim, TypeOK
  <2>2. row' = [row EXCEPT ![d] = [@ EXCEPT !.status = decision, !.analyst = TRUE]]
        BY <1>4 DEF ReviewClaim
  <2>3. row[c] # NoRow /\ row'[c].company = row[c].company
        BY <2>1, <2>2, ValuesAssumption DEF TypeOK, Rows
  <2> QED BY <1>1, <2>3, IssuedKept
<1>5. ASSUME NEW d \in Claims, DeleteClaim(d)
      PROVE  row'[c].company = issued'[c]
      BY <1>1, <1>5, IssuedKept DEF DeleteClaim, TypeOK
<1>6. ASSUME NEW w \in ClaimWorkers, NEW e \in pending.claims, ApplyAnalysis(w, e)
      PROVE  row'[c].company = issued'[c]
  <2>1. e.claim \in Claims
        BY AboutClaims
  <2>2. row[e.claim] \in Rows
        BY <1>6, <2>1 DEF ApplyAnalysis, TypeOK
  <2>3. row[c] # NoRow /\ row'[c].company = row[c].company
        BY <1>6, <2>1, <2>2, ValuesAssumption DEF ApplyAnalysis, TypeOK, Rows
  <2> QED BY <1>1, <2>3, IssuedKept
<1> QED BY <1>2, <1>3, <1>4, <1>5, <1>6, RowSteps

LEMMA RequestsOwnedNext ==
    ASSUME TypeOK, Owned, [Next]_vars, NEW r \in requests', r.step = "publish"
    PROVE  r.event.company # NoCompany => issued'[r.event.claim] = r.event.company
<1>1. CASE r \in requests
      BY <1>1, OwnKept, AboutClaims DEF Owned
<1>2. CASE r \notin requests
  <2>1. ASSUME NEW c \in Claims, NEW k \in Companies, CreateClaim(c, k)
        PROVE  r.event.company # NoCompany => issued'[r.event.claim] = r.event.company
    <3>1. r = [step |-> "publish", event |-> Created(c, k, FALSE)]
          BY <1>2, <2>1 DEF CreateClaim
    <3>2. r.event.claim = c /\ r.event.company = k
          BY <3>1 DEF Created
    <3> QED BY <2>1, <3>2 DEF CreateClaim, TypeOK
  <2>2. ASSUME NEW c \in Claims, RereadClaim(c)
        PROVE  r.event.company # NoCompany => issued'[r.event.claim] = r.event.company
    <3>1. /\ row[c] # NoRow
          /\ r = [step |-> "publish", event |-> Created(c, row[c].company, TRUE)]
          BY <1>2, <2>2 DEF RereadClaim
    <3>2. r.event.claim = c /\ r.event.company = row[c].company
          BY <3>1 DEF Created
    <3>3. UNCHANGED issued
          BY <2>2 DEF RereadClaim, history
    <3> QED BY <3>1, <3>2, <3>3 DEF Owned
  <2>3. ASSUME NEW c \in Claims, NEW d \in Decisions, ReviewClaim(c, d)
        PROVE  r.event.company # NoCompany => issued'[r.event.claim] = r.event.company
    <3>1. r.event = Reviewed(c, d)
          BY <1>2, <2>3 DEF ReviewClaim
    <3> QED BY <3>1 DEF Reviewed
  <2>4. ASSUME NEW c \in Claims, UploadDocument(c)
        PROVE  FALSE
        BY <1>2, <2>4 DEF UploadDocument
  <2> QED BY <1>2, <2>1, <2>2, <2>3, <2>4, RequestSteps
<1> QED BY <1>1, <1>2

LEMMA OwnedNext == TypeOK /\ Owned /\ [Next]_vars => Owned'
<1> SUFFICES ASSUME TypeOK, Owned, [Next]_vars
             PROVE  Owned'
    OBVIOUS
<1> DEFINE Kept(e) == e.company # NoCompany => issued'[e.claim] = e.company
<1>1. \A c \in Claims : row'[c] # NoRow => row'[c].company = issued'[c]
      BY RowOwnedNext
<1>2. \A r \in requests' : r.step = "publish" => Kept(r.event)
      BY RequestsOwnedNext
<1>3. \A e : e.claim \in Claims /\ Own(e) => Kept(e)
      BY OwnKept
<1>4. \A r \in requests : r.step = "publish" => Kept(r.event)
      BY <1>3, AboutClaims DEF Owned
<1>5. ASSUME NEW w \in AiWorkers, analysis[w] # Idle
      PROVE  Kept(analysis[w].event) /\ Kept(Result(w)) /\ Kept(AiAlert(w))
  <2>1. Kept(analysis[w].event)
        BY <1>3, <1>5, AboutClaims DEF Owned
  <2> QED BY <2>1 DEF Result, AiAlert, Analyzed, Flagged
<1>6. ASSUME NEW w \in ClaimWorkers, flagging[w] # Idle
      PROVE  Kept(flagging[w]) /\ Kept(ClaimAlert(w))
  <2>1. Kept(flagging[w])
        BY <1>3, <1>6, AboutClaims DEF Owned
  <2> QED BY <2>1 DEF ClaimAlert, Flagged
<1>7. /\ \A e \in pending.ai : Kept(e)
      /\ \A e \in pending.claims : Kept(e)
      /\ \A e \in pending.dashboards : Kept(e)
      /\ \A e \in pending.alerts : Kept(e)
      BY <1>3, AboutClaims DEF Owned
<1>8. /\ \A e \in pending'.ai : Kept(e)
      /\ \A e \in pending'.claims : Kept(e)
      /\ \A e \in pending'.dashboards : Kept(e)
      /\ \A e \in pending'.alerts : Kept(e)
  <2>1. Traffic
        BY TopicTraffic
  <2>2. /\ \A w \in AiWorkers : PublishAnalyzed(w) \/ FinishAnalysis(w) => analysis[w] # Idle
        /\ \A w \in ClaimWorkers : PublishFlagged(w) => flagging[w] # Idle
        BY DEF PublishAnalyzed, FinishAnalysis, PublishFlagged
  <2> HIDE DEF Kept
  <2> QED BY <1>4, <1>5, <1>6, <1>7, <2>1, <2>2 DEF Traffic
<1>9. \A w \in AiWorkers : analysis'[w] # Idle => Kept(analysis'[w].event)
  <2>1. WorkArrivals
        BY WorkerArrivals
  <2> HIDE DEF Kept
  <2> QED BY <1>5, <1>7, <2>1 DEF WorkArrivals
<1>10. \A w \in ClaimWorkers : flagging'[w] # Idle => Kept(flagging'[w])
  <2>1. WorkArrivals
        BY WorkerArrivals
  <2> HIDE DEF Kept
  <2> QED BY <1>6, <1>7, <2>1 DEF WorkArrivals
<1> QED BY <1>1, <1>2, <1>8, <1>9, <1>10 DEF Owned, Own

-----------------------------------------------------------------------------
(* What reaches people. *)

LEMMA NotifySteps ==
    ASSUME [Next]_vars, ~UNCHANGED <<received, alerts>>
    PROVE  Notify
<1>1. /\ \A c \in Claims, k \in Companies : CreateClaim(c, k) => UNCHANGED <<received, alerts>>
      /\ \A c \in Claims : UploadDocument(c) \/ RereadClaim(c) \/ Refetch(c) \/ DeleteClaim(c)
                           => UNCHANGED <<received, alerts>>
      /\ \A c \in Claims, d \in Decisions : ReviewClaim(c, d) => UNCHANGED <<received, alerts>>
      /\ \A r \in requests : FinishRequest(r) => UNCHANGED <<received, alerts>>
      BY DEF CreateClaim, UploadDocument, RereadClaim, Refetch, FinishRequest, DeleteClaim,
             ReviewClaim, history
<1>2. \A w \in AiWorkers : AiStep(w) \/ AiCrash(w) => UNCHANGED <<received, alerts>>
      BY DEF AiStep, TakeCreated, Analyze, AnalyzeFails, PublishAnalyzed, FinishAnalysis,
             AiCrash, history
<1>3. /\ \A w \in ClaimWorkers : PublishFlagged(w) \/ ClaimConsumerCrash(w)
                                 => UNCHANGED <<received, alerts>>
      /\ \A e \in pending.claims : SkipAnalyzed(e) => UNCHANGED <<received, alerts>>
      /\ \A w \in ClaimWorkers : \A e \in pending.claims :
            ApplyAnalysis(w, e) => UNCHANGED <<received, alerts>>
      BY DEF PublishFlagged, ClaimConsumerCrash, SkipAnalyzed, ApplyAnalysis, history
<1>4. UNCHANGED vars => UNCHANGED <<received, alerts>>
      BY DEF vars, history
<1> QED BY <1>1, <1>2, <1>3, <1>4 DEF Next, HttpStep, ClaimConsumerStep

LEMMA DashboardsNext ==
    TypeOK /\ Owned /\ DashboardsSeeOwnClaims /\ [Next]_vars => DashboardsSeeOwnClaims'
<1> SUFFICES ASSUME TypeOK, Owned, DashboardsSeeOwnClaims, [Next]_vars,
                    NEW x \in received'
             PROVE  issued'[x[2]] = x[1]
    BY DEF DashboardsSeeOwnClaims
<1>1. CASE x \in received
  <2>1. x[1] \in Companies /\ x[2] \in Claims /\ issued[x[2]] = x[1]
        BY <1>1 DEF TypeOK, DashboardsSeeOwnClaims
  <2> QED BY <2>1, IssuedKept, ValuesAssumption
<1>2. CASE x \notin received
  <2>1. PICK p \in Pods, e \in pending.alerts \union pending.dashboards :
           received' = received \union (Reached(p, e) \X {e.claim})
        BY <1>2, NotifySteps DEF Notify, NotifyFlagged, NotifyAnalyzed, Broadcast
  <2>2. x[1] \in Companies /\ x[1] = e.company /\ x[2] = e.claim
        BY <1>2, <2>1 DEF Reached
  <2>3. Own(e) /\ e.claim \in Claims
        BY AboutClaims DEF Owned
  <2> QED BY <2>2, <2>3, OwnKept, ValuesAssumption
<1> QED BY <1>1, <1>2

LEMMA ScoredSteps ==
    ASSUME [Next]_vars, ~UNCHANGED scored
    PROVE  \E w \in AiWorkers, s \in Scores : Analyze(w, s)
<1>1. /\ \A d \in Claims, k \in Companies : CreateClaim(d, k) => UNCHANGED scored
      /\ \A d \in Claims : UploadDocument(d) \/ RereadClaim(d) \/ Refetch(d) \/ DeleteClaim(d)
                           => UNCHANGED scored
      /\ \A d \in Claims, decision \in Decisions : ReviewClaim(d, decision) => UNCHANGED scored
      /\ \A r \in requests : FinishRequest(r) => UNCHANGED scored
      BY DEF CreateClaim, UploadDocument, RereadClaim, Refetch, FinishRequest, DeleteClaim,
             ReviewClaim, history
<1>2. \A w \in AiWorkers :
         /\ \A e \in pending.ai : TakeCreated(w, e) => UNCHANGED scored
         /\ AnalyzeFails(w) \/ PublishAnalyzed(w) \/ FinishAnalysis(w) \/ AiCrash(w)
            => UNCHANGED scored
      BY DEF TakeCreated, AnalyzeFails, PublishAnalyzed, FinishAnalysis, AiCrash, history
<1>3. /\ \A w \in ClaimWorkers : PublishFlagged(w) \/ ClaimConsumerCrash(w) => UNCHANGED scored
      /\ \A e \in pending.claims : SkipAnalyzed(e) => UNCHANGED scored
      /\ \A w \in ClaimWorkers : \A e \in pending.claims :
            ApplyAnalysis(w, e) => UNCHANGED scored
      BY DEF PublishFlagged, ClaimConsumerCrash, SkipAnalyzed, ApplyAnalysis, history
<1>4. Notify => UNCHANGED scored
      BY DEF Notify, NotifyFlagged, NotifyAnalyzed
<1>5. UNCHANGED vars => UNCHANGED scored
      BY DEF vars, history
<1> QED BY <1>1, <1>2, <1>3, <1>4, <1>5
        DEF Next, HttpStep, AiStep, ClaimConsumerStep

LEMMA ScoredKept ==
    ASSUME TypeOK, [Next]_vars, NEW c \in Claims
    PROVE  scored[c] \subseteq scored'[c]
<1>1. ASSUME NEW w \in AiWorkers, NEW s \in Scores, Analyze(w, s)
      PROVE  scored[c] \subseteq scored'[c]
      BY <1>1 DEF Analyze, TypeOK
<1> QED BY <1>1, ScoredSteps

LEMMA BackedNext == TypeOK /\ Backed /\ [Next]_vars => Backed'
<1> SUFFICES ASSUME TypeOK, Backed, [Next]_vars
             PROVE  Backed'
    OBVIOUS
<1>1. Traffic /\ WorkArrivals
      BY TopicTraffic, WorkerArrivals
<1>2. \A c \in Claims : scored[c] \subseteq scored'[c]
      BY ScoredKept
<1>3. ASSUME NEW e \in pending'.claims, e.type = "claim.analyzed"
      PROVE  e.score \in scored'[e.claim]
  <2>1. CASE e \in pending.claims
        BY <1>2, <1>3, <2>1, AboutClaims DEF Backed
  <2>2. CASE e \notin pending.claims
    <3>1. ASSUME NEW r \in requests, r.step = "publish", e = r.event
          PROVE  FALSE
          BY <1>3, <3>1 DEF TypeOK, Requests, CreatedEvents, ReviewEvents
    <3>2. PICK w \in AiWorkers : PublishAnalyzed(w) /\ e = Result(w)
          BY <1>1, <1>3, <2>2, <3>1 DEF Traffic
    <3>3. /\ analysis[w] # Idle /\ analysis[w].next # "analyze"
          /\ analysis[w].event.claim \in Claims
          BY <3>2, AboutClaims DEF PublishAnalyzed
    <3>4. e.claim = analysis[w].event.claim /\ e.score = analysis[w].score
          BY <3>2 DEF Result, Analyzed
    <3> QED BY <1>2, <3>3, <3>4 DEF Backed
  <2> QED BY <2>1, <2>2
<1>4. ASSUME NEW e \in pending'.alerts
      PROVE  e.score \in scored'[e.claim] /\ High(e.score)
  <2>1. CASE e \in pending.alerts
        BY <1>2, <2>1, AboutClaims DEF Backed
  <2>2. ASSUME NEW w \in AiWorkers, FinishAnalysis(w), analysis[w].score >= FlagThreshold,
               e = AiAlert(w)
        PROVE  e.score \in scored'[e.claim] /\ High(e.score)
    <3>1. /\ analysis[w] # Idle /\ analysis[w].next # "analyze"
          /\ analysis[w].event.claim \in Claims
          BY <2>2, AboutClaims DEF FinishAnalysis
    <3>2. e.claim = analysis[w].event.claim /\ e.score = analysis[w].score
          BY <2>2 DEF AiAlert, Flagged
    <3> QED BY <1>2, <2>2, <3>1, <3>2 DEF Backed, High
  <2>3. ASSUME NEW w \in ClaimWorkers, PublishFlagged(w), e = ClaimAlert(w)
        PROVE  e.score \in scored'[e.claim] /\ High(e.score)
    <3>1. flagging[w] # Idle /\ flagging[w].claim \in Claims
          BY <2>3, AboutClaims DEF PublishFlagged
    <3>2. e.claim = flagging[w].claim /\ e.score = flagging[w].score
          BY <2>3 DEF ClaimAlert, Flagged
    <3> QED BY <1>2, <3>1, <3>2 DEF Backed, High
  <2> QED BY <1>1, <1>4, <2>1, <2>2, <2>3 DEF Traffic
<1>5. ASSUME NEW w \in AiWorkers, analysis'[w] # Idle, analysis'[w].next # "analyze"
      PROVE  analysis'[w].score \in scored'[analysis'[w].event.claim]
  <2>1. CASE analysis'[w] = analysis[w]
        BY <1>2, <1>5, <2>1, AboutClaims DEF Backed
  <2>2. CASE analysis'[w] # analysis[w]
    <3>1. /\ analysis[w] # Idle
          /\ analysis'[w].event = analysis[w].event
          /\ \/ analysis'[w].score \in scored'[analysis[w].event.claim]
             \/ PublishAnalyzed(w) /\ analysis'[w].score = analysis[w].score
          BY <1>1, <1>5, <2>2 DEF WorkArrivals
    <3>2. CASE analysis'[w].score \in scored'[analysis[w].event.claim]
          BY <3>1, <3>2
    <3>3. CASE PublishAnalyzed(w) /\ analysis'[w].score = analysis[w].score
      <4>1. analysis[w].next # "analyze"
            BY <3>3 DEF PublishAnalyzed
      <4> QED BY <1>2, <3>1, <3>3, <4>1, AboutClaims DEF Backed
    <3> QED BY <3>1, <3>2, <3>3
  <2> QED BY <2>1, <2>2
<1>6. ASSUME NEW w \in ClaimWorkers, flagging'[w] # Idle
      PROVE  /\ flagging'[w].score \in scored'[flagging'[w].claim]
             /\ flagging'[w].score >= PublishThreshold
  <2>1. CASE flagging'[w] = flagging[w]
        BY <1>2, <1>6, <2>1, AboutClaims DEF Backed
  <2>2. CASE flagging'[w] # flagging[w]
    <3>1. PICK e \in pending.claims : /\ ApplyAnalysis(w, e)
                                      /\ e.score >= PublishThreshold
                                      /\ flagging'[w] = e
          BY <1>1, <1>6, <2>2 DEF WorkArrivals
    <3>2. e.type = "claim.analyzed" /\ e.claim \in Claims
          BY <3>1, AboutClaims DEF ApplyAnalysis
    <3> QED BY <1>2, <3>1, <3>2 DEF Backed
  <2> QED BY <2>1, <2>2
<1> QED BY <1>3, <1>4, <1>5, <1>6 DEF Backed, High

\* What StatusExplained says of a row r of a claim that was given the scores in S.
Accounted(r, S) ==
    LET judged == \E s \in S : r.score = Stored(s) /\ r.status = Verdict(s)
    IN  /\ r.status = "PENDING" => r.score = 0 /\ ~r.analyst
        /\ r.status = "FLAGGED" => judged /\ r.score >= FlagThreshold
        /\ r.status = "APPROVED" => r.analyst \/ (judged /\ r.score <= FlagThreshold)
        /\ r.status \in {"REJECTED", "MORE_INFO"} => r.analyst

LEMMA StatusOfRows ==
    StatusExplained <=> \A c \in Claims : row[c] # NoRow => Accounted(row[c], scored[c])
BY DEF StatusExplained, JudgedByScore, Accounted

\* The threshold is a whole number of thousandths: rounding reaches it from below
\* and does not leave it from above.
LEMMA Rounding ==
    ASSUME NEW s \in Nat
    PROVE  /\ Stored(s) \in Nat
           /\ Stored(s) % 10 = 0
           /\ Stored(s) \in (s - 4)..(s + 5)
           /\ s >= FlagThreshold => Stored(s) >= FlagThreshold
           /\ s < FlagThreshold => Stored(s) <= FlagThreshold
<1> DEFINE k == (s + 5) \div 10
           f == FlagThreshold \div 10
<1>1. k \in Nat /\ 10 * k <= s + 5 /\ s + 5 < 10 * k + 10
      OBVIOUS
<1>2. f \in Nat /\ FlagThreshold = 10 * f
      BY ScoresAssumption
<1>3. Stored(s) = 10 * k
      BY DEF Stored
<1> HIDE DEF k, f
<1>4. s >= FlagThreshold => k >= f
      BY <1>1, <1>2
<1>5. s < FlagThreshold => k <= f
      BY <1>1, <1>2
<1>6. (10 * k) % 10 = 0
      BY <1>1
<1>7. 10 * k \in (s - 4)..(s + 5)
      BY <1>1
<1>8. (k >= f => 10 * k >= FlagThreshold) /\ (k <= f => 10 * k <= FlagThreshold)
      BY <1>1, <1>2
<1>9. 10 * k \in Nat
      BY <1>1
<1> QED BY <1>3, <1>4, <1>5, <1>6, <1>7, <1>8, <1>9

LEMMA JudgedAccounted ==
    ASSUME NEW r \in Rows, NEW S, NEW s \in S, s \in Nat
    PROVE  Accounted([r EXCEPT !.score = Stored(s), !.status = Verdict(s)], S)
<1> DEFINE new == [r EXCEPT !.score = Stored(s), !.status = Verdict(s)]
<1>1. new.score = Stored(s) /\ new.status = Verdict(s)
      BY DEF Rows
<1>2. \/ s >= FlagThreshold /\ Verdict(s) = "FLAGGED"
      \/ s < FlagThreshold /\ Verdict(s) = "APPROVED"
      BY ScoresAssumption DEF Verdict
<1> HIDE DEF new
<1>3. \/ new.status = "FLAGGED" /\ new.score >= FlagThreshold
      \/ new.status = "APPROVED" /\ new.score <= FlagThreshold
      BY <1>1, <1>2, Rounding
<1> QED BY <1>1, <1>3 DEF Accounted, new

LEMMA StatusNext == TypeOK /\ Backed /\ StatusExplained /\ [Next]_vars => StatusExplained'
<1> SUFFICES ASSUME TypeOK, Backed, StatusExplained, [Next]_vars,
                    NEW c \in Claims, row'[c] # NoRow
             PROVE  Accounted(row'[c], scored'[c])
    BY StatusOfRows DEF StatusExplained, JudgedByScore, Accounted
<1>1. scored[c] \subseteq scored'[c]
      BY ScoredKept
<1>2. row[c] # NoRow => Accounted(row[c], scored'[c])
      BY <1>1, StatusOfRows DEF Accounted
<1>3. CASE row'[c] = row[c]
      BY <1>2, <1>3
<1>4. ASSUME NEW d \in Claims, NEW k \in Companies, CreateClaim(d, k), row'[c] # row[c]
      PROVE  Accounted(row'[c], scored'[c])
  <2>1. row'[c] = [company |-> k, status |-> "PENDING", score |-> 0, analyst |-> FALSE]
        BY <1>4 DEF CreateClaim, TypeOK
  <2> QED BY <2>1 DEF Accounted
<1>5. ASSUME NEW d \in Claims, NEW decision \in Decisions, ReviewClaim(d, decision),
             row'[c] # row[c]
      PROVE  Accounted(row'[c], scored'[c])
  <2>1. row'[c] = [row[c] EXCEPT !.status = decision, !.analyst = TRUE] /\ row[c] \in Rows
        BY <1>5 DEF ReviewClaim, TypeOK
  <2>2. row'[c].status = decision /\ row'[c].analyst
        BY <2>1 DEF Rows
  <2> QED BY <2>2 DEF Accounted, Decisions
<1>6. ASSUME NEW d \in Claims, DeleteClaim(d), row'[c] # row[c]
      PROVE  FALSE
      BY <1>6 DEF DeleteClaim, TypeOK
<1>7. ASSUME NEW w \in ClaimWorkers, NEW e \in pending.claims, ApplyAnalysis(w, e),
             row'[c] # row[c]
      PROVE  Accounted(row'[c], scored'[c])
  <2>1. e.type = "claim.analyzed" /\ e.claim = c /\ row[c] \in Rows
        BY <1>7 DEF ApplyAnalysis, TypeOK
  <2>2. row'[c] = [row[c] EXCEPT !.score = Stored(e.score), !.status = Verdict(e.score)]
        BY <1>7, <2>1 DEF ApplyAnalysis, TypeOK
  <2>3. e.score \in scored'[c]
        BY <1>1, <2>1 DEF Backed
  <2>4. e.score \in Nat
        BY <2>1, AnalyzedScores
  <2>5. Accounted([row[c] EXCEPT !.score = Stored(e.score), !.status = Verdict(e.score)],
                  scored'[c])
        BY ONLY <2>1, <2>3, <2>4, JudgedAccounted
  <2> QED BY <2>2, <2>5
<1> QED BY <1>3, <1>4, <1>5, <1>6, <1>7, RowSteps

LEMMA AlertsNext == TypeOK /\ Backed /\ AlertsJustified /\ [Next]_vars => AlertsJustified'
<1> SUFFICES ASSUME TypeOK, Backed, AlertsJustified, [Next]_vars, NEW a \in alerts'
             PROVE  /\ a[2] \in scored'[a[1]]
                    /\ a[2] >= FlagThreshold \/ a[2] >= PublishThreshold
    BY DEF AlertsJustified
<1>1. CASE a \in alerts
      BY <1>1, ScoredKept DEF AlertsJustified, TypeOK
<1>2. CASE a \notin alerts
  <2>1. PICK e \in pending.alerts : alerts' = alerts \union {<<e.claim, e.score>>}
        BY <1>2, NotifySteps DEF Notify, NotifyFlagged, NotifyAnalyzed
  <2>2. a = <<e.claim, e.score>> /\ e.claim \in Claims
        BY <1>2, <2>1, AboutClaims
  <2> QED BY <2>2, ScoredKept DEF Backed, High
<1> QED BY <1>1, <1>2

-----------------------------------------------------------------------------
(* No claim is forgotten while nothing is lost. *)

LEMMA NoLossBefore ==
    ASSUME TypeOK, [Next]_vars, losses' = 0
    PROVE  losses = 0 /\ ~Loss
<1>1. Loss \/ UNCHANGED losses
  <2>1. /\ \A c \in Claims, k \in Companies : CreateClaim(c, k) => UNCHANGED losses
        /\ \A c \in Claims : UploadDocument(c) \/ Refetch(c) \/ DeleteClaim(c)
                             => UNCHANGED losses
        /\ \A c \in Claims : RereadClaim(c) => Loss \/ UNCHANGED losses
        /\ \A c \in Claims, d \in Decisions : ReviewClaim(c, d) => UNCHANGED losses
        /\ \A r \in requests : FinishRequest(r) => Loss \/ UNCHANGED losses
        BY DEF CreateClaim, UploadDocument, RereadClaim, Refetch, FinishRequest, DeleteClaim,
               ReviewClaim, bounds, NoFault
  <2>2. \A w \in AiWorkers :
           /\ \A e \in pending.ai : TakeCreated(w, e) => UNCHANGED losses
           /\ \A s \in Scores : Analyze(w, s) => UNCHANGED losses
           /\ AnalyzeFails(w) \/ PublishAnalyzed(w) \/ FinishAnalysis(w) \/ AiCrash(w)
              => Loss \/ UNCHANGED losses
        BY DEF TakeCreated, Analyze, AnalyzeFails, PublishAnalyzed, FinishAnalysis, AiCrash,
               bounds, NoFault, Crash
  <2>3. /\ \A w \in ClaimWorkers : PublishFlagged(w) \/ ClaimConsumerCrash(w)
                                   => Loss \/ UNCHANGED losses
        /\ \A e \in pending.claims : SkipAnalyzed(e) => Loss \/ UNCHANGED losses
        /\ \A w \in ClaimWorkers : \A e \in pending.claims :
              ApplyAnalysis(w, e) => UNCHANGED losses
        BY DEF PublishFlagged, ClaimConsumerCrash, SkipAnalyzed, ApplyAnalysis, bounds,
               NoFault, Crash
  <2>4. Notify => UNCHANGED losses
        BY DEF Notify, NotifyFlagged, NotifyAnalyzed, NoFault, Crash
  <2>5. UNCHANGED vars => UNCHANGED losses
        BY DEF vars, bounds
  <2> QED BY <2>1, <2>2, <2>3, <2>4, <2>5 DEF Next, HttpStep, AiStep, ClaimConsumerStep
<1>2. losses \in Nat
      BY BoundsAssumption DEF TypeOK
<1> QED BY <1>1, <1>2 DEF Loss

\* A claim that exists does not start to wait, and no result leaves it waiting.
LEMMA WaitingKept ==
    ASSUME TypeOK, [Next]_vars, NEW c \in Claims, issued[c] # NoCompany, Waiting(c)'
    PROVE  /\ Waiting(c)
           /\ \A w \in ClaimWorkers : \A e \in pending.claims : ApplyAnalysis(w, e) => e.claim # c
<1>1. CASE UNCHANGED row
  <2>1. ASSUME NEW w \in ClaimWorkers, NEW e \in pending.claims, ApplyAnalysis(w, e),
               e.claim = c
        PROVE  FALSE
    <3>1. row[c] \in Rows
          BY <2>1 DEF ApplyAnalysis, TypeOK
    <3>2. row'[c].status \in {"FLAGGED", "APPROVED"}
          BY <2>1, <3>1 DEF ApplyAnalysis, TypeOK, Rows, Verdict
    <3> QED BY <3>2 DEF Waiting
  <2> QED BY <1>1, <2>1 DEF Waiting
<1>2. ASSUME NEW d \in Claims, NEW k \in Companies, CreateClaim(d, k)
      PROVE  Waiting(c) /\ UNCHANGED pending /\ UNCHANGED flagging /\ c # d
      BY <1>2 DEF CreateClaim, TypeOK, Waiting
<1>3. ASSUME NEW d \in Claims, NEW decision \in Decisions, ReviewClaim(d, decision)
      PROVE  Waiting(c)
  <2>1. row[d] \in Rows /\ decision # "PENDING"
        BY <1>3 DEF ReviewClaim, TypeOK, Decisions
  <2>2. row' = [row EXCEPT ![d] = [@ EXCEPT !.status = decision, !.analyst = TRUE]]
        BY <1>3 DEF ReviewClaim
  <2> QED BY <2>1, <2>2 DEF TypeOK, Waiting, Rows
<1>4. ASSUME NEW d \in Claims, DeleteClaim(d)
      PROVE  Waiting(c)
      BY <1>4 DEF DeleteClaim, TypeOK, Waiting
<1>5. ASSUME NEW w \in ClaimWorkers, NEW e \in pending.claims, ApplyAnalysis(w, e)
      PROVE  Waiting(c) /\ e.claim # c
  <2>1. e.claim \in Claims
        BY AboutClaims
  <2>2. row[e.claim] \in Rows
        BY <1>5, <2>1 DEF ApplyAnalysis, TypeOK
  <2>3. row'[e.claim].status \in {"FLAGGED", "APPROVED"}
        BY <1>5, <2>1, <2>2 DEF ApplyAnalysis, TypeOK, Rows, Verdict
  <2>4. \A d \in Claims \ {e.claim} : row'[d] = row[d]
        BY <1>5, <2>1 DEF ApplyAnalysis, TypeOK
  <2> QED BY <2>3, <2>4 DEF Waiting
<1> QED BY <1>1, <1>2, <1>3, <1>4, <1>5, RowSteps

LEMMA ResultKept ==
    ASSUME TypeOK, ResultsTracked, [Next]_vars, losses' = 0,
           NEW c \in Claims, issued[c] # NoCompany, Waiting(c)', ResultUnderWay(c)
    PROVE  ResultUnderWay(c)'
<1>1. PICK e \in pending.claims : e.type = "claim.analyzed" /\ e.claim = c
      BY DEF ResultUnderWay
<1>2. CASE e \in pending'.claims
      BY <1>1, <1>2 DEF ResultUnderWay
<1>3. CASE e \notin pending'.claims
  <2>1. Waiting(c) /\ \A w \in ClaimWorkers : ~ApplyAnalysis(w, e)
        BY <1>1, WaitingKept
  <2>2. ~SkipAnalyzed(e)
        BY <1>1, <2>1, NoLossBefore DEF SkipAnalyzed, Waiting
  <2>3. PICK w \in ClaimWorkers : PublishFlagged(w) /\ e = flagging[w]
        BY <1>3, <2>1, <2>2, TopicTraffic DEF Traffic
  <2> QED BY <1>1, <2>1, <2>3 DEF PublishFlagged, ResultsTracked
<1> QED BY <1>2, <1>3

\* claims.failed has no consumer, and a handler ends with its publish.
LEMMA DeadLettersKept == [Next]_vars => deadLetters \subseteq deadLetters'
<1>1. /\ \A c \in Claims, k \in Companies : CreateClaim(c, k) => UNCHANGED deadLetters
      /\ \A c \in Claims : UploadDocument(c) \/ RereadClaim(c) \/ Refetch(c) \/ DeleteClaim(c)
                           => UNCHANGED deadLetters
      /\ \A c \in Claims, d \in Decisions : ReviewClaim(c, d) => UNCHANGED deadLetters
      /\ \A r \in requests : FinishRequest(r) => UNCHANGED deadLetters
      BY DEF CreateClaim, UploadDocument, RereadClaim, Refetch, FinishRequest, DeleteClaim,
             ReviewClaim, pipeline
<1>2. \A w \in AiWorkers : AiStep(w) \/ AiCrash(w) => deadLetters \subseteq deadLetters'
      BY DEF AiStep, TakeCreated, Analyze, AnalyzeFails, PublishAnalyzed, FinishAnalysis,
             AiCrash
<1>3. /\ \A w \in ClaimWorkers : PublishFlagged(w) \/ ClaimConsumerCrash(w)
                                 => UNCHANGED deadLetters
      /\ \A e \in pending.claims : SkipAnalyzed(e) => UNCHANGED deadLetters
      /\ \A w \in ClaimWorkers : \A e \in pending.claims :
            ApplyAnalysis(w, e) => UNCHANGED deadLetters
      BY DEF PublishFlagged, ClaimConsumerCrash, SkipAnalyzed, ApplyAnalysis
<1>4. Notify => UNCHANGED deadLetters
      BY DEF Notify, NotifyFlagged, NotifyAnalyzed
<1>5. UNCHANGED vars => UNCHANGED deadLetters
      BY DEF vars, pipeline
<1> QED BY <1>1, <1>2, <1>3, <1>4, <1>5 DEF Next, HttpStep, ClaimConsumerStep

LEMMA RequestsKept ==
    ASSUME [Next]_vars, NEW r \in requests, r.step = "publish", r \notin requests'
    PROVE  FinishRequest(r)
<1>1. /\ \A c \in Claims, k \in Companies : CreateClaim(c, k) => r \in requests'
      /\ \A c \in Claims : UploadDocument(c) => r \in requests'
      /\ \A c \in Claims, d \in Decisions : ReviewClaim(c, d) => r \in requests'
      BY DEF CreateClaim, UploadDocument, ReviewClaim
<1>2. \A c \in Claims : Refetch(c) \/ DeleteClaim(c) => UNCHANGED requests
      BY DEF Refetch, DeleteClaim, pipeline
<1>3. \A q \in requests : FinishRequest(q) => q = r
      BY DEF FinishRequest
<1>4. ASSUME NEW c \in Claims, RereadClaim(c)
      PROVE  r \in requests'
  <2>1. r # [step |-> "reread", claim |-> c]
        OBVIOUS
  <2>2. requests \ {[step |-> "reread", claim |-> c]} \subseteq requests'
        BY <1>4 DEF RereadClaim
  <2> QED BY <2>1, <2>2
<1>5. \A w \in AiWorkers : AiStep(w) \/ AiCrash(w) => UNCHANGED requests
      BY DEF AiStep, TakeCreated, Analyze, AnalyzeFails, PublishAnalyzed, FinishAnalysis,
             AiCrash
<1>6. /\ \A w \in ClaimWorkers : PublishFlagged(w) \/ ClaimConsumerCrash(w) => UNCHANGED requests
      /\ \A e \in pending.claims : SkipAnalyzed(e) => UNCHANGED requests
      /\ \A w \in ClaimWorkers : \A e \in pending.claims :
            ApplyAnalysis(w, e) => UNCHANGED requests
      BY DEF PublishFlagged, ClaimConsumerCrash, SkipAnalyzed, ApplyAnalysis
<1>7. Notify => UNCHANGED requests
      BY DEF Notify, NotifyFlagged, NotifyAnalyzed
<1>8. UNCHANGED vars => UNCHANGED requests
      BY DEF vars, pipeline
<1> QED BY <1>1, <1>2, <1>3, <1>4, <1>5, <1>6, <1>7, <1>8 DEF Next, HttpStep, ClaimConsumerStep

LEMMA ResultsTrackedNext ==
    TypeOK /\ Owned /\ ResultsTracked /\ [Next]_vars => ResultsTracked'
<1> SUFFICES ASSUME TypeOK, Owned, ResultsTracked, [Next]_vars,
                    NEW c \in Claims, Waiting(c)'
             PROVE  /\ losses' = 0 => \A w \in AiWorkers :
                          /\ analysis'[w] # Idle
                          /\ analysis'[w].next = "publish flagged"
                          /\ analysis'[w].event.claim = c
                          => ResultUnderWay(c)'
                    /\ \A w \in ClaimWorkers : flagging'[w] # Idle => flagging'[w].claim # c
    BY DEF ResultsTracked
<1>1. WorkArrivals
      BY WorkerArrivals
<1>2. ASSUME losses' = 0, NEW w \in AiWorkers, analysis'[w] # Idle,
             analysis'[w].next = "publish flagged", analysis'[w].event.claim = c
      PROVE  ResultUnderWay(c)'
  <2>1. /\ analysis[w] # Idle
        /\ analysis[w].event.claim = c
        /\ analysis'[w] = analysis[w] \/ PublishAnalyzed(w)
        BY <1>1, <1>2 DEF WorkArrivals
  <2>2. issued[c] # NoCompany
    <3>1. analysis[w].event \in CreatedEvents
          BY <2>1 DEF TypeOK, Work
    <3> QED BY <2>1, <3>1, ValuesAssumption DEF Owned, Own, CreatedEvents
  <2>3. CASE analysis'[w] = analysis[w]
    <3>1. Waiting(c) /\ losses = 0
          BY <1>2, <2>2, WaitingKept, NoLossBefore
    <3>2. ResultUnderWay(c)
          BY <1>2, <2>1, <2>3, <3>1 DEF ResultsTracked
    <3> QED BY <1>2, <2>2, <3>2, ResultKept
  <2>4. CASE PublishAnalyzed(w)
    <3>1. pending \in Topics /\ analysis[w] \in Work /\ analysis[w].next = "publish analyzed"
          BY <2>4 DEF PublishAnalyzed, TypeOK
    <3>2. Result(w) \in AnalyzedEvents
          BY <3>1, EventTypes DEF Result, Work, CreatedEvents
    <3>3. Publish(Result(w)) = [pending EXCEPT !.claims = @ \union {Result(w)},
                                               !.dashboards = @ \union {Result(w)}]
          BY <3>1, <3>2, PublishResult DEF ResultEvents
    <3>4. pending' = Publish(Result(w))
          BY <1>2, <2>4, NoLossBefore DEF PublishAnalyzed, Result
    <3>5. Result(w) \in pending'.claims
          BY <3>1, <3>3, <3>4 DEF Topics
    <3>6. Result(w).type = "claim.analyzed" /\ Result(w).claim = c
          BY <2>1 DEF Result, Analyzed
    <3> QED BY <3>5, <3>6 DEF ResultUnderWay
  <2> QED BY <2>1, <2>3, <2>4
<1>3. ASSUME NEW w \in ClaimWorkers, flagging'[w] # Idle, flagging'[w].claim = c
      PROVE  FALSE
  <2>1. CASE flagging'[w] = flagging[w]
    <3>1. flagging[w] \in AnalyzedEvents /\ flagging[w] # Idle /\ flagging[w].claim = c
          BY <1>3, <2>1 DEF TypeOK
    <3>2. issued[c] # NoCompany
          BY <3>1, ValuesAssumption DEF Owned, Own, AnalyzedEvents
    <3>3. Waiting(c)
          BY <3>2, WaitingKept
    <3> QED BY <3>1, <3>3 DEF ResultsTracked
  <2>2. CASE flagging'[w] # flagging[w]
    <3>1. PICK e \in pending.claims : ApplyAnalysis(w, e) /\ flagging'[w] = e
          BY <1>1, <1>3, <2>2 DEF WorkArrivals
    <3>2. e \in AnalyzedEvents
          BY <3>1 DEF ApplyAnalysis, TypeOK, Topics, ResultEvents, ReviewEvents
    <3>3. issued[c] # NoCompany
          BY <1>3, <3>1, <3>2, ValuesAssumption DEF Owned, Own, AnalyzedEvents
    <3> QED BY <1>3, <3>1, <3>3, WaitingKept
  <2> QED BY <2>1, <2>2
<1> QED BY <1>2, <1>3

LEMMA PendingTrackedNext ==
    TypeOK /\ Owned /\ ResultsTracked /\ PendingTracked /\ [Next]_vars => PendingTracked'
<1> SUFFICES ASSUME TypeOK, Owned, ResultsTracked, PendingTracked, [Next]_vars,
                    losses' = 0, NEW c \in Claims, Waiting(c)'
             PROVE  c \in deadLetters' \/ CreationUnderWay(c)' \/ ResultUnderWay(c)'
    BY DEF PendingTracked, Waiting, CreationUnderWay, ResultUnderWay
<1>1. losses = 0 /\ ~Loss
      BY NoLossBefore
<1>2. CASE issued[c] = NoCompany
  <2>1. row[c] = NoRow
        BY <1>2, ValuesAssumption DEF Owned, TypeOK, Rows
  <2>2. PICK d \in Claims, k \in Companies : CreateClaim(d, k)
    <3>1. row'[c] # row[c]
          BY <2>1 DEF Waiting
    <3>2. /\ \A d \in Claims, decision \in Decisions : ~(ReviewClaim(d, decision) /\ d = c)
          /\ \A d \in Claims : DeleteClaim(d) => d # c
          /\ \A w \in ClaimWorkers : \A e \in pending.claims : ApplyAnalysis(w, e) => e.claim # c
          BY <2>1 DEF ReviewClaim, DeleteClaim, ApplyAnalysis
    <3>3. /\ \A d \in Claims, decision \in Decisions : ~ReviewClaim(d, decision)
          /\ \A d \in Claims : ~DeleteClaim(d)
          /\ \A w \in ClaimWorkers : \A e \in pending.claims : ~ApplyAnalysis(w, e)
          BY <3>1, <3>2 DEF ReviewClaim, DeleteClaim, ApplyAnalysis, TypeOK
    <3> QED BY <3>1, <3>3, RowSteps
  <2>3. c = d
        BY <2>1, <2>2 DEF CreateClaim, TypeOK, Waiting
  <2> DEFINE r == [step |-> "publish", event |-> Created(c, k, FALSE)]
  <2>4. r \in requests'
        BY <2>2, <2>3 DEF CreateClaim
  <2>5. r.step = "publish" /\ r.event.type = "claim.created" /\ r.event.claim = c
        BY DEF Created
  <2> QED BY <2>4, <2>5 DEF CreationUnderWay
<1>3. CASE issued[c] # NoCompany
  <2>1. Waiting(c)
        BY <1>3, WaitingKept
  <2>2. c \in deadLetters \/ CreationUnderWay(c) \/ ResultUnderWay(c)
        BY <1>1, <2>1 DEF PendingTracked, Waiting, CreationUnderWay, ResultUnderWay
  <2>3. CASE c \in deadLetters
        BY <2>3, DeadLettersKept
  <2>4. CASE ResultUnderWay(c)
        BY <1>3, <2>4, ResultKept
  <2>5. CASE \E r \in requests : /\ r.step = "publish"
                                 /\ r.event.type = "claim.created"
                                 /\ r.event.claim = c
    <3>1. PICK r \in requests : /\ r.step = "publish"
                                /\ r.event.type = "claim.created"
                                /\ r.event.claim = c
          BY <2>5
    <3>2. CASE r \in requests'
          BY <3>1, <3>2 DEF CreationUnderWay
    <3>3. CASE r \notin requests'
      <4>1. FinishRequest(r)
            BY <3>1, <3>3, RequestsKept
      <4>2. pending \in Topics /\ r.event \in CreatedEvents
            BY <3>1 DEF TypeOK, Requests, ReviewEvents
      <4>3. pending' = [pending EXCEPT !.ai = @ \union {r.event}]
            BY <1>1, <4>1, <4>2, PublishCreated DEF FinishRequest
      <4>4. r.event \in pending'.ai
            BY <4>2, <4>3 DEF Topics
      <4> QED BY <3>1, <4>4 DEF CreationUnderWay
    <3> QED BY <3>2, <3>3
  <2>6. CASE \E e \in pending.ai : e.claim = c
    <3>1. PICK e \in pending.ai : e.claim = c
          BY <2>6
    <3>2. CASE e \in pending'.ai
          BY <3>1, <3>2 DEF CreationUnderWay
    <3>3. CASE e \notin pending'.ai
      <4>1. PICK w \in AiWorkers : /\ AnalyzeFails(w) \/ FinishAnalysis(w)
                                   /\ e = analysis[w].event
            BY <3>3, TopicTraffic DEF Traffic
      <4>2. CASE AnalyzeFails(w)
            BY <1>1, <3>1, <4>1, <4>2 DEF AnalyzeFails
      <4>3. CASE FinishAnalysis(w)
        <5>1. ResultUnderWay(c)
              BY <1>1, <2>1, <3>1, <4>1, <4>3 DEF FinishAnalysis, ResultsTracked
        <5> QED BY <1>3, <5>1, ResultKept
      <4> QED BY <4>1, <4>2, <4>3
    <3> QED BY <3>2, <3>3
  <2> QED BY <2>2, <2>3, <2>4, <2>5, <2>6 DEF CreationUnderWay
<1> QED BY <1>2, <1>3

-----------------------------------------------------------------------------
(* The theorems. *)

LEMMA InitIInv == Init => IInv
<1> SUFFICES ASSUME Init PROVE IInv
    OBVIOUS
<1>1. TypeOK
      BY TypeInit
<1>2. Owned /\ Backed /\ ResultsTracked
      BY DEF Init, Owned, Backed, ResultsTracked, Waiting
<1>3. StatusExplained /\ AlertsJustified /\ DashboardsSeeOwnClaims /\ PendingTracked
      BY DEF Init, StatusExplained, AlertsJustified, DashboardsSeeOwnClaims, PendingTracked
<1> QED BY <1>1, <1>2, <1>3 DEF IInv

LEMMA NextIInv == IInv /\ [Next]_vars => IInv'
BY TypeNext, StatusNext, OwnedNext, BackedNext, ResultsTrackedNext, AlertsNext,
   DashboardsNext, PendingTrackedNext
   DEF IInv

THEOREM Invariance == Spec => []IInv
BY InitIInv, NextIInv, PTL DEF Spec

\* No status without what it stands for, however many results and decisions
\* overtake each other, and however the column rounds the scores.
THEOREM Explained == Spec => []StatusExplained
<1>1. IInv => StatusExplained
      BY DEF IInv
<1> QED BY <1>1, Invariance, PTL

\* Whatever is lost, repeated or deleted, analysts are alerted only of high
\* scores the AI gave that very claim.
THEOREM NoFalseAlarm == Spec => []AlertsJustified
<1>1. IInv => AlertsJustified
      BY DEF IInv
<1> QED BY <1>1, Invariance, PTL

\* No company's dashboard is ever sent an event of another company's claim.
THEOREM TenantsApart == Spec => []DashboardsSeeOwnClaims
<1>1. IInv => DashboardsSeeOwnClaims
      BY DEF IInv
<1> QED BY <1>1, Invariance, PTL

\* However many workers crash, a claim is not forgotten while publishes and
\* updates succeed.
THEOREM NoClaimForgotten == Spec => []PendingTracked
<1>1. IInv => PendingTracked
      BY DEF IInv
<1> QED BY <1>1, Invariance, PTL

\* The pipeline is, to the claims table, the lifecycle of ClaimLifecycle.
LEMMA StepImplementsLifecycle ==
    IInv /\ [Next]_vars => [Lifecycle!Next]_(Lifecycle!vars)
<1> SUFFICES ASSUME IInv, [Next]_vars
             PROVE  Lifecycle!Next \/ UNCHANGED <<row, issued, scored>>
    BY DEF Lifecycle!vars
<1> USE DEF IInv
<1>1. ASSUME NEW c \in Claims, NEW k \in Companies, CreateClaim(c, k)
      PROVE  Lifecycle!Next
  <2>1. Lifecycle!Create(c, k)
        BY <1>1 DEF CreateClaim, Lifecycle!Create
  <2> QED BY <2>1 DEF Lifecycle!Next
<1>2. ASSUME NEW c \in Claims, NEW d \in Decisions, ReviewClaim(c, d)
      PROVE  Lifecycle!Next
  <2>1. Lifecycle!Review(c, d)
        BY <1>2 DEF ReviewClaim, Lifecycle!Review, history
  <2>2. d \in Lifecycle!Decisions
        BY DEF Decisions, Lifecycle!Decisions
  <2> QED BY <2>1, <2>2 DEF Lifecycle!Next
<1>3. ASSUME NEW c \in Claims, DeleteClaim(c)
      PROVE  Lifecycle!Next
  <2>1. Lifecycle!Delete(c)
        BY <1>3 DEF DeleteClaim, Lifecycle!Delete, history
  <2> QED BY <2>1 DEF Lifecycle!Next
<1>4. ASSUME NEW w \in ClaimWorkers, NEW e \in pending.claims, ApplyAnalysis(w, e)
      PROVE  Lifecycle!Next
  <2>1. e \in AnalyzedEvents
        BY <1>4 DEF ApplyAnalysis, TypeOK, Topics, ResultEvents, ReviewEvents
  <2>2. e.claim \in Claims /\ e.score \in Scores
        BY <2>1 DEF AnalyzedEvents
  <2>3. e.score \in scored[e.claim] /\ row[e.claim] # NoRow
        BY <1>4 DEF ApplyAnalysis, Backed
  <2>4. row[e.claim] \in Rows
        BY <2>2, <2>3 DEF TypeOK
  <2>5. Stored(e.score) \in (e.score - 4)..(e.score + 5) /\ Stored(e.score) % 10 = 0
        BY <2>2, ScoresAssumption, Rounding
  <2>6. row' = [row EXCEPT ![e.claim] =
                  [row[e.claim] EXCEPT !.score = Stored(e.score),
                                       !.status = Lifecycle!Verdict(e.score)]]
        BY <1>4 DEF ApplyAnalysis, Verdict, Lifecycle!Verdict
  <2>7. row' = [row EXCEPT ![e.claim] =
                  [row[e.claim] EXCEPT !.status = Lifecycle!Verdict(e.score),
                                       !.score = Stored(e.score)]]
        BY <2>4, <2>6 DEF Rows
  <2>8. Lifecycle!Judge(e.claim, e.score)
        BY <1>4, <2>3, <2>5, <2>7 DEF ApplyAnalysis, Lifecycle!Judge, history
  <2> QED BY <2>2, <2>8 DEF Lifecycle!Next
<1>5. ASSUME NEW w \in AiWorkers, NEW s \in Scores, Analyze(w, s)
      PROVE  Lifecycle!Next
  <2> DEFINE c == analysis[w].event.claim
  <2>1. analysis[w].event \in CreatedEvents /\ Own(analysis[w].event)
        BY <1>5 DEF Analyze, TypeOK, Work, Owned
  <2>2. c \in Claims /\ issued[c] # NoCompany
        BY <2>1, ValuesAssumption DEF Own, CreatedEvents
  <2>3. Lifecycle!Score(c, s)
        BY <1>5, <2>2 DEF Analyze, Lifecycle!Score
  <2> QED BY <2>2, <2>3 DEF Lifecycle!Next
<1>6. CASE UNCHANGED <<row, issued, scored>>
      BY <1>6
<1> QED BY <1>1, <1>2, <1>3, <1>4, <1>5, <1>6, RowSteps, IssuedSteps, ScoredSteps

THEOREM LifecycleImplemented == Spec => ImplementsLifecycle
<1>1. Init => Lifecycle!Init
      BY DEF Init, Lifecycle!Init
<1> QED BY <1>1, Invariance, StepImplementsLifecycle, PTL
        DEF Spec, ImplementsLifecycle, Lifecycle!Spec

-----------------------------------------------------------------------------
(* FlaggedIsAnnounced.  Two workers stand behind every alert: the AI worker,  *)
(* which goes on to claim.flagged after it has published the result, and the  *)
(* consumer of claim-service, which has the result until it has published.    *)
(* A fault breaks off at most one of the two, so that until the first fault   *)
(* both can be counted on, and until the second at least one.                 *)

FlaggedNow(c) == row[c] # NoRow /\ row[c].status = "FLAGGED"
HighResult(c) == \E e \in pending.claims : /\ e.type = "claim.analyzed" /\ e.claim = c
                                           /\ e.score >= FlagThreshold

Told(c) == (\E a \in alerts : a[1] = c) \/ (\E e \in pending.alerts : e.claim = c)
AboutToTell(w, c) == /\ analysis[w] # Idle
                     /\ analysis[w].event.claim = c
                     /\ analysis[w].next = "publish flagged"
                     /\ analysis[w].score >= FlagThreshold
AiTells(c) == Told(c) \/ \E w \in AiWorkers : AboutToTell(w, c)
ClaimServiceTells(c) ==
    \/ Told(c)
    \/ \E w \in ClaimWorkers : flagging[w] # Idle /\ flagging[w].claim = c
    \/ \E e \in pending.claims : e.type = "claim.analyzed" /\ e.claim = c
                                   /\ e.score >= PublishThreshold

AiCountedOn == \A c \in Claims : FlaggedNow(c) \/ HighResult(c) => AiTells(c)
ClaimServiceCountedOn == \A c \in Claims : FlaggedNow(c) => ClaimServiceTells(c)

TwiceCovered ==
    /\ losses + crashes = 0 => AiCountedOn /\ ClaimServiceCountedOn
    /\ losses + crashes <= 1 => AiCountedOn \/ ClaimServiceCountedOn

\* What breaks off the one, and the other.
AiFault == \E w \in AiWorkers : AiCrash(w) \/ (FinishAnalysis(w) /\ Loss)
ClaimServiceFault ==
    \/ \E w \in ClaimWorkers : ClaimConsumerCrash(w) \/ (PublishFlagged(w) /\ Loss)
    \/ \E e \in pending.claims : SkipAnalyzed(e) /\ Loss

LEMMA ToldOn ==
    ASSUME TypeOK, [Next]_vars, NEW c \in Claims, Told(c)
    PROVE  Told(c)'
<1>1. alerts \subseteq alerts'
  <2>1. Notify => alerts \subseteq alerts'
        BY DEF Notify, NotifyFlagged, NotifyAnalyzed
  <2> QED BY <2>1, NotifySteps
<1>2. \A e \in pending.alerts :
         e \in pending'.alerts \/ \E p \in Pods : NotifyFlagged(p, e)
  <2>1. pending \in Topics
        BY DEF TypeOK
  <2>2. CASE UNCHANGED pending
        BY <2>2
  <2>3. ASSUME NEW r \in requests, FinishRequest(r)
        PROVE  pending.alerts \subseteq pending'.alerts
    <3>1. r.event \in CreatedEvents \union ReviewEvents
          BY <2>3 DEF FinishRequest, TypeOK, Requests
    <3>2. CASE r.event \in CreatedEvents
      <4>1. Publish(r.event) = [pending EXCEPT !.ai = @ \union {r.event}]
            BY <2>1, <3>2, PublishCreated
      <4> QED BY <2>1, <2>3, <4>1 DEF FinishRequest, Topics
    <3>3. CASE r.event \in ReviewEvents
      <4>1. Publish(r.event) = [pending EXCEPT !.claims = @ \union {r.event},
                                               !.dashboards = @ \union {r.event}]
            BY <2>1, <3>3, PublishResult DEF ResultEvents
      <4> QED BY <2>1, <2>3, <4>1 DEF FinishRequest, Topics
    <3> QED BY <3>1, <3>2, <3>3
  <2>4. ASSUME NEW w \in AiWorkers, AnalyzeFails(w)
        PROVE  pending.alerts \subseteq pending'.alerts
        BY <2>1, <2>4 DEF AnalyzeFails, Topics
  <2>5. ASSUME NEW w \in AiWorkers, PublishAnalyzed(w)
        PROVE  pending.alerts \subseteq pending'.alerts
    <3>1. analysis[w] \in Work /\ analysis[w].next = "publish analyzed"
          BY <2>5 DEF PublishAnalyzed, TypeOK
    <3>2. Result(w) \in AnalyzedEvents
          BY <3>1, EventTypes DEF Result, Work, CreatedEvents
    <3>3. Publish(Result(w)) = [pending EXCEPT !.claims = @ \union {Result(w)},
                                               !.dashboards = @ \union {Result(w)}]
          BY <2>1, <3>2, PublishResult DEF ResultEvents
    <3>4. pending' = Publish(Result(w)) \/ UNCHANGED pending
          BY <2>5 DEF PublishAnalyzed, Result
    <3> QED BY <2>1, <3>3, <3>4 DEF Topics
  <2>6. ASSUME NEW w \in AiWorkers, FinishAnalysis(w)
        PROVE  pending.alerts \subseteq pending'.alerts
    <3>1. analysis[w] \in Work /\ analysis[w].next = "publish flagged"
          BY <2>6 DEF FinishAnalysis, TypeOK
    <3>2. AiAlert(w) \in FlaggedEvents
          BY <3>1, EventTypes DEF AiAlert, Work, CreatedEvents
    <3>3. Publish(AiAlert(w)) = [pending EXCEPT !.alerts = @ \union {AiAlert(w)}]
          BY <2>1, <3>2, PublishAlert
    <3>4. \/ pending' = [pending EXCEPT !.ai = @ \ {analysis[w].event}]
          \/ pending' = [Publish(AiAlert(w)) EXCEPT !.ai = @ \ {analysis[w].event}]
          BY <2>6 DEF FinishAnalysis, AiAlert
    <3> QED BY <2>1, <3>3, <3>4 DEF Topics
  <2>7. ASSUME NEW w \in ClaimWorkers, PublishFlagged(w)
        PROVE  pending.alerts \subseteq pending'.alerts
    <3>1. flagging[w] \in AnalyzedEvents
          BY <2>7 DEF PublishFlagged, TypeOK
    <3>2. ClaimAlert(w) \in FlaggedEvents
          BY <3>1, EventTypes DEF ClaimAlert, AnalyzedEvents
    <3>3. Publish(ClaimAlert(w)) = [pending EXCEPT !.alerts = @ \union {ClaimAlert(w)}]
          BY <2>1, <3>2, PublishAlert
    <3>4. \/ pending' = [pending EXCEPT !.claims = @ \ {flagging[w]}]
          \/ pending' = [Publish(ClaimAlert(w)) EXCEPT !.claims = @ \ {flagging[w]}]
          BY <2>7 DEF PublishFlagged, ClaimAlert
    <3> QED BY <2>1, <3>3, <3>4 DEF Topics
  <2>8. /\ \A w \in ClaimWorkers : \A e \in pending.claims :
              ApplyAnalysis(w, e) => pending'.alerts = pending.alerts
        /\ \A e \in pending.claims : SkipAnalyzed(e) => pending'.alerts = pending.alerts
        /\ \A p \in Pods : \A e \in pending.dashboards :
              NotifyAnalyzed(p, e) => pending'.alerts = pending.alerts
        BY <2>1 DEF ApplyAnalysis, SkipAnalyzed, NotifyAnalyzed, Topics
  <2>9. \A p \in Pods : \A e \in pending.alerts :
           NotifyFlagged(p, e) => pending.alerts \ {e} \subseteq pending'.alerts
        BY <2>1 DEF NotifyFlagged, Topics
  <2> QED BY <2>2, <2>3, <2>4, <2>5, <2>6, <2>7, <2>8, <2>9, PendingSteps
<1>3. CASE \E a \in alerts : a[1] = c
      BY <1>1, <1>3 DEF Told
<1>4. CASE \E e \in pending.alerts : e.claim = c
  <2>1. PICK e \in pending.alerts : e.claim = c
        BY <1>4
  <2>2. CASE e \in pending'.alerts
        BY <2>1, <2>2 DEF Told
  <2>3. ASSUME NEW p \in Pods, NotifyFlagged(p, e)
        PROVE  Told(c)'
    <3>1. <<c, e.score>> \in alerts'
          BY <2>1, <2>3 DEF NotifyFlagged
    <3> QED BY <3>1 DEF Told
  <2> QED BY <1>2, <2>1, <2>2, <2>3
<1> QED BY <1>3, <1>4 DEF Told

\* A claim is FLAGGED by a high result that was waiting for it.
LEMMA FlaggedByResult ==
    ASSUME TypeOK, [Next]_vars, NEW c \in Claims, FlaggedNow(c)', ~FlaggedNow(c)
    PROVE  \E w \in ClaimWorkers : \E e \in pending.claims :
              /\ ApplyAnalysis(w, e)
              /\ e.type = "claim.analyzed" /\ e.claim = c /\ e.score >= FlagThreshold
<1>1. row \in [Claims -> Rows \union {NoRow}]
      BY DEF TypeOK
<1>2. row'[c] # row[c]
      BY DEF FlaggedNow
<1>3. ASSUME NEW d \in Claims, NEW k \in Companies, CreateClaim(d, k)
      PROVE  FALSE
  <2>1. d = c
        BY <1>1, <1>2, <1>3 DEF CreateClaim
  <2>2. row'[c].status = "PENDING"
        BY <1>1, <1>3, <2>1 DEF CreateClaim
  <2> QED BY <2>2 DEF FlaggedNow
<1>4. ASSUME NEW d \in Claims, NEW decision \in Decisions, ReviewClaim(d, decision)
      PROVE  FALSE
  <2>1. d = c
        BY <1>1, <1>2, <1>4 DEF ReviewClaim
  <2>2. row[c] \in Rows
        BY <1>1, <1>4, <2>1 DEF ReviewClaim
  <2>3. row'[c].status = decision
        BY <1>1, <1>4, <2>1, <2>2 DEF ReviewClaim, Rows
  <2> QED BY <2>3 DEF FlaggedNow, Decisions
<1>5. \A d \in Claims : ~DeleteClaim(d)
      BY <1>1, <1>2 DEF DeleteClaim, FlaggedNow
<1>6. ASSUME NEW w \in ClaimWorkers, NEW e \in pending.claims, ApplyAnalysis(w, e)
      PROVE  e.type = "claim.analyzed" /\ e.claim = c /\ e.score >= FlagThreshold
  <2>1. e.type = "claim.analyzed" /\ e.claim = c
        BY <1>1, <1>2, <1>6 DEF ApplyAnalysis
  <2>2. row[c] \in Rows
        BY <1>1, <1>6, <2>1 DEF ApplyAnalysis
  <2>3. row'[c].status = Verdict(e.score)
        BY <1>1, <1>6, <2>1, <2>2 DEF ApplyAnalysis, Rows
  <2> QED BY <2>1, <2>3 DEF FlaggedNow, Verdict
<1> QED BY <1>2, <1>3, <1>4, <1>5, <1>6, RowSteps

LEMMA AiTellsOn ==
    ASSUME TypeOK, [Next]_vars, ~AiFault, NEW c \in Claims, AiTells(c)
    PROVE  AiTells(c)'
<1>1. CASE Told(c)
      BY <1>1, ToldOn DEF AiTells
<1>2. ASSUME NEW w \in AiWorkers, AboutToTell(w, c)
      PROVE  AiTells(c)'
  <2>1. CASE analysis'[w] = analysis[w]
        BY <1>2, <2>1 DEF AboutToTell, AiTells
  <2>2. CASE analysis'[w] # analysis[w]
    <3>1. FinishAnalysis(w)
      <4>1. \A v \in AiWorkers : /\ \A e \in pending.ai : ~TakeCreated(v, e) \/ v # w
                                 /\ \A s \in Scores : ~Analyze(v, s) \/ v # w
                                 /\ ~AnalyzeFails(v) \/ v # w
                                 /\ ~PublishAnalyzed(v) \/ v # w
                                 /\ ~AiCrash(v)
            BY <1>2 DEF AboutToTell, TakeCreated, Analyze, AnalyzeFails, PublishAnalyzed,
                        AiFault
      <4>2. \A v \in AiWorkers :
               (\/ \E e \in pending.ai : TakeCreated(v, e)
                \/ \E s \in Scores : Analyze(v, s)
                \/ AnalyzeFails(v) \/ PublishAnalyzed(v) \/ FinishAnalysis(v)) => v = w
            BY <2>2 DEF TypeOK, TakeCreated, Analyze, AnalyzeFails, PublishAnalyzed,
                        FinishAnalysis
      <4>3. \A v \in ClaimWorkers :
               (\/ \E e \in pending.claims : ApplyAnalysis(v, e)
                \/ PublishFlagged(v) \/ ClaimConsumerCrash(v)) => UNCHANGED analysis
            BY DEF ApplyAnalysis, PublishFlagged, ClaimConsumerCrash
      <4> QED BY <2>2, <4>1, <4>2, <4>3, WorkSteps
    <3>2. analysis[w] \in Work /\ analysis[w].next = "publish flagged"
          BY <3>1 DEF FinishAnalysis, TypeOK
    <3>3. AiAlert(w) \in FlaggedEvents /\ AiAlert(w).claim = c
          BY <1>2, <3>2, EventTypes DEF AiAlert, Work, CreatedEvents, AboutToTell, Flagged
    <3>4. pending \in Topics
          BY DEF TypeOK
    <3>5. Publish(AiAlert(w)) = [pending EXCEPT !.alerts = @ \union {AiAlert(w)}]
          BY <3>3, <3>4, PublishAlert
    <3>6. analysis[w].score >= FlagThreshold /\ analysis[w].score \in Nat
          BY <1>2, <3>2, ScoresAssumption DEF AboutToTell, Work
    <3>7. pending' = [Publish(AiAlert(w)) EXCEPT !.ai = @ \ {analysis[w].event}]
      <4>1. ~(analysis[w].score < FlagThreshold)
            BY <3>6, ScoresAssumption
      <4>2. ~Loss
            BY <3>1 DEF AiFault
      <4> QED BY <3>1, <4>1, <4>2 DEF FinishAnalysis, AiAlert
    <3>8. AiAlert(w) \in pending'.alerts
          BY <3>4, <3>5, <3>7 DEF Topics
    <3> QED BY <3>3, <3>8 DEF AiTells, Told
  <2> QED BY <2>1, <2>2
<1> QED BY <1>1, <1>2 DEF AiTells

LEMMA AiCountedOnNext ==
    TypeOK /\ AiCountedOn /\ [Next]_vars /\ ~AiFault => AiCountedOn'
<1> SUFFICES ASSUME TypeOK, AiCountedOn, [Next]_vars, ~AiFault,
                    NEW c \in Claims, FlaggedNow(c)' \/ HighResult(c)'
             PROVE  AiTells(c)'
    BY DEF AiCountedOn
<1>1. CASE FlaggedNow(c) \/ HighResult(c)
      BY <1>1, AiTellsOn DEF AiCountedOn
<1>2. CASE ~FlaggedNow(c) /\ ~HighResult(c)
  <2>1. HighResult(c)'
        BY <1>2, FlaggedByResult DEF HighResult
  <2>2. PICK e \in pending'.claims : /\ e.type = "claim.analyzed" /\ e.claim = c
                                     /\ e.score >= FlagThreshold
        BY <2>1 DEF HighResult
  <2>3. e \notin pending.claims
        BY <1>2, <2>2 DEF HighResult
  <2>4. ~ \E r \in requests : r.step = "publish" /\ e = r.event
        BY <2>2 DEF TypeOK, Requests, CreatedEvents, ReviewEvents
  <2>5. PICK w \in AiWorkers : PublishAnalyzed(w) /\ e = Result(w)
        BY <2>2, <2>3, <2>4, TopicTraffic DEF Traffic
  <2>6. analysis[w] \in Work
        BY <2>5 DEF PublishAnalyzed, TypeOK
  <2>7. analysis[w].event.claim = c /\ analysis[w].score >= FlagThreshold
        BY <2>2, <2>5 DEF Result, Analyzed
  <2>8. /\ analysis'[w].event = analysis[w].event
        /\ analysis'[w].next = "publish flagged"
        /\ analysis'[w].score = analysis[w].score
        /\ analysis'[w] # Idle
    <3>1. analysis' = [analysis EXCEPT ![w].next = "publish flagged"]
          BY <2>5 DEF PublishAnalyzed
    <3>2. [analysis[w] EXCEPT !.next = "publish flagged"] \in Work
          BY <2>5, <2>6 DEF PublishAnalyzed, Work
    <3>3. analysis'[w] = [analysis[w] EXCEPT !.next = "publish flagged"]
          BY <3>1 DEF TypeOK
    <3> QED BY <2>6, <3>2, <3>3, ValuesAssumption DEF Work
  <2>9. AboutToTell(w, c)'
        BY <2>7, <2>8 DEF AboutToTell
  <2> QED BY <2>9 DEF AiTells
<1> QED BY <1>1, <1>2

LEMMA ClaimServiceTellsOn ==
    ASSUME TypeOK, [Next]_vars, ~ClaimServiceFault, NEW c \in Claims,
           ClaimServiceTells(c), row[c] # NoRow
    PROVE  ClaimServiceTells(c)'
<1>1. CASE Told(c)
      BY <1>1, ToldOn DEF ClaimServiceTells
<1>2. ASSUME NEW w \in ClaimWorkers, PublishFlagged(w), flagging[w].claim = c
      PROVE  ClaimServiceTells(c)'
  <2>1. flagging[w] \in AnalyzedEvents /\ pending \in Topics
        BY <1>2 DEF PublishFlagged, TypeOK
  <2>2. ClaimAlert(w) \in FlaggedEvents /\ ClaimAlert(w).claim = c
        BY <1>2, <2>1, EventTypes DEF ClaimAlert, AnalyzedEvents, Flagged
  <2>3. Publish(ClaimAlert(w)) = [pending EXCEPT !.alerts = @ \union {ClaimAlert(w)}]
        BY <2>1, <2>2, PublishAlert
  <2>4. pending' = [Publish(ClaimAlert(w)) EXCEPT !.claims = @ \ {flagging[w]}]
        BY <1>2 DEF PublishFlagged, ClaimAlert, ClaimServiceFault
  <2>5. ClaimAlert(w) \in pending'.alerts
        BY <2>1, <2>3, <2>4 DEF Topics
  <2> QED BY <2>2, <2>5 DEF ClaimServiceTells, Told
<1>3. ASSUME NEW w \in ClaimWorkers, flagging[w] # Idle, flagging[w].claim = c
      PROVE  ClaimServiceTells(c)'
  <2>1. CASE flagging'[w] = flagging[w]
        BY <1>3, <2>1 DEF ClaimServiceTells
  <2>2. CASE flagging'[w] # flagging[w]
    <3>1. \A v \in AiWorkers :
             (\/ \E e \in pending.ai : TakeCreated(v, e)
              \/ \E s \in Scores : Analyze(v, s)
              \/ AnalyzeFails(v) \/ PublishAnalyzed(v) \/ FinishAnalysis(v) \/ AiCrash(v))
             => UNCHANGED flagging
          BY DEF TakeCreated, Analyze, AnalyzeFails, PublishAnalyzed, FinishAnalysis, AiCrash
    <3>2. \A v \in ClaimWorkers :
             /\ \A e \in pending.claims : ApplyAnalysis(v, e) => v # w
             /\ ~ClaimConsumerCrash(v)
          BY <1>3 DEF ApplyAnalysis, ClaimServiceFault
    <3>3. \A v \in ClaimWorkers :
             (PublishFlagged(v) \/ \E e \in pending.claims : ApplyAnalysis(v, e)) => v = w
          BY <2>2 DEF TypeOK, ApplyAnalysis, PublishFlagged
    <3>4. PublishFlagged(w)
          BY <2>2, <3>1, <3>2, <3>3, WorkSteps
    <3> QED BY <1>2, <1>3, <3>4
  <2> QED BY <2>1, <2>2
<1>4. ASSUME NEW e \in pending.claims, e.type = "claim.analyzed", e.claim = c,
             e.score >= PublishThreshold
      PROVE  ClaimServiceTells(c)'
  <2>1. CASE e \in pending'.claims
        BY <1>4, <2>1 DEF ClaimServiceTells
  <2>2. ASSUME NEW w \in ClaimWorkers, ApplyAnalysis(w, e)
        PROVE  ClaimServiceTells(c)'
    <3>1. e \in AnalyzedEvents
          BY <1>4, <2>2 DEF TypeOK, Topics, ResultEvents, ReviewEvents
    <3>2. ~(e.score < PublishThreshold)
          BY <1>4, <3>1, ScoresAssumption DEF AnalyzedEvents
    <3>3. flagging' = [flagging EXCEPT ![w] = e]
          BY <2>2, <3>2 DEF ApplyAnalysis
    <3>4. flagging'[w] = e /\ e # Idle
          BY <3>1, <3>3, ValuesAssumption DEF TypeOK
    <3> QED BY <1>4, <3>4 DEF ClaimServiceTells
  <2>3. ~SkipAnalyzed(e)
        BY <1>4 DEF SkipAnalyzed, ClaimServiceFault
  <2>4. ASSUME NEW w \in ClaimWorkers, PublishFlagged(w), e = flagging[w]
        PROVE  ClaimServiceTells(c)'
        BY <1>2, <1>4, <2>4
  <2> QED BY <2>1, <2>2, <2>3, <2>4, TopicTraffic DEF Traffic
<1> QED BY <1>1, <1>3, <1>4 DEF ClaimServiceTells

LEMMA ClaimServiceCountedOnNext ==
    ASSUME PublishThreshold <= FlagThreshold
    PROVE  TypeOK /\ ClaimServiceCountedOn /\ [Next]_vars /\ ~ClaimServiceFault
           => ClaimServiceCountedOn'
<1> SUFFICES ASSUME TypeOK, ClaimServiceCountedOn, [Next]_vars, ~ClaimServiceFault,
                    NEW c \in Claims, FlaggedNow(c)'
             PROVE  ClaimServiceTells(c)'
    BY DEF ClaimServiceCountedOn
<1>1. CASE FlaggedNow(c)
      BY <1>1, ClaimServiceTellsOn DEF ClaimServiceCountedOn, FlaggedNow
<1>2. CASE ~FlaggedNow(c)
  <2>1. PICK w \in ClaimWorkers : \E e \in pending.claims :
                /\ ApplyAnalysis(w, e)
                /\ e.type = "claim.analyzed" /\ e.claim = c /\ e.score >= FlagThreshold
        BY <1>2, FlaggedByResult
  <2>2. PICK e \in pending.claims :
                /\ ApplyAnalysis(w, e)
                /\ e.type = "claim.analyzed" /\ e.claim = c /\ e.score >= FlagThreshold
        BY <2>1
  <2>3. e \in AnalyzedEvents
        BY <2>2 DEF TypeOK, Topics, ResultEvents, ReviewEvents
  <2>4. e.score >= PublishThreshold
    <3>1. e.score \in Nat /\ PublishThreshold \in Nat /\ FlagThreshold \in Nat
          BY <2>3, ScoresAssumption DEF AnalyzedEvents
    <3>2. e.score >= FlagThreshold
          BY <2>2
    <3> QED BY <3>1, <3>2
  <2>5. row[c] # NoRow
        BY <2>2 DEF ApplyAnalysis
  <2>6. ClaimServiceTells(c)
        BY <2>2, <2>4 DEF ClaimServiceTells
  <2> QED BY <2>5, <2>6, ClaimServiceTellsOn
<1> QED BY <1>1, <1>2

\* A step has at most one fault, and that one breaks off at most one of the two.
LEMMA OneFaultAtATime ==
    ASSUME TypeOK, [Next]_vars
    PROVE  /\ losses \in Nat /\ crashes \in Nat
           /\ \/ UNCHANGED <<losses, crashes>>
              \/ losses' + crashes' = losses + crashes + 1
           /\ AiFault \/ ClaimServiceFault => losses' + crashes' = losses + crashes + 1
           /\ ~(AiFault /\ ClaimServiceFault)
<1>1. losses \in Nat /\ crashes \in Nat
      BY BoundsAssumption DEF TypeOK
<1>2. /\ Loss => losses' + crashes' = losses + crashes + 1
      /\ Crash => losses' + crashes' = losses + crashes + 1
      BY <1>1 DEF Loss, Crash
<1>3. Loss \/ Crash \/ UNCHANGED <<losses, crashes>>
  <2>1. /\ \A c \in Claims, k \in Companies : CreateClaim(c, k) => UNCHANGED <<losses, crashes>>
        /\ \A c \in Claims : UploadDocument(c) \/ Refetch(c) \/ DeleteClaim(c)
                             => UNCHANGED <<losses, crashes>>
        /\ \A c \in Claims : RereadClaim(c) => Loss \/ UNCHANGED <<losses, crashes>>
        /\ \A c \in Claims, d \in Decisions : ReviewClaim(c, d) => UNCHANGED <<losses, crashes>>
        /\ \A r \in requests : FinishRequest(r) => Loss \/ UNCHANGED <<losses, crashes>>
        BY DEF CreateClaim, UploadDocument, RereadClaim, Refetch, FinishRequest, DeleteClaim,
               ReviewClaim, bounds, NoFault
  <2>2. \A w \in AiWorkers :
           /\ \A e \in pending.ai : TakeCreated(w, e) => UNCHANGED <<losses, crashes>>
           /\ \A s \in Scores : Analyze(w, s) => UNCHANGED <<losses, crashes>>
           /\ AnalyzeFails(w) \/ PublishAnalyzed(w) \/ FinishAnalysis(w) \/ AiCrash(w)
              => Loss \/ Crash \/ UNCHANGED <<losses, crashes>>
        BY DEF TakeCreated, Analyze, AnalyzeFails, PublishAnalyzed, FinishAnalysis, AiCrash,
               bounds, NoFault
  <2>3. /\ \A w \in ClaimWorkers : PublishFlagged(w) \/ ClaimConsumerCrash(w)
                                   => Loss \/ Crash \/ UNCHANGED <<losses, crashes>>
        /\ \A e \in pending.claims :
              SkipAnalyzed(e) => Loss \/ UNCHANGED <<losses, crashes>>
        /\ \A w \in ClaimWorkers : \A e \in pending.claims :
              ApplyAnalysis(w, e) => UNCHANGED <<losses, crashes>>
        BY DEF PublishFlagged, ClaimConsumerCrash, SkipAnalyzed, ApplyAnalysis, bounds,
               NoFault
  <2>4. Notify => Crash \/ UNCHANGED <<losses, crashes>>
        BY DEF Notify, NotifyFlagged, NotifyAnalyzed, NoFault
  <2>5. UNCHANGED vars => UNCHANGED <<losses, crashes>>
        BY DEF vars, bounds
  <2> QED BY <2>1, <2>2, <2>3, <2>4, <2>5 DEF Next, HttpStep, AiStep, ClaimConsumerStep
<1>4. AiFault => Loss \/ Crash
      BY DEF AiFault, AiCrash
<1>5. ClaimServiceFault => Loss \/ Crash
      BY DEF ClaimServiceFault, ClaimConsumerCrash
<1>6. ~(AiFault /\ ClaimServiceFault)
  <2>1. ClaimServiceFault => UNCHANGED analysis
        BY DEF ClaimServiceFault, ClaimConsumerCrash, PublishFlagged, SkipAnalyzed
  <2>2. AiFault => ~UNCHANGED analysis
        BY DEF AiFault, AiCrash, FinishAnalysis, TypeOK
  <2> QED BY <2>1, <2>2
<1> QED BY <1>1, <1>2, <1>3, <1>4, <1>5, <1>6

LEMMA TwiceCoveredNext ==
    ASSUME PublishThreshold <= FlagThreshold
    PROVE  TypeOK /\ TwiceCovered /\ [Next]_vars => TwiceCovered'
<1> SUFFICES ASSUME TypeOK, TwiceCovered, [Next]_vars
             PROVE  TwiceCovered'
    OBVIOUS
<1> DEFINE faults == losses + crashes
<1>1. /\ AiCountedOn /\ ~AiFault => AiCountedOn'
      /\ ClaimServiceCountedOn /\ ~ClaimServiceFault => ClaimServiceCountedOn'
      BY AiCountedOnNext, ClaimServiceCountedOnNext
<1>2. /\ faults \in Nat
      /\ faults' = faults \/ faults' = faults + 1
      /\ AiFault \/ ClaimServiceFault => faults' = faults + 1
      /\ ~(AiFault /\ ClaimServiceFault)
      BY OneFaultAtATime
<1>3. /\ faults = 0 => AiCountedOn /\ ClaimServiceCountedOn
      /\ faults <= 1 => AiCountedOn \/ ClaimServiceCountedOn
      BY DEF TwiceCovered
<1>4. (faults = 0)' => /\ faults = 0
                       /\ ~AiFault /\ ~ClaimServiceFault
      BY <1>2
<1>5. (faults <= 1)' => \/ faults = 0
                        \/ faults <= 1 /\ ~AiFault /\ ~ClaimServiceFault
      BY <1>2
<1>6. (faults = 0)' => AiCountedOn' /\ ClaimServiceCountedOn'
      BY <1>1, <1>3, <1>4
<1>7. (faults <= 1)' => AiCountedOn' \/ ClaimServiceCountedOn'
      BY <1>1, <1>2, <1>3, <1>5
<1> QED BY <1>6, <1>7 DEF TwiceCovered

\* Whatever single fault hits the pipeline, an analyst learns of every FLAGGED claim,
\* as long as claim-service's own threshold (notification.fraud_threshold_flag, 0.80 in
\* config.go and in config.yaml) is not above the 0.80 of UpdateAnalysis: above it
\* claim-service leaves the scores in between to the AI worker alone.
THEOREM OneFaultStillAlerts ==
    ASSUME PublishThreshold <= FlagThreshold
    PROVE  Spec => []FlaggedIsAnnounced
<1>1. Init => TwiceCovered
      BY DEF Init, TwiceCovered, AiCountedOn, ClaimServiceCountedOn, FlaggedNow, HighResult
<1>2. TypeOK /\ TwiceCovered /\ [Next]_vars => TwiceCovered'
      BY TwiceCoveredNext
<1>3. TwiceCovered => FlaggedIsAnnounced
      BY DEF TwiceCovered, AiCountedOn, ClaimServiceCountedOn, FlaggedNow, AiTells,
             ClaimServiceTells, Told, AboutToTell, FlaggedIsAnnounced
<1> QED BY <1>1, <1>2, <1>3, TypeCorrect, PTL DEF Spec
=============================================================================
