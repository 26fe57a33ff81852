--------------------------- MODULE ClaimLifecycle ---------------------------
(***************************************************************************)
(* What a claim's row in PostgreSQL may do, seen by an analyst who knows   *)
(* nothing of Kafka: it is created PENDING, takes a verdict from a score   *)
(* the AI really gave that claim, takes the decisions of analysts, and is  *)
(* gone for good once deleted.  Events that are lost, repeated or reordered *)
(* on the way show only as verdicts that come late, again, or never.       *)
(* ClaimPipeline implements it.                                            *)
(***************************************************************************)
EXTENDS Integers

CONSTANTS Claims, Companies, Scores, FlagThreshold, NoRow, NoCompany

VARIABLES row,     \* row[c]: the claim's status, score and company, or NoRow
          issued,  \* issued[c]: the company that created c, or NoCompany
          scored   \* scored[c]: the scores the AI has given c

vars == <<row, issued, scored>>

Decisions == {"APPROVED", "REJECTED", "MORE_INFO"}

\* Scores are in ten-thousandths.
Verdict(s) == IF s >= FlagThreshold THEN "FLAGGED" ELSE "APPROVED"

Init ==
    /\ row = [c \in Claims |-> NoRow]
    /\ issued = [c \in Claims |-> NoCompany]
    /\ scored = [c \in Claims |-> {}]

Create(c, k) ==
    /\ issued[c] = NoCompany
    /\ issued' = [issued EXCEPT ![c] = k]
    /\ row' = [row EXCEPT ![c] =
                 [status |-> "PENDING", score |-> 0, company |-> k, analyst |-> FALSE]]
    /\ UNCHANGED scored

\* The AI works on every claim that was ever created, deleted ones included.
Score(c, s) ==
    /\ issued[c] # NoCompany
    /\ scored' = [scored EXCEPT ![c] = @ \union {s}]
    /\ UNCHANGED <<row, issued>>

\* A verdict rests on a score the claim was given, and replaces a decision too.  The
\* row shows the thousandth nearest to that score, half of one rounded up.
Judge(c, s) ==
    /\ row[c] # NoRow
    /\ s \in scored[c]
    /\ \E shown \in (s - 4)..(s + 5) :
          /\ shown % 10 = 0
          /\ row' = [row EXCEPT ![c].status = Verdict(s), ![c].score = shown]
    /\ UNCHANGED <<issued, scored>>

Review(c, decision) ==
    /\ row[c] # NoRow
    /\ row' = [row EXCEPT ![c].status = decision, ![c].analyst = TRUE]
    /\ UNCHANGED <<issued, scored>>

Delete(c) ==
    /\ row[c] # NoRow
    /\ row' = [row EXCEPT ![c] = NoRow]
    /\ UNCHANGED <<issued, scored>>

Next ==
    \E c \in Claims :
       \/ \E k \in Companies : Create(c, k)
       \/ \E s \in Scores : Score(c, s) \/ Judge(c, s)
       \/ \E decision \in Decisions : Review(c, decision)
       \/ Delete(c)

Spec == Init /\ [][Next]_vars
=============================================================================
