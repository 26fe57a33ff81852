------------------------------ MODULE Sessions ------------------------------
(* What auth-service promises of a session: it begins with a sign-in, lasts  *)
(* over any number of token exchanges, and once it is over it stays over.    *)
(* A session is named by the refresh token the sign-in produced.             *)
CONSTANT Tokens

VARIABLE session

SessionStates == {"new", "open", "over"}

Init == session = [s \in Tokens |-> "new"]

\* A sign-in (Register, Login, HandleOAuth) produced its token pair. If the token
\* could not be stored, the session is over at once.
Begin(s) ==
    /\ session[s] = "new"
    /\ \E state \in {"open", "over"} : session' = [session EXCEPT ![s] = state]

\* Logout, logout-all, expiry, deletion of the user or a failure.
End(S) ==
    /\ \A s \in S : session[s] = "open"
    /\ session' = [s \in Tokens |-> IF s \in S THEN "over" ELSE session[s]]

Next ==
    \/ \E s \in Tokens : Begin(s)
    \/ \E S \in SUBSET Tokens : End(S)

Spec == Init /\ [][Next]_session
=============================================================================
