------------------------- MODULE AuthTokens_proofs -------------------------
(***************************************************************************)
(* Sessions of auth-service for any number of accounts, clients, requests,   *)
(* token pairs and faults.                                                   *)
(*                                                                         *)
(* Alive says what a session can still come from: a live token or an         *)
(* exchange under way. No step but a sign-in makes a session alive           *)
(* (EbbsFades), so what has ended stays ended. This needs to be known of     *)
(* the requests in flight: a request that carries a token read it from the   *)
(* table, and its account is the token's (Carried).                          *)
(*                                                                         *)
(* That a held token works needs that it is in one place (Apart): nobody     *)
(* but the client that holds it can have it revoked.                         *)
(***************************************************************************)
EXTENDS AuthTokens, TLAPS

\* A token belongs to the account of its session's first token, which is its own first.
Issued ==
    \A t \in Tokens :
        /\ status[t] = "none" => owner[t] = NoAccount /\ line[t] = NoToken /\ ended[t] = "no"
        /\ status[t] # "none" =>
              /\ status[line[t]] # "none"
              /\ owner[line[t]] = owner[t]
              /\ line[line[t]] = line[t]

\* What a request in flight carries.
Carried(q) ==
    /\ q.pc = "idle" => q = Idle
    /\ q.pc # "idle" => q.account \in Accounts /\ q.client \in Clients
    /\ q.pc \in {"revoke", "user"} => q.token # NoToken
    /\ q.token # NoToken =>
          /\ Stored(q.token) /\ q.op = "refresh" /\ q.account = owner[q.token]
          /\ q.pc \in {"revoke", "user", "issue", "answer"}
    /\ q.fresh # NoToken <=> q.pc = "answer"
    /\ q.fresh # NoToken => status[q.fresh] # "none"

InFlightOK == \A r \in Requests : Carried(requests[r])
HeldOK == \A c \in Clients : held[c] # NoToken => status[held[c]] # "none"

TypeInv == TypeOK /\ Issued /\ InFlightOK /\ HeldOK

-----------------------------------------------------------------------------
LEMMA IdleOK == Idle \in Request /\ Carried(Idle)
<1>1. Idle \in Request
      BY DEF Idle, Request, Points
<1>2. Carried(Idle)
      BY DEF Idle, Carried
<1> QED BY <1>1, <1>2

LEMMA InitTypeInv == Init => TypeInv
<1> SUFFICES ASSUME Init PROVE TypeInv
    OBVIOUS
<1> USE AuthAssumption
<1>1. users \in [Accounts -> Users \cup {NoUser}]
  <2>1. NewUser(FALSE) \in Users
        BY DEF NewUser, Users
  <2> QED BY <2>1 DEF Init
<1>2. requests \in [Requests -> Request] /\ InFlightOK
      BY IdleOK DEF Init, InFlightOK
<1>3. TypeOK
      BY <1>1, <1>2 DEF Init, TypeOK, TokenStates
<1> QED BY <1>2, <1>3 DEF Init, TypeInv, Issued, HeldOK

-----------------------------------------------------------------------------
(* What no step takes back: rows of refresh_tokens stay, with their account *)

Grows ==
    \A t \in Tokens : status[t] # "none" =>
        /\ status'[t] # "none" /\ owner'[t] = owner[t]
        /\ Stored(t) => Stored(t)'

\* The tables keep their types and the tokens their sessions.
Sound ==
    /\ users' \in [Accounts -> Users \cup {NoUser}]
    /\ status' \in [Tokens -> TokenStates]
    /\ owner' \in [Tokens -> Accounts \cup {NoAccount}]
    /\ line' \in [Tokens -> Tokens \cup {NoToken}]
    /\ held' \in [Clients -> Tokens \cup {NoToken}]
    /\ signed' \in [Clients -> Accounts \cup {NoAccount}]
    /\ gone' \subseteq Accounts
    /\ ended' \in [Tokens -> {"no", "logout", "all", "raced"}]
    /\ overlapped' \subseteq Tokens
    /\ faults' \in 0..MaxFaults
    /\ \A t \in Tokens : status'[t] # "none" => owner'[t] \in Accounts /\ line'[t] \in Tokens
    /\ Issued' /\ HeldOK'

LEMMA AtRest ==
    ASSUME TypeInv, Sound, Grows, requests' = requests
    PROVE  TypeInv'
<1>1. TypeOK'
      BY DEF Sound, TypeInv, TypeOK
<1>2. InFlightOK'
  <2> SUFFICES ASSUME NEW q \in Requests PROVE Carried(requests[q])'
      BY DEF InFlightOK
  <2>1. Carried(requests[q]) /\ requests[q] \in Request
        BY DEF TypeInv, InFlightOK, TypeOK
  <2> QED BY <2>1 DEF Carried, Grows, Stored, Request
<1> QED BY <1>1, <1>2 DEF Sound, TypeInv

\* One request moves on, the others stay where they are.
LEMMA Moves ==
    ASSUME TypeInv, Sound, Grows, NEW r \in Requests,
           requests'[r] \in Request, Carried(requests[r])',
           requests' = [requests EXCEPT ![r] = requests'[r]]
    PROVE  TypeInv'
<1>1. TypeOK'
      BY DEF Sound, TypeInv, TypeOK
<1>2. InFlightOK'
  <2> SUFFICES ASSUME NEW q \in Requests PROVE Carried(requests[q])'
      BY DEF InFlightOK
  <2>1. CASE q = r
        BY <2>1
  <2>2. CASE q # r
    <3>1. Carried(requests[q]) /\ requests[q] \in Request /\ requests'[q] = requests[q]
          BY <2>2 DEF TypeInv, InFlightOK, TypeOK
    <3> QED BY <3>1 DEF Carried, Grows, Stored, Request
  <2> QED BY <2>1, <2>2
<1> QED BY <1>1, <1>2 DEF Sound, TypeInv

\* Steps that leave the tokens and the clients alone.
Quiet ==
    /\ UNCHANGED <<TokenVars, ClientVars, ended>>
    /\ users' \in [Accounts -> Users \cup {NoUser}]
    /\ gone' \subseteq Accounts /\ overlapped' \subseteq Tokens /\ faults' \in 0..MaxFaults

LEMMA QuietSound == TypeInv /\ Quiet => Sound /\ Grows
<1> SUFFICES ASSUME TypeInv, Quiet PROVE Sound /\ Grows
    OBVIOUS
<1>1. UNCHANGED <<status, owner, line, held, signed, ended>>
      BY DEF Quiet, TokenVars, ClientVars
<1>2. Grows
      BY <1>1 DEF Grows, Stored
<1>3. Issued' /\ HeldOK'
      BY <1>1 DEF TypeInv, Issued, HeldOK
<1>4. /\ status' \in [Tokens -> TokenStates]
      /\ owner' \in [Tokens -> Accounts \cup {NoAccount}]
      /\ line' \in [Tokens -> Tokens \cup {NoToken}]
      /\ held' \in [Clients -> Tokens \cup {NoToken}]
      /\ signed' \in [Clients -> Accounts \cup {NoAccount}]
      /\ ended' \in [Tokens -> {"no", "logout", "all", "raced"}]
      /\ \A t \in Tokens : status'[t] # "none" => owner'[t] \in Accounts /\ line'[t] \in Tokens
      BY <1>1 DEF TypeInv, TypeOK
<1> QED BY <1>2, <1>3, <1>4 DEF Sound, Quiet

-----------------------------------------------------------------------------
(* The actions keep TypeInv *)

LEMMA FailsType == TypeInv /\ Fails => faults' \in 0..MaxFaults /\ faults' > 0
      BY AuthAssumption DEF TypeInv, TypeOK, Fails

\* The actions of a request that write no token, by what they make of the request.
QuietMove(r) ==
    \/ \E c \in Clients, a \in Accounts, op \in {"register", "login", "oauth"} :
         requests'[r] \in {Opened(op, c, "issue", a, NoToken),
                           Opened(op, c, "byEmail", a, NoToken)}
    \/ requests[r].pc = "user" /\ requests'[r] = Moved(r, "issue")
    \/ requests'[r] = Idle
    \/ requests[r].pc \in {"byEmail", "again"} /\ \E a \in Accounts : requests'[r] = Serving(r, a)
    \/ /\ requests[r].pc \in {"byEmail", "create", "again"}
       /\ \E pc \in {"create", "again", "issue", "panicked"} : requests'[r] = Moved(r, pc)

LEMMA QuietMoveForm ==
    ASSUME TypeInv, Quiet, NEW r \in Requests, QuietMove(r)
    PROVE  requests'[r] \in Request /\ Carried(requests[r])'
<1> USE AuthAssumption
<1>1. /\ requests[r] \in Request /\ Carried(requests[r])
      /\ UNCHANGED <<status, owner>>
      BY DEF TypeInv, TypeOK, InFlightOK, Quiet, TokenVars
<1>2. CASE \E c \in Clients, a \in Accounts, op \in {"register", "login", "oauth"} :
             requests'[r] \in {Opened(op, c, "issue", a, NoToken),
                               Opened(op, c, "byEmail", a, NoToken)}
      BY <1>2 DEF Opened, Request, Points, Carried
<1>3. CASE requests[r].pc = "user" /\ requests'[r] = Moved(r, "issue")
      BY <1>1, <1>3 DEF Moved, Request, Points, Carried, Stored
<1>4. CASE requests'[r] = Idle
      BY <1>4, IdleOK DEF Carried, Idle
<1>5. CASE requests[r].pc \in {"byEmail", "again"} /\ \E a \in Accounts : requests'[r] = Serving(r, a)
      BY <1>1, <1>5 DEF Serving, Request, Points, Carried, Stored
<1>6. CASE /\ requests[r].pc \in {"byEmail", "create", "again"}
           /\ \E pc \in {"create", "again", "issue", "panicked"} : requests'[r] = Moved(r, pc)
      BY <1>1, <1>6 DEF Moved, Request, Points, Carried, Stored
<1> QED BY <1>2, <1>3, <1>4, <1>5, <1>6 DEF QuietMove

\* These are the actions meant.
QuietActs(r) ==
    \/ \E c \in Clients : PostRegister(r, c) \/ PostLogin(r, c) \/ GoogleOAuthCallback(r, c)
    \/ RefreshUser(r) \/ HandleOAuth(r) \/ Crash(r)

LEMMA QuietActsAre ==
    ASSUME TypeInv, NEW r \in Requests, QuietActs(r)
    PROVE  /\ Quiet /\ UNCHANGED <<gone, overlapped>> /\ QuietMove(r)
           /\ requests' = [requests EXCEPT ![r] = requests'[r]]
<1> USE AuthAssumption
<1>t. /\ requests \in [Requests -> Request] /\ users \in [Accounts -> Users \cup {NoUser}]
      /\ gone \subseteq Accounts /\ overlapped \subseteq Tokens /\ faults \in 0..MaxFaults
      /\ requests[r] \in Request /\ Carried(requests[r])
      BY DEF TypeInv, TypeOK, InFlightOK
<1>n. \A b \in BOOLEAN : NewUser(b) \in Users
      BY DEF NewUser, Users
<1>q. ASSUME UNCHANGED <<TokenVars, ClientVars, History>>,
             users' = users \/ \E a \in Accounts, b \in BOOLEAN : Create(a, b),
             faults' = faults \/ Fails
      PROVE  Quiet /\ UNCHANGED <<gone, overlapped>>
  <2>1. users' \in [Accounts -> Users \cup {NoUser}]
        BY <1>q, <1>t, <1>n DEF Create
  <2>2. faults' \in 0..MaxFaults
        BY <1>q, <1>t, FailsType
  <2> QED BY <1>q, <1>t, <2>1, <2>2 DEF Quiet, History
<1>m. ASSUME NEW x, Become(r, x)
      PROVE  requests'[r] = x /\ requests' = [requests EXCEPT ![r] = requests'[r]]
      BY <1>m, <1>t DEF Become
<1> DEFINE Good == /\ Quiet /\ UNCHANGED <<gone, overlapped>> /\ QuietMove(r)
                   /\ requests' = [requests EXCEPT ![r] = requests'[r]]
<1>1. ASSUME NEW c \in Clients, NEW a \in Accounts, Register(r, c, a)
      PROVE  Good
  <2>1. Quiet /\ UNCHANGED <<gone, overlapped>>
        BY <1>1, <1>q DEF Register
  <2> QED BY <2>1, <1>1, <1>m DEF Register, QuietMove
<1>2. ASSUME NEW c \in Clients, NEW e \in Emails, Login(r, c, e)
      PROVE  Good
  <2>1. Quiet /\ UNCHANGED <<gone, overlapped>>
        BY <1>2, <1>q DEF Login, History
  <2> QED BY <2>1, <1>2, <1>m DEF Login, QuietMove, GetByEmail
<1>3. ASSUME NEW c \in Clients, NEW e \in Emails, OAuthBySub(r, c, e)
      PROVE  Good
  <2>1. Quiet /\ UNCHANGED <<gone, overlapped>>
        BY <1>3, <1>q DEF OAuthBySub, History
  <2> DEFINE req == Opened("oauth", c, "byEmail", <<DemoCompany, e>>, NoToken)
  <2>2. <<DemoCompany, e>> \in Accounts
        BY DEF Accounts
  <2>5. \E a \in Accounts : Become(r, Opened("oauth", c, "issue", a, NoToken)) \/ Become(r, req)
        BY <1>3, <2>2 DEF OAuthBySub, GetByOAuthSub
  <2>6. \E a \in Accounts : requests'[r] \in {Opened("oauth", c, "issue", a, NoToken),
                                               Opened("oauth", c, "byEmail", a, NoToken)}
        BY <2>2, <2>5, <1>m
  <2>7. requests' = [requests EXCEPT ![r] = requests'[r]]
        BY <2>5, <1>m
  <2> QED BY <2>1, <2>6, <2>7 DEF QuietMove
<1>4. CASE RefreshUser(r)
  <2>1. Quiet /\ UNCHANGED <<gone, overlapped>>
        BY <1>4, <1>q DEF RefreshUser, History
  <2> QED BY <2>1, <1>4, <1>m DEF RefreshUser, QuietMove, At
<1>5. CASE OAuthByEmail(r)
  <2>1. Quiet /\ UNCHANGED <<gone, overlapped>>
        BY <1>5, <1>q DEF OAuthByEmail, History
  <2> QED BY <2>1, <1>5, <1>m DEF OAuthByEmail, QuietMove, At, GetByEmail
<1>6. CASE OAuthCreate(r)
  <2>1. requests[r].account \in Accounts
        BY <1>6, <1>t DEF OAuthCreate, At, Carried
  <2>2. Quiet /\ UNCHANGED <<gone, overlapped>>
        BY <1>6, <1>q, <2>1 DEF OAuthCreate, History
  <2> QED BY <2>2, <1>6, <1>m DEF OAuthCreate, QuietMove, At
<1>7. CASE OAuthAgain(r)
  <2>1. Quiet /\ UNCHANGED <<gone, overlapped>>
        BY <1>7, <1>q DEF OAuthAgain, History
  <2> QED BY <2>1, <1>7, <1>m DEF OAuthAgain, QuietMove, At, GetByEmail
<1>8. CASE Recover(r)
  <2>1. Quiet /\ UNCHANGED <<gone, overlapped>>
        BY <1>8, <1>q DEF Recover, History
  <2> QED BY <2>1, <1>8, <1>m DEF Recover, QuietMove
<1>9. CASE Crash(r)
  <2>1. Quiet /\ UNCHANGED <<gone, overlapped>>
        BY <1>9, <1>q DEF Crash, History
  <2> QED BY <2>1, <1>9, <1>m DEF Crash, QuietMove
<1> QED
  BY <1>1, <1>2, <1>3, <1>4, <1>5, <1>6, <1>7, <1>8, <1>9
  DEF QuietActs, PostRegister, PostLogin, GoogleOAuthCallback, HandleOAuth

LEMMA QuietActsKeep ==
    ASSUME TypeInv, NEW r \in Requests, QuietActs(r)
    PROVE  TypeInv'
      BY QuietActsAre, QuietSound, QuietMoveForm, Moves

LEMMA RefreshLookupKeeps ==
    ASSUME TypeInv, NEW r \in Requests, NEW c \in Clients, RefreshTokens(r, c)
    PROVE  TypeInv'
<1> USE AuthAssumption
<1> DEFINE t == held[c]
<1>1. /\ t \in Tokens /\ status[t] = "live" /\ owner[t] \in Accounts
      /\ \A u \in Tokens : status[u] # "none" => line[u] \in Tokens
      BY DEF TypeInv, TypeOK, RefreshTokens, RefreshLookup, Exchangeable
<1>2. /\ requests' = [requests EXCEPT ![r] = Opened("refresh", c, "revoke", owner[t], t)]
      /\ UNCHANGED <<users, status, owner, line, held, signed, gone, ended, faults>>
      BY DEF RefreshTokens, RefreshLookup, Become, TokenVars, ClientVars
<1>3. overlapped' \subseteq Tokens
      BY <1>1 DEF RefreshTokens, RefreshLookup, TypeInv, TypeOK
<1>4. Quiet
      BY <1>2, <1>3 DEF Quiet, TokenVars, ClientVars, TypeInv, TypeOK
<1>5. requests'[r] = Opened("refresh", c, "revoke", owner[t], t)
      BY <1>2 DEF TypeInv, TypeOK
<1>6. requests'[r] \in Request
      BY <1>1, <1>5 DEF Opened, Request, Points
<1>7. Carried(requests[r])'
      BY <1>1, <1>2, <1>5 DEF Opened, Carried, Stored
<1> QED BY <1>2, <1>4, <1>5, <1>6, <1>7, QuietSound, Moves

LEMMA RefreshRevokeKeeps ==
    ASSUME TypeInv, NEW r \in Requests, RefreshRevoke(r)
    PROVE  TypeInv'
<1> USE AuthAssumption
<1>1. /\ requests[r] \in Request /\ Carried(requests[r]) /\ requests[r].pc = "revoke"
      /\ requests'[r] = Moved(r, "user") /\ requests' = [requests EXCEPT ![r] = requests'[r]]
      /\ UNCHANGED <<users, owner, line, held, signed, gone, ended, overlapped>>
      BY DEF TypeInv, TypeOK, InFlightOK, RefreshRevoke, Become, At, ClientVars, History
<1>2. /\ status' \in [Tokens -> TokenStates]
      /\ \A t \in Tokens : status'[t] = status[t] \/ (Stored(t) /\ status'[t] = "revoked")
      BY <1>1 DEF RefreshRevoke, Revoke, TypeInv, TypeOK, TokenStates
<1>3. faults' \in 0..MaxFaults
      BY FailsType DEF RefreshRevoke, TypeInv, TypeOK
<1>4. \A t \in Tokens : (status'[t] = "none" <=> status[t] = "none") /\ (Stored(t) => Stored(t)')
      BY <1>2 DEF Stored
<1>5. Grows
      BY <1>1, <1>4 DEF Grows
<1>6. Issued' /\ HeldOK'
      BY <1>1, <1>4 DEF TypeInv, TypeOK, Issued, HeldOK
<1>7. Sound
      BY <1>1, <1>2, <1>3, <1>4, <1>6 DEF Sound, TypeInv, TypeOK
<1>8. requests'[r] \in Request
      BY <1>1 DEF Moved, Request, Points
<1>9. Carried(requests[r])'
      BY <1>1, <1>4 DEF Moved, Carried, Request
<1> QED BY <1>1, <1>5, <1>7, <1>8, <1>9, Moves

LEMMA IssueTokensKeeps ==
    ASSUME TypeInv, NEW r \in Requests, NEW t \in Tokens, IssueTokens(r, t)
    PROVE  TypeInv'
<1> USE AuthAssumption
<1> DEFINE used == requests[r].token
           a == requests[r].account
           s == IF used = NoToken THEN t ELSE line[used]
<1>1. /\ requests[r] \in Request /\ Carried(requests[r]) /\ requests[r].pc = "issue"
      /\ a \in Accounts
      /\ used # NoToken => used \in Tokens /\ Stored(used) /\ owner[used] = a
      BY DEF TypeInv, TypeOK, InFlightOK, IssueTokens, At, Carried, Request
<1>2. /\ requests'[r] = [requests[r] EXCEPT !.pc = "answer", !.fresh = t]
      /\ requests' = [requests EXCEPT ![r] = requests'[r]]
      /\ status[t] = "none"
      /\ owner' = [owner EXCEPT ![t] = a] /\ line' = [line EXCEPT ![t] = s]
      /\ UNCHANGED <<users, held, signed, gone, ended, overlapped>>
      BY DEF TypeInv, TypeOK, IssueTokens, GenerateTokenPair, Become, ClientVars, History
<1>3. /\ status' \in [Tokens -> TokenStates]
      /\ \A u \in Tokens : u # t => status'[u] = status[u]
      /\ status'[t] \in {"live", "unstored"}
      BY DEF IssueTokens, StoreRefreshToken, TypeInv, TypeOK, TokenStates
<1>4. faults' \in 0..MaxFaults
      BY FailsType DEF IssueTokens, StoreRefreshToken, TypeInv, TypeOK
<1>5. s \in Tokens /\ (used # NoToken => s # t /\ status[s] # "none" /\ owner[s] = a /\ line[s] = s)
      BY <1>1, <1>2 DEF TypeInv, TypeOK, Issued, Stored
<1>6. /\ owner' \in [Tokens -> Accounts \cup {NoAccount}] /\ line' \in [Tokens -> Tokens \cup {NoToken}]
      /\ owner'[t] = a /\ line'[t] = s
      /\ \A u \in Tokens : u # t => owner'[u] = owner[u] /\ line'[u] = line[u]
      BY <1>1, <1>2, <1>5 DEF TypeInv, TypeOK
<1>7. Grows
      BY <1>2, <1>3, <1>6 DEF Grows, Stored
<1>8. Issued'
  <2> SUFFICES ASSUME NEW u \in Tokens
               PROVE  /\ status'[u] = "none" => owner'[u] = NoAccount /\ line'[u] = NoToken /\ ended'[u] = "no"
                      /\ status'[u] # "none" =>
                            /\ status'[line'[u]] # "none"
                            /\ owner'[line'[u]] = owner'[u]
                            /\ line'[line'[u]] = line'[u]
      BY DEF Issued
  <2>1. CASE u = t
        BY <2>1, <1>3, <1>5, <1>6
  <2>2. CASE u # t
    <3>1. status'[u] = status[u] /\ owner'[u] = owner[u] /\ line'[u] = line[u]
          BY <2>2, <1>3, <1>6
    <3>2. status[u] # "none" => line[u] \in Tokens /\ line[u] # t
          BY <1>2 DEF TypeInv, TypeOK, Issued
    <3> QED BY <3>1, <3>2, <1>2, <1>3, <1>6 DEF TypeInv, Issued
  <2> QED BY <2>1, <2>2
<1>9. HeldOK'
      BY <1>2, <1>3 DEF TypeInv, TypeOK, HeldOK
<1>10. \A u \in Tokens : status'[u] # "none" => owner'[u] \in Accounts /\ line'[u] \in Tokens
      BY <1>1, <1>3, <1>5, <1>6 DEF TypeInv, TypeOK
<1>11. Sound
      BY <1>2, <1>3, <1>4, <1>6, <1>8, <1>9, <1>10 DEF Sound, TypeInv, TypeOK
<1>12. requests'[r] \in Request
      BY <1>1, <1>2 DEF Request, Points
<1>13. Carried(requests[r])'
  <2>1. used # NoToken => status'[used] \in {"live", "expired", "revoked"} /\ owner'[used] = a
        BY <1>1, <1>7 DEF Grows, Stored
  <2>2. status'[t] # "none"
        BY <1>3
  <2>3. /\ requests'[r].pc = "answer" /\ requests'[r].fresh = t /\ requests'[r].token = used
        /\ requests'[r].account = a /\ requests'[r].op = requests[r].op
        /\ requests'[r].client = requests[r].client
        BY <1>1, <1>2 DEF Request
  <2>4. /\ requests[r].client \in Clients
        /\ used # NoToken => requests[r].op = "refresh"
        BY <1>1 DEF Carried
  <2> QED BY <1>1, <2>1, <2>2, <2>3, <2>4 DEF Carried, Stored
<1> QED BY <1>2, <1>7, <1>11, <1>12, <1>13, Moves

LEMMA AnswerKeeps ==
    ASSUME TypeInv, NEW r \in Requests, Answer(r)
    PROVE  TypeInv'
<1>1. /\ requests[r] \in Request /\ Carried(requests[r]) /\ requests[r].pc = "answer"
      /\ requests'[r] = Idle /\ requests' = [requests EXCEPT ![r] = requests'[r]]
      /\ UNCHANGED <<users, status, owner, line, gone, ended, overlapped, faults>>
      BY DEF TypeInv, TypeOK, InFlightOK, Answer, At, Become, TokenVars, History
<1>2. /\ requests[r].fresh \in Tokens /\ status[requests[r].fresh] # "none"
      /\ requests[r].client \in Clients /\ requests[r].account \in Accounts
      BY <1>1, AuthAssumption DEF Carried, Request
<1>3. /\ held' = held \/ held' = [held EXCEPT ![requests[r].client] = requests[r].fresh]
      /\ signed' = [signed EXCEPT ![requests[r].client] = requests[r].account]
      BY DEF Answer
<1>4. /\ held' \in [Clients -> Tokens \cup {NoToken}] /\ signed' \in [Clients -> Accounts \cup {NoAccount}]
      /\ HeldOK'
      BY <1>1, <1>2, <1>3 DEF TypeInv, TypeOK, HeldOK
<1>5. Issued' /\ Grows
      BY <1>1 DEF TypeInv, Issued, Grows, Stored
<1>6. Sound
      BY <1>1, <1>4, <1>5 DEF Sound, TypeInv, TypeOK
<1>7. requests'[r] \in Request /\ Carried(requests[r])'
      BY <1>1, IdleOK DEF Carried, Idle
<1> QED BY <1>1, <1>5, <1>6, <1>7, Moves

\* A token goes from one state of its row to another.
LEMMA RowsKeep ==
    ASSUME TypeInv, UNCHANGED <<users, owner, line, requests, gone, overlapped>>,
           status' \in [Tokens -> TokenStates],
           \A t \in Tokens : status'[t] = status[t] \/ (Stored(t) /\ Stored(t)'),
           held' \in [Clients -> Tokens \cup {NoToken}],
           \A c \in Clients : held'[c] \in {held[c], NoToken},
           signed' \in [Clients -> Accounts \cup {NoAccount}],
           ended' \in [Tokens -> {"no", "logout", "all", "raced"}],
           \A t \in Tokens : status[t] = "none" => ended'[t] = ended[t],
           faults' \in 0..MaxFaults
    PROVE  TypeInv'
<1>1. \A t \in Tokens : (status'[t] = "none" <=> status[t] = "none") /\ (Stored(t) => Stored(t)')
      BY DEF Stored
<1>2. Grows
      BY <1>1 DEF Grows
<1>3. Issued' /\ HeldOK'
      BY <1>1 DEF TypeInv, TypeOK, Issued, HeldOK
<1>4. Sound
      BY <1>1, <1>3 DEF Sound, TypeInv, TypeOK
<1> QED BY <1>2, <1>4, AtRest

LEMMA LogoutKeeps ==
    ASSUME TypeInv, NEW c \in Clients, Logout(c)
    PROVE  TypeInv'
<1>1. /\ held[c] \in Tokens /\ status[held[c]] # "none"
      /\ line[held[c]] \in Tokens /\ status[line[held[c]]] # "none"
      BY AuthAssumption DEF TypeInv, TypeOK, HeldOK, Issued, Logout
<1>2. /\ status' \in [Tokens -> TokenStates]
      /\ \A t \in Tokens : status'[t] = status[t] \/ (Stored(t) /\ Stored(t)')
      BY <1>1 DEF Logout, Revoke, Stored, TypeInv, TypeOK, TokenStates
<1>3. /\ held' \in [Clients -> Tokens \cup {NoToken}]
      /\ \A b \in Clients : held'[b] \in {held[b], NoToken}
      /\ signed' \in [Clients -> Accounts \cup {NoAccount}]
      BY DEF Logout, TypeInv, TypeOK
<1>4. /\ ended' \in [Tokens -> {"no", "logout", "all", "raced"}]
      /\ \A t \in Tokens : status[t] = "none" => ended'[t] = ended[t]
      BY <1>1 DEF Logout, TypeInv, TypeOK
<1>5. faults' \in 0..MaxFaults
      BY FailsType DEF Logout, TypeInv, TypeOK
<1> QED BY <1>2, <1>3, <1>4, <1>5, RowsKeep DEF Logout

LEMMA LogoutAllKeeps ==
    ASSUME TypeInv, NEW c \in Clients, LogoutAll(c)
    PROVE  TypeInv'
<1>1. /\ status' \in [Tokens -> TokenStates]
      /\ \A t \in Tokens : status'[t] = status[t] \/ (Stored(t) /\ Stored(t)')
      BY DEF LogoutAll, RevokeAllUserTokens, Stored, TypeInv, TypeOK, TokenStates
<1>2. /\ ended' \in [Tokens -> {"no", "logout", "all", "raced"}]
      /\ \A t \in Tokens : status[t] = "none" => ended'[t] = ended[t]
      BY DEF LogoutAll, TypeInv, TypeOK, Issued
<1> QED BY <1>1, <1>2, RowsKeep DEF LogoutAll, ClientVars, TypeInv, TypeOK

LEMMA ExpireKeeps ==
    ASSUME TypeInv, NEW t \in Tokens, Expire(t)
    PROVE  TypeInv'
<1>1. /\ status' \in [Tokens -> TokenStates]
      /\ \A u \in Tokens : status'[u] = status[u] \/ (Stored(u) /\ Stored(u)')
      BY DEF Expire, Stored, TypeInv, TypeOK, TokenStates
<1> QED BY <1>1, RowsKeep DEF Expire, ClientVars, History, TypeInv, TypeOK

LEMMA AccountsKeep ==
    ASSUME TypeInv, NEW a \in Accounts, NEW b \in BOOLEAN, DeleteUser(a) \/ UpdateUser(a, b)
    PROVE  TypeInv' /\ UNCHANGED <<TokenVars, requests, ClientVars, ended, overlapped, faults>>
<1>1. UNCHANGED <<TokenVars, requests, ClientVars, ended, overlapped, faults>>
      BY DEF DeleteUser, UpdateUser, History
<1>2. users' \in [Accounts -> Users \cup {NoUser}]
  <2>1. users \in [Accounts -> Users \cup {NoUser}] /\ users[a] \in Users
        BY DEF DeleteUser, UpdateUser, TypeInv, TypeOK
  <2>2. [users[a] EXCEPT !.is_active = FALSE] \in Users
        BY <2>1 DEF Users
  <2> QED BY <2>1, <2>2 DEF DeleteUser, UpdateUser, Remove, Update
<1>3. gone' \subseteq Accounts
      BY DEF DeleteUser, UpdateUser, History, TypeInv, TypeOK
<1>4. Quiet
      BY <1>1, <1>2, <1>3 DEF Quiet, TypeInv, TypeOK
<1> QED BY <1>1, <1>4, QuietSound, AtRest

-----------------------------------------------------------------------------
(* Types *)

LEMMA TypeInvStep == TypeInv /\ [Next]_vars => TypeInv'
<1> SUFFICES ASSUME TypeInv, [Next]_vars PROVE TypeInv'
    OBVIOUS
<1>1. ASSUME NEW r \in Requests, QuietActs(r) PROVE TypeInv'
      BY <1>1, QuietActsKeep
<1>2. ASSUME NEW r \in Requests, NEW c \in Clients, RefreshTokens(r, c) PROVE TypeInv'
      BY <1>2, RefreshLookupKeeps
<1>3. ASSUME NEW r \in Requests, RefreshRevoke(r) PROVE TypeInv'
      BY <1>3, RefreshRevokeKeeps
<1>4. ASSUME NEW r \in Requests, Answer(r) PROVE TypeInv'
      BY <1>4, AnswerKeeps
<1>5. ASSUME NEW r \in Requests, NEW t \in Tokens, IssueTokens(r, t) PROVE TypeInv'
      BY <1>5, IssueTokensKeeps
<1>6. ASSUME NEW c \in Clients, Logout(c) \/ LogoutAll(c) PROVE TypeInv'
      BY <1>6, LogoutKeeps, LogoutAllKeeps
<1>7. ASSUME NEW a \in Accounts, NEW b \in BOOLEAN, DeleteUser(a) \/ UpdateUser(a, b) PROVE TypeInv'
      BY <1>7, AccountsKeep
<1>8. ASSUME NEW t \in Tokens, Expire(t) PROVE TypeInv'
      BY <1>8, ExpireKeeps
<1>9. CASE UNCHANGED vars
  <2>1. Quiet /\ requests' = requests
        BY <1>9 DEF vars, Quiet, TokenVars, ClientVars, TypeInv, TypeOK
  <2> QED BY <2>1, QuietSound, AtRest
<1> QED BY <1>1, <1>2, <1>3, <1>4, <1>5, <1>6, <1>7, <1>8, <1>9 DEF Next, QuietActs

\* TypeOK holds in every state: the columns, the requests in flight and what the
\* clients hold have their types, and a generated token has an account and a session.
THEOREM TypeCorrect == Spec => []TypeOK
<1>1. TypeInv => TypeOK
      BY DEF TypeInv
<1> QED BY InitTypeInv, TypeInvStep, <1>1, PTL DEF Spec

-----------------------------------------------------------------------------
(* What has ended stays ended *)

\* No step but the issue of a token pair gives a session something to come from.
Ebbs ==
    /\ line' = line
    /\ \A t \in Tokens : status'[t] = "live" => status[t] = "live"
    /\ \A q \in Requests, t \in Tokens : Exchanging(q, t)' => Exchanging(q, t) \/ status[t] = "live"

Unended == \A s \in Tokens : ended'[s] = "all" => ended[s] = "all"

LEMMA EbbsFades == Ebbs => \A s \in Tokens : Alive(s)' => Alive(s)
<1> SUFFICES ASSUME Ebbs, NEW s \in Tokens, Alive(s)' PROVE Alive(s)
    OBVIOUS
<1>1. CASE \E r \in Requests, t \in Tokens : line'[t] = s /\ Exchanging(r, t)'
      BY <1>1 DEF Ebbs, Alive, InFlight
<1>2. CASE \E t \in Tokens : line'[t] = s /\ status'[t] = "live"
      BY <1>2 DEF Ebbs, Alive
<1> QED BY <1>1, <1>2 DEF Alive, InFlight

LEMMA QuietExchanging ==
    ASSUME TypeInv, NEW r \in Requests, QuietActs(r), NEW q \in Requests, NEW t \in Tokens,
           Exchanging(q, t)'
    PROVE  Exchanging(q, t)
<1> USE AuthAssumption
<1>1. /\ requests' = [requests EXCEPT ![r] = requests'[r]] /\ QuietMove(r)
      /\ requests \in [Requests -> Request] /\ requests[r] \in Request /\ Carried(requests[r])
      BY QuietActsAre DEF TypeInv, TypeOK, InFlightOK
<1>2. CASE q # r
      BY <1>1, <1>2 DEF Exchanging
<1>3. CASE q = r
  <2>1. requests'[r].token = t /\ requests'[r].pc \in {"revoke", "user", "issue"}
        BY <1>3 DEF Exchanging
  <2>2. CASE requests[r].pc = "user" /\ requests'[r] = Moved(r, "issue")
        BY <1>1, <1>3, <2>1, <2>2 DEF Moved, Exchanging, Request
  <2>3. requests'[r].token = NoToken
        \/ (requests[r].pc = "user" /\ requests'[r] = Moved(r, "issue"))
    <3>1. CASE requests[r].pc \in {"byEmail", "again"} /\ \E a \in Accounts : requests'[r] = Serving(r, a)
          BY <1>1, <3>1 DEF Serving, Request, Carried
    <3>2. CASE /\ requests[r].pc \in {"byEmail", "create", "again"}
               /\ \E pc \in {"create", "again", "issue", "panicked"} : requests'[r] = Moved(r, pc)
          BY <1>1, <3>2 DEF Moved, Request, Carried
    <3>3. CASE \E c \in Clients, a \in Accounts, op \in {"register", "login", "oauth"} :
                 requests'[r] \in {Opened(op, c, "issue", a, NoToken),
                                   Opened(op, c, "byEmail", a, NoToken)}
          BY <3>3 DEF Opened
    <3> QED BY <1>1, <3>1, <3>2, <3>3 DEF QuietMove, Idle
  <2> QED BY <2>1, <2>2, <2>3
<1> QED BY <1>2, <1>3

LEMMA StepEbbs ==
    ASSUME TypeInv, [Next]_vars
    PROVE  \/ Ebbs /\ (Unended \/ \E c \in Clients : LogoutAll(c))
           \/ \E r \in Requests, t \in Tokens : IssueTokens(r, t)
<1> USE AuthAssumption
<1>r. ASSUME UNCHANGED <<status, line, requests, ended>> PROVE Ebbs /\ Unended
      BY <1>r DEF Ebbs, Unended, Exchanging
<1>1. ASSUME NEW r \in Requests, QuietActs(r) PROVE Ebbs /\ Unended
  <2>1. UNCHANGED <<status, line, ended>>
        BY <1>1, QuietActsAre DEF Quiet, TokenVars
  <2> QED BY <1>1, <2>1, QuietExchanging DEF Ebbs, Unended
<1>2. ASSUME NEW r \in Requests, NEW c \in Clients, RefreshTokens(r, c) PROVE Ebbs /\ Unended
  <2>1. UNCHANGED <<status, line, ended>> /\ held[c] \in Tokens /\ status[held[c]] = "live"
        BY <1>2 DEF RefreshTokens, RefreshLookup, TokenVars, Exchangeable, TypeInv, TypeOK
  <2>2. \A q \in Requests, t \in Tokens : Exchanging(q, t)' => Exchanging(q, t) \/ t = held[c]
        BY <1>2 DEF RefreshTokens, RefreshLookup, Become, Opened, Exchanging, TypeInv, TypeOK
  <2> QED BY <2>1, <2>2 DEF Ebbs, Unended
<1>3. ASSUME NEW r \in Requests, RefreshRevoke(r) PROVE Ebbs /\ Unended
  <2>1. /\ UNCHANGED <<line, ended>> /\ requests[r] \in Request
        /\ requests' = [requests EXCEPT ![r] = Moved(r, "user")] /\ requests[r].pc = "revoke"
        BY <1>3 DEF RefreshRevoke, History, Become, At, TypeInv, TypeOK
  <2>2. \A t \in Tokens : status'[t] = "live" => status[t] = "live"
        BY <1>3 DEF RefreshRevoke, Revoke, TypeInv, TypeOK
  <2>3. \A q \in Requests, t \in Tokens : Exchanging(q, t)' => Exchanging(q, t)
        BY <2>1 DEF Exchanging, Moved, Request, TypeInv, TypeOK
  <2> QED BY <2>1, <2>2, <2>3 DEF Ebbs, Unended
<1>4. ASSUME NEW r \in Requests, Answer(r) PROVE Ebbs /\ Unended
  <2>1. UNCHANGED <<status, line, ended>>
        BY <1>4 DEF Answer, TokenVars, History
  <2>2. \A q \in Requests, t \in Tokens : Exchanging(q, t)' => Exchanging(q, t)
        BY <1>4 DEF Answer, Become, Idle, Exchanging, TypeInv, TypeOK
  <2> QED BY <2>1, <2>2 DEF Ebbs, Unended
<1>5. ASSUME NEW c \in Clients, Logout(c) PROVE Ebbs /\ Unended
  <2>1. UNCHANGED <<line, requests>>
        BY <1>5 DEF Logout
  <2>2. \A t \in Tokens : status'[t] = "live" => status[t] = "live"
        BY <1>5 DEF Logout, Revoke, TypeInv, TypeOK
  <2>3. Unended
        BY <1>5 DEF Logout, Unended, TypeInv, TypeOK
  <2> QED BY <2>1, <2>2, <2>3 DEF Ebbs, Exchanging
<1>6. ASSUME NEW c \in Clients, LogoutAll(c) PROVE Ebbs
  <2>1. UNCHANGED <<line, requests>>
        BY <1>6 DEF LogoutAll
  <2>2. \A t \in Tokens : status'[t] = "live" => status[t] = "live"
        BY <1>6 DEF LogoutAll, RevokeAllUserTokens, TypeInv, TypeOK
  <2> QED BY <2>1, <2>2 DEF Ebbs, Exchanging
<1>7. ASSUME NEW a \in Accounts, NEW b \in BOOLEAN, DeleteUser(a) \/ UpdateUser(a, b)
      PROVE  Ebbs /\ Unended
      BY <1>7, <1>r, AccountsKeep DEF TokenVars
<1>8. ASSUME NEW t \in Tokens, Expire(t) PROVE Ebbs /\ Unended
  <2>1. UNCHANGED <<line, requests, ended>>
        BY <1>8 DEF Expire, History
  <2>2. \A u \in Tokens : status'[u] = "live" => status[u] = "live"
        BY <1>8 DEF Expire, TypeInv, TypeOK
  <2> QED BY <2>1, <2>2 DEF Ebbs, Unended, Exchanging
<1>9. CASE UNCHANGED vars
      BY <1>9, <1>r DEF vars
<1> QED
  BY <1>1, <1>2, <1>3, <1>4, <1>5, <1>6, <1>7, <1>8, <1>9 DEF Next, QuietActs

\* The pair of a sign-in starts a session; that of a refresh goes on with the session
\* of the token it was exchanged for, which is alive as long as the exchange lasts.
LEMMA IssueEffect ==
    ASSUME TypeInv, NEW r \in Requests, NEW t \in Tokens, IssueTokens(r, t)
    PROVE  /\ line[t] = NoToken /\ ended[t] = "no" /\ UNCHANGED ended
           /\ requests[r].token = NoToken =>
                 /\ line'[t] = t
                 /\ \A s \in Tokens \ {t} : Alive(s)' <=> Alive(s)
           /\ requests[r].token # NoToken =>
                 /\ line'[t] # t
                 /\ \A s \in Tokens : Alive(s)' => Alive(s)
           /\ \A u \in Tokens \ {t} : line'[u] = line[u]
<1> USE AuthAssumption
<1> DEFINE used == requests[r].token
<1>1. /\ requests[r] \in Request /\ requests[r].pc = "issue" /\ Carried(requests[r])
      /\ requests' = [requests EXCEPT ![r] = [requests[r] EXCEPT !.pc = "answer", !.fresh = t]]
      /\ status[t] = "none" /\ UNCHANGED ended
      /\ line' = [line EXCEPT ![t] = IF used = NoToken THEN t ELSE line[used]]
      BY DEF TypeInv, TypeOK, InFlightOK, IssueTokens, At, Become, GenerateTokenPair, History
<1>2. \A u \in Tokens : u # t => status'[u] = status[u] /\ line'[u] = line[u]
      BY <1>1 DEF IssueTokens, StoreRefreshToken, TypeInv, TypeOK
<1>3. line'[t] = IF used = NoToken THEN t ELSE line[used]
      BY <1>1 DEF TypeInv, TypeOK
<1>4. line[t] = NoToken /\ ended[t] = "no"
      BY <1>1 DEF TypeInv, Issued
<1>5. used # NoToken => used \in Tokens /\ status[used] # "none" /\ line[used] # t
  <2>1. used # NoToken => used \in Tokens /\ status[used] # "none"
        BY <1>1 DEF Carried, Stored, Request
  <2> QED BY <2>1, <1>1 DEF TypeInv, Issued
<1>6. \A q \in Requests, u \in Tokens : Exchanging(q, u)' => Exchanging(q, u) /\ q # r
      BY <1>1 DEF Exchanging, Request, TypeInv, TypeOK
<1>7. \A q \in Requests, u \in Tokens : Exchanging(q, u) /\ q # r => Exchanging(q, u)'
      BY <1>1 DEF Exchanging, Request, TypeInv, TypeOK
<1>8. \A q \in Requests, u \in Tokens : Exchanging(q, u) => u # t
      BY <1>1 DEF Exchanging, TypeInv, InFlightOK, Carried, Stored
<1>9. ASSUME used = NoToken, NEW s \in Tokens \ {t}
      PROVE  Alive(s)' <=> Alive(s)
  <2>1. Alive(s)' => Alive(s)
        BY <1>2, <1>3, <1>6, <1>9 DEF Alive, InFlight
  <2>2. \A q \in Requests, u \in Tokens : Exchanging(q, u) => q # r
        BY <1>9 DEF Exchanging
  <2>3. InFlight(s) => InFlight(s)'
        BY <2>2, <1>2, <1>7, <1>8 DEF InFlight
  <2>4. \A u \in Tokens : line[u] = s /\ status[u] = "live" => line'[u] = s /\ status'[u] = "live"
        BY <1>1, <1>2
  <2> QED BY <2>1, <2>3, <2>4 DEF Alive
<1>10. ASSUME used # NoToken, NEW s \in Tokens, Alive(s)'
      PROVE  Alive(s)
  <2>1. Exchanging(r, used)
        BY <1>1 DEF Exchanging
  <2>2. CASE s = line[used]
        BY <2>1, <2>2, <1>5, <1>10 DEF Alive, InFlight
  <2>3. CASE s # line[used]
        BY <2>3, <1>2, <1>3, <1>6, <1>10 DEF Alive, InFlight
  <2> QED BY <2>2, <2>3
<1> QED BY <1>1, <1>2, <1>3, <1>4, <1>5, <1>9, <1>10

LEMMA LogoutAllEffect ==
    ASSUME TypeInv, NEW c \in Clients, LogoutAll(c), NEW s \in Tokens,
           ended'[s] = "all", ended[s] # "all"
    PROVE  ~Alive(s)'
<1> DEFINE a == signed[c]
<1>1. owner[s] = a /\ ~InFlight(s) /\ a # NoAccount /\ UNCHANGED <<line, requests, owner>>
      BY DEF LogoutAll, UserIDFromContext
<1>2. \A t \in Tokens : status'[t] = IF owner[t] = a /\ Stored(t) THEN "revoked" ELSE status[t]
      BY DEF LogoutAll, RevokeAllUserTokens, UserIDFromContext
<1>3. ~InFlight(s)'
      BY <1>1 DEF InFlight, Exchanging
<1>4. ASSUME NEW t \in Tokens, line[t] = s, status'[t] = "live" PROVE FALSE
  <2>1. status[t] = "live"
        BY <1>2, <1>4
  <2>2. owner[t] = a
        BY <2>1, <1>1, <1>4 DEF TypeInv, Issued
  <2> QED BY <2>1, <2>2, <1>2, <1>4 DEF Stored
<1> QED BY <1>1, <1>3, <1>4 DEF Alive

\* LogoutAllIsFinal holds in every state: of a session that logout-all found at rest
\* nothing is left, and nothing comes of it again.
THEOREM LogoutAllFinal == Spec => []LogoutAllIsFinal
<1>1. Init => LogoutAllIsFinal
      BY DEF Init, LogoutAllIsFinal
<1>2. TypeInv /\ LogoutAllIsFinal /\ [Next]_vars => LogoutAllIsFinal'
  <2> SUFFICES ASSUME TypeInv, LogoutAllIsFinal, [Next]_vars, NEW s \in Tokens, ended'[s] = "all"
               PROVE  ~Alive(s)'
      BY DEF LogoutAllIsFinal
  <2>1. CASE Ebbs /\ ended[s] = "all"
        BY <2>1, EbbsFades DEF LogoutAllIsFinal
  <2>2. CASE ended[s] # "all" /\ \E c \in Clients : LogoutAll(c)
        BY <2>2, LogoutAllEffect
  <2>3. ASSUME NEW r \in Requests, NEW t \in Tokens, IssueTokens(r, t)
        PROVE  ~Alive(s)'
    <3>1. ended[s] = "all" /\ s # t
          BY <2>3, IssueEffect
    <3> QED BY <2>3, <3>1, IssueEffect DEF LogoutAllIsFinal
  <2> QED BY <2>1, <2>2, <2>3, StepEbbs DEF Unended
<1> QED BY InitTypeInv, TypeInvStep, <1>1, <1>2, PTL DEF Spec

-----------------------------------------------------------------------------
(* auth-service implements Sessions *)

LEMMA SessionAt ==
    \A s \in Tokens :
        Session[s] = IF line[s] # s THEN "new" ELSE IF Alive(s) THEN "open" ELSE "over"
      BY DEF Session

\* No session of S!Spec that is over is open again: neither a refresh, a sign-in nor a
\* late answer revives what was logged out, has expired or was deleted.
THEOREM SessionsImplemented == Spec => ImplementsSessions
<1>1. Init => S!Init
      BY AuthAssumption DEF Init, S!Init, Session
<1>2. TypeInv /\ [Next]_vars => [S!Next]_Session
  <2> SUFFICES ASSUME TypeInv, [Next]_vars PROVE S!Next
      OBVIOUS
  <2> DEFINE over == {s \in Tokens : Session[s] = "open" /\ Session'[s] = "over"}
  <2>0. \A s \in Tokens :
            Session'[s] = IF line'[s] # s THEN "new" ELSE IF Alive(s)' THEN "open" ELSE "over"
        BY DEF Session
  <2>e. ASSUME \A s \in Tokens : (line'[s] = s <=> line[s] = s) /\ (Alive(s)' => Alive(s))
        PROVE  S!Next
    <3>1. \A s \in Tokens : Session'[s] = IF s \in over THEN "over" ELSE Session[s]
          BY <2>0, <2>e, SessionAt
    <3>2. Session' = [s \in Tokens |-> IF s \in over THEN "over" ELSE Session[s]]
          BY <3>1 DEF Session
    <3>3. S!End(over)
          BY <3>2 DEF S!End
    <3> QED BY <3>3 DEF S!Next
  <2>1. CASE Ebbs
        BY <2>1, <2>e, EbbsFades DEF Ebbs
  <2>2. ASSUME NEW r \in Requests, NEW t \in Tokens, IssueTokens(r, t), requests[r].token # NoToken
        PROVE  S!Next
    <3>1. line[t] # t
          BY <2>2, IssueEffect, AuthAssumption
    <3> QED BY <2>2, <3>1, IssueEffect, <2>e
  <2>3. ASSUME NEW r \in Requests, NEW t \in Tokens, IssueTokens(r, t), requests[r].token = NoToken
        PROVE  S!Next
    <3>1. Session[t] = "new" /\ Session'[t] \in {"open", "over"}
          BY <2>3, <2>0, SessionAt, IssueEffect, AuthAssumption
    <3>2. \A s \in Tokens : s # t => Session'[s] = Session[s]
          BY <2>3, <2>0, SessionAt, IssueEffect
    <3>3. Session' = [Session EXCEPT ![t] = Session'[t]]
          BY <3>2 DEF Session
    <3>4. S!Begin(t)
          BY <3>1, <3>3 DEF S!Begin
    <3> QED BY <3>4 DEF S!Next
  <2> QED BY <2>1, <2>2, <2>3, StepEbbs
<1> QED BY InitTypeInv, TypeInvStep, <1>1, <1>2, PTL DEF Spec, S!Spec, ImplementsSessions

-----------------------------------------------------------------------------
(* Deleted accounts *)

\* The rows marked inactive are the deleted ones: Update leaves is_active alone, and a
\* row is never removed nor inserted twice.
DeletedRows ==
    \A a \in Accounts : a \in gone <=> users[a] # NoUser /\ ~users[a].is_active

\* What a request knows of its account.
Met(q) ==
    /\ q.pc \in {"again", "issue"} => users[q.account] # NoUser
    /\ q.pc \in {"byEmail", "create", "again", "panicked"} => q.account \in Accounts
    /\ q.pc = "panicked" => faults > 0 \/ q.account \in gone

AccountInv == DeletedRows /\ \A r \in Requests : Met(requests[r])

LEMMA ReadsRefuse ==
    ASSUME TypeInv, DeletedRows, NEW a \in Accounts
    PROVE  /\ Readable(a) => a \notin gone
           /\ users[a] # NoUser /\ ~Readable(a) => a \in gone
      BY DEF Readable, DeletedRows, TypeInv, TypeOK, Users

LEMMA InitAccountInv == Init => AccountInv
<1> SUFFICES ASSUME Init PROVE AccountInv
    OBVIOUS
<1>1. DeletedRows
      BY DEF Init, DeletedRows, NewUser
<1>2. \A r \in Requests : Met(requests[r])
      BY DEF Init, Idle, Met
<1> QED BY <1>1, <1>2 DEF AccountInv

\* Users come, are marked deleted, and keep either state.
LEMMA RowsOfUsers ==
    ASSUME TypeInv, DeletedRows,
           \/ UNCHANGED <<users, gone>>
           \/ gone' = gone /\ \E a \in Accounts, b \in BOOLEAN : Create(a, b)
           \/ \E a \in Accounts : users[a] # NoUser /\ Remove(a) /\ gone' = gone \cup {a}
    PROVE  /\ DeletedRows' /\ gone \subseteq gone'
           /\ \A a \in Accounts : users[a] # NoUser => users'[a] # NoUser
<1> USE AuthAssumption
<1>t. users \in [Accounts -> Users \cup {NoUser}]
      BY DEF TypeInv, TypeOK
<1>1. CASE UNCHANGED <<users, gone>>
      BY <1>1 DEF DeletedRows
<1>2. ASSUME gone' = gone, NEW a \in Accounts, NEW b \in BOOLEAN, Create(a, b)
      PROVE  DeletedRows' /\ gone \subseteq gone' /\ \A x \in Accounts : users[x] # NoUser => users'[x] # NoUser
  <2>0. NewUser(b) \in Users /\ NewUser(b).is_active
        BY DEF NewUser, Users
  <2>1. a \notin gone /\ NewUser(b) # NoUser /\ NewUser(b).is_active
        BY <2>0, <1>2 DEF DeletedRows, Create, Users
  <2>2. \A x \in Accounts : users'[x] = IF x = a THEN NewUser(b) ELSE users[x]
        BY <1>2, <1>t DEF Create
  <2> QED BY <2>1, <2>2, <1>2 DEF DeletedRows
<1>3. ASSUME NEW a \in Accounts, users[a] # NoUser, Remove(a), gone' = gone \cup {a}
      PROVE  DeletedRows' /\ gone \subseteq gone' /\ \A x \in Accounts : users[x] # NoUser => users'[x] # NoUser
  <2>1. users[a] \in Users
        BY <1>3, <1>t
  <2>2. [users[a] EXCEPT !.is_active = FALSE] \in Users
        /\ ~[users[a] EXCEPT !.is_active = FALSE].is_active
        BY <2>1 DEF Users
  <2>3. \A x \in Accounts :
            users'[x] = IF x = a THEN [users[a] EXCEPT !.is_active = FALSE] ELSE users[x]
        BY <1>3, <1>t DEF Remove
  <2>4. [users[a] EXCEPT !.is_active = FALSE] # NoUser
        BY <2>2 DEF Users
  <2> QED BY <2>2, <2>3, <2>4, <1>3 DEF DeletedRows
<1> QED BY <1>1, <1>2, <1>3

\* A request that comes to issue tokens has just read an account that is not deleted,
\* or has just inserted it; one that panics has not found the one it met.
Arrives(r) ==
    /\ requests' = [requests EXCEPT ![r] = requests'[r]]
    /\ ~At(r, "issue") /\ At(r, "issue")' => requests'[r].account \notin gone'
    /\ Met(requests[r])'

LEMMA QuietArrives ==
    ASSUME TypeInv, AccountInv, NEW r \in Requests, QuietActs(r)
    PROVE  /\ Arrives(r) /\ UNCHANGED gone /\ faults' >= faults
           /\ UNCHANGED users \/ \E a \in Accounts, b \in BOOLEAN : Create(a, b)
<1> USE AuthAssumption
<1>t. /\ requests \in [Requests -> Request] /\ requests[r] \in Request /\ Carried(requests[r])
      /\ users \in [Accounts -> Users \cup {NoUser}] /\ faults \in Nat
      /\ DeletedRows /\ Met(requests[r])
      BY DEF TypeInv, TypeOK, InFlightOK, AccountInv
<1>u. gone' = gone /\ requests' = [requests EXCEPT ![r] = requests'[r]]
      BY QuietActsAre
<1>f. Fails => faults' \in Nat /\ faults' > 0 /\ faults' >= faults
      BY <1>t DEF Fails
<1>m. ASSUME NEW x, Become(r, x) PROVE requests'[r] = x
      BY <1>m, <1>t DEF Become
<1>n. ASSUME NEW a \in Accounts, NEW b \in BOOLEAN, Create(a, b) PROVE users'[a] # NoUser
  <2>1. NewUser(b) \in Users
        BY DEF NewUser, Users
  <2>2. NewUser(b) # NoUser
        BY <2>1 DEF Users
  <2> QED BY <1>n, <1>t, <2>2 DEF Create
<1>x. \A a \in Accounts : Readable(a) => users[a] # NoUser
      BY DEF Readable
<1> DEFINE Good == /\ Arrives(r) /\ faults' >= faults
                   /\ UNCHANGED users \/ \E a \in Accounts, b \in BOOLEAN : Create(a, b)
<1>1. ASSUME NEW c \in Clients, NEW a \in Accounts, Register(r, c, a)
      PROVE  Good
  <2>1. a \notin gone /\ Create(a, FALSE) /\ faults' = faults
        BY <1>1, <1>t DEF Register, Create, DeletedRows
  <2>2. requests'[r] = Opened("register", c, "issue", a, NoToken)
        BY <1>1, <1>m DEF Register
  <2>3. Arrives(r)
    <3>1. users'[a] # NoUser
          BY <2>1, <1>n
    <3> QED BY <2>1, <2>2, <3>1, <1>u DEF Arrives, Met, Opened
  <2>4. \E x \in Accounts, b \in BOOLEAN : Create(x, b)
        BY <2>1
  <2>5. faults' >= faults
        BY <2>1, <1>t
  <2> QED BY <2>3, <2>4, <2>5
<1>2. ASSUME NEW c \in Clients, NEW e \in Emails, Login(r, c, e)
      PROVE  Good
  <2>1. PICK a \in GetByEmail(e) : Become(r, Opened("login", c, "issue", a, NoToken))
        BY <1>2 DEF Login
  <2>2. a \notin gone /\ users[a] # NoUser
        BY <1>t, <1>x, ReadsRefuse DEF GetByEmail
  <2>3. requests'[r] = Opened("login", c, "issue", a, NoToken)
        BY <2>1, <1>m
  <2>4. UNCHANGED <<users, faults>>
        BY <1>2 DEF Login
  <2> QED BY <2>2, <2>3, <2>4, <1>u, <1>t DEF Arrives, Met, Opened
<1>3. ASSUME NEW c \in Clients, NEW e \in Emails, OAuthBySub(r, c, e)
      PROVE  Good
  <2>1. UNCHANGED users /\ faults' >= faults
        BY <1>3, <1>f, <1>t DEF OAuthBySub
  <2>2. \/ \E a \in GetByOAuthSub(e) : Become(r, Opened("oauth", c, "issue", a, NoToken))
        \/ Become(r, Opened("oauth", c, "byEmail", <<DemoCompany, e>>, NoToken))
        BY <1>3 DEF OAuthBySub
  <2>3. CASE \E a \in GetByOAuthSub(e) : Become(r, Opened("oauth", c, "issue", a, NoToken))
    <3>1. PICK a \in GetByOAuthSub(e) : requests'[r] = Opened("oauth", c, "issue", a, NoToken)
          BY <2>3, <1>m
    <3>2. a \notin gone /\ users[a] # NoUser
          BY <1>t, <1>x, ReadsRefuse DEF GetByOAuthSub
    <3> QED BY <2>1, <3>1, <3>2, <1>u DEF Arrives, Met, Opened
  <2>4. CASE Become(r, Opened("oauth", c, "byEmail", <<DemoCompany, e>>, NoToken))
    <3>1. requests'[r] = Opened("oauth", c, "byEmail", <<DemoCompany, e>>, NoToken)
          BY <2>4, <1>m
    <3>2. <<DemoCompany, e>> \in Accounts
          BY DEF Accounts
    <3> QED BY <2>1, <3>1, <3>2, <1>u DEF Arrives, Met, Opened, At
  <2> QED BY <2>2, <2>3, <2>4
<1>4. CASE RefreshUser(r)
  <2>1. UNCHANGED users /\ faults' >= faults /\ requests[r].pc = "user" /\ requests[r].account \in Accounts
        BY <1>4, <1>f, <1>t DEF RefreshUser, At, Carried
  <2>2. CASE GetByID(requests[r].account) # {} /\ requests'[r] = Moved(r, "issue")
        BY <2>1, <2>2, <1>u, <1>t, <1>x, ReadsRefuse DEF GetByID, Arrives, Met, Moved, Request
  <2>3. CASE requests'[r] = Idle
        BY <2>1, <2>3, <1>u DEF Arrives, Met, Idle, At
  <2> QED BY <1>4, <1>m, <2>2, <2>3 DEF RefreshUser
<1>5. CASE OAuthByEmail(r)
  <2>1. UNCHANGED users /\ faults' >= faults /\ requests[r].pc = "byEmail" /\ requests[r].account \in Accounts
        BY <1>5, <1>f, <1>t DEF OAuthByEmail, At, Carried
  <2>2. CASE \E a \in GetByEmail(requests[r].account[2]) : requests'[r] = Serving(r, a)
    <3>1. PICK a \in GetByEmail(requests[r].account[2]) : requests'[r] = Serving(r, a)
          BY <2>2
    <3>2. a \notin gone /\ a \in Accounts /\ users[a] # NoUser
          BY <1>t, <1>x, ReadsRefuse DEF GetByEmail
    <3> QED BY <2>1, <3>1, <3>2, <1>u, <1>t DEF Arrives, Met, Serving, Request
  <2>3. CASE requests'[r] = Moved(r, "create")
        BY <2>1, <2>3, <1>u, <1>t DEF Arrives, Met, Moved, Request, At
  <2> QED BY <1>5, <1>m, <2>1, <2>2, <2>3 DEF OAuthByEmail
<1>6. CASE OAuthCreate(r)
  <2>1. faults' >= faults /\ requests[r].pc = "create" /\ requests[r].account \in Accounts
    <3>1. faults' >= faults
      <4>1. faults' = faults \/ Fails
            BY <1>6 DEF OAuthCreate
      <4> QED BY <4>1, <1>f, <1>t
    <3>2. requests[r].pc = "create"
          BY <1>6 DEF OAuthCreate, At
    <3> QED BY <3>1, <3>2, <1>t DEF Carried
  <2>2. CASE Create(requests[r].account, TRUE) /\ requests'[r] = Moved(r, "issue")
    <3>1. requests[r].account \notin gone
          BY <2>1, <2>2, <1>t DEF Create, DeletedRows
    <3> QED BY <2>1, <2>2, <3>1, <1>u, <1>t, <1>n DEF Arrives, Met, Moved, Request
  <2>3. CASE users[requests[r].account] # NoUser /\ requests'[r] = Moved(r, "again") /\ UNCHANGED users
        BY <2>1, <2>3, <1>u, <1>t DEF Arrives, Met, Moved, Request, At
  <2>4. CASE requests'[r] = Idle /\ UNCHANGED users
        BY <2>1, <2>4, <1>u DEF Arrives, Met, Idle, At
  <2> QED BY <1>6, <1>m, <2>2, <2>3, <2>4 DEF OAuthCreate
<1>7. CASE OAuthAgain(r)
  <2>1. /\ UNCHANGED users /\ faults' >= faults /\ requests[r].pc = "again"
        /\ requests[r].account \in Accounts /\ users[requests[r].account] # NoUser
        BY <1>7, <1>f, <1>t DEF OAuthAgain, At, Carried, Met
  <2>2. CASE \E a \in GetByEmail(requests[r].account[2]) : requests'[r] = Serving(r, a)
    <3>1. PICK a \in GetByEmail(requests[r].account[2]) : requests'[r] = Serving(r, a)
          BY <2>2
    <3>2. a \notin gone /\ a \in Accounts /\ users[a] # NoUser
          BY <1>t, <1>x, ReadsRefuse DEF GetByEmail
    <3> QED BY <2>1, <3>1, <3>2, <1>u, <1>t DEF Arrives, Met, Serving, Request
  <2>3. CASE /\ GetByEmail(requests[r].account[2]) = {} \/ faults' > 0
             /\ requests'[r] = Moved(r, "panicked")
    <3>1. requests[r].account \in gone \/ faults' > 0
          BY <2>1, <2>3, <1>t, ReadsRefuse DEF GetByEmail
    <3> QED BY <2>1, <2>3, <3>1, <1>u, <1>t DEF Arrives, Met, Moved, Request, At
  <2> QED BY <1>7, <1>m, <1>f, <2>2, <2>3 DEF OAuthAgain
<1>8. CASE Recover(r) \/ Crash(r)
  <2>1. requests'[r] = Idle /\ UNCHANGED users /\ faults' >= faults
        BY <1>8, <1>m, <1>f, <1>t DEF Recover, Crash
  <2> QED BY <2>1, <1>u DEF Arrives, Met, Idle, At
<1> QED
  BY <1>u, <1>1, <1>2, <1>3, <1>4, <1>5, <1>6, <1>7, <1>8
  DEF QuietActs, PostRegister, PostLogin, GoogleOAuthCallback, HandleOAuth

LEMMA AccountInvStep ==
    ASSUME TypeInv, AccountInv, [Next]_vars
    PROVE  /\ AccountInv'
           /\ \A r \in Requests : ~At(r, "issue") /\ At(r, "issue")'
                 => requests'[r].account \notin gone
<1> USE AuthAssumption
<1>t. /\ requests \in [Requests -> Request] /\ \A r \in Requests : Carried(requests[r])
      /\ gone \subseteq Accounts /\ faults \in Nat
      /\ DeletedRows /\ \A r \in Requests : Met(requests[r])
      BY DEF TypeInv, TypeOK, InFlightOK, AccountInv
<1> DEFINE Good == /\ AccountInv'
                   /\ \A r \in Requests : ~At(r, "issue") /\ At(r, "issue")'
                         => requests'[r].account \notin gone
\* The requests that do not move stay right, since rows stay, gone and faults grow.
<1>w. ASSUME \A a \in Accounts : users[a] # NoUser => users'[a] # NoUser,
             gone \subseteq gone', faults' \in Nat, faults' >= faults,
             NEW q \in Requests, requests'[q] = requests[q]
      PROVE  Met(requests[q])'
  <2>1. Met(requests[q]) /\ (requests[q].pc # "idle" => requests[q].account \in Accounts)
        BY <1>t DEF Carried
  <2>2. faults \in Nat
        BY <1>t
  <2> QED BY <1>w, <2>1, <2>2 DEF Met
\* No request comes to issue tokens.
<1>s. ASSUME UNCHANGED requests, faults' \in Nat, faults' >= faults,
             \/ UNCHANGED <<users, gone>>
             \/ \E a \in Accounts : users[a] # NoUser /\ Remove(a) /\ gone' = gone \cup {a}
      PROVE  Good
      BY <1>s, <1>w, <1>t, RowsOfUsers DEF AccountInv, At
\* Request r moves, the others stay.
<1>m. ASSUME NEW r \in Requests, Arrives(r), UNCHANGED gone, faults' \in Nat, faults' >= faults,
             UNCHANGED users \/ \E a \in Accounts, b \in BOOLEAN : Create(a, b)
      PROVE  Good
  <2>1. DeletedRows' /\ \A a \in Accounts : users[a] # NoUser => users'[a] # NoUser
        BY <1>m, <1>t, RowsOfUsers
  <2>2. \A q \in Requests : q # r => requests'[q] = requests[q]
        BY <1>m, <1>t DEF Arrives
  <2>3. \A q \in Requests : Met(requests[q])'
    <3> SUFFICES ASSUME NEW q \in Requests PROVE Met(requests[q])'
        OBVIOUS
    <3>1. CASE q = r
          BY <3>1, <1>m DEF Arrives
    <3>2. CASE q # r
          BY <3>2, <2>1, <2>2, <1>m, <1>w
    <3> QED BY <3>1, <3>2
  <2>4. \A q \in Requests : ~At(q, "issue") /\ At(q, "issue")' => requests'[q].account \notin gone
    <3> SUFFICES ASSUME NEW q \in Requests, ~At(q, "issue"), At(q, "issue")'
                 PROVE  requests'[q].account \notin gone
        OBVIOUS
    <3>1. q = r
          BY <2>2 DEF At
    <3> QED BY <3>1, <1>m DEF Arrives
  <2> QED BY <2>1, <2>3, <2>4 DEF AccountInv
<1>f. Fails => faults' \in Nat /\ faults' >= faults
      BY <1>t DEF Fails
<1>a. ASSUME NEW r \in Requests, NEW x, requests' = [requests EXCEPT ![r] = x],
             x.pc \in {"idle", "revoke", "user", "answer"}
      PROVE  Arrives(r)
  <2>1. requests'[r] = x /\ requests' = [requests EXCEPT ![r] = requests'[r]]
        BY <1>a, <1>t
  <2> QED BY <2>1, <1>a DEF Arrives, Met, At
<1>1. ASSUME NEW r \in Requests, QuietActs(r) PROVE Good
  <2>1. faults' \in Nat
        BY <1>1, QuietActsAre DEF Quiet
  <2> QED BY <1>1, <2>1, <1>m, QuietArrives
<1>2. ASSUME NEW r \in Requests, NEW c \in Clients, RefreshTokens(r, c) PROVE Good
  <2>1. requests' = [requests EXCEPT ![r] = Opened("refresh", c, "revoke", owner[held[c]], held[c])]
        /\ UNCHANGED <<users, gone, faults>>
        BY <1>2 DEF RefreshTokens, RefreshLookup, Become
  <2>2. Arrives(r)
        BY <2>1, <1>a DEF Opened
  <2> QED BY <2>1, <2>2, <1>m, <1>t
<1>3. ASSUME NEW r \in Requests, RefreshRevoke(r) PROVE Good
  <2>1. requests' = [requests EXCEPT ![r] = Moved(r, "user")] /\ UNCHANGED <<users, gone>>
        BY <1>3 DEF RefreshRevoke, Become, History
  <2>2. Moved(r, "user").pc = "user"
        BY <1>t DEF Moved, Request
  <2>3. faults' \in Nat /\ faults' >= faults
        BY <1>3, <1>f, <1>t DEF RefreshRevoke
  <2> QED BY <2>1, <2>2, <2>3, <1>a, <1>m
<1>4. ASSUME NEW r \in Requests, Answer(r) PROVE Good
  <2>1. requests' = [requests EXCEPT ![r] = Idle] /\ UNCHANGED <<users, gone, faults>>
        BY <1>4 DEF Answer, Become, History
  <2>2. Idle.pc = "idle"
        BY DEF Idle
  <2>3. Arrives(r)
        BY <2>1, <2>2, <1>a
  <2>4. faults' \in Nat /\ faults' >= faults
        BY <2>1, <1>t
  <2> QED BY <2>1, <2>3, <2>4, <1>m
<1>5. ASSUME NEW r \in Requests, NEW t \in Tokens, IssueTokens(r, t) PROVE Good
  <2>1. requests' = [requests EXCEPT ![r] = [requests[r] EXCEPT !.pc = "answer", !.fresh = t]]
        /\ UNCHANGED <<users, gone>>
        BY <1>5 DEF IssueTokens, Become, History
  <2>2. [requests[r] EXCEPT !.pc = "answer", !.fresh = t].pc = "answer"
        BY <1>t DEF Request
  <2>3. faults' \in Nat /\ faults' >= faults
        BY <1>5, <1>f, <1>t DEF IssueTokens, StoreRefreshToken
  <2> QED BY <2>1, <2>2, <2>3, <1>a, <1>m
<1>6. ASSUME NEW c \in Clients, Logout(c) \/ LogoutAll(c) PROVE Good
  <2>1. UNCHANGED <<users, gone, requests>>
        BY <1>6 DEF Logout, LogoutAll
  <2>2. faults' \in Nat /\ faults' >= faults
        BY <1>6, <1>f, <1>t DEF Logout, LogoutAll
  <2> QED BY <2>1, <2>2, <1>s
<1>7. ASSUME NEW a \in Accounts, NEW b \in BOOLEAN, DeleteUser(a) \/ UpdateUser(a, b) PROVE Good
  <2>1. UNCHANGED <<requests, faults>>
        BY <1>7, AccountsKeep
  <2>2. UNCHANGED <<users, gone>> \/ (users[a] # NoUser /\ Remove(a) /\ gone' = gone \cup {a})
        BY <1>7 DEF DeleteUser, UpdateUser, Update, History
  <2> QED BY <2>1, <2>2, <1>s, <1>t
<1>8. ASSUME NEW t \in Tokens, Expire(t) PROVE Good
      BY <1>8, <1>s, <1>t DEF Expire, History
<1>9. CASE UNCHANGED vars
      BY <1>9, <1>s, <1>t DEF vars
<1> QED
  BY <1>1, <1>2, <1>3, <1>4, <1>5, <1>6, <1>7, <1>8, <1>9 DEF Next, QuietActs

\* PanicsOnlyForDeleted holds in every state: the nil user of HandleOAuth is a deleted
\* one, unless a database call failed.
THEOREM PanicsExplained == Spec => []PanicsOnlyForDeleted
<1>1. AccountInv => PanicsOnlyForDeleted
      BY DEF AccountInv, Met, At, PanicsOnlyForDeleted
<1> QED BY InitTypeInv, TypeInvStep, InitAccountInv, AccountInvStep, <1>1, PTL DEF Spec

\* DeletedIsRefused holds of every step: no account is taken up after its deletion.
THEOREM DeletedRefused == Spec => DeletedIsRefused
<1>1. TypeInv /\ AccountInv /\ [Next]_vars =>
          [\A r \in Requests : ~At(r, "issue") /\ At(r, "issue")'
              => requests'[r].account \notin gone]_vars
      BY AccountInvStep
<1> QED
  BY InitTypeInv, TypeInvStep, InitAccountInv, AccountInvStep, <1>1, PTL DEF Spec, DeletedIsRefused

-----------------------------------------------------------------------------
(* Rotation: one token at a time *)

\* Besides OneTokenPerSession: two exchanges of a session are one and the same, since
\* the second would have had to read a token that was live (Single is used for r = q).
Single ==
    faults = 0 =>
        \A s \in Tokens \ overlapped, r, q \in Requests, t, u \in Tokens :
            line[t] = s /\ line[u] = s /\ Exchanging(r, t) /\ Exchanging(q, u) => r = q

Rotation == OneTokenPerSession /\ Single

\* Steps that neither read a token for an exchange nor advance one.
Calm ==
    /\ line' = line
    /\ \A t \in Tokens : status'[t] = "live" => status[t] = "live"
    /\ \A q \in Requests, t \in Tokens :
          Exchanging(q, t)' => Exchanging(q, t) /\ (At(q, "revoke") => At(q, "revoke")')
    /\ faults' = 0 => faults = 0
    /\ overlapped \subseteq overlapped'

LEMMA CalmRotates ==
    ASSUME Rotation, Calm
    PROVE  Rotation'
<1>1. OneTokenPerSession'
  <2> SUFFICES ASSUME faults' = 0, NEW s \in Tokens \ overlapped', NEW t \in Tokens, NEW u \in Tokens,
                      line'[t] = s, status'[t] = "live", line'[u] = s
               PROVE  /\ status'[u] = "live" => t = u
                      /\ \A r \in Requests : Exchanging(r, u)' => t = u /\ At(r, "revoke")'
      BY DEF OneTokenPerSession
  <2>1. /\ faults = 0 /\ s \in Tokens \ overlapped /\ line[t] = s /\ line[u] = s
        /\ status[t] = "live" /\ (status'[u] = "live" => status[u] = "live")
        BY DEF Calm
  <2>2. status'[u] = "live" => t = u
        BY <2>1 DEF Rotation, OneTokenPerSession
  <2>3. ASSUME NEW r \in Requests, Exchanging(r, u)' PROVE t = u /\ At(r, "revoke")'
    <3>1. Exchanging(r, u) /\ (At(r, "revoke") => At(r, "revoke")')
          BY <2>3 DEF Calm
    <3> QED BY <2>1, <3>1 DEF Rotation, OneTokenPerSession
  <2> QED BY <2>2, <2>3
<1>2. Single'
      BY DEF Single, Rotation, Calm
<1> QED BY <1>1, <1>2 DEF Rotation

LEMMA QuietCalm ==
    ASSUME TypeInv, NEW r \in Requests, QuietActs(r)
    PROVE  Calm
<1> USE AuthAssumption
<1>1. /\ requests' = [requests EXCEPT ![r] = requests'[r]] /\ QuietMove(r)
      /\ requests \in [Requests -> Request] /\ Carried(requests[r])
      /\ UNCHANGED <<status, line, overlapped>>
      BY QuietActsAre DEF TypeInv, TypeOK, InFlightOK, Quiet, TokenVars
<1>2. ASSUME NEW q \in Requests, NEW t \in Tokens, Exchanging(q, t)', At(q, "revoke")
      PROVE  At(q, "revoke")'
  <2>1. CASE q # r
        BY <1>1, <1>2, <2>1 DEF At
  <2>2. CASE q = r
    <3>1. requests[r].pc = "revoke"
          BY <1>2, <2>2 DEF At
    <3>2. requests'[r].token = NoToken
          BY <1>1, <3>1 DEF QuietMove, Opened, Idle
    <3> QED BY <1>2, <2>2, <3>2 DEF Exchanging
  <2> QED BY <2>1, <2>2
<1>3. faults' = 0 => faults = 0
  <2>1. faults' = faults \/ Fails
        BY DEF QuietActs, PostRegister, PostLogin, GoogleOAuthCallback, HandleOAuth, Register, Login,
           OAuthBySub, RefreshUser, OAuthByEmail, OAuthCreate, OAuthAgain, Recover, Crash
  <2> QED BY <2>1, FailsType
<1> QED BY <1>1, <1>2, <1>3, QuietExchanging DEF Calm

LEMMA LookupRotates ==
    ASSUME TypeInv, Rotation, NEW r \in Requests, NEW c \in Clients, RefreshTokens(r, c)
    PROVE  Rotation'
<1> USE AuthAssumption
<1> DEFINE h == held[c]
<1>1. /\ h \in Tokens /\ status[h] = "live" /\ requests[r].pc = "idle"
      /\ requests' = [requests EXCEPT ![r] = Opened("refresh", c, "revoke", owner[h], h)]
      /\ UNCHANGED <<status, line, faults>>
      BY DEF RefreshTokens, RefreshLookup, At, Become, Exchangeable, TokenVars, TypeInv, TypeOK
<1>2. /\ overlapped \subseteq overlapped'
      /\ \A q \in Requests : At(q, "revoke") /\ requests[q].token = h => line[h] \in overlapped'
      BY DEF RefreshTokens, RefreshLookup
<1>3. /\ requests'[r] = Opened("refresh", c, "revoke", owner[h], h)
      /\ \A q \in Requests : q # r => requests'[q] = requests[q]
      BY <1>1 DEF TypeInv, TypeOK
<1>4. /\ \A t \in Tokens : Exchanging(r, t)' => t = h
      /\ At(r, "revoke")'
      /\ \A t \in Tokens : ~Exchanging(r, t)
      /\ \A q \in Requests, t \in Tokens : q # r =>
            (Exchanging(q, t)' <=> Exchanging(q, t)) /\ (At(q, "revoke")' <=> At(q, "revoke"))
      BY <1>1, <1>3 DEF Exchanging, At, Opened
\* Nobody else exchanges a token of the session, if it is not overlapped from now on.
<1>5. ASSUME faults = 0, line[h] \in Tokens \ overlapped', NEW q \in Requests, NEW u \in Tokens,
             line[u] = line[h], Exchanging(q, u)
      PROVE  FALSE
  <2>1. u = h /\ At(q, "revoke")
        BY <1>1, <1>2, <1>5 DEF Rotation, OneTokenPerSession
  <2>2. requests[q].token = h
        BY <2>1, <1>5 DEF Exchanging
  <2> QED BY <2>1, <2>2, <1>2, <1>5
<1>6. OneTokenPerSession'
  <2> SUFFICES ASSUME faults' = 0, NEW s \in Tokens \ overlapped', NEW t \in Tokens, NEW u \in Tokens,
                      line'[t] = s, status'[t] = "live", line'[u] = s
               PROVE  /\ status'[u] = "live" => t = u
                      /\ \A q \in Requests : Exchanging(q, u)' => t = u /\ At(q, "revoke")'
      BY DEF OneTokenPerSession
  <2>1. faults = 0 /\ s \in Tokens \ overlapped /\ line[t] = s /\ status[t] = "live" /\ line[u] = s
        BY <1>1, <1>2
  <2>2. status'[u] = "live" => t = u
        BY <2>1, <1>1 DEF Rotation, OneTokenPerSession
  <2>3. ASSUME NEW q \in Requests, Exchanging(q, u)' PROVE t = u /\ At(q, "revoke")'
    <3>1. CASE q = r
          BY <3>1, <2>1, <2>3, <1>1, <1>4 DEF Rotation, OneTokenPerSession
    <3>2. CASE q # r
          BY <3>2, <2>1, <2>3, <1>4 DEF Rotation, OneTokenPerSession
    <3> QED BY <3>1, <3>2
  <2> QED BY <2>2, <2>3
<1>7. Single'
  <2> SUFFICES ASSUME faults' = 0, NEW s \in Tokens \ overlapped', NEW p \in Requests, NEW q \in Requests,
                      NEW t \in Tokens, NEW u \in Tokens, line'[t] = s, line'[u] = s,
                      Exchanging(p, t)', Exchanging(q, u)'
               PROVE  p = q
      BY DEF Single
  <2>1. faults = 0 /\ s \in Tokens \ overlapped /\ line[t] = s /\ line[u] = s
        BY <1>1, <1>2
  <2>2. CASE p # r /\ q # r
        BY <2>1, <2>2, <1>4 DEF Rotation, Single
  <2>3. CASE p = r /\ q # r
        BY <2>1, <2>3, <1>4, <1>5
  <2>4. CASE p # r /\ q = r
        BY <2>1, <2>4, <1>4, <1>5
  <2> QED BY <2>2, <2>3, <2>4
<1> QED BY <1>6, <1>7 DEF Rotation

LEMMA RevokeRotates ==
    ASSUME TypeInv, Rotation, NEW r \in Requests, RefreshRevoke(r)
    PROVE  Rotation'
<1> USE AuthAssumption
<1> DEFINE h == requests[r].token
<1>1. /\ h \in Tokens /\ Stored(h) /\ requests[r].pc = "revoke" /\ requests[r] \in Request
      /\ requests' = [requests EXCEPT ![r] = Moved(r, "user")]
      /\ UNCHANGED <<line, overlapped>>
      BY DEF TypeInv, TypeOK, InFlightOK, Carried, Request, RefreshRevoke, At, Become, History
<1>2. /\ requests'[r] = Moved(r, "user")
      /\ \A q \in Requests : q # r => requests'[q] = requests[q]
      BY <1>1 DEF TypeInv, TypeOK
<1>3. /\ Exchanging(r, h)
      /\ \A q \in Requests, t \in Tokens : Exchanging(q, t)' <=> Exchanging(q, t)
      /\ \A q \in Requests : q # r => (At(q, "revoke")' <=> At(q, "revoke"))
      BY <1>1, <1>2 DEF Exchanging, At, Moved, Request
<1>4. faults' = 0 => faults = 0 /\ \A t \in Tokens : status'[t] = IF t = h THEN "revoked" ELSE status[t]
      BY <1>1, FailsType DEF RefreshRevoke, Revoke, TypeInv, TypeOK
<1>5. OneTokenPerSession'
  <2> SUFFICES ASSUME faults' = 0, NEW s \in Tokens \ overlapped', NEW t \in Tokens, NEW u \in Tokens,
                      line'[t] = s, status'[t] = "live", line'[u] = s
               PROVE  /\ status'[u] = "live" => t = u
                      /\ \A q \in Requests : Exchanging(q, u)' => t = u /\ At(q, "revoke")'
      BY DEF OneTokenPerSession
  <2>1. /\ faults = 0 /\ s \in Tokens \ overlapped /\ line[t] = s /\ line[u] = s
        /\ status[t] = "live" /\ t # h /\ (status'[u] = "live" => status[u] = "live")
        BY <1>1, <1>4
  <2>2. status'[u] = "live" => t = u
        BY <2>1 DEF Rotation, OneTokenPerSession
  <2>3. s # line[h]
        BY <2>1, <1>1, <1>3 DEF Rotation, OneTokenPerSession
  <2>4. ASSUME NEW q \in Requests, Exchanging(q, u)' PROVE t = u /\ At(q, "revoke")'
    <3>1. Exchanging(q, u) /\ t = u /\ At(q, "revoke")
          BY <2>1, <2>4, <1>3 DEF Rotation, OneTokenPerSession
    <3>2. q # r
          BY <3>1, <2>1, <2>3 DEF Exchanging
    <3> QED BY <3>1, <3>2, <1>3
  <2> QED BY <2>2, <2>4
<1>6. Single'
      BY <1>1, <1>3, <1>4 DEF Rotation, Single
<1> QED BY <1>5, <1>6 DEF Rotation

LEMMA IssueRotates ==
    ASSUME TypeInv, Rotation, NEW r \in Requests, NEW t \in Tokens, IssueTokens(r, t)
    PROVE  Rotation'
<1> USE AuthAssumption
<1> DEFINE used == requests[r].token
<1>1. /\ requests[r] \in Request /\ requests[r].pc = "issue" /\ Carried(requests[r])
      /\ requests' = [requests EXCEPT ![r] = [requests[r] EXCEPT !.pc = "answer", !.fresh = t]]
      /\ status[t] = "none" /\ UNCHANGED overlapped
      /\ line' = [line EXCEPT ![t] = IF used = NoToken THEN t ELSE line[used]]
      BY DEF TypeInv, TypeOK, InFlightOK, IssueTokens, At, Become, GenerateTokenPair, History
<1>2. \A u \in Tokens : u # t => status'[u] = status[u] /\ line'[u] = line[u]
      BY <1>1 DEF IssueTokens, StoreRefreshToken, TypeInv, TypeOK
<1>3. line'[t] = IF used = NoToken THEN t ELSE line[used]
      BY <1>1 DEF TypeInv, TypeOK
<1>4. faults' = 0 => faults = 0
      BY FailsType DEF IssueTokens, StoreRefreshToken
<1>5. \A q \in Requests, u \in Tokens :
          Exchanging(q, u)' => Exchanging(q, u) /\ q # r /\ (At(q, "revoke") => At(q, "revoke")')
      BY <1>1 DEF Exchanging, At, Request, TypeInv, TypeOK
<1>6. \A q \in Requests, u \in Tokens : Exchanging(q, u) => u # t
      BY <1>1 DEF Exchanging, TypeInv, InFlightOK, Carried, Stored
<1>7. used # NoToken => used \in Tokens /\ Exchanging(r, used)
      BY <1>1 DEF Exchanging, Request
\* In the session that goes on nothing is live, and nobody else exchanges.
<1>8. ASSUME faults = 0, used # NoToken, line[used] \in Tokens \ overlapped, NEW u \in Tokens,
             line[u] = line[used]
      PROVE  status[u] # "live" /\ \A q \in Requests : Exchanging(q, u) => q = r
      BY <1>1, <1>7, <1>8 DEF Rotation, OneTokenPerSession, Single, At
\* In the session that begins there is nothing else.
<1>9. \A u \in Tokens : u # t => line[u] # t \/ status[u] = "none"
      BY <1>1 DEF TypeInv, Issued
<1>10. \A u \in Tokens : status[u] = "none" => line[u] = NoToken
      BY DEF TypeInv, Issued
<1>11. ASSUME faults' = 0, NEW s \in Tokens \ overlapped', line'[t] = s, NEW u \in Tokens, u # t, line'[u] = s
       PROVE  status'[u] # "live" /\ \A q \in Requests : ~Exchanging(q, u)'
  <2>1. CASE used = NoToken
        BY <2>1, <1>2, <1>3, <1>9, <1>10, <1>11
  <2>2. CASE used # NoToken
        BY <2>2, <1>1, <1>2, <1>3, <1>4, <1>5, <1>8, <1>11
  <2> QED BY <2>1, <2>2
<1>12. \A q \in Requests : ~Exchanging(q, t)'
      BY <1>5, <1>6
<1>13. OneTokenPerSession'
  <2> SUFFICES ASSUME faults' = 0, NEW s \in Tokens \ overlapped', NEW v \in Tokens, NEW u \in Tokens,
                      line'[v] = s, status'[v] = "live", line'[u] = s
               PROVE  /\ status'[u] = "live" => v = u
                      /\ \A q \in Requests : Exchanging(q, u)' => v = u /\ At(q, "revoke")'
      BY DEF OneTokenPerSession
  <2>1. CASE v = t \/ u = t
        BY <2>1, <1>11, <1>12
  <2>2. CASE v # t /\ u # t
    <3>1. faults = 0 /\ s \in Tokens \ overlapped /\ line[v] = s /\ line[u] = s
          /\ status[v] = "live" /\ (status'[u] = "live" => status[u] = "live")
          BY <2>2, <1>1, <1>2, <1>4
    <3> QED BY <3>1, <1>5 DEF Rotation, OneTokenPerSession
  <2> QED BY <2>1, <2>2
<1>14. Single'
  <2> SUFFICES ASSUME faults' = 0, NEW s \in Tokens \ overlapped', NEW p \in Requests, NEW q \in Requests,
                      NEW v \in Tokens, NEW u \in Tokens, line'[v] = s, line'[u] = s,
                      Exchanging(p, v)', Exchanging(q, u)'
               PROVE  p = q
      BY DEF Single
  <2>1. v # t /\ u # t
        BY <1>12
  <2> QED BY <2>1, <1>1, <1>2, <1>4, <1>5 DEF Rotation, Single
<1> QED BY <1>13, <1>14 DEF Rotation

LEMMA RotationStep == TypeInv /\ Rotation /\ [Next]_vars => Rotation'
<1> SUFFICES ASSUME TypeInv, Rotation, [Next]_vars PROVE Rotation'
    OBVIOUS
\* Requests stay where they are.
<1>s. ASSUME UNCHANGED <<line, requests>>, overlapped' = overlapped, faults' = faults \/ Fails,
             \A t \in Tokens : status'[t] = "live" => status[t] = "live"
      PROVE  Calm
  <2>1. faults' = 0 => faults = 0
        BY <1>s, FailsType
  <2> QED BY <1>s, <2>1 DEF Calm, Exchanging, At
<1>1. ASSUME NEW r \in Requests, QuietActs(r) PROVE Rotation'
      BY <1>1, QuietCalm, CalmRotates
<1>2. ASSUME NEW r \in Requests, Answer(r) PROVE Rotation'
  <2>1. /\ requests' = [requests EXCEPT ![r] = Idle] /\ UNCHANGED <<status, line, overlapped, faults>>
        BY <1>2 DEF Answer, Become, TokenVars, History
  <2>2. \A q \in Requests, t \in Tokens :
            Exchanging(q, t)' => Exchanging(q, t) /\ (At(q, "revoke") => At(q, "revoke")')
        BY <2>1 DEF Exchanging, At, Idle, TypeInv, TypeOK
  <2> QED BY <2>1, <2>2, CalmRotates DEF Calm
<1>3. ASSUME NEW c \in Clients, Logout(c) \/ LogoutAll(c) PROVE Rotation'
  <2>1. \A t \in Tokens : status'[t] = "live" => status[t] = "live"
        BY <1>3 DEF Logout, Revoke, LogoutAll, RevokeAllUserTokens, TypeInv, TypeOK
  <2>2. UNCHANGED <<line, requests>> /\ overlapped' = overlapped /\ (faults' = faults \/ Fails)
        BY <1>3 DEF Logout, LogoutAll
  <2> QED BY <2>1, <2>2, <1>s, CalmRotates
<1>4. ASSUME NEW a \in Accounts, NEW b \in BOOLEAN, DeleteUser(a) \/ UpdateUser(a, b) PROVE Rotation'
      BY <1>4, AccountsKeep, <1>s, CalmRotates DEF TokenVars
<1>5. ASSUME NEW t \in Tokens, Expire(t) PROVE Rotation'
  <2>1. \A u \in Tokens : status'[u] = "live" => status[u] = "live"
        BY <1>5 DEF Expire, TypeInv, TypeOK
  <2> QED BY <1>5, <2>1, <1>s, CalmRotates DEF Expire, History
<1>6. CASE UNCHANGED vars
      BY <1>6, <1>s, CalmRotates DEF vars
<1> QED
  BY <1>1, <1>2, <1>3, <1>4, <1>5, <1>6, LookupRotates, RevokeRotates, IssueRotates DEF Next, QuietActs

\* OneTokenPerSession holds in every state: without faults and overlapping refreshes
\* rotation leaves a session one token, and an exchange only the one it read.
THEOREM RotationCorrect == Spec => []OneTokenPerSession
<1>1. Init => Rotation
      BY DEF Init, Rotation, OneTokenPerSession, Single, Exchanging, Idle
<1>2. Rotation => OneTokenPerSession
      BY DEF Rotation
<1> QED BY InitTypeInv, TypeInvStep, RotationStep, <1>1, <1>2, PTL DEF Spec

-----------------------------------------------------------------------------
(* A token that is held works *)

Works(t) == status[t] \in {"live", "expired"} \/ ended[line[t]] # "no" \/ owner[t] \in gone
Bears(r, c, t) == requests[r].client = c /\ requests[r].token = t

\* A token is in one place: on its way to a client, or with one client, whose requests
\* alone carry it. Nobody revokes a token but the client that holds it.
Apart ==
    /\ \A r, q \in Requests : requests[r].fresh # NoToken =>
          /\ requests[q].token # requests[r].fresh
          /\ q # r => requests[q].fresh # requests[r].fresh
    /\ \A c \in Clients, r \in Requests : requests[r].fresh # NoToken => held[c] # requests[r].fresh
    /\ \A c \in Clients, r \in Requests :
          held[c] # NoToken /\ requests[r].token = held[c] => requests[r].client = c
    /\ \A c, d \in Clients : held[c] # NoToken /\ held[d] = held[c] => d = c

\* Tokens belong to accounts that have a row.
Owned == \A t \in Tokens : status[t] # "none" => users[owner[t]] # NoUser

Supported(c) == held[c] # NoToken => Works(held[c]) \/ \E r \in Requests : Bears(r, c, held[c])

Usable ==
    faults = 0 =>
        /\ \A c \in Clients : Supported(c)
        /\ \A r \in Requests : requests[r].fresh # NoToken => Works(requests[r].fresh)

\* What the quiet actions make of a request's tokens.
LEMMA QuietTokens ==
    ASSUME TypeInv, NEW r \in Requests, QuietActs(r)
    PROVE  /\ requests'[r].fresh = NoToken
           /\ requests'[r].token # NoToken =>
                 requests'[r].token = requests[r].token /\ requests'[r].client = requests[r].client
           /\ \A q \in Requests : q # r => requests'[q] = requests[q]
           /\ UNCHANGED <<status, owner, line, held, ended, gone>>
<1>1. /\ requests' = [requests EXCEPT ![r] = requests'[r]] /\ QuietMove(r)
      /\ requests \in [Requests -> Request] /\ requests[r] \in Request /\ Carried(requests[r])
      /\ UNCHANGED <<status, owner, line, held, ended, gone>>
      BY QuietActsAre DEF TypeInv, TypeOK, InFlightOK, Quiet, TokenVars, ClientVars
<1>2. CASE \E c \in Clients, a \in Accounts, op \in {"register", "login", "oauth"} :
             requests'[r] \in {Opened(op, c, "issue", a, NoToken),
                               Opened(op, c, "byEmail", a, NoToken)}
      BY <1>1, <1>2 DEF Opened
<1>3. CASE requests[r].pc = "user" /\ requests'[r] = Moved(r, "issue")
      BY <1>1, <1>3 DEF Moved, Request, Carried
<1>4. CASE requests'[r] = Idle
      BY <1>1, <1>4 DEF Idle
<1>5. CASE requests[r].pc \in {"byEmail", "again"} /\ \E a \in Accounts : requests'[r] = Serving(r, a)
      BY <1>1, <1>5 DEF Serving, Request, Carried
<1>6. CASE /\ requests[r].pc \in {"byEmail", "create", "again"}
           /\ \E pc \in {"create", "again", "issue", "panicked"} : requests'[r] = Moved(r, pc)
      BY <1>1, <1>6 DEF Moved, Request, Carried
<1> QED BY <1>1, <1>2, <1>3, <1>4, <1>5, <1>6 DEF QuietMove

\* Without a fault a refresh is given up only when its account has been deleted.
LEMMA QuietGivesUp ==
    ASSUME TypeInv, AccountInv, Owned, NEW r \in Requests, QuietActs(r), faults' = 0,
           requests[r].token # NoToken
    PROVE  \/ requests'[r].token = requests[r].token /\ requests'[r].client = requests[r].client
           \/ owner[requests[r].token] \in gone
<1> USE AuthAssumption
<1>1. /\ requests[r] \in Request /\ requests \in [Requests -> Request] /\ Carried(requests[r])
      /\ requests[r].token \in Tokens /\ Stored(requests[r].token)
      /\ requests[r].account = owner[requests[r].token]
      /\ requests[r].pc \in {"revoke", "user", "issue", "answer"}
      BY DEF TypeInv, TypeOK, InFlightOK, Carried, Request
<1>2. ~Fails
      BY FailsType
<1>3. RefreshUser(r)
      BY <1>1, <1>2 DEF QuietActs, PostRegister, PostLogin, GoogleOAuthCallback, Register, Login,
         OAuthBySub, HandleOAuth, OAuthByEmail, OAuthCreate, OAuthAgain, Recover, Crash, At
<1>4. \/ requests'[r] = Moved(r, "issue")
      \/ GetByID(owner[requests[r].token]) = {}
      BY <1>1, <1>2, <1>3 DEF RefreshUser, Become
<1>5. CASE requests'[r] = Moved(r, "issue")
      BY <1>1, <1>5 DEF Moved, Request
<1>6. CASE GetByID(owner[requests[r].token]) = {}
  <2>1. owner[requests[r].token] \in Accounts /\ users[owner[requests[r].token]] # NoUser
        BY <1>1 DEF Owned, Stored, TypeInv, TypeOK
  <2> QED BY <2>1, <1>6, ReadsRefuse DEF GetByID, AccountInv
<1> QED BY <1>4, <1>5, <1>6

-----------------------------------------------------------------------------
(* What a step makes of rows, requests and clients, whichever it is *)

\* A row keeps its account and session and comes from IssueTokens; nothing that ends a
\* token's life is taken back.
LEMMA StepRows ==
    ASSUME TypeInv, [Next]_vars
    PROVE  /\ \A t \in Tokens :
                 /\ status[t] # "none" => owner'[t] = owner[t] /\ line'[t] = line[t]
                 /\ status[t] = "none" /\ status'[t] # "none" => \E r \in Requests : IssueTokens(r, t)
                 /\ ended[t] # "no" => ended'[t] # "no"
           /\ gone \subseteq gone' /\ (faults' = 0 => faults = 0)
<1> USE AuthAssumption
<1> DEFINE Good == /\ \A t \in Tokens :
                         /\ status[t] # "none" => owner'[t] = owner[t] /\ line'[t] = line[t]
                         /\ status[t] = "none" /\ status'[t] # "none"
                               => \E r \in Requests : IssueTokens(r, t)
                         /\ ended[t] # "no" => ended'[t] # "no"
                   /\ gone \subseteq gone' /\ (faults' = 0 => faults = 0)
<1>f. Fails => faults' # 0
      BY FailsType
<1>s. ASSUME UNCHANGED <<owner, line>>, gone \subseteq gone',
             faults' = faults \/ Fails,
             \A t \in Tokens : /\ status[t] = "none" => status'[t] = "none"
                               /\ ended[t] # "no" => ended'[t] # "no"
      PROVE  Good
      BY <1>s, <1>f
<1>1. ASSUME NEW r \in Requests, QuietActs(r) PROVE Good
  <2>1. faults' = faults \/ Fails
        BY <1>1 DEF QuietActs, PostRegister, PostLogin, GoogleOAuthCallback, HandleOAuth, Register, Login,
           OAuthBySub, RefreshUser, OAuthByEmail, OAuthCreate, OAuthAgain, Recover, Crash
  <2> QED BY <1>1, <2>1, <1>s, QuietTokens
<1>2. ASSUME NEW r \in Requests, NEW c \in Clients, RefreshTokens(r, c) PROVE Good
      BY <1>2, <1>s DEF RefreshTokens, RefreshLookup, TokenVars
<1>3. ASSUME NEW r \in Requests, RefreshRevoke(r) PROVE Good
  <2>1. \A t \in Tokens : status[t] = "none" => status'[t] = "none"
        BY <1>3 DEF RefreshRevoke, Revoke, Stored, TypeInv, TypeOK
  <2> QED BY <1>3, <2>1, <1>s DEF RefreshRevoke, History
<1>4. ASSUME NEW r \in Requests, Answer(r) PROVE Good
      BY <1>4, <1>s DEF Answer, TokenVars, History
<1>5. ASSUME NEW r \in Requests, NEW t \in Tokens, IssueTokens(r, t) PROVE Good
  <2>1. status[t] = "none" /\ UNCHANGED <<gone, ended>>
        BY <1>5 DEF IssueTokens, GenerateTokenPair, History
  <2>2. \A u \in Tokens : u # t => /\ status'[u] = status[u] /\ owner'[u] = owner[u]
                                   /\ line'[u] = line[u]
        BY <1>5 DEF IssueTokens, StoreRefreshToken, TypeInv, TypeOK
  <2>3. faults' = 0 => faults = 0
        BY <1>5, <1>f DEF IssueTokens, StoreRefreshToken
  <2> QED BY <1>5, <2>1, <2>2, <2>3
<1>6. ASSUME NEW c \in Clients, Logout(c) PROVE Good
  <2>1. \A t \in Tokens : /\ status[t] = "none" => status'[t] = "none"
                          /\ ended[t] # "no" => ended'[t] # "no"
        BY <1>6 DEF Logout, Revoke, Stored, TypeInv, TypeOK
  <2> QED BY <1>6, <2>1, <1>s DEF Logout
<1>7. ASSUME NEW c \in Clients, LogoutAll(c) PROVE Good
  <2>1. \A t \in Tokens : /\ status[t] = "none" => status'[t] = "none"
                          /\ ended[t] # "no" => ended'[t] # "no"
        BY <1>7 DEF LogoutAll, RevokeAllUserTokens, Stored, TypeInv, TypeOK
  <2> QED BY <1>7, <2>1, <1>s DEF LogoutAll
<1>8. ASSUME NEW a \in Accounts, NEW b \in BOOLEAN, DeleteUser(a) \/ UpdateUser(a, b) PROVE Good
      BY <1>8, <1>s DEF DeleteUser, UpdateUser, TokenVars, History
<1>9. ASSUME NEW t \in Tokens, Expire(t) PROVE Good
  <2>1. \A u \in Tokens : status[u] = "none" => status'[u] = "none"
        BY <1>9 DEF Expire, TypeInv, TypeOK
  <2> QED BY <1>9, <2>1, <1>s DEF Expire, History
<1>10. CASE UNCHANGED vars
      BY <1>10, <1>s DEF vars
<1> QED
  BY <1>1, <1>2, <1>3, <1>4, <1>5, <1>6, <1>7, <1>8, <1>9, <1>10 DEF Next, QuietActs

\* Where the tokens of a request and of a client come from.
TokenFrom(r) ==
    requests'[r].token # NoToken =>
        \/ requests'[r].token = requests[r].token /\ requests'[r].client = requests[r].client
        \/ \E c \in Clients : /\ held[c] # NoToken /\ requests'[r].token = held[c]
                              /\ requests'[r].client = c
FreshFrom(r) ==
    requests'[r].fresh # NoToken =>
        \/ requests'[r].fresh = requests[r].fresh
        \/ /\ IssueTokens(r, requests'[r].fresh)
           /\ \A q \in Requests : q # r => requests'[q] = requests[q]
HeldFrom(c) ==
    held'[c] # NoToken =>
        \/ held'[c] = held[c]
        \/ \E r \in Requests : /\ Answer(r) /\ requests'[r] = Idle /\ requests[r].client = c
                               /\ held'[c] = requests[r].fresh /\ requests[r].fresh # NoToken

LEMMA StepTraces ==
    ASSUME TypeInv, [Next]_vars
    PROVE  /\ \A r \in Requests : TokenFrom(r) /\ FreshFrom(r)
           /\ \A c \in Clients : HeldFrom(c)
<1> USE AuthAssumption
<1> DEFINE Good == /\ \A r \in Requests : TokenFrom(r) /\ FreshFrom(r)
                   /\ \A c \in Clients : HeldFrom(c)
<1>t. /\ requests \in [Requests -> Request] /\ held \in [Clients -> Tokens \cup {NoToken}]
      /\ \A r \in Requests : Carried(requests[r])
      BY DEF TypeInv, TypeOK, InFlightOK
\* One request moves, or none does; no client is given a token.
<1>m. ASSUME NEW r \in Requests, \A q \in Requests : q # r => requests'[q] = requests[q],
             TokenFrom(r), FreshFrom(r), held' = held
      PROVE  Good
      BY <1>m DEF TokenFrom, FreshFrom, HeldFrom
<1>s. ASSUME UNCHANGED requests, \A c \in Clients : held'[c] \in {held[c], NoToken}
      PROVE  Good
      BY <1>s DEF TokenFrom, FreshFrom, HeldFrom
<1>1. ASSUME NEW r \in Requests, QuietActs(r) PROVE Good
      BY <1>1, <1>m, QuietTokens DEF TokenFrom, FreshFrom
<1>2. ASSUME NEW r \in Requests, NEW c \in Clients, RefreshTokens(r, c) PROVE Good
  <2>1. /\ requests' = [requests EXCEPT ![r] = Opened("refresh", c, "revoke", owner[held[c]], held[c])]
        /\ UNCHANGED held /\ held[c] # NoToken
        BY <1>2 DEF RefreshTokens, RefreshLookup, Become, ClientVars
  <2>2. /\ requests'[r] = Opened("refresh", c, "revoke", owner[held[c]], held[c])
        /\ \A q \in Requests : q # r => requests'[q] = requests[q]
        BY <2>1, <1>t
  <2> QED BY <2>1, <2>2, <1>m DEF Opened, TokenFrom, FreshFrom
<1>3. ASSUME NEW r \in Requests, RefreshRevoke(r) PROVE Good
  <2>1. requests' = [requests EXCEPT ![r] = Moved(r, "user")] /\ UNCHANGED held
        BY <1>3 DEF RefreshRevoke, Become, ClientVars
  <2>2. /\ requests'[r] = Moved(r, "user") /\ requests[r] \in Request
        /\ \A q \in Requests : q # r => requests'[q] = requests[q]
        BY <2>1, <1>t
  <2>3. /\ requests'[r].token = requests[r].token /\ requests'[r].client = requests[r].client
        /\ requests'[r].fresh = requests[r].fresh
        BY <2>2 DEF Moved, Request
  <2> QED BY <2>1, <2>2, <2>3, <1>m DEF TokenFrom, FreshFrom
<1>4. ASSUME NEW r \in Requests, Answer(r) PROVE Good
  <2>1. /\ requests'[r] = Idle /\ \A q \in Requests : q # r => requests'[q] = requests[q]
        /\ requests[r].fresh # NoToken
        BY <1>4, <1>t DEF Answer, Become, At, Carried
  <2>2. \/ held' = held
        \/ held' = [held EXCEPT ![requests[r].client] = requests[r].fresh]
        BY <1>4 DEF Answer
  <2>3. TokenFrom(r) /\ FreshFrom(r)
        BY <2>1 DEF Idle, TokenFrom, FreshFrom
  <2>4. \A q \in Requests : TokenFrom(q) /\ FreshFrom(q)
        BY <2>1, <2>3 DEF TokenFrom, FreshFrom
  <2>5. ASSUME NEW c \in Clients PROVE HeldFrom(c)
    <3>1. held'[c] = held[c] \/ (c = requests[r].client /\ held'[c] = requests[r].fresh)
          BY <2>2, <1>t
    <3> QED BY <1>4, <2>1, <3>1 DEF HeldFrom
  <2> QED BY <2>4, <2>5
<1>5. ASSUME NEW r \in Requests, NEW t \in Tokens, IssueTokens(r, t) PROVE Good
  <2>1. /\ requests' = [requests EXCEPT ![r] = [requests[r] EXCEPT !.pc = "answer", !.fresh = t]]
        /\ UNCHANGED held
        BY <1>5 DEF IssueTokens, Become, ClientVars
  <2>2. /\ requests'[r] = [requests[r] EXCEPT !.pc = "answer", !.fresh = t] /\ requests[r] \in Request
        /\ \A q \in Requests : q # r => requests'[q] = requests[q]
        BY <2>1, <1>t
  <2>3. /\ requests'[r].token = requests[r].token /\ requests'[r].client = requests[r].client
        /\ requests'[r].fresh = t
        BY <2>2 DEF Request
  <2> QED BY <1>5, <2>1, <2>2, <2>3, <1>m DEF TokenFrom, FreshFrom
<1>6. ASSUME NEW c \in Clients, Logout(c) \/ LogoutAll(c) PROVE Good
  <2>1. UNCHANGED requests /\ \A d \in Clients : held'[d] \in {held[d], NoToken}
        BY <1>6, <1>t DEF Logout, LogoutAll, ClientVars
  <2> QED BY <2>1, <1>s
<1>7. ASSUME NEW a \in Accounts, NEW b \in BOOLEAN, DeleteUser(a) \/ UpdateUser(a, b) PROVE Good
      BY <1>7, <1>s DEF DeleteUser, UpdateUser, ClientVars
<1>8. ASSUME NEW t \in Tokens, Expire(t) PROVE Good
      BY <1>8, <1>s DEF Expire, ClientVars
<1>9. CASE UNCHANGED vars
      BY <1>9, <1>s DEF vars
<1> QED
  BY <1>1, <1>2, <1>3, <1>4, <1>5, <1>6, <1>7, <1>8, <1>9 DEF Next, QuietActs

LEMMA OwnedStep == TypeInv /\ AccountInv /\ Owned /\ [Next]_vars => Owned'
<1> SUFFICES ASSUME TypeInv, AccountInv, Owned, [Next]_vars, NEW t \in Tokens, status'[t] # "none"
             PROVE  users'[owner'[t]] # NoUser
    BY DEF Owned
<1> USE AuthAssumption
<1>1. \A a \in Accounts : users[a] # NoUser => users'[a] # NoUser
  <2>1. ASSUME NEW r \in Requests, QuietActs(r)
        PROVE  \A a \in Accounts : users[a] # NoUser => users'[a] # NoUser
        BY <2>1, QuietArrives, RowsOfUsers DEF AccountInv
  <2>2. ASSUME NEW a \in Accounts, NEW b \in BOOLEAN, DeleteUser(a) \/ UpdateUser(a, b)
        PROVE  \A x \in Accounts : users[x] # NoUser => users'[x] # NoUser
    <3>1. UNCHANGED <<users, gone>> \/ (users[a] # NoUser /\ Remove(a) /\ gone' = gone \cup {a})
          BY <2>2 DEF DeleteUser, UpdateUser, Update, History
    <3> QED BY <3>1, RowsOfUsers DEF AccountInv
  <2>3. /\ \A r \in Requests, c \in Clients : RefreshTokens(r, c) => UNCHANGED users
        /\ \A r \in Requests : RefreshRevoke(r) \/ Answer(r) => UNCHANGED users
        /\ \A r \in Requests, u \in Tokens : IssueTokens(r, u) => UNCHANGED users
        /\ \A c \in Clients : Logout(c) \/ LogoutAll(c) => UNCHANGED users
        /\ \A u \in Tokens : Expire(u) => UNCHANGED users
        /\ UNCHANGED vars => UNCHANGED users
        BY DEF RefreshTokens, RefreshLookup, RefreshRevoke, Answer, IssueTokens, Logout, LogoutAll,
               Expire, vars
  <2> QED BY <2>1, <2>2, <2>3 DEF Next, QuietActs
<1>2. CASE status[t] # "none"
  <2>1. owner'[t] = owner[t] /\ owner[t] \in Accounts
        BY <1>2, StepRows DEF TypeInv, TypeOK
  <2> QED BY <1>1, <1>2, <2>1 DEF Owned
<1>3. ASSUME status[t] = "none" PROVE \E r \in Requests : IssueTokens(r, t)
      BY <1>3, StepRows
<1>4. ASSUME NEW r \in Requests, IssueTokens(r, t) PROVE users'[owner'[t]] # NoUser
  <2>1. /\ owner'[t] = requests[r].account /\ requests[r].pc = "issue"
        /\ requests[r].account \in Accounts /\ users[requests[r].account] # NoUser
        BY <1>4 DEF IssueTokens, At, AccountInv, Met, TypeInv, TypeOK, InFlightOK, Carried
  <2> QED BY <1>1, <2>1
<1> QED BY <1>2, <1>3, <1>4

LEMMA ApartStep == TypeInv /\ Apart /\ [Next]_vars => Apart'
<1> SUFFICES ASSUME TypeInv, Apart, [Next]_vars PROVE Apart'
    OBVIOUS
<1> USE AuthAssumption
<1>t. /\ \A r \in Requests : Carried(requests[r]) /\ requests[r] \in Request
      /\ \A r \in Requests : requests[r].token # NoToken => status[requests[r].token] # "none"
      /\ \A r \in Requests : requests[r].fresh # NoToken => status[requests[r].fresh] # "none"
      /\ \A c \in Clients : held[c] # NoToken => status[held[c]] # "none"
      BY DEF TypeInv, TypeOK, InFlightOK, HeldOK, Carried, Stored
<1>i. \A r \in Requests, t \in Tokens : IssueTokens(r, t) => status[t] = "none"
      BY DEF IssueTokens, GenerateTokenPair
<1>h. Idle.fresh = NoToken
      BY DEF Idle
\* What comes with an answer is new or was with it before.
<1>f. ASSUME NEW r \in Requests, requests'[r].fresh # NoToken
      PROVE  \/ requests[r].fresh = requests'[r].fresh
             \/ /\ status[requests'[r].fresh] = "none"
                /\ \A q \in Requests : q # r => requests'[q] = requests[q]
  <2>1. requests'[r].fresh \in Tokens
    <3>1. TypeInv'
          BY TypeInvStep
    <3> QED BY <3>1, <1>f DEF TypeInv, TypeOK, Request
  <2> QED BY <2>1, <1>f, <1>i, StepTraces DEF FreshFrom
<1>1. ASSUME NEW r \in Requests, NEW q \in Requests, requests'[r].fresh # NoToken
      PROVE  requests'[q].token # requests'[r].fresh
  <2>1. CASE requests'[q].token = NoToken
        BY <2>1, <1>1
  <2>2. CASE requests'[q].token # NoToken /\ requests'[q].token = requests[q].token
        BY <2>2, <1>1, <1>f, <1>t DEF Apart
  <2>3. ASSUME NEW c \in Clients, held[c] # NoToken, requests'[q].token = held[c]
        PROVE  requests'[q].token # requests'[r].fresh
        BY <2>3, <1>1, <1>f, <1>t DEF Apart
  <2> QED BY <2>1, <2>2, <2>3, StepTraces DEF TokenFrom
<1>2. ASSUME NEW r \in Requests, NEW q \in Requests, q # r, requests'[r].fresh # NoToken
      PROVE  requests'[q].fresh # requests'[r].fresh
  <2>1. CASE requests'[q].fresh = NoToken
        BY <2>1, <1>2
  <2>2. CASE requests'[q].fresh # NoToken
        BY <2>2, <1>2, <1>f, <1>t DEF Apart
  <2> QED BY <2>1, <2>2
<1>3. ASSUME NEW c \in Clients, NEW r \in Requests, requests'[r].fresh # NoToken
      PROVE  held'[c] # requests'[r].fresh
  <2>1. CASE held'[c] = NoToken
        BY <2>1, <1>3
  <2>2. CASE held'[c] # NoToken /\ held'[c] = held[c]
        BY <2>2, <1>3, <1>f, <1>t DEF Apart
  <2>3. ASSUME NEW p \in Requests, requests'[p] = Idle, held'[c] = requests[p].fresh,
               requests[p].fresh # NoToken
        PROVE  held'[c] # requests'[r].fresh
    <3>1. r # p
          BY <2>3, <1>3, <1>h
    <3> QED BY <2>3, <3>1, <1>3, <1>f, <1>t DEF Apart
  <2> QED BY <2>1, <2>2, <2>3, StepTraces DEF HeldFrom
<1>4. ASSUME NEW c \in Clients, NEW r \in Requests, held'[c] # NoToken, requests'[r].token = held'[c]
      PROVE  requests'[r].client = c
  <2>1. \/ held'[c] = held[c]
        \/ \E p \in Requests : held'[c] = requests[p].fresh /\ requests[p].fresh # NoToken
        BY <1>4, StepTraces DEF HeldFrom
  <2>2. CASE requests'[r].token = requests[r].token /\ requests'[r].client = requests[r].client
        BY <2>1, <2>2, <1>4 DEF Apart
  <2>3. ASSUME NEW d \in Clients, held[d] # NoToken, requests'[r].token = held[d],
               requests'[r].client = d
        PROVE  requests'[r].client = c
        BY <2>1, <2>3, <1>4 DEF Apart
  <2> QED BY <2>2, <2>3, <1>4, StepTraces DEF TokenFrom
<1>5. ASSUME NEW c \in Clients, NEW d \in Clients, held'[c] # NoToken, held'[d] = held'[c]
      PROVE  d = c
  <2>1. \A x \in {c, d} :
            \/ held'[x] = held[x]
            \/ \E p \in Requests : /\ held'[x] = requests[p].fresh /\ requests[p].fresh # NoToken
                                   /\ requests[p].client = x
        BY <1>5, StepTraces DEF HeldFrom
  <2>2. CASE held'[c] = held[c]
        BY <2>1, <2>2, <1>5 DEF Apart
  <2>3. ASSUME NEW p \in Requests, held'[c] = requests[p].fresh, requests[p].fresh # NoToken,
               requests[p].client = c
        PROVE  d = c
        BY <2>1, <2>3, <1>5 DEF Apart
  <2> QED BY <2>1, <2>2, <2>3
<1> QED BY <1>1, <1>2, <1>3, <1>4, <1>5 DEF Apart

\* Nothing but the exchange of a token ends its life without a logout or a deletion.
LEMMA WorksOn ==
    ASSUME TypeInv, [Next]_vars, NEW t \in Tokens, status[t] # "none", Works(t)
    PROVE  Works(t)' \/ \E r \in Requests : RefreshRevoke(r) /\ requests[r].token = t
<1> USE AuthAssumption
<1>0. /\ owner'[t] = owner[t] /\ line'[t] = line[t] /\ line[t] \in Tokens
      /\ owner[line[t]] = owner[t] /\ gone \subseteq gone'
      /\ ended[line[t]] # "no" => ended'[line[t]] # "no"
      BY StepRows DEF TypeInv, TypeOK, Issued
<1>1. CASE ended[line[t]] # "no" \/ owner[t] \in gone
      BY <1>0, <1>1 DEF Works
<1>2. CASE status[t] \in {"live", "expired"}
  <2>0. status'[t] \in {"live", "expired"} => Works(t)'
        BY DEF Works
  <2>1. ASSUME NEW r \in Requests, RefreshRevoke(r)
        PROVE  status'[t] = status[t] \/ requests[r].token = t
        BY <2>1 DEF RefreshRevoke, Revoke, TypeInv, TypeOK
  <2>2. ASSUME NEW c \in Clients, Logout(c) PROVE Works(t)'
    <3>1. CASE held[c] = t
      <4>1. ended'[line[t]] # "no"
            BY <2>2, <3>1, <1>0 DEF Logout, TypeInv, TypeOK
      <4> QED BY <4>1, <1>0 DEF Works
    <3>2. CASE held[c] # t
      <4>1. status'[t] = status[t]
            BY <2>2, <3>2 DEF Logout, Revoke, TypeInv, TypeOK
      <4> QED BY <4>1, <1>2, <2>0
    <3> QED BY <3>1, <3>2
  <2>3. ASSUME NEW c \in Clients, LogoutAll(c) PROVE Works(t)'
    <3>1. CASE owner[t] = UserIDFromContext(c)
      <4>1. ended'[line[t]] # "no"
            BY <2>3, <3>1, <1>0 DEF LogoutAll
      <4> QED BY <4>1, <1>0 DEF Works
    <3>2. CASE owner[t] # UserIDFromContext(c)
      <4>1. status'[t] = status[t]
            BY <2>3, <3>2 DEF LogoutAll, RevokeAllUserTokens
      <4> QED BY <4>1, <1>2, <2>0
    <3> QED BY <3>1, <3>2
  <2>4. ASSUME NEW u \in Tokens, Expire(u) PROVE status'[t] \in {status[t], "expired"}
        BY <2>4 DEF Expire, TypeInv, TypeOK
  <2>5. ASSUME NEW r \in Requests, NEW u \in Tokens, IssueTokens(r, u) PROVE status'[t] = status[t]
        BY <2>5, <1>2 DEF IssueTokens, GenerateTokenPair, StoreRefreshToken, TypeInv, TypeOK
  <2>6. ASSUME NEW r \in Requests, QuietActs(r) PROVE status'[t] = status[t]
        BY <2>6, QuietTokens
  <2>7. /\ \A r \in Requests, c \in Clients : RefreshTokens(r, c) => status' = status
        /\ \A r \in Requests : Answer(r) => status' = status
        /\ \A a \in Accounts, b \in BOOLEAN : DeleteUser(a) \/ UpdateUser(a, b) => status' = status
        /\ UNCHANGED vars => status' = status
        BY DEF RefreshTokens, RefreshLookup, Answer, DeleteUser, UpdateUser, TokenVars, vars
  <2> QED
    BY <1>2, <2>0, <2>1, <2>2, <2>3, <2>4, <2>5, <2>6, <2>7 DEF Next, QuietActs
<1> QED BY <1>1, <1>2 DEF Works

\* The request that carries a token goes on with it until it answers.
LEMMA BearerOn ==
    ASSUME TypeInv, AccountInv, Owned, [Next]_vars, faults' = 0,
           NEW r \in Requests, requests[r].token # NoToken
    PROVE  \/ requests'[r].token = requests[r].token /\ requests'[r].client = requests[r].client
           \/ owner[requests[r].token] \in gone
           \/ Answer(r)
<1> USE AuthAssumption
<1> DEFINE Goes == requests'[r].token = requests[r].token /\ requests'[r].client = requests[r].client
<1>0. /\ requests[r] \in Request /\ requests \in [Requests -> Request]
      /\ requests[r].pc \in {"revoke", "user", "issue", "answer"}
      BY DEF TypeInv, TypeOK, InFlightOK, Carried
<1>1. ASSUME NEW q \in Requests, q # r, NEW x, requests' = [requests EXCEPT ![q] = x]
      PROVE  Goes
      BY <1>0, <1>1
<1>2. ASSUME NEW q \in Requests, QuietActs(q) PROVE Goes \/ owner[requests[r].token] \in gone
  <2>1. CASE q = r
        BY <1>2, <2>1, QuietGivesUp
  <2>2. CASE q # r
        BY <1>2, <2>2, QuietTokens
  <2> QED BY <2>1, <2>2
<1>3. ASSUME NEW q \in Requests, NEW c \in Clients, RefreshTokens(q, c) PROVE Goes
  <2>1. q # r
        BY <1>3, <1>0 DEF RefreshTokens, RefreshLookup, At
  <2> QED BY <1>3, <2>1, <1>1 DEF RefreshTokens, RefreshLookup, Become
<1>4. ASSUME NEW q \in Requests, RefreshRevoke(q) PROVE Goes
  <2>1. CASE q = r
        BY <1>4, <2>1, <1>0 DEF RefreshRevoke, Become, Moved, Request
  <2>2. CASE q # r
        BY <1>4, <2>2, <1>1 DEF RefreshRevoke, Become
  <2> QED BY <2>1, <2>2
<1>5. ASSUME NEW q \in Requests, NEW t \in Tokens, IssueTokens(q, t) PROVE Goes
  <2>1. CASE q = r
        BY <1>5, <2>1, <1>0 DEF IssueTokens, Become, Request
  <2>2. CASE q # r
        BY <1>5, <2>2, <1>1 DEF IssueTokens, Become
  <2> QED BY <2>1, <2>2
<1>6. ASSUME NEW q \in Requests, Answer(q) PROVE Goes \/ Answer(r)
  <2>1. CASE q # r
        BY <1>6, <2>1, <1>1 DEF Answer, Become
  <2> QED BY <1>6, <2>1
<1>7. /\ \A c \in Clients : Logout(c) \/ LogoutAll(c) => requests' = requests
      /\ \A a \in Accounts, b \in BOOLEAN : DeleteUser(a) \/ UpdateUser(a, b) => requests' = requests
      /\ \A t \in Tokens : Expire(t) => requests' = requests
      /\ UNCHANGED vars => requests' = requests
      BY DEF Logout, LogoutAll, DeleteUser, UpdateUser, Expire, vars
<1> QED BY <1>2, <1>3, <1>4, <1>5, <1>6, <1>7 DEF Next, QuietActs

LEMMA UsableStep ==
    TypeInv /\ AccountInv /\ Owned /\ Apart /\ Usable /\ [Next]_vars => Usable'
<1> SUFFICES ASSUME TypeInv, AccountInv, Owned, Apart, Usable, [Next]_vars, faults' = 0
             PROVE  /\ \A c \in Clients : Supported(c)'
                    /\ \A r \in Requests : requests'[r].fresh # NoToken => Works(requests[r].fresh)'
    BY DEF Usable
<1> USE AuthAssumption
<1>0. faults = 0 /\ TypeInv' /\ Apart'
      BY StepRows, TypeInvStep, ApartStep
<1>t. /\ \A r \in Requests : /\ requests[r].fresh # NoToken =>
                                   requests[r].fresh \in Tokens /\ status[requests[r].fresh] # "none"
                             /\ requests'[r].fresh \in Tokens \cup {NoToken}
      /\ \A c \in Clients : held[c] # NoToken => held[c] \in Tokens /\ status[held[c]] # "none"
      BY <1>0 DEF TypeInv, TypeOK, InFlightOK, HeldOK, Carried, Request
<1>1. ASSUME NEW r \in Requests, requests'[r].fresh # NoToken PROVE Works(requests[r].fresh)'
  <2>1. CASE requests'[r].fresh = requests[r].fresh
    <3> DEFINE t == requests[r].fresh
    <3>1. Works(t) /\ t \in Tokens /\ status[t] # "none" /\ \A q \in Requests : requests[q].token # t
          BY <2>1, <1>0, <1>1, <1>t DEF Usable, Apart
    <3> HIDE DEF t
    <3>2. status'[t] \in {"live", "expired"} \/ ended'[line'[t]] # "no" \/ owner'[t] \in gone'
          BY <3>1, WorksOn DEF Works
    <3> QED BY <2>1, <3>2 DEF Works, t
  <2>2. CASE IssueTokens(r, requests'[r].fresh)
    <3>1. status'[requests'[r].fresh] = "live"
          BY <2>2, <1>t, <1>1, FailsType DEF IssueTokens, StoreRefreshToken, TypeInv, TypeOK
    <3> QED BY <3>1 DEF Works
  <2> QED BY <2>1, <2>2, <1>1, StepTraces DEF FreshFrom
<1>2. ASSUME NEW c \in Clients, held'[c] # NoToken
      PROVE  Works(held[c])' \/ \E r \in Requests : Bears(r, c, held[c])'
  <2>1. ASSUME NEW t \in Tokens, held'[c] = t, held[c] = t
        PROVE  Works(t)' \/ \E r \in Requests : requests'[r].client = c /\ requests'[r].token = t
    <3>1. status[t] # "none" /\ (Works(t) \/ \E r \in Requests : Bears(r, c, t))
          BY <2>1, <1>0, <1>2, <1>t DEF Usable, Supported
    <3>2. ASSUME NEW r \in Requests, Bears(r, c, t)
          PROVE  Works(t)' \/ (requests'[r].client = c /\ requests'[r].token = t)
      <4>1. requests[r].client = c /\ requests[r].token = t /\ requests[r].token # NoToken
            BY <3>2 DEF Bears
      <4>2. CASE owner[t] \in gone
        <5>1. owner'[t] \in gone'
              BY <3>1, <4>2, StepRows
        <5> QED BY <5>1 DEF Works
      <4>3. CASE Answer(r)
        <5>1. /\ requests[r].op = "refresh" /\ requests[r].fresh # NoToken
              BY <4>1, <4>3 DEF Answer, At, TypeInv, InFlightOK, Carried
        <5>2. held'[c] = requests[r].fresh
              BY <4>1, <4>3, <5>1 DEF Answer, SetsCookie, TypeInv, TypeOK
        <5> QED BY <2>1, <4>1, <5>1, <5>2 DEF Apart
      <4> QED BY <4>1, <4>2, <4>3, BearerOn
    <3>3. CASE Works(t)
      <4>1. ASSUME NEW r \in Requests, RefreshRevoke(r), requests[r].token = t
            PROVE  Bears(r, c, t)
            BY <2>1, <1>2, <4>1 DEF Apart, Bears
      <4> QED BY <3>1, <3>2, <3>3, <4>1, WorksOn
    <3> QED BY <3>1, <3>2, <3>3
  <2>2. ASSUME NEW r \in Requests, Answer(r), requests[r].fresh # NoToken, held'[c] = requests[r].fresh
        PROVE  Works(held[c])'
    <3>1. Works(requests[r].fresh)
          BY <2>2, <1>0 DEF Usable
    <3>2. UNCHANGED <<status, line, owner, ended, gone>>
          BY <2>2 DEF Answer, TokenVars, History
    <3> QED BY <2>2, <3>1, <3>2 DEF Works
  <2>3. CASE held'[c] = held[c]
    <3>1. \E t \in Tokens : held'[c] = t /\ held[c] = t
          BY <2>3, <1>2, <1>t
    <3>2. PICK t \in Tokens : held'[c] = t /\ held[c] = t
          BY <3>1
    <3>3. Works(t)' \/ \E r \in Requests : requests'[r].client = c /\ requests'[r].token = t
          BY <2>1, <3>2
    <3>4. Works(t)' => Works(held[c])'
          BY <3>2 DEF Works
    <3>5. (\E r \in Requests : requests'[r].client = c /\ requests'[r].token = t)
             => \E r \in Requests : Bears(r, c, held[c])'
          BY <3>2 DEF Bears
    <3> QED BY <3>3, <3>4, <3>5
  <2> QED BY <1>2, <2>2, <2>3, StepTraces DEF HeldFrom
<1> QED BY <1>1, <1>2 DEF Supported

\* HeldTokenWorks holds in every state: whatever a client's own tabs and everybody else
\* do, the refresh token it holds can be exchanged until it expires, its session is
\* logged out or its account deleted, unless a request of its own is exchanging it.
THEOREM HeldWorks == Spec => []HeldTokenWorks
<1>1. Init => Owned /\ Apart /\ Usable
      BY DEF Init, Owned, Apart, Usable, Supported, Idle
<1>2. Usable => HeldTokenWorks
      BY DEF Usable, Supported, Works, Bears, HeldTokenWorks
<1> QED
  BY InitTypeInv, TypeInvStep, InitAccountInv, AccountInvStep, OwnedStep, ApartStep, UsableStep,
     <1>1, <1>2, PTL DEF Spec
=============================================================================
