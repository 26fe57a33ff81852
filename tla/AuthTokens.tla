----------------------------- MODULE AuthTokens -----------------------------
(***************************************************************************)
(* auth-service: the tables users and refresh_tokens, and the requests      *)
(* that read and write them. Every call to PostgreSQL is a step of its own, *)
(* so the requests of several browsers, tabs and replicas interleave at     *)
(* each of them. An account is its (company, e-mail) pair, which the table  *)
(* keeps unique and never deletes; a session is named by its first token.   *)
(* Passwords, roles and profiles are left out.                              *)
(***************************************************************************)
EXTENDS Naturals

CONSTANTS
    Companies, Emails,
    DemoCompany,     \* where HandleOAuth puts new users
    Clients,
    Browsers,        \* clients that keep the refresh token in the cookie only
    Requests,        \* requests in flight at the same time
    Tokens,          \* bound: token pairs generated
    MaxFaults,       \* bound: failed database calls, lost answers, crashes
    NoUser, NoAccount, NoToken, NoClient

ASSUME AuthAssumption ==
    /\ DemoCompany \in Companies
    /\ Browsers \subseteq Clients
    /\ MaxFaults \in Nat
    /\ NoUser \notin [is_active : BOOLEAN, oauth : BOOLEAN]
    /\ NoAccount \notin Companies \X Emails
    /\ NoToken \notin Tokens
    /\ NoClient \notin Clients

VARIABLES
    users,        \* table users: account -> row
    status,       \* table refresh_tokens: token -> state of its row
    owner,        \* the account a token was generated for
    line,         \* the session a token belongs to
    requests,     \* requests in flight
    held,         \* the refresh token a client would send
    signed,       \* the account a client was last signed in as
    gone,         \* history: accounts removed by DeleteUser
    ended,        \* history: how a session was logged out
    overlapped,   \* history: sessions of which two refreshes read the same token
    faults

vars == <<users, status, owner, line, requests, held, signed,
          gone, ended, overlapped, faults>>

Accounts == Companies \X Emails
\* Without the column active: the reads take is_active, which is never NULL, before it.
Users == [is_active : BOOLEAN, oauth : BOOLEAN]
NewUser(byOAuth) == [is_active |-> TRUE, oauth |-> byOAuth]

\* "unstored": generated and handed out, but the INSERT failed.
TokenStates == {"none", "unstored", "live", "expired", "revoked"}

Points == {"idle", "revoke", "user", "byEmail", "create", "again", "issue",
           "answer", "panicked"}

Idle == [pc |-> "idle", op |-> "none", client |-> NoClient,
         account |-> NoAccount, token |-> NoToken, fresh |-> NoToken]

Init ==
    /\ users \in [Accounts -> {NoUser, NewUser(FALSE)}]
    /\ status = [t \in Tokens |-> "none"]
    /\ owner = [t \in Tokens |-> NoAccount]
    /\ line = [t \in Tokens |-> NoToken]
    /\ requests = [r \in Requests |-> Idle]
    /\ held = [c \in Clients |-> NoToken]
    /\ signed = [c \in Clients |-> NoAccount]
    /\ gone = {}
    /\ ended = [s \in Tokens |-> "no"]
    /\ overlapped = {}
    /\ faults = 0

-----------------------------------------------------------------------------
(* user_repository.go *)

\* The reads take a row only if COALESCE(is_active, active, true).
Readable(a) == users[a] # NoUser /\ users[a].is_active

GetByID(a) == {a} \cap {b \in Accounts : Readable(b)}
GetByEmail(e) == {a \in Accounts : a[2] = e /\ Readable(a)}
\* Mutant of GetByOAuthSub: without the filter on is_active.
GetByOAuthSubDeleted(e) == {a \in Accounts : a[2] = e /\ users[a] # NoUser /\ users[a].oauth}
GetByOAuthSub(e) == {a \in Accounts : a[2] = e /\ Readable(a) /\ users[a].oauth}

\* INSERT ... ON CONFLICT (company_id, email) DO NOTHING
Create(a, byOAuth) ==
    /\ users[a] = NoUser
    /\ users' = [users EXCEPT ![a] = NewUser(byOAuth)]

\* Mutant of Update: is_active is set as well.
UpdateBoth(a, active) == users' = [users EXCEPT ![a].is_active = active]

\* UPDATE users SET active = ...: is_active keeps its value.
Update(a, active) == UNCHANGED users

\* Delete: UPDATE users SET active = false, is_active = false
Remove(a) == users' = [users EXCEPT ![a].is_active = FALSE]

Stored(t) == status[t] \in {"live", "expired", "revoked"}

\* Mutants of Exchangeable: revoked_at or expires_at is not looked at.
ExchangeableRevoked(t) == status[t] \in {"live", "revoked"}
ExchangeableExpired(t) == status[t] \in {"live", "expired"}

\* GetRefreshToken: neither revoked nor expired.
Exchangeable(t) == status[t] = "live"

\* RevokeRefreshToken: an UPDATE that finds no row changes nothing.
Revoke(t) == status' = IF Stored(t) THEN [status EXCEPT ![t] = "revoked"] ELSE status

RevokeAllUserTokens(a) ==
    status' = [t \in Tokens |-> IF owner[t] = a /\ Stored(t) THEN "revoked" ELSE status[t]]

-----------------------------------------------------------------------------
(* auth_service.go *)

Fails == faults < MaxFaults /\ faults' = faults + 1

Become(r, fields) == requests' = [requests EXCEPT ![r] = fields]
At(r, pc) == requests[r].pc = pc
Moved(r, pc) == [requests[r] EXCEPT !.pc = pc]
\* Mutant of Serving: the account that was read is not passed on.
ServingNobody(r, a) == [requests[r] EXCEPT !.pc = "issue", !.account = NoAccount]
Serving(r, a) == [requests[r] EXCEPT !.pc = "issue", !.account = a]
Opened(op, c, pc, a, t) ==
    [pc |-> pc, op |-> op, client |-> c, account |-> a, token |-> t, fresh |-> NoToken]

\* A refresh of the session has read its token and not yet issued the next one.
Exchanging(r, t) == requests[r].token = t /\ requests[r].pc \in {"revoke", "user", "issue"}
InFlight(s) == \E r \in Requests, t \in Tokens : line[t] = s /\ Exchanging(r, t)

TokenVars == <<status, owner, line>>
ClientVars == <<held, signed>>
History == <<gone, ended, overlapped>>

\* The INSERT of a new user; an account that exists answers 409 and changes nothing.
Register(r, c, a) ==
    /\ At(r, "idle")
    /\ Create(a, FALSE)
    /\ Become(r, Opened("register", c, "issue", a, NoToken))
    /\ UNCHANGED <<TokenVars, ClientVars, History, faults>>

\* One row of possibly several companies, and the right password for it.
Login(r, c, e) ==
    /\ At(r, "idle")
    /\ \E a \in GetByEmail(e) : Become(r, Opened("login", c, "issue", a, NoToken))
    /\ UNCHANGED <<users, TokenVars, ClientVars, History, faults>>

\* RefreshTokens: GetRefreshToken. Any other state of the token answers 401.
RefreshLookup(r, c, t) ==
    /\ At(r, "idle")
    /\ Exchangeable(t)
    /\ Become(r, Opened("refresh", c, "revoke", owner[t], t))
    /\ overlapped' = overlapped \cup
           {line[t] : q \in {p \in Requests : At(p, "revoke") /\ requests[p].token = t}}
    /\ UNCHANGED <<users, TokenVars, ClientVars, gone, ended, faults>>

\* A revocation that fails is logged, and the exchange goes on.
RefreshRevoke(r) ==
    /\ At(r, "revoke")
    /\ \/ Revoke(requests[r].token) /\ UNCHANGED faults
       \/ Fails /\ UNCHANGED status
    /\ Become(r, Moved(r, "user"))
    /\ UNCHANGED <<users, owner, line, ClientVars, History>>

\* GetByID(rt.UserID, ""): without the user the exchange ends here, its token spent.
RefreshUser(r) ==
    /\ At(r, "user")
    /\ \/ /\ GetByID(requests[r].account) # {}
          /\ Become(r, Moved(r, "issue"))
          /\ UNCHANGED faults
       \/ /\ GetByID(requests[r].account) = {}
          /\ Become(r, Idle)
          /\ UNCHANGED faults
       \/ Fails /\ Become(r, Idle)
    /\ UNCHANGED <<users, TokenVars, ClientVars, History>>

\* HandleOAuth: an error of GetByOAuthSub is taken for "not found".
OAuthBySub(r, c, e) ==
    LET req == Opened("oauth", c, "byEmail", <<DemoCompany, e>>, NoToken) IN
    /\ At(r, "idle")
    /\ \/ /\ \E a \in GetByOAuthSub(e) : Become(r, Opened("oauth", c, "issue", a, NoToken))
          /\ UNCHANGED faults
       \/ GetByOAuthSub(e) = {} /\ Become(r, req) /\ UNCHANGED faults
       \/ Fails /\ Become(r, req)
    /\ UNCHANGED <<users, TokenVars, ClientVars, History>>

\* So is an error of GetByEmail. An account that is found is not given the sub.
OAuthByEmail(r) ==
    LET e == requests[r].account[2] IN
    /\ At(r, "byEmail")
    /\ \/ \E a \in GetByEmail(e) : Become(r, Serving(r, a)) /\ UNCHANGED faults
       \/ GetByEmail(e) = {} /\ Become(r, Moved(r, "create")) /\ UNCHANGED faults
       \/ Fails /\ Become(r, Moved(r, "create"))
    /\ UNCHANGED <<users, TokenVars, ClientVars, History>>

OAuthCreate(r) ==
    LET a == requests[r].account IN
    /\ At(r, "create")
    /\ \/ Create(a, TRUE) /\ Become(r, Moved(r, "issue")) /\ UNCHANGED faults
       \/ /\ users[a] # NoUser     \* ErrAlreadyExists
          /\ Become(r, Moved(r, "again"))
          /\ UNCHANGED <<users, faults>>
       \/ Fails /\ Become(r, Idle) /\ UNCHANGED users
    /\ UNCHANGED <<TokenVars, ClientVars, History>>

\* user, _ = GetByEmail: without a row user is nil, and reading its e-mail panics.
OAuthAgain(r) ==
    LET e == requests[r].account[2] IN
    /\ At(r, "again")
    /\ \/ \E a \in GetByEmail(e) : Become(r, Serving(r, a)) /\ UNCHANGED faults
       \/ GetByEmail(e) = {} /\ Become(r, Moved(r, "panicked")) /\ UNCHANGED faults
       \/ Fails /\ Become(r, Moved(r, "panicked"))
    /\ UNCHANGED <<users, TokenVars, ClientVars, History>>

\* recover.New() turns the panic into an answer 500.
Recover(r) ==
    /\ At(r, "panicked")
    /\ Become(r, Idle)
    /\ UNCHANGED <<users, TokenVars, ClientVars, History, faults>>

\* StoreRefreshToken: a token that could not be stored is handed out all the same.
StoreRefreshToken(t) ==
    \/ status' = [status EXCEPT ![t] = "live"] /\ UNCHANGED faults
    \/ status' = [status EXCEPT ![t] = "unstored"] /\ Fails

\* GenerateTokenPair: the jti is a fresh UUID, so no two tokens are alike.
GenerateTokenPair(t) == status[t] = "none"

IssueTokens(r, t) ==
    LET used == requests[r].token IN
    /\ At(r, "issue")
    /\ GenerateTokenPair(t)
    /\ StoreRefreshToken(t)
    /\ owner' = [owner EXCEPT ![t] = requests[r].account]
    /\ line' = [line EXCEPT ![t] = IF used = NoToken THEN t ELSE line[used]]
    /\ Become(r, [requests[r] EXCEPT !.pc = "answer", !.fresh = t])
    /\ UNCHANGED <<users, ClientVars, History>>

-----------------------------------------------------------------------------
(* handler/http.go: what the client is left with *)

\* Mutant of SetsCookie: not for RefreshTokens.
SetsCookieAtSignIn(op) == op \in {"login", "oauth"}

\* Login, RefreshTokens and the OAuth callback set the cookie; Register does not.
SetsCookie(op) == op \in {"login", "refresh", "oauth"}

Answer(r) ==
    LET req == requests[r] IN
    /\ At(r, "answer")
    /\ held' = IF req.client \notin Browsers \/ SetsCookie(req.op)
                 THEN [held EXCEPT ![req.client] = req.fresh] ELSE held
    /\ signed' = [signed EXCEPT ![req.client] = req.account]
    /\ Become(r, Idle)
    /\ UNCHANGED <<users, TokenVars, History, faults>>

PostRegister(r, c) == \E a \in Accounts : Register(r, c, a)
PostLogin(r, c) == \E e \in Emails : Login(r, c, e)
GoogleOAuthCallback(r, c) == \E e \in Emails : OAuthBySub(r, c, e)

\* The handler reads the token from the cookie, else from the body.
RefreshTokens(r, c) == held[c] # NoToken /\ RefreshLookup(r, c, held[c])

\* The error of a failed revocation is dropped: the client is logged out all the same.
Logout(c) ==
    /\ held[c] # NoToken
    /\ \/ Revoke(held[c]) /\ UNCHANGED faults
       \/ Fails /\ UNCHANGED status
    /\ held' = [held EXCEPT ![c] = NoToken]
    /\ signed' = [signed EXCEPT ![c] = NoAccount]
    /\ ended' = [ended EXCEPT ![line[held[c]]] = IF @ = "no" THEN "logout" ELSE @]
    /\ UNCHANGED <<users, owner, line, requests, gone, overlapped>>

\* JWTMiddleware: who asks is read from the access token.
UserIDFromContext(c) == signed[c]

\* The client keeps the refresh token it holds.
LogoutAll(c) ==
    /\ UserIDFromContext(c) # NoAccount
    /\ RevokeAllUserTokens(UserIDFromContext(c))
    /\ ended' = [s \in Tokens |->
           IF owner[s] # UserIDFromContext(c) \/ ended[s] = "all" THEN ended[s]
           ELSE IF InFlight(s) THEN "raced" ELSE "all"]
    /\ UNCHANGED <<users, owner, line, requests, ClientVars, gone, overlapped, faults>>

\* PATCH /users/:id by the user or an administrator.
UpdateUser(a, active) ==
    /\ users[a] # NoUser
    /\ Update(a, active)
    /\ UNCHANGED <<TokenVars, requests, ClientVars, History, faults>>

DeleteUser(a) ==
    /\ users[a] # NoUser
    /\ Remove(a)
    /\ gone' = gone \cup {a}
    /\ UNCHANGED <<TokenVars, requests, ClientVars, ended, overlapped, faults>>

-----------------------------------------------------------------------------
(* Time and failures *)

Expire(t) ==
    /\ status[t] = "live"
    /\ status' = [status EXCEPT ![t] = "expired"]
    /\ UNCHANGED <<users, owner, line, requests, ClientVars, History, faults>>

\* The process dies, or its answer does not arrive.
Crash(r) ==
    /\ ~At(r, "idle")
    /\ Fails
    /\ Become(r, Idle)
    /\ UNCHANGED <<users, TokenVars, ClientVars, History>>

HandleOAuth(r) == OAuthByEmail(r) \/ OAuthCreate(r) \/ OAuthAgain(r) \/ Recover(r)

Next ==
    \/ \E r \in Requests, c \in Clients :
         \/ PostRegister(r, c) \/ PostLogin(r, c) \/ GoogleOAuthCallback(r, c)
         \/ RefreshTokens(r, c)
    \/ \E r \in Requests :
         \/ RefreshRevoke(r) \/ RefreshUser(r) \/ HandleOAuth(r)
         \/ Answer(r) \/ Crash(r)
         \/ \E t \in Tokens : IssueTokens(r, t)
    \/ \E c \in Clients : Logout(c) \/ LogoutAll(c)
    \/ \E a \in Accounts : DeleteUser(a) \/ \E b \in BOOLEAN : UpdateUser(a, b)
    \/ \E t \in Tokens : Expire(t)

Spec == Init /\ [][Next]_vars
-----------------------------------------------------------------------------
(* Properties *)

Request == [pc : Points, op : {"none", "register", "login", "refresh", "oauth"},
            client : Clients \cup {NoClient}, account : Accounts \cup {NoAccount},
            token : Tokens \cup {NoToken}, fresh : Tokens \cup {NoToken}]

\* Types, and what a row of refresh_tokens cannot be without.
TypeOK ==
    /\ users \in [Accounts -> Users \cup {NoUser}]
    /\ status \in [Tokens -> TokenStates]
    /\ owner \in [Tokens -> Accounts \cup {NoAccount}]
    /\ line \in [Tokens -> Tokens \cup {NoToken}]
    /\ requests \in [Requests -> Request]
    /\ held \in [Clients -> Tokens \cup {NoToken}]
    /\ signed \in [Clients -> Accounts \cup {NoAccount}]
    /\ gone \subseteq Accounts
    /\ ended \in [Tokens -> {"no", "logout", "all", "raced"}]
    /\ overlapped \subseteq Tokens
    /\ faults \in 0..MaxFaults
    /\ \A t \in Tokens : status[t] # "none" => owner[t] \in Accounts /\ line[t] \in Tokens

\* What is left of session s: a token that can be exchanged, or an exchange under way.
Alive(s) == InFlight(s) \/ \E t \in Tokens : line[t] = s /\ status[t] = "live"

\* Rotation (auth_service.go:144-155): unless a database call fails or two refreshes
\* read the same token, a session has one token: the next is issued only when the
\* last one is revoked.
OneTokenPerSession ==
    faults = 0 =>
        \A s \in Tokens \ overlapped :
            /\ \A t, u \in Tokens :
                 /\ line[t] = s /\ status[t] = "live"
                 /\ line[u] = s /\ status[u] = "live"
                 => t = u
            /\ \A t, u \in Tokens, r \in Requests :
                 /\ line[t] = s /\ status[t] = "live"
                 /\ line[u] = s /\ Exchanging(r, u)
                 => t = u /\ At(r, "revoke")

\* A client's refresh token works (auth_service.go:136-156 with the cookies of http.go)
\* until it expires, its session is logged out, its user is deleted or something
\* fails: no interleaving of a browser's own refreshes logs it out.
HeldTokenWorks ==
    faults = 0 =>
        \A c \in Clients : held[c] # NoToken =>
            LET t == held[c] IN
            \/ status[t] \in {"live", "expired"}
            \/ ended[line[t]] # "no"
            \/ owner[t] \in gone
            \/ \E r \in Requests : requests[r].client = c /\ requests[r].token = t

\* A session that LogoutAll found at rest (http.go:278) has no token that works, and
\* none is issued for it.
LogoutAllIsFinal == \A s \in Tokens : ended[s] = "all" => ~Alive(s)

\* HandleOAuth's nil user (auth_service.go:212) is met only for a deleted account:
\* of two first visits the one that loses the race finds the winner's row.
PanicsOnlyForDeleted ==
    \A r \in Requests : At(r, "panicked") => faults > 0 \/ requests[r].account \in gone

\* No read of a request takes up an account after its deletion (user_repository.go:235),
\* whatever UpdateUser does to the row later.
DeletedIsRefused ==
    [][\A r \in Requests : ~At(r, "issue") /\ At(r, "issue")'
           => requests'[r].account \notin gone]_vars

\* auth-service implements the sessions of Sessions: one that is over stays over.
Session == [s \in Tokens |->
    IF line[s] # s THEN "new" ELSE IF Alive(s) THEN "open" ELSE "over"]
S == INSTANCE Sessions WITH session <- Session
ImplementsSessions == S!Spec

\* "all sessions revoked" (http.go:278): after LogoutAll no session of the user from
\* before it has a token that works.
AllSessionsRevoked ==
    \A t \in Tokens : status[t] = "live" => ended[line[t]] \notin {"all", "raced"}
=============================================================================
