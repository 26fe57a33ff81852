CONSTANTS
    Companies = {c1}
    Emails = {e1}
    DemoCompany = c1
    Clients = {browser}
    Browsers = {browser}
    Requests = {r1, r2}
    Tokens = {t1, t2, t3}
    MaxFaults = 1
    NoUser = NoUser
    NoAccount = NoAccount
    NoToken = NoToken
    NoClient = NoClient
SPECIFICATION Spec
CHECK_DEADLOCK FALSE
INVARIANTS
    TypeOK
    OneTokenPerSession
    HeldTokenWorks
    LogoutAllIsFinal
    PanicsOnlyForDeleted
PROPERTIES
    DeletedIsRefused
    ImplementsSessions
SYMMETRY Symmetry
