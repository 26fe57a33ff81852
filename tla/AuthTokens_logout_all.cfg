CONSTANTS
    Companies = {c1}
    Emails = {e1}
    DemoCompany = c1
    Clients = {browser}
    Browsers = {browser}
    Requests = {r1}
    Tokens = {t1, t2}
    MaxFaults = 0
    NoUser = NoUser
    NoAccount = NoAccount
    NoToken = NoToken
    NoClient = NoClient
SPECIFICATION Spec
CHECK_DEADLOCK FALSE
INVARIANT AllSessionsRevoked
