\* A connection that ends as soon as it is open.
SPECIFICATION Spec
CONSTANTS
    Clients = {c1}
    Companies = {k1}
    SendCap = 1
    BroadcastCap = 2
    RegisterCap = 1
    MaxMsgs = 1
    NoCompany = NoCompany
    NoMsg = NoMsg
INVARIANT UnregisteredIsGone
\* Messages and connections are bounded.
CHECK_DEADLOCK FALSE
