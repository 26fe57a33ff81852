\* Two connections of two companies that come and go, channels that fill up.
\* Run and the handlers are scheduled, writes need not end.
SPECIFICATION FairSpec
CONSTANTS
    Clients = {c1, c2}
    Companies = {k1, k2}
    SendCap = 1
    BroadcastCap = 2
    RegisterCap = 1
    MaxMsgs = 2
    NoCompany = NoCompany
    NoMsg = NoMsg
INVARIANTS TypeOK NeverSendsOnClosed StreamComplete StreamInOrder
PROPERTIES EveryMessageIsDistributed HandlersEnd PumpsEnd
\* Messages and connections are bounded.
CHECK_DEADLOCK FALSE
