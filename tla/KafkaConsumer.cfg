\* Two replicas competing for one partition: a rebalance and a crash or a
\* termination, each possibly in the middle of a message.
SPECIFICATION FairSpec
CONSTANTS
    Members = {m1, m2}
    Partitions = {p1}
    MaxRetries = 2
    MaxLen = 2
    MaxFailures = 1
    MaxRebalances = 1
    Nobody = Nobody
    NoMsg = NoMsg
INVARIANTS TypeOK NoEventLost SettledInOrder
PROPERTIES CommitsOnlyAdvance ImplementsDelivery EverythingSettles ShutdownCompletes
\* The log is bounded: once it is drained the members wait in FetchMessage.
CHECK_DEADLOCK FALSE
