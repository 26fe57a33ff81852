\* Liveness: one crash, no event lost.
SPECIFICATION FairSpec
CONSTANTS
    Claims = {c1}
    Companies = {k1}
    Scores = {7995, 8000}
    FlagThreshold = 8000
    PublishThreshold = 8000
    AiWorkers = {w1}
    ClaimWorkers = {v1}
    Pods = {n1}
    MaxRetries = 2
    MaxUploads = 0
    MaxReviews = 1
    MaxLosses = 0
    MaxCrashes = 1
    NoRow = NoRow
    NoCompany = NoCompany
    Idle = Idle
PROPERTIES EveryClaimSettles FlaggedReachesDashboard
\* Creations, uploads and reviews are bounded: the topics run dry.
CHECK_DEADLOCK FALSE
