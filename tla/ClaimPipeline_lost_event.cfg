\* Liveness when one publish fails.
SPECIFICATION FairSpec
CONSTANTS
    Claims = {c1}
    Companies = {k1}
    Scores = {7995, 8000}
    FlagThreshold = 8000
    PublishThreshold = 8000
    AiWorkers = {w1}
    ClaimWorkers = {v1}
    Pods = {n1}
    MaxRetries = 2
    MaxUploads = 0
    MaxReviews = 0
    MaxLosses = 1
    MaxCrashes = 0
    NoRow = NoRow
    NoCompany = NoCompany
    Idle = Idle
PROPERTY EveryClaimSettles
\* Creations, uploads and reviews are bounded: the topics run dry.
CHECK_DEADLOCK FALSE
