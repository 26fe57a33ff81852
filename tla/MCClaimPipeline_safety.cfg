\* One claim of either company, a document, a decision, one lost event and
\* one crash.
SPECIFICATION Spec
CONSTANTS
    Claims = {c1}
    Companies = {k1, k2}
    Scores = {7995, 8100}
    FlagThreshold = 8000
    PublishThreshold = 8000
    AiWorkers = {w1}
    ClaimWorkers = {v1}
    Pods = {n1}
    MaxRetries = 1
    MaxUploads = 1
    MaxReviews = 1
    MaxLosses = 1
    MaxCrashes = 1
    NoRow = NoRow
    NoCompany = NoCompany
    Idle = Idle
INVARIANTS TypeOK StatusExplained AlertsJustified DashboardsSeeOwnClaims
           PendingTracked FlaggedIsAnnounced
PROPERTY ImplementsLifecycle
SYMMETRY CompanySymmetry
\* Creations, uploads and reviews are bounded: the topics run dry.
CHECK_DEADLOCK FALSE
