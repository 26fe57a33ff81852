CONSTANTS
    SeedId = SeedId
    NoId = NoId
    Fresh = {u1, u2}
    Callers = {c1, c2}
    MaxRestarts = 1
    Products = {p1, p2}
    NoProduct = NoProduct
    Levels = {0, 1, 2}
    Quantities = {1, 2}
    PageSize = 1
    MaxMoving = 1
    MaxMoved = 4
    MaxChecks = 2
    MaxFaults = 2
SPECIFICATION ErpSpec
SYMMETRY Alike
INVARIANTS
    ErpTypeOK
    NoOfficeRecords
    StoredIsAnnounced
    LowStockViewsAgree
    DropsAreAnnounced
PROPERTIES
    CreatedIsStored
    RefusedLeavesNothing
