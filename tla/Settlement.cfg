CONSTANTS
    None = None
    PeriodLength <- Instants
    Visits = {1, 2}
    c1 = c1  c2 = c2
    LegacyRules <- MigratedRules
    Legacy <- LegacyVisits
    Barbers = {1, 2}
    Veterans = {1}
    Managers = {"m1"}
    Clerks = {c1, c2}
    MaxNow = 2
    MaxRules = 3
    Prices = {5, 6}
    Orders <- SmallOrders
    Payments = {"cash"}
    PayInputs <- SmallInputs
    Patches <- SmallPatches
    Asked = {"completed"}
    Expectations = {"booked"}
SPECIFICATION Spec
SYMMETRY Interchangeable
INVARIANTS RentIsChargedOnce PaidUnderItsBarbersRule
PROPERTY HistoryIsNotRepriced
CHECK_DEADLOCK FALSE
