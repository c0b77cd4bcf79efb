SPECIFICATION Spec
CONSTANTS
    r1 = r1  r2 = r2
    Sessions = {r1, r2}
    None = None
    Installations <- MCInstallations
    MaxLocations = 3
    MaxServices = 2
    MaxBarbers = 2
    MaxCategories = 3
    OfferChanges <- MCOfferChanges
    ServiceChanges <- MCServiceChanges
    MaxRequests = 3
SYMMETRY Interchangeable
INVARIANTS ListsAreInOrder BookingsWereOnSale
CHECK_DEADLOCK FALSE
