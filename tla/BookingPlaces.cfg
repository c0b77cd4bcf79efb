CONSTANTS
    s1 = s1  s2 = s2
    Appts = {1}
    Sessions = {s1, s2}
    Barbers = {1}
    Locations = {1, 2}
    MainLocation = 1
    MaxSlot = 1
    SlotsPerDay = 2
    Durations = {1}
    PolicySlots = 1
    MaxRevision = 2
    MaxBatch = 1
    EventsEnabled = TRUE
    Requests = {"create", "patch", "moveByToken", "cancelByToken", "removeBarber", "assignBarber", "closeLocation", "openLocation"}
    Asked = {}
SPECIFICATION Spec
SYMMETRY Interchangeable
INVARIANTS FutureBookingsHavePlace NoticesMatchStart
PROPERTIES RevisionsAdvance
CHECK_DEADLOCK FALSE
