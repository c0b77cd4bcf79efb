CONSTANTS
    s1 = s1  s2 = s2
    Appts = {1}
    Sessions = {s1, s2}
    Barbers = {1}
    Locations = {1}
    MainLocation = 1
    MaxSlot = 1
    SlotsPerDay = 2
    Durations = {1}
    PolicySlots = 1
    MaxRevision = 3
    MaxBatch = 1
    EventsEnabled = TRUE
    Requests = {"create", "moveByToken", "cancelByToken", "status", "statusIfCurrent"}
    Asked = {"booked", "cancelled"}
SPECIFICATION Spec
SYMMETRY Interchangeable
INVARIANT CancellationsAreTold
CHECK_DEADLOCK FALSE
