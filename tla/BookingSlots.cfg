CONSTANTS
    s1 = s1  s2 = s2
    Appts = {1, 2}
    Sessions = {s1, s2}
    Barbers = {1}
    Locations = {1}
    MainLocation = 1
    MaxSlot = 2
    SlotsPerDay = 2
    Durations = {1, 2}
    PolicySlots = 1
    MaxRevision = 2
    MaxBatch = 2
    EventsEnabled = TRUE
    Requests = {"create", "moveByToken"}
    Asked = {}
SPECIFICATION Spec
SYMMETRY Interchangeable
PROPERTY BookingIsACalendar
INVARIANTS TypeOK NoDoubleBooking SlotsStayFreeUntilCommit
CHECK_DEADLOCK FALSE
