CONSTANTS
    s1 = s1  s2 = s2
    Appts = {1, 2, 3, 4}
    Sessions = {s1, s2}
    Barbers = {1}
    Locations = {1}
    MainLocation = 1
    MaxSlot = 1
    SlotsPerDay = 1
    Durations = {1}
    PolicySlots = 1
    MaxRevision = 1
    MaxBatch = 2
    EventsEnabled = FALSE
    Requests = {"create", "closeLocation"}
    Asked = {}
SPECIFICATION FairSpec
PROPERTY RequestsAreAnswered
CHECK_DEADLOCK FALSE
