CONSTANTS
    p1 = p1  p2 = p2
    Events = {1}
    Procs = {p1, p2}
    Roles = {"worker"}
    Customers <- Everyone
    WhatsAppEnabled = TRUE
    RecurringWhatsApp = TRUE
    DeferWhenDisabled = TRUE
    RemindersEnabled = TRUE
    SlowWorkers = TRUE
    Reportable = {}
    MaxReports = 0
    MaxCrashes = 1
SPECIFICATION FairSpec
INVARIANTS WhatsAppIsSentOnce AppointmentsAreNotForgotten
PROPERTY EventsAreClosed
CHECK_DEADLOCK FALSE
