CONSTANTS
    p1 = p1  p2 = p2
    Events = {1}
    Procs = {p1, p2}
    Roles = {"worker", "webhook"}
    Customers <- Reachable
    WhatsAppEnabled = TRUE
    RecurringWhatsApp = TRUE
    DeferWhenDisabled = TRUE
    RemindersEnabled = TRUE
    SlowWorkers = FALSE
    Reportable = {"sent", "delivered", "read", "failed"}
    MaxReports = 2
    MaxCrashes = 0
SPECIFICATION Spec
SYMMETRY Interchangeable
INVARIANTS EmailIsSentOnce 
PROPERTY EmailIsAFallback
CHECK_DEADLOCK FALSE
