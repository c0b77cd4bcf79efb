CONSTANTS
    p1 = p1
    h1 = h1  h2 = h2  m1 = m1  m2 = m2  s1 = s1
    Events = {1}
    Procs = {p1}
    Roles = {"webhook", "worker"}
    Customers <- Reachable
    WhatsAppEnabled = TRUE
    RecurringWhatsApp = TRUE
    DeferWhenDisabled = TRUE
    RemindersEnabled = TRUE
    SlowWorkers = FALSE
    Reportable = {"sent", "delivered", "read", "failed"}
    MaxReports = 3
    MaxCrashes = 0
    Messages = {m1, m2}
    Senders = {s1}
    SenderOf <- OneSender
    Handlers = {h1, h2}
    Nobody = nobody
    Window = 1
    MaxTime = 2
    MaxFailures = 1
SPECIFICATION MetaWebhook
SYMMETRY Interchangeable
INVARIANTS ReceiptsAreApplied RepliesAreRationed
CHECK_DEADLOCK FALSE
