CONSTANTS
    a1 = a1  w1 = w1
    Admins = {a1}
    Workers = {w1}
    LastDate = 2
    WeekLength = 2
    MonthStart <- FirstOfMonth
    MonthLength <- DaysOfMonth
    Amounts = {1, 2}
    MaxVersions = 2
    MaxPauses = 1
SPECIFICATION FairSpec
INVARIANTS LedgerMatchesSeries
PROPERTIES HistoryIsKept PastStaysDue DueIsRecorded
CHECK_DEADLOCK FALSE
