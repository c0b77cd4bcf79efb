SPECIFICATION Spec
CONSTANTS
    cut = cut  shave = shave
    Barbers = {1, 2}
    Services = {cut, shave}
    None = None  Failed = Failed
    MonthStarts <- MCMonthStarts
    OpenDay = 2
    MonthlyWindow = TRUE
    HorizonDays = 4
    Interval = 30
    Hours <- MCHours
    Skills <- MCSkills
    OtherTimes = {570}
    Durations = {45}
    Clock <- MCClock
    Shops <- MCShops
    Calendars <- MCCalendars
    Links <- MCLinks
    MaxEvents = 1
    MaxMoves = 2
INVARIANTS SelectionIsDecided StepsAreEarned ChosenTimeIsOffered OffersMatchAnswers NoticeIsKept
CHECK_DEADLOCK FALSE
