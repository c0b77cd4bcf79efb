---------------------------- MODULE Availability ----------------------------
(* When a time is free, decided twice by the same program: the booking page   *)
(* offers times (client/src/lib/availability.ts), the server checks a request *)
(* for one (the helpers of server/routes.ts). The operators keep the names of *)
(* the code. Times of a day are minutes, days are numbered, and an instant is *)
(* the minute since day 0 of the one time zone that locations share: the      *)
(* server refuses a location in another one. Lists whose order nobody reads   *)
(* are sets.                                                                  *)
EXTENDS Integers, Sequences, FiniteSetsExt

CONSTANTS
    MonthStarts,    \* MonthStarts[m] is the first day of month m
    OpenDay,        \* the day of a month on which the next one opens
    MonthlyWindow,  \* whether the next month opens on that day
    HorizonDays,    \* days open at a time otherwise
    Interval        \* minutes between the starts of slots

ASSUME CalendarAssumption ==
    /\ MonthStarts \in Seq(Int)
    /\ \A m, n \in DOMAIN MonthStarts : m < n => MonthStarts[m] + OpenDay <= MonthStarts[n]
    /\ OpenDay \in 1 .. 28
    /\ Interval \in {15, 30, 60}

Minutes == 1440
DefaultDuration == 30
AnyBarber == 0

At(day, minute) == day * Minutes + minute
Weekday(day) == day % 7

-----------------------------------------------------------------------------
(* Periods of work. *)

Period(start, end) == [start |-> start, end |-> end]

\* The hours of a shop that has stored none.
defaultPeriodsForDay(weekday) ==
    CASE weekday = 0 -> {}
      [] weekday = 1 -> {Period(840, 1200)}
      [] weekday \in 2 .. 5 -> {Period(540, 780), Period(840, 1200)}
      [] weekday = 6 -> {Period(540, 780), Period(840, 1140)}

rowsToPeriods(rows) == {p \in {Period(r.start, r.end) : r \in rows} : p.end > p.start}

intersectPeriods(primary, override) ==
    {p \in {Period(IF a.start > b.start THEN a.start ELSE b.start,
                   IF a.end < b.end THEN a.end ELSE b.end) : a \in primary, b \in override} :
        p.end > p.start}

On(rows, weekday) == {r \in rows : r.weekday = weekday /\ r.on}

periodsForShop(weekday, shopRows) ==
    IF shopRows = {} THEN defaultPeriodsForDay(weekday) ELSE rowsToPeriods(On(shopRows, weekday))

getEffectivePeriodsForBarber(weekday, shopRows, barberRows) ==
    IF barberRows = {} THEN periodsForShop(weekday, shopRows)
    ELSE intersectPeriods(periodsForShop(weekday, shopRows), rowsToPeriods(On(barberRows, weekday)))

\* What the routes refuse to store: two periods of one day that overlap.
hasOverlappingAvailabilityPeriods(rows) ==
    \E r, s \in rows : r # s /\ r.weekday = s.weekday /\ r.start < s.end /\ s.start < r.end

-----------------------------------------------------------------------------
(* What the page offers. *)

firstClockAlignedMinute(minute) == ((minute + Interval - 1) \div Interval) * Interval

isClockTimeAligned(minute) == minute % Interval = 0

\* The starts that fit a period.
StartsIn(period, duration) ==
    LET first == firstClockAlignedMinute(period.start)
    IN {m \in {first + k * Interval : k \in 0 .. (period.end - period.start) \div Interval} : m + duration <= period.end}

\* A bug: a visit may not begin when another one ends.
ConflictWithNeighbours(taken, barber, start, duration) ==
    \E a \in taken : a.barber = barber /\ start <= a.start + a.duration /\ start + duration > a.start

hasAppointmentIntervalConflict(taken, barber, start, duration) ==
    \E a \in taken : /\ a.barber = barber
                     /\ start < a.start + a.duration
                     /\ start + duration > a.start

\* The available times of a day: times holds what the page knows of the bookings,
\* team the visible barbers with the services each performs, hours the stored rows.
getAvailableTimeSlots(service, day, barber, team, hours, taken, now) ==
    LET eligible == {b \in team : (barber = AnyBarber \/ b.id = barber) /\ service.id \in b.services}
        periods(b) == getEffectivePeriodsForBarber(Weekday(day), hours.shop, hours.barber[b.id])
        candidates == UNION {UNION {StartsIn(p, service.duration) : p \in periods(b)} : b \in eligible}
    IN {m \in candidates :
            /\ ~(day = now \div Minutes /\ At(day, m) <= now)
            /\ \E b \in eligible :
                  /\ \E p \in periods(b) : m >= p.start /\ m + service.duration <= p.end
                  /\ ~hasAppointmentIntervalConflict(taken, b.id, At(day, m), service.duration)}

\* The first day of the window with an available time, given the times of its days.
findFirstAvailableDate(slots, none) ==
    LET free == {d \in DOMAIN slots : slots[d] # {}}
    IN IF free = {} THEN none ELSE Min(free)

-----------------------------------------------------------------------------
(* The days the page may offer. *)

MonthOf(day) == CHOOSE m \in DOMAIN MonthStarts :
    MonthStarts[m] <= day /\ (m + 1 \in DOMAIN MonthStarts => day < MonthStarts[m + 1])
EndOfMonth(m) == MonthStarts[m + 1] - 1
DayOfMonth(day) == day - MonthStarts[MonthOf(day)] + 1

getPublicBookingWindow(today) ==
    LET next == DayOfMonth(today) >= OpenDay
        month == MonthOf(today) + (IF next THEN 1 ELSE 0)
    IN [enabled |-> TRUE, today |-> today, maxDate |-> EndOfMonth(month),
        nextOpeningDate |-> MonthStarts[month] + OpenDay - 1]

getOpenPublicBookingWindow(today) ==
    [getPublicBookingWindow(today) EXCEPT !.enabled = FALSE, !.maxDate = today + HorizonDays]

currentPublicBookingWindow(today) ==
    IF MonthlyWindow THEN getPublicBookingWindow(today) ELSE getOpenPublicBookingWindow(today)

isDateWithinPublicBookingWindow(day, window) == day \in window.today .. window.maxDate

\* A bug: the next opening opens the month on display, whichever that is.
NoticeOfAnyMonth(window, day, none) ==
    IF window.enabled /\ MonthStarts[MonthOf(day) + 1] >= window.maxDate
    THEN [bookingMonth |-> MonthOf(day), openingDate |-> window.nextOpeningDate]
    ELSE none

\* The month after the one on display and the day it opens, or none.
getPublicBookingMonthOpeningNotice(window, day, none) ==
    LET first == MonthStarts[MonthOf(day) + 1]
    IN IF window.enabled /\ first > window.maxDate
       THEN [bookingMonth |-> MonthOf(day) + 1, openingDate |-> window.nextOpeningDate]
       ELSE none

-----------------------------------------------------------------------------
(* What the server checks. An appointment without stored terms is as long as  *)
(* its service when its 30 minutes may be the old default.                    *)

getEffectiveAppointmentDurationMinutes(a, durations) ==
    LET ofService == IF a.service \in DOMAIN durations THEN durations[a.service] ELSE DefaultDuration
    IN IF ~a.terms /\ a.duration = DefaultDuration THEN ofService ELSE a.duration

getBarberWorkingPeriods(barber, weekday, hours) ==
    LET shop == IF hours.shop = {} THEN defaultPeriodsForDay(weekday)
                ELSE rowsToPeriods(On(hours.shop, weekday))
    IN IF shop = {} \/ hours.barber[barber] = {} THEN shop
       ELSE intersectPeriods(shop, rowsToPeriods(On(hours.barber[barber], weekday)))

\* getScheduleValidationError finds no error.
FitsSchedule(start, duration, periods) ==
    LET end == start + duration IN
    /\ start \div Minutes = end \div Minutes
    /\ \E p \in periods : start % Minutes >= p.start /\ end % Minutes <= p.end

hasAppointmentConflict(booked, barber, start, duration, durations) ==
    \E a \in booked : /\ a.barber = barber
                      /\ start < a.start + getEffectiveAppointmentDurationMinutes(a, durations)
                      /\ start + duration > a.start

\* assertNoAppointmentConflict of the transaction, which reads the stored duration.
StoredConflict(booked, barber, start, duration) ==
    \E a \in booked : /\ a.barber = barber
                      /\ start < a.start + a.duration
                      /\ start + duration > a.start
=============================================================================
