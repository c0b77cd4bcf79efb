--------------------------- MODULE OnlineBooking ---------------------------
(* The public booking page (client/src/pages/Booking.tsx) of one location and *)
(* the server it talks to. The page keeps what each of its queries answered   *)
(* and never asks again by itself, but for the booking window; the server's   *)
(* settings, bookings and clock move on meanwhile. Every step of the customer *)
(* or of the network is followed by the effects of the page (Settles).        *)
(* A booking is one step here: its transaction is AppointmentBooking's.       *)
EXTENDS Availability, FiniteSets

CONSTANTS
    Barbers,        \* ids of barbers, positive numbers
    Services,
    Hours,          \* sets of stored rows that administrators may send
    Skills,         \* sets of services a barber may be given
    Durations,      \* durations an offer may be given
    OtherTimes,     \* the times of a day that other customers book
    Clock,          \* the instants at which things happen
    Shops,          \* settings to begin with
    Calendars,      \* sets of booked appointments to begin with
    Links,          \* what the page may be opened with: a selection, and the queries
                    \* that another page has had answered already
    MaxEvents,      \* settings that change, bookings of others, ticks and lost answers
    MaxMoves,       \* those and the queries for bookings that are answered, together
    None, Failed

\* The hours that the routes store, and what the shop keeps.
Rows == {r \in [weekday : 0 .. 6, start : 0 .. Minutes - 1, end : 0 .. Minutes - 1, on : BOOLEAN] :
            r.start < r.end}
StoredHours == [shop : SUBSET Rows, barber : [Barbers -> SUBSET Rows]]
Settings == [hours : StoredHours, team : SUBSET Barbers, performs : [Barbers -> SUBSET Services],
             offers : [Services -> [active : BOOLEAN, duration : Nat]]]

\* Appointments: the routes refuse one that crosses the end of its day.
Visits == {a \in [barber : Barbers, start : Int, duration : Nat, service : Services, terms : BOOLEAN] :
              (a.start + a.duration) \div Minutes = a.start \div Minutes}

ASSUME BookingAssumption ==
    /\ Barbers \subseteq Nat \ {0} /\ None \notin Barbers \cup {Failed}
    /\ \A l \in Links : l.date # None /\ l.date \in Int /\ l.time \in Int \cup {None}
    /\ Clock \subseteq Nat
    /\ Len(MonthStarts) > 3
    /\ \A t \in Clock : /\ MonthStarts[1] <= t \div Minutes
                       /\ t \div Minutes < MonthStarts[Len(MonthStarts) - 2]
    /\ \A t \in Clock : currentPublicBookingWindow(t \div Minutes) \notin {None, Failed}
    /\ HorizonDays \in Nat /\ OtherTimes \subseteq Int
    /\ Shops \subseteq Settings /\ Hours \subseteq SUBSET Rows
    /\ Skills \subseteq SUBSET Services /\ Durations \subseteq Nat
    /\ \A C \in Calendars : IsFiniteSet(C) /\ C \subseteq Visits

VARIABLES
    shop,       \* hours, team, what each barber performs, offers
    booked,     \* the booked appointments of its barbers
    now,        \* the server's and the customer's clock
    page,       \* state of the page, with the answers it holds
    events      \* how many of those there were

vars == <<shop, booked, now, page, events>>

Moves == events + Cardinality(DOMAIN page.times)
Event == events < MaxEvents /\ Moves < MaxMoves /\ events' = events + 1

-----------------------------------------------------------------------------
(* What the server answers. *)

Today == now \div Minutes

Row(weekday, start, end, on) == [weekday |-> weekday, start |-> start, end |-> end, on |-> on]

getDefaultShopAvailabilityRows ==
    {Row(0, 540, 780, FALSE), Row(1, 840, 1200, TRUE), Row(6, 540, 780, TRUE), Row(6, 840, 1140, TRUE)}
    \cup {Row(d, 540, 780, TRUE) : d \in 2 .. 5} \cup {Row(d, 840, 1200, TRUE) : d \in 2 .. 5}

Offered == {s \in Services : shop.offers[s].active}
OfferedDurations == [s \in Offered |-> shop.offers[s].duration]
AllDurations == [s \in Services |-> shop.offers[s].duration]

Answer(query) ==
    CASE query = "barbers" -> {[id |-> b, services |-> shop.performs[b] \cap Offered] : b \in shop.team}
      [] query = "services" -> {[id |-> s, duration |-> shop.offers[s].duration] : s \in Offered}
      [] query = "hours" -> [shop.hours EXCEPT !.shop = IF @ = {} THEN getDefaultShopAvailabilityRows ELSE @]
      [] query = "window" -> currentPublicBookingWindow(Today)
      [] query = "config" -> Interval

\* The public appointments of a barber, or of all, from one day to another.
PublicAppointments(barber, from, to) ==
    {[barber |-> a.barber, start |-> a.start,
      duration |-> getEffectiveAppointmentDurationMinutes(a, AllDurations)] :
        a \in {x \in booked : /\ x.barber \in shop.team
                              /\ barber \in {AnyBarber, x.barber}
                              /\ x.start \div Minutes \in from .. to
                              /\ x.start \div Minutes <= currentPublicBookingWindow(Today).maxDate}}

Suitable(b, r) ==
    LET duration == shop.offers[r.service].duration IN
    /\ b \in shop.team
    /\ r.service \in shop.performs[b]
    /\ FitsSchedule(r.start, duration, getBarberWorkingPeriods(b, Weekday(r.start \div Minutes), shop.hours))
    /\ ~hasAppointmentConflict({a \in booked : a.start \div Minutes = r.start \div Minutes},
                               b, r.start, duration, OfferedDurations)

Workload(b, day) == Cardinality({a \in booked : a.barber = b /\ a.start \div Minutes = day})

\* The barbers the server may give a request to: the one asked for, or the least busy.
Chosen(r) ==
    LET free == {b \in Barbers : Suitable(b, r)}
        day == r.start \div Minutes
    IN IF r.barber # AnyBarber THEN free \cap {r.barber}
       ELSE {b \in free : \A c \in free : \/ Workload(b, day) < Workload(c, day)
                                          \/ Workload(b, day) = Workload(c, day) /\ b <= c}

Admissible(r) ==
    /\ isClockTimeAligned(r.start % Minutes)
    /\ r.start >= now
    /\ MonthlyWindow => isDateWithinPublicBookingWindow(r.start \div Minutes, currentPublicBookingWindow(Today))
    /\ r.service \in Offered

\* The appointments a request becomes: one, or none if it is refused.
Bookings(r) ==
    IF ~Admissible(r) THEN {}
    ELSE {[barber |-> b, start |-> r.start, duration |-> shop.offers[r.service].duration,
           service |-> r.service, terms |-> TRUE] :
             b \in {c \in Chosen(r) : ~StoredConflict(booked, c, r.start, shop.offers[r.service].duration)}}

-----------------------------------------------------------------------------
(* What the page derives from its state p. *)

Queries == {"barbers", "services", "hours", "window", "config"}

Loaded(p, q) == p.data[q] \notin {None, Failed}

visibleBarbers(p) == IF Loaded(p, "barbers") THEN p.data.barbers ELSE {}

availableServices(p) ==
    LET selected == {b \in visibleBarbers(p) : b.id = p.barber}
    IN IF ~Loaded(p, "services") THEN {}
       ELSE {s \in p.data.services :
                IF p.barber \in Barbers THEN \A b \in selected : s.id \in b.services
                ELSE \E b \in visibleBarbers(p) : s.id \in b.services}

isPublicDateAllowed(p, day) ==
    Loaded(p, "window") /\ isDateWithinPublicBookingWindow(day, p.data.window)

knownHours(p) == IF Loaded(p, "hours") THEN p.data.hours ELSE [shop |-> {}, barber |-> [b \in Barbers |-> {}]]

isShopClosedDate(p, day) == periodsForShop(Weekday(day), knownHours(p).shop) = {}

\* The two queries for bookings: of the whole window, and of the day until that is there.
WindowQuery(p) == IF Loaded(p, "window") THEN <<"window", p.barber, p.data.window.today, p.data.window.maxDate>>
                  ELSE <<"window", p.barber, None, None>>
DayQuery(p) == IF p.date # None /\ isPublicDateAllowed(p, p.date) THEN <<"day", p.barber, p.date, p.date>>
               ELSE <<"day", p.barber, None, None>>

Result(p, key) == IF key \in DOMAIN p.times THEN p.times[key] ELSE None
Received(p, key) == Result(p, key) \notin {None, Failed}

Selecting(p) == p.step = 3 /\ p.barber # None /\ p.service # None

Enabled(p) ==
    {k \in {WindowQuery(p)} : Selecting(p) /\ Loaded(p, "window")}
    \cup {k \in {DayQuery(p)} : Selecting(p) /\ k[3] # None /\ ~Received(p, WindowQuery(p))}

\* None as long as nothing is known of the day.
existingAppointments(p) ==
    IF Received(p, WindowQuery(p)) /\ p.date # None
    THEN {a \in Result(p, WindowQuery(p)) : a.start \div Minutes = p.date}
    ELSE IF Received(p, DayQuery(p)) THEN Result(p, DayQuery(p)) ELSE None

SlotsOf(p, day, taken, at) ==
    UNION {getAvailableTimeSlots(s, day, p.barber, visibleBarbers(p), knownHours(p), taken, at) :
              s \in {x \in availableServices(p) : x.id = p.service}}

\* Memoised: computed at the instant slotsAt, and kept until one of slotsRestOn changes.
timeSlots(p) ==
    IF ~Loaded(p, "config") \/ p.barber = None \/ p.date = None \/ existingAppointments(p) = None THEN {}
    ELSE SlotsOf(p, p.date, existingAppointments(p), p.slotsAt)

loadingInitialAvailability(p) ==
    \/ \E q \in Queries : p.data[q] = None
    \/ WindowQuery(p) \in Enabled(p) /\ Result(p, WindowQuery(p)) = None

initialAvailabilityHasError(p) ==
    \/ \E q \in Queries \ {"window"} : p.data[q] = Failed
    \/ Result(p, WindowQuery(p)) = Failed

selectionKey(p) == <<p.barber, p.service, WindowQuery(p)[3], WindowQuery(p)[4]>>

FirstDateKnown(p) ==
    /\ Loaded(p, "window") /\ Loaded(p, "config")
    /\ p.barber # None
    /\ \E s \in availableServices(p) : s.id = p.service
    /\ Received(p, WindowQuery(p))
    /\ ~initialAvailabilityHasError(p)

\* Memoised like timeSlots, at the instant firstAt.
firstAvailableDate(p) ==
    LET slots == [day \in p.data.window.today .. p.data.window.maxDate |->
                    SlotsOf(p, day, Result(p, WindowQuery(p)), p.firstAt)]
    IN findFirstAvailableDate(slots, None)

\* What useMemo compares from one rendering to the next. The clock is not among it.
Data(p, q) == IF Loaded(p, q) THEN p.data[q] ELSE None
BookingsOf(p, key) == IF Received(p, key) THEN <<key, Result(p, key)>> ELSE None
Catalogue(p) == [q \in Queries \ {"window"} |-> Data(p, q)]

slotsRestOn(p) ==
    <<Catalogue(p), p.barber, p.service, p.date,
      BookingsOf(p, WindowQuery(p)), BookingsOf(p, DayQuery(p))>>

firstRestsOn(p) ==
    <<Catalogue(p), p.barber, p.service, Data(p, "window"),
      BookingsOf(p, WindowQuery(p)), initialAvailabilityHasError(p)>>

-----------------------------------------------------------------------------
(* The effects of the page, which all read the state of one rendering. What   *)
(* several of them set, the later one decides.                                *)

AtMost3(step) == IF step > 3 THEN 3 ELSE step

TimeMisaligned(p) == Loaded(p, "config") /\ p.time # None /\ ~isClockTimeAligned(p.time)
BarberGone(p) == Loaded(p, "barbers") /\ p.barber \in Barbers /\ ~\E b \in visibleBarbers(p) : b.id = p.barber
DateClosed(p) == Loaded(p, "window") /\ p.date # None /\ ~isPublicDateAllowed(p, p.date)
ServiceGone(p) == /\ p.service # None /\ Loaded(p, "barbers") /\ Loaded(p, "services")
                  /\ ~\E s \in availableServices(p) : s.id = p.service
\* A bug: the page waits for the first date even if it cannot come.
SelectionWithoutErrors(p) == /\ p.step = 3 /\ ~loadingInitialAvailability(p) /\ p.done # {selectionKey(p)}
                             /\ FirstDateKnown(p)
InitialSelection(p) == /\ p.step = 3 /\ ~loadingInitialAvailability(p) /\ p.done # {selectionKey(p)}
                       /\ (initialAvailabilityHasError(p) \/ FirstDateKnown(p))

\* A bug: a service that is gone leaves the step alone.
StepWithoutService(p) ==
    LET s2 == IF TimeMisaligned(p) THEN AtMost3(p.step) ELSE p.step
        s3 == IF BarberGone(p) THEN 1 ELSE s2
    IN IF DateClosed(p) THEN AtMost3(s3) ELSE s3

StepAfterEffects(p) ==
    LET s2 == IF TimeMisaligned(p) THEN AtMost3(p.step) ELSE p.step
        s3 == IF BarberGone(p) THEN 1 ELSE s2
        s4 == IF DateClosed(p) THEN AtMost3(s3) ELSE s3
    IN IF ServiceGone(p) /\ p.step > 2 THEN 2 ELSE s4

Effects(p) ==
    LET gone == BarberGone(p)
        closed == DateClosed(p)
        noService == ServiceGone(p)
        initial == InitialSelection(p)
        failed == initialAvailabilityHasError(p)
    IN [p EXCEPT
        !.step = StepAfterEffects(p),
        !.barber = IF gone THEN None ELSE @,
        !.service = IF gone \/ noService THEN None ELSE @,
        !.date = IF initial THEN IF failed THEN None ELSE firstAvailableDate(p)
                 ELSE IF closed THEN p.data.window.today ELSE @,
        !.slotsAt = IF initial /\ ~failed /\ firstAvailableDate(p) # None THEN now ELSE @,
        !.time = IF TimeMisaligned(p) \/ gone \/ closed \/ noService \/ initial THEN None ELSE @,
        !.done = IF initial THEN {selectionKey(p)} ELSE @,
        !.failed = IF initial THEN IF failed THEN selectionKey(p) ELSE None ELSE @]

\* A rendering after that of the page old: what is memoised is computed anew if what it
\* rests on has changed, and a query that failed is sent again, and waits like a new one,
\* when the page comes to need it anew.
Rendered(old, p) ==
    LET again == {k \in Enabled(p) \ Enabled(old) : Result(p, k) = Failed}
        q == [p EXCEPT !.times = [k \in DOMAIN @ \ again |-> @[k]], !.stale = @ \ again]
    IN [q EXCEPT !.slotsAt = IF slotsRestOn(q) = slotsRestOn(old) THEN @ ELSE now,
                 !.firstAt = IF firstRestsOn(q) = firstRestsOn(old) THEN @ ELSE now]

\* A rendering and its effects, which are rendered in turn unless they change nothing: q is
\* the page then. A third run of the effects finds nothing left to set.
Settles(old, p, q) ==
    \E first \in {Rendered(old, p)} :
        \E once \in {Effects(first)} :
            IF once = first THEN q = first
            ELSE \E second \in {Rendered(first, once)} : q = Rendered(second, Effects(second))

Render(p) == Settles(page, p, page')

-----------------------------------------------------------------------------
(* The customer. *)

initialAvailabilityError(p) == p.step = 3 /\ p.failed # None /\ p.failed = selectionKey(p)

loadingSelectedDateAvailability(p) ==
    \/ \E q \in Queries : p.data[q] = None
    \/ ~Received(p, WindowQuery(p)) /\ DayQuery(p) \in Enabled(p) /\ Result(p, DayQuery(p)) = None

\* The times the customer sees and may click. (That the whole window has none is
\* said in other words, but shows as few.)
ShownTimes(p) ==
    IF loadingSelectedDateAvailability(p) \/ initialAvailabilityError(p) \/ p.date = None
    THEN {}
    ELSE IF isShopClosedDate(p, p.date) THEN {} ELSE timeSlots(p)

SelectBarber ==
    /\ page.step = 1 /\ visibleBarbers(page) # {}
    /\ \E b \in {AnyBarber} \cup {x.id : x \in visibleBarbers(page)} : Render([page EXCEPT !.barber = b])

SelectService ==
    /\ page.step = 2
    /\ \E s \in availableServices(page) : Render([page EXCEPT !.service = s.id])

\* A bug: another day keeps the time.
SelectDateOnly ==
    /\ page.step = 3 /\ Loaded(page, "window")
    /\ \E d \in page.data.window.today .. page.data.window.maxDate :
          ~isShopClosedDate(page, d) /\ Render([page EXCEPT !.date = IF @ = d THEN None ELSE d])

\* A click on the selected day or time takes it back.
SelectDate ==
    /\ page.step = 3 /\ Loaded(page, "window")
    /\ \E d \in page.data.window.today .. page.data.window.maxDate :
          /\ ~isShopClosedDate(page, d)
          /\ Render([page EXCEPT !.date = IF @ = d THEN None ELSE d, !.time = None])

SelectTime ==
    /\ page.step = 3
    /\ \E t \in ShownTimes(page) : Render([page EXCEPT !.time = IF @ = t THEN None ELSE t])

handleNext ==
    /\ \/ page.step = 1 /\ page.barber # None
       \/ page.step = 2 /\ page.service # None
       \/ page.step = 3 /\ page.date # None /\ page.time # None /\ isPublicDateAllowed(page, page.date)
    /\ Render([page EXCEPT !.step = @ + 1])

handleBack ==
    /\ page.step \in 2 .. 4
    /\ Render([page EXCEPT !.step = @ - 1])

handleSubmit ==
    /\ page.step = 4 /\ page.sent = None
    /\ page.barber # None /\ page.service # None /\ page.date # None /\ page.time # None
    /\ isPublicDateAllowed(page, page.date)
    /\ Render([page EXCEPT !.sent = [barber |-> page.barber, service |-> page.service,
                                     start |-> At(page.date, page.time)]])

Customer ==
    /\ \/ SelectBarber \/ SelectService \/ SelectDate \/ SelectTime
       \/ handleNext \/ handleBack \/ handleSubmit
    /\ UNCHANGED <<shop, booked, now, events>>

-----------------------------------------------------------------------------
(* The network: a query that has no answer yet gets one, or fails. *)

\* The answers with one more, or with a newer one.
Answered(k, answer) ==
    [j \in DOMAIN page.times \cup {k} |-> IF j = k THEN answer ELSE page.times[j]]

Load ==
    /\ \E q \in Queries :
          /\ page.data[q] = None \/ (q = "window" /\ page.data[q] # Answer(q))
          /\ Render([page EXCEPT !.data[q] = Answer(q)])
    /\ UNCHANGED <<shop, booked, now, events>>

LoadTimes ==
    /\ \E k \in Enabled(page) :
          /\ \/ k \notin DOMAIN page.times /\ Moves < MaxMoves
             \/ k \in page.stale
          /\ Render([page EXCEPT !.times = Answered(k, PublicAppointments(k[2], k[3], k[4])),
                                 !.stale = @ \ {k}])
    /\ UNCHANGED <<shop, booked, now, events>>

Lose ==
    /\ Event
    /\ \/ \E q \in Queries : page.data[q] = None /\ Render([page EXCEPT !.data[q] = Failed])
       \/ \E k \in Enabled(page) :
             Result(page, k) = None /\ Render([page EXCEPT !.times = Answered(k, Failed)])
    /\ UNCHANGED <<shop, booked, now>>

\* The answer to a booking: on success every query for bookings is out of date.
Accept ==
    /\ page.sent # None
    /\ \E a \in Bookings(page.sent) :
          /\ booked' = booked \cup {a}
          /\ Render([page EXCEPT !.sent = None, !.kept = {a}, !.step = 5, !.stale = DOMAIN page.times])
    /\ UNCHANGED <<shop, now, events>>

Refuse ==
    /\ page.sent # None /\ Bookings(page.sent) = {}
    /\ Render([page EXCEPT !.sent = None])
    /\ UNCHANGED <<shop, booked, now, events>>

-----------------------------------------------------------------------------
(* The shop meanwhile: settings, other customers, the clock. *)

replaceShopAvailability ==
    \E rows \in Hours : ~hasOverlappingAvailabilityPeriods(rows) /\ shop' = [shop EXCEPT !.hours.shop = rows]

replaceBarberAvailability ==
    \E b \in shop.team, rows \in Hours :
        ~hasOverlappingAvailabilityPeriods(rows) /\ shop' = [shop EXCEPT !.hours.barber[b] = rows]

replaceBarberServices ==
    \E b \in shop.team, S \in Skills : shop' = [shop EXCEPT !.performs[b] = S]

\* Not while the barber has bookings to come.
setBarberVisible ==
    \E b \in Barbers :
        /\ b \in shop.team => ~\E a \in booked : a.barber = b /\ a.start >= now
        /\ shop' = [shop EXCEPT !.team = IF b \in @ THEN @ \ {b} ELSE @ \cup {b}]

updateOffer ==
    \E s \in Services, active \in BOOLEAN, d \in Durations :
        shop' = [shop EXCEPT !.offers[s] = [active |-> active, duration |-> d]]

Configure ==
    /\ Event
    /\ \/ replaceShopAvailability \/ replaceBarberAvailability \/ replaceBarberServices
       \/ setBarberVisible \/ updateOffer
    /\ UNCHANGED <<booked, now, page>>

OtherCustomer ==
    /\ Event
    /\ \E b \in Barbers, s \in Services, d \in Today .. currentPublicBookingWindow(Today).maxDate, m \in OtherTimes :
          \E a \in Bookings([barber |-> b, service |-> s, start |-> At(d, m)]) : booked' = booked \cup {a}
    /\ UNCHANGED <<shop, now, page>>

Tick ==
    /\ Event
    /\ \E t \in Clock : /\ t > now /\ \A u \in Clock : u > now => u >= t
                       /\ now' = t
    /\ UNCHANGED <<shop, booked, page>>

-----------------------------------------------------------------------------

Opened(link) ==
    [step |-> CASE link.barber # None /\ link.service # None /\ link.time # None -> 4
                [] link.barber # None /\ link.service # None /\ link.time = None -> 3
                [] link.barber # None /\ link.service = None -> 2
                [] OTHER -> 1,
     barber |-> link.barber, service |-> link.service, date |-> link.date, time |-> link.time,
     done |-> {}, failed |-> None, sent |-> None, kept |-> {},
     data |-> [q \in Queries |-> IF q \in link.known THEN Answer(q) ELSE None],
     times |-> << >>, stale |-> {}, slotsAt |-> now, firstAt |-> now]

Init ==
    /\ shop \in Shops /\ booked \in Calendars
    /\ now \in Clock /\ \A t \in Clock : t >= now
    /\ \E l \in Links : Settles(Opened(l), Opened(l), page)
    /\ events = 0

Next == Customer \/ Load \/ LoadTimes \/ Lose \/ Accept \/ Refuse \/ Configure \/ OtherCustomer \/ Tick

Spec == Init /\ [][Next]_vars

-----------------------------------------------------------------------------
(* Properties. *)

\* Whatever came late or failed, a customer who chooses a date gets an answer: once no
\* query is under way the page has made its first selection for what is chosen
\* now, or says that it could not (the effect with completedInitialAvailabilityKey).
\* It takes the premises: a failed query for the booking window is reported nowhere,
\* and a link to a barber and a service that are both gone leads to a service first,
\* and then to a calendar without a barber.
SelectionIsDecided ==
    (/\ Selecting(page) /\ Loaded(page, "window")
     /\ \A q \in Queries : page.data[q] # None
     /\ \A k \in Enabled(page) : Result(page, k) # None)
        => page.done = {selectionKey(page)}

\* No step is reached without what the earlier ones choose: a date and time are
\* asked for a service, and the details for a barber, a service, a date and a time.
\* (handleNext, handleBack and the effects each move the step by themselves.) It takes
\* the premise: when the day of a booking is over, the page leaves its confirmation for
\* step 3, also if the customer gave up the service while the booking was under way.
StepsAreEarned ==
    page.kept = {} =>
        /\ page.step = 3 => page.service # None
        /\ page.step = 4 => None \notin {page.barber, page.service, page.date, page.time}

\* No answer for a single day stood in for that of the whole window.
OnlyWindowsAnswered == \A k \in DOMAIN page.times : Received(page, k) => k[1] = "window"

\* Once the page has made its first selection, what it shows as chosen is one of the times
\* that were free by all it knows, at an instant until now: changing the barber, the
\* service or the date, going back, and answers that come late, fail or are asked for
\* again never leave an older choice standing. (The clock may have passed it; the server
\* refuses the past.) It takes the premises: a time chosen from a day's answer while
\* the window of another barber loads is kept when the customer returns to the first
\* barber; and what the page knew before a booking is asked for again after it.
ChosenTimeIsOffered ==
    (/\ OnlyWindowsAnswered /\ page.kept = {}
     /\ page.step = 3 /\ page.done = {selectionKey(page)} /\ page.time # None)
        => /\ Received(page, WindowQuery(page)) /\ page.date # None
           /\ \E at \in Clock : /\ at <= now
                               /\ page.time \in SlotsOf(page, page.date, existingAppointments(page), at)

\* What the page knows is what the server would answer now.
UpToDate ==
    /\ \A q \in Queries : Loaded(page, q) /\ page.data[q] = Answer(q)
    /\ page.date # None /\ existingAppointments(page) # None
    /\ existingAppointments(page) = PublicAppointments(page.barber, page.date, page.date)

\* No booking is so old that its duration has to be guessed.
TermsAreStored == \A a \in booked : a.terms \/ a.duration # DefaultDuration

\* Two programs decide what is free: of the times still to come, a page whose answers
\* are up to date offers exactly those that the server would book, for a chosen barber and
\* for any (getAvailableTimeSlots of the client, and POST /api/appointments with its own
\* helpers and its transaction). Those that passed since the page computed its slots
\* stay on offer, because timeSlots rests on no clock, and the server refuses them.
OffersMatchAnswers ==
    page.step = 3 /\ page.barber # None /\ page.service # None /\ UpToDate /\ TermsAreStored
        => LET offered == {m \in timeSlots(page) : At(page.date, m) > now}
               accepted == {m \in {15 * k : k \in 0 .. 95} :
                               /\ At(page.date, m) # now
                               /\ Bookings([barber |-> page.barber, service |-> page.service,
                                            start |-> At(page.date, m)]) # {}}
           IN offered = accepted

\* The notice under the calendar is a promise: the month it names can be booked
\* from the day it names, and not on any day before (getPublicBookingMonthOpeningNotice
\* against getPublicBookingWindow of those days).
NoticeIsKept ==
    LET window == currentPublicBookingWindow(Today) IN
    \A day \in window.today .. window.maxDate :
        LET notice == getPublicBookingMonthOpeningNotice(window, day, None)
            opens(d) == MonthStarts[notice.bookingMonth] <= currentPublicBookingWindow(d).maxDate
        IN notice # None => /\ opens(notice.openingDate)
                            /\ \A d \in Today .. notice.openingDate - 1 : ~opens(d)

\* The confirmation names the time that was booked ("O seu horário está reservado
\* para ..." of Booking.tsx). It shows the state of the page, which the customer
\* may have changed while the answer was under way: TLC refutes this, see README.md.
ConfirmationTellsTheBooking ==
    page.step = 5 => /\ page.date # None /\ page.time # None
                     /\ \A a \in page.kept : a.start = At(page.date, page.time)
=============================================================================
