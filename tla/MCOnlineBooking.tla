-------------------------- MODULE MCOnlineBooking --------------------------
(* Instances of OnlineBooking for TLC: months of two and three days, of which *)
(* the second opens the next one; the clock stands on the first and then on   *)
(* the second day of a month.                                                 *)
EXTENDS OnlineBooking

CONSTANTS cut, shave

MCMonthStarts == <<0, 3, 5, 8, 11, 14>>
MCClock == {At(0, 540), At(1, 560)}

Morning(d) == Row(d, 540, 600, TRUE)

\* No row, a row that does not begin on the half hour, two that overlap.
MCHours == {{Row(d, 555, 630, TRUE) : d \in {1, 4}}, {Morning(1), Row(1, 570, 660, TRUE)}}

MCSkills == {{shave}}

MCShops ==
    {[hours |-> [shop |-> {Morning(d) : d \in {1, 4}}, barber |-> [b \in Barbers |-> {}]],
      team |-> Barbers,
      performs |-> [b \in Barbers |-> IF b = 1 THEN {cut} ELSE {shave}],
      offers |-> [s \in Services |-> [active |-> TRUE, duration |-> IF s = cut THEN 30 ELSE 60]]]}

Appointment(b, start, duration, terms) ==
    [barber |-> b, start |-> start, duration |-> duration, service |-> cut, terms |-> terms]

MCCalendars == {{Appointment(1, At(1, 540), 30, TRUE), Appointment(1, At(4, 555), 45, FALSE)}}

Link(b, s, d, t, known) == [barber |-> b, service |-> s, date |-> d, time |-> t, known |-> known]

\* The plain page, a link to a service that the barber does not perform, and one
\* to a time off the grid of a day that opens tomorrow.
MCLinks == {Link(None, None, 0, None, Queries \ {"window"}),
            Link(1, shave, 0, None, Queries \ {"barbers"}),
            Link(AnyBarber, cut, 4, 545, Queries \ {"window"})}
============================================================================
