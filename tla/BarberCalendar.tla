--------------------------- MODULE BarberCalendar ---------------------------
(***************************************************************************)
(* What booking promises to a barber and to the customers, without the     *)
(* transactions: a calendar in which each booking holds an interval of one *)
(* barber's time, no two bookings hold the same time of one barber, and a  *)
(* series that somebody asks for is booked as it was asked, every          *)
(* occurrence of it in one step, or not at all.                            *)
(***************************************************************************)
EXTENDS Integers

CONSTANTS Appts, Callers, Barbers, MaxSlot, Durations

VARIABLES
    calendar,   \* what each booking holds
    asked       \* the series each caller waits for

\* A booking nobody made yet, and one that holds nothing any more.
Free == [barber |-> 0, start |-> 0, dur |-> 0]
Over == [barber |-> 0, start |-> 1, dur |-> 0]

Interval == [barber: Barbers, start: 0..MaxSlot, dur: Durations]

Holds(i) == i \notin {Free, Over}

\* One booking or several, all of one barber; a record of a past visit holds nothing.
Series ==
    UNION {[ids -> {i \in Interval : i.barber = b} \cup {Over}] :
              ids \in (SUBSET Appts) \ {{}}, b \in Barbers}

Nothing == [a \in {} |-> Free]

Clash(p, q) ==
    p.barber = q.barber /\ p.start < q.start + q.dur /\ q.start < p.start + p.dur

Disjoint(c) ==
    \A a, b \in Appts : a # b /\ Holds(c[a]) /\ Holds(c[b]) => ~Clash(c[a], c[b])

Init ==
    /\ calendar = [a \in Appts |-> Free]
    /\ asked = [c \in Callers |-> Nothing]

Ask(c) ==
    /\ asked[c] = Nothing
    /\ asked'[c] \in Series
    /\ asked' = [asked EXCEPT ![c] = asked'[c]]
    /\ UNCHANGED calendar

Refuse(c) ==
    /\ asked' = [asked EXCEPT ![c] = Nothing]
    /\ UNCHANGED calendar

\* The whole series, as it was asked for.
Book(c) ==
    /\ asked[c] # Nothing
    /\ \A a \in DOMAIN asked[c] : calendar[a] = Free
    /\ calendar' = [a \in Appts |-> IF a \in DOMAIN asked[c] THEN asked[c][a] ELSE calendar[a]]
    /\ asked' = [asked EXCEPT ![c] = Nothing]

Move(a) ==
    /\ Holds(calendar[a])
    /\ \E i \in Interval : calendar' = [calendar EXCEPT ![a] = i]
    /\ UNCHANGED asked

End(a) ==
    /\ Holds(calendar[a])
    /\ calendar' = [calendar EXCEPT ![a] = Over]
    /\ UNCHANGED asked

\* Only what was booked once comes back.
Restore(a) ==
    /\ calendar[a] = Over
    /\ \E i \in Interval : calendar' = [calendar EXCEPT ![a] = i]
    /\ UNCHANGED asked

Next ==
    /\ \/ \E c \in Callers : Refuse(c) \/ Ask(c) \/ Book(c)
       \/ \E a \in Appts : Move(a) \/ End(a) \/ Restore(a)
    /\ Disjoint(calendar')

Spec == Init /\ [][Next]_<<calendar, asked>>
=============================================================================
