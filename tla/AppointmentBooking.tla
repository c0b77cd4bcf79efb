------------------------ MODULE AppointmentBooking ------------------------
(***************************************************************************)
(* The appointment transactions of server/storage.ts as the HTTP handlers  *)
(* of server/routes.ts call them, and the two administrative transactions  *)
(* of server/location-store.ts that close the place an appointment needs.  *)
(*                                                                         *)
(* A session is one HTTP request: the handler reads the row ("seen"),      *)
(* answers early or calls one storage operation, which runs one READ       *)
(* COMMITTED transaction.  Every statement that reads or locks is a step   *)
(* of its own, so what was read may be stale when it is used; the final    *)
(* statements and the COMMIT are one step, evaluated, as PostgreSQL does,  *)
(* on the rows committed by then.                                          *)
(***************************************************************************)
EXTENDS Integers, FiniteSets

CONSTANTS
    Appts,          \* appointment ids
    Barbers, Locations,
    MainLocation,   \* the default location, which cannot be closed
    Sessions,       \* concurrent HTTP requests
    MaxSlot,        \* bound: instants are 0..MaxSlot
    SlotsPerDay,    \* instants of one UTC day, the key of a day lock
    Durations,
    PolicySlots,    \* CANCELLATION_POLICY_HOURS
    MaxRevision,    \* bound: no request for an appointment beyond it
    MaxBatch,       \* bound: occurrences of one block or recurring booking
    EventsEnabled,  \* appointmentNotificationEventsEnabled
    Requests,       \* the handlers that are called
    Asked           \* the statuses those handlers ask for

Status == {"booked", "completed", "cancelled", "late_cancelled", "no_show"}
Handlers == {"create", "patch", "status", "statusIfCurrent", "moveByToken",
             "cancelByToken", "removeBarber", "assignBarber", "closeLocation",
             "openLocation"}

ASSUME InstanceAssumption ==
    /\ Appts \subseteq Nat
    /\ MaxSlot \in Nat
    /\ SlotsPerDay \in Nat \ {0}
    /\ Durations \subseteq Nat \ {0} /\ Durations # {}
    /\ Barbers # {}
    /\ PolicySlots \in Nat
    /\ MaxRevision \in Nat
    /\ MaxBatch \in Nat
    /\ MainLocation \in Locations
    /\ EventsEnabled \in BOOLEAN
    /\ Requests \subseteq Handlers
    /\ Asked \subseteq Status

VARIABLES
    appt,       \* table appointments
    open,       \* locations.is_active
    assigned,   \* barber_locations.is_active
    events,     \* table appointment_notification_events
    now,
    ses,        \* what each session holds in memory
    exclusive,  \* advisory locks and FOR UPDATE row locks, per session
    shared      \* FOR SHARE row locks, per session

vars == <<appt, open, assigned, events, now, ses, exclusive, shared>>
tables == <<appt, open, assigned, events>>

-----------------------------------------------------------------------------
Slots == 0..MaxSlot
Cancelled == {"cancelled", "late_cancelled"}
Days == {t \div SlotsPerDay : t \in Slots}
LocalDay(t) == (t \div SlotsPerDay) + 1
Day(t) == t \div SlotsPerDay

\* A row; "absent" stands for an id not inserted yet.
Row == [status: Status \cup {"absent"}, barber: Barbers, loc: Locations,
        start: Slots, dur: Durations, notif: Nat, resched: Nat]
Columns == {"status", "barber", "start", "dur", "notif"}

EventKinds == {"confirmation", "rescheduled", "updated", "cancelled", "reminder"}
Event == [appt: Appts, kind: EventKinds, rev: Nat, start: Slots]

NoRow == [status |-> "absent",
          barber |-> CHOOSE b \in Barbers : TRUE, loc |-> MainLocation,
          start |-> 0, dur |-> CHOOSE d \in Durations : TRUE,
          notif |-> 0, resched |-> 0]

Booked(row) == row.status = "booked"
Ends(row) == row.start + row.dur

Overlap(r, q) == r.start < Ends(q) /\ q.start < Ends(r)

\* assertNoAppointmentConflict and hasAppointmentConflict
Conflict(table, ids, row) ==
    \E b \in Appts \ ids :
        Booked(table[b]) /\ table[b].barber = row.barber /\ Overlap(table[b], row)

\* The exclusion constraint appointments_no_booked_overlap.
ConstraintNeverInstalled(table) == TRUE

ExclusionConstraint(table) ==
    \A a \in Appts : Booked(table[a]) => ~Conflict(table, {a}, table[a])

Patched(row, want, set) ==
    [row EXCEPT !.status = IF "status" \in set THEN want.status ELSE @,
                !.barber = IF "barber" \in set THEN want.barber ELSE @,
                !.start = IF "start" \in set THEN want.start ELSE @,
                !.dur = IF "dur" \in set THEN want.dur ELSE @,
                !.notif = IF "notif" \in set THEN want.notif ELSE @]

-----------------------------------------------------------------------------
(* Locks *)

AppointmentLock(a) == <<"appointment", a>>
DayLock(b, d) == <<"day", b, d>>
LocationRow(l) == <<"location", l>>
AssignmentRow(b, l) == <<"assignment", b, l>>

Locks == {AppointmentLock(a) : a \in Appts}
            \cup {DayLock(b, d) : b \in Barbers, d \in Days}
            \cup {LocationRow(l) : l \in Locations}
            \cup {AssignmentRow(b, l) : b \in Barbers, l \in Locations}

CanShare(s, r) == \A o \in Sessions \ {s} : r \notin exclusive[o]
CanTake(s, r) == \A o \in Sessions \ {s} : r \notin exclusive[o] \cup shared[o]

-----------------------------------------------------------------------------
(* Sessions *)

Ops == {"none", "createAppointments", "updateAppointmentWithNotification",
        "rescheduleAppointment", "cancelAppointment", "updateAppointment",
        "updateAppointmentStatusIfCurrent", "removeBarberFromLocation",
        "assignBarberToLocation", "updateLocation"}
PlaceOps == {"removeBarberFromLocation", "assignBarberToLocation", "updateLocation"}
Steps == {"idle", "revision", "lock", "read", "location", "assignment", "days",
          "check", "place", "write"}

\* ids, want, set: the rows and columns to write; expect, token: the status and the
\* reschedule revision the handler presents; cur: the row the transaction read;
\* days: the day locks still to take; place, up: what an administrator opens or closes.
Session == [op: Ops, at: Steps, ids: SUBSET Appts, want: [Appts -> Row],
            set: SUBSET Columns, expect: Status \cup {"any"}, token: Nat, cur: Row,
            days: SUBSET Days, place: Barbers \X Locations, up: BOOLEAN]

Idle == [op |-> "none", at |-> "idle", ids |-> {}, want |-> [a \in Appts |-> NoRow],
         set |-> {}, expect |-> "any", token |-> 0, cur |-> NoRow,
         days |-> {}, place |-> <<NoRow.barber, NoRow.loc>>, up |-> FALSE]

\* The statement order inside the transaction of each operation.
FirstStep(op, set) ==
    CASE op \in {"updateAppointmentWithNotification", "rescheduleAppointment",
                 "cancelAppointment"} -> "lock"
      [] op = "createAppointments" -> "location"
      [] op \in PlaceOps -> "place"
      [] op = "updateAppointment" /\ "notif" \in set -> "revision"
      [] OTHER -> "read"

Call(s, op, a, want, set, expect) ==
    /\ ses' = [ses EXCEPT ![s] =
                [Idle EXCEPT !.op = op, !.at = FirstStep(op, set), !.ids = {a},
                             !.want = [Idle.want EXCEPT ![a] = Patched(NoRow, want, set)],
                             !.set = set, !.expect = expect,
                             !.token = IF op = "rescheduleAppointment" THEN want.resched ELSE 0]]
    /\ UNCHANGED <<appt, open, assigned, events, now, exclusive, shared>>

Calling(s, request) == request \in Requests /\ ses[s].at = "idle"

\* The handler's own read of a row that may still change before the transaction.
Reads(a) == appt[a].status # "absent" /\ appt[a].notif < MaxRevision

NewRow(b, l, t, d, st, rev) ==
    [status |-> st, barber |-> b, loc |-> l, start |-> t, dur |-> d,
     notif |-> rev, resched |-> 0]

\* The ids the next INSERT may be given.
Unused == {a \in Appts : appt[a].status = "absent" /\ \A s \in Sessions : a \notin ses[s].ids}

\* The rows of one batch; ids are given in the order of the times.
Batches(starts, b, l, d, st, rev, ids) ==
    {want \in [ids -> {NewRow(b, l, t, d, st, rev) : t \in starts}] :
        \A i, j \in ids : i < j => want[i].start < want[j].start}

\* What the handler checks on its own reads.
Insertable(starts, b, l, d, st, ids) ==
    LET row(t) == NewRow(b, l, t, d, st, 0)
    IN  /\ Cardinality(starts) \in 1..MaxBatch
        /\ Cardinality(ids) = Cardinality(starts)
        /\ \A i \in ids, j \in Unused \ ids : i < j
        /\ open[l] /\ assigned[<<b, l>>]
        /\ st = "completed" => \A t \in starts : t + d <= now
        /\ \A t, u \in starts : t = u \/ ~Overlap(row(t), row(u))
        /\ \A t \in starts : ~Conflict(appt, {}, row(t))

Insertion(ids, want, starts) ==
    [Idle EXCEPT !.op = "createAppointments", !.at = "location", !.ids = ids,
                 !.want = [a \in Appts |-> IF a \in ids THEN want[a] ELSE NoRow],
                 !.days = {Day(t) : t \in starts}]

\* POST /api/appointments and /api/appointments/block: one booking, a recurring
\* series or an absence, all with one barber.  A manual record of a visit that has
\* ended is inserted as completed; it and an absence announce nothing (revision 0).
RequestCreate(s) ==
    /\ Calling(s, "create")
    /\ \E starts \in SUBSET Slots, b \in Barbers, l \in Locations, d \in Durations,
          st \in {"booked", "completed"}, rev \in {0, 1}, ids \in SUBSET Unused :
        /\ Insertable(starts, b, l, d, st, ids)
        /\ st = "completed" \/ ~EventsEnabled => rev = 0
        /\ \E want \in Batches(starts, b, l, d, st, rev, ids) :
            ses' = [ses EXCEPT ![s] = Insertion(ids, want, starts)]
    /\ UNCHANGED <<appt, open, assigned, events, now, exclusive, shared>>

\* PATCH /api/appointments/:id.  The details may change only while the row the
\* handler read is booked; storage is called without an expected status.
RequestPatch(s) ==
    /\ Calling(s, "patch")
    /\ \E a \in Appts, set \in (SUBSET {"status", "barber", "start", "dur"}) \ {{}},
          st \in Asked \cup {"booked"}, b \in Barbers, t \in Slots, d \in Durations :
        LET seen == appt[a]
            want == Patched(seen, [seen EXCEPT !.status = st, !.barber = b, !.start = t, !.dur = d], set)
            details == set \cap {"barber", "start", "dur"} # {}
        IN  /\ Reads(a)
            /\ "status" \in set => st \in Asked
            /\ details => Booked(seen) /\ ~Conflict(appt, {a}, want)
            /\ want.start # seen.start => want.start >= now
            /\ "barber" \in set => assigned[<<want.barber, seen.loc>>]
            /\ "status" \in set /\ st = "completed" => Ends(want) <= now
            /\ Call(s, "updateAppointmentWithNotification", a, want, set, "any")

\* PATCH /api/appointments/:id/status.  The status a client expects is one the row
\* had when the client read it: its request may be slow.
RequestStatus(s) ==
    \E a \in Appts, st \in Asked, expects \in BOOLEAN :
        LET seen == appt[a]
            want == [seen EXCEPT !.status = st]
        IN  /\ Calling(s, IF expects THEN "statusIfCurrent" ELSE "status")
            /\ Reads(a)
            /\ st = "completed" => Ends(seen) <= now
            /\ st = "no_show" => seen.start <= now
            /\ IF EventsEnabled /\ st \in Cancelled
               THEN Call(s, "cancelAppointment", a, want, {"status"}, "booked")
               ELSE IF expects
               THEN Call(s, "updateAppointmentStatusIfCurrent", a, want, {"status"}, seen.status)
               ELSE Call(s, "updateAppointment", a, want, {"status", "notif"}, "any")

\* POST /api/appointments/reschedule/:token.
RequestMoveByToken(s) ==
    /\ Calling(s, "moveByToken")
    /\ \E a \in Appts, t \in Slots :
        LET seen == appt[a]
            want == [seen EXCEPT !.start = t]
        IN  /\ Reads(a) /\ Booked(seen)
            /\ open[seen.loc] /\ assigned[<<seen.barber, seen.loc>>]
            /\ t >= now
            /\ ~Conflict(appt, {a}, want)
            /\ Call(s, IF EventsEnabled THEN "rescheduleAppointment" ELSE "updateAppointment",
                    a, want, {"start"}, "booked")

\* POST /api/appointments/cancel/:token.
RequestCancelByToken(s) ==
    /\ Calling(s, "cancelByToken")
    /\ \E a \in Appts :
        LET seen == appt[a]
            want == [seen EXCEPT !.status = IF seen.start - now < PolicySlots
                                            THEN "late_cancelled" ELSE "cancelled"]
        IN  /\ Reads(a) /\ Booked(seen)
            /\ Call(s, IF EventsEnabled THEN "cancelAppointment"
                       ELSE "updateAppointmentStatusIfCurrent",
                    a, want, {"status"}, "booked")

CallPlace(s, op, place, up) ==
    /\ ses' = [ses EXCEPT ![s] = [Idle EXCEPT !.op = op, !.at = "place",
                                             !.place = place, !.up = up]]
    /\ UNCHANGED <<appt, open, assigned, events, now, exclusive, shared>>

\* The team and location pages.
RequestPlace(s) ==
    \E place \in Barbers \X Locations :
        \/ Calling(s, "removeBarber") /\ CallPlace(s, "removeBarberFromLocation", place, FALSE)
        \/ Calling(s, "assignBarber") /\ CallPlace(s, "assignBarberToLocation", place, TRUE)
        \/ Calling(s, "closeLocation") /\ CallPlace(s, "updateLocation", place, FALSE)
        \/ Calling(s, "openLocation") /\ CallPlace(s, "updateLocation", place, TRUE)

-----------------------------------------------------------------------------
(* The transactions *)

\* COMMIT without a write, ROLLBACK after an exception: the locks go, nothing changes.
Finish(s) ==
    /\ ses' = [ses EXCEPT ![s] = Idle]
    /\ exclusive' = [exclusive EXCEPT ![s] = {}]
    /\ shared' = [shared EXCEPT ![s] = {}]
    /\ UNCHANGED <<appt, open, assigned, events, now>>

GoTo(s, step) == ses' = [ses EXCEPT ![s].at = step]

\* What a row must still be for the operation to read it, and for its UPDATE to match.
Matches(s, row) ==
    /\ ses[s].expect = "any" \/ row.status = ses[s].expect
    /\ ses[s].op = "rescheduleAppointment" => row.resched = ses[s].token

Candidate(s, a) ==
    IF ses[s].op = "createAppointments" THEN ses[s].want[a]
    ELSE Patched(ses[s].cur, ses[s].want[a], ses[s].set)

\* updateAppointmentStatus reads the revision before it opens the transaction.
ReadRevision(s) ==
    /\ ses[s].at = "revision"
    /\ \E a \in ses[s].ids :
        ses' = [ses EXCEPT ![s].want[a].notif = appt[a].notif + 1, ![s].at = "read"]
    /\ UNCHANGED <<tables, now, exclusive, shared>>

\* pg_advisory_xact_lock(-2, id)
LockNothing(s) ==
    /\ ses[s].at = "lock"
    /\ GoTo(s, "read")
    /\ UNCHANGED <<tables, now, exclusive, shared>>

LockAppointment(s) ==
    /\ ses[s].at = "lock"
    /\ \E a \in ses[s].ids :
        /\ CanTake(s, AppointmentLock(a))
        /\ exclusive' = [exclusive EXCEPT ![s] = @ \cup {AppointmentLock(a)}]
    /\ GoTo(s, "read")
    /\ UNCHANGED <<tables, now, shared>>

\* shouldProtectAppointment: the result holds a slot of the barber.
Protects(op, row, cand) ==
    CASE op = "cancelAppointment" -> FALSE
      [] op = "updateAppointmentStatusIfCurrent" -> Booked(cand) /\ ~Booked(row)
      [] OTHER -> Booked(cand)

\* introducesBookedOccupancy: the result holds a slot the row did not hold.
Introduces(op, row, cand) ==
    \/ op \in {"rescheduleAppointment", "updateAppointmentStatusIfCurrent"}
    \/ ~Booked(row)
    \/ cand.barber # row.barber
    \/ cand.start # row.start

ReadCurrent(s) ==
    /\ ses[s].at = "read"
    /\ \E a \in ses[s].ids :
        LET row == appt[a]
            op == ses[s].op
            cand == Patched(row, ses[s].want[a], ses[s].set)
        IN  IF \/ ~Matches(s, row)
               \/ op = "updateAppointmentWithNotification" /\ cand = row
            THEN Finish(s)
            ELSE /\ ses' = [ses EXCEPT ![s].cur = row,
                                       ![s].days = {Day(cand.start)},
                                       ![s].at = IF ~Protects(op, row, cand) THEN "write"
                                                 ELSE IF Introduces(op, row, cand) THEN "location"
                                                 ELSE "days"]
                 /\ UNCHANGED <<tables, now, exclusive, shared>>

\* lockAndValidateAppointmentScopes: the location first, then the assignment.
ReadLocation(s) ==
    /\ ses[s].at = "location"
    /\ \E l \in Locations :
        /\ \A a \in ses[s].ids : Candidate(s, a).loc = l
        /\ IF ~open[l] THEN Finish(s)
           ELSE GoTo(s, "assignment") /\ UNCHANGED <<tables, now, exclusive, shared>>

LockLocation(s) ==
    /\ ses[s].at = "location"
    /\ \E l \in Locations :
        /\ \A a \in ses[s].ids : Candidate(s, a).loc = l
        /\ CanShare(s, LocationRow(l))
        /\ IF ~open[l] THEN Finish(s)
           ELSE /\ shared' = [shared EXCEPT ![s] = @ \cup {LocationRow(l)}]
                /\ GoTo(s, "assignment")
                /\ UNCHANGED <<tables, now, exclusive>>

LockAssignment(s) ==
    /\ ses[s].at = "assignment"
    /\ \E b \in Barbers, l \in Locations :
        /\ \A a \in ses[s].ids : Candidate(s, a).loc = l /\ Candidate(s, a).barber = b
        /\ CanShare(s, AssignmentRow(b, l))
        /\ IF ~assigned[<<b, l>>] THEN Finish(s)
           ELSE /\ shared' = [shared EXCEPT ![s] = @ \cup {AssignmentRow(b, l)}]
                /\ GoTo(s, "days")
                /\ UNCHANGED <<tables, now, exclusive>>

\* lockAppointmentDay, in the order of the days.
SkipDayLock(s) ==
    /\ ses[s].at = "days"
    /\ GoTo(s, "check")
    /\ UNCHANGED <<tables, now, exclusive, shared>>

LockDayInAnyOrder(s) ==
    /\ ses[s].at = "days"
    /\ \E b \in Barbers, d \in ses[s].days :
        /\ \A a \in ses[s].ids : Candidate(s, a).barber = b
        /\ CanTake(s, DayLock(b, d))
        /\ exclusive' = [exclusive EXCEPT ![s] = @ \cup {DayLock(b, d)}]
        /\ ses' = [ses EXCEPT ![s].days = @ \ {d},
                              ![s].at = IF ses[s].days = {d} THEN "check" ELSE "days"]
    /\ UNCHANGED <<tables, now, shared>>

LockDay(s) ==
    /\ ses[s].at = "days"
    /\ \E b \in Barbers, d \in ses[s].days :
        /\ \A a \in ses[s].ids : Candidate(s, a).barber = b
        /\ \A e \in ses[s].days : d <= e
        /\ CanTake(s, DayLock(b, d))
        /\ exclusive' = [exclusive EXCEPT ![s] = @ \cup {DayLock(b, d)}]
        /\ ses' = [ses EXCEPT ![s].days = @ \ {d},
                              ![s].at = IF ses[s].days = {d} THEN "check" ELSE "days"]
    /\ UNCHANGED <<tables, now, shared>>

AssertNoConflict(s) ==
    /\ ses[s].at = "check" /\ ses[s].op \notin PlaceOps
    /\ IF \E a \in ses[s].ids : Booked(Candidate(s, a)) /\ Conflict(appt, ses[s].ids, Candidate(s, a))
       THEN Finish(s)
       ELSE /\ GoTo(s, "write")
            /\ UNCHANGED <<tables, now, exclusive, shared>>

-----------------------------------------------------------------------------
(* The final statements and COMMIT *)

\* The revision is set from the row read, except where SQL increments it.
NextRevision(s, a) ==
    IF ses[s].op = "updateAppointmentStatusIfCurrent" THEN appt[a].notif + 1
    ELSE IF ses[s].op # "updateAppointment" THEN ses[s].cur.notif + 1
    ELSE IF "notif" \in ses[s].set THEN ses[s].want[a].notif ELSE appt[a].notif

Updated(s, a) ==
    [Patched(appt[a], ses[s].want[a], ses[s].set) EXCEPT
        !.notif = NextRevision(s, a),
        !.resched = IF ses[s].op = "rescheduleAppointment" THEN ses[s].cur.resched + 1
                    ELSE appt[a].resched]

NewEventOfOldRevision(a, kind, row, t) ==
    [appt |-> a, kind |-> kind, rev |-> IF row.notif = 0 THEN 0 ELSE row.notif - 1, start |-> t]

NewEvent(a, kind, row, t) == [appt |-> a, kind |-> kind, rev |-> row.notif, start |-> t]

\* getAppointmentUpdateChanges
UpdateEventKindDetailsFirst(row, cand) ==
    CASE Booked(row) /\ cand.status \in Cancelled -> {"cancelled"}
      [] Booked(row) /\ Booked(cand) /\ row # cand -> {"updated"}
      [] OTHER -> {}

UpdateEventKind(row, cand) ==
    CASE Booked(row) /\ cand.status \in Cancelled -> {"cancelled"}
      [] Booked(row) /\ Booked(cand) /\ row.start # cand.start -> {"rescheduled"}
      [] Booked(row) /\ Booked(cand) /\ row.start = cand.start
            /\ (row.barber # cand.barber \/ row.dur # cand.dur) -> {"updated"}
      [] OTHER -> {}

NewEvents(s, a, row) ==
    IF ~EventsEnabled THEN {} ELSE
    CASE ses[s].op = "createAppointments" ->
            {NewEvent(a, k, row, row.start) :
                k \in IF row.notif = 0 THEN {}
                      ELSE {"reminder"} \cup (IF ses[s].ids = {a} THEN {"confirmation"} ELSE {})}
      [] ses[s].op = "rescheduleAppointment" ->
            {NewEvent(a, k, row, row.start) : k \in {"rescheduled", "reminder"}}
      [] ses[s].op = "cancelAppointment" -> {NewEvent(a, "cancelled", row, ses[s].cur.start)}
      [] ses[s].op = "updateAppointmentWithNotification" ->
            {NewEvent(a, k, row, row.start) :
                k \in UpdateEventKind(ses[s].cur, Candidate(s, a))
                      \cup (IF Booked(row) /\ ("status" \in ses[s].set => Booked(ses[s].want[a])) THEN {"reminder"} ELSE {})}
      [] OTHER -> {}

\* The unique index on event_key: kind, appointment and revision.
KeysFree(new) ==
    \A e \in new, f \in events : ~(e.appt = f.appt /\ e.kind = f.kind /\ e.rev = f.rev)

WriteRows(s, table) ==
    LET new == UNION {NewEvents(s, a, table[a]) : a \in ses[s].ids}
    IN  IF ExclusionConstraint(table) /\ KeysFree(new)
        THEN /\ appt' = table
             /\ events' = events \cup new
             /\ ses' = [ses EXCEPT ![s] = Idle]
             /\ exclusive' = [exclusive EXCEPT ![s] = {}]
             /\ shared' = [shared EXCEPT ![s] = {}]
             /\ UNCHANGED <<open, assigned, now>>
        ELSE Finish(s)

\* Each row in a transaction of its own: a lost connection leaves half of a series.
InsertOneByOne(s) ==
    /\ ses[s].at = "write" /\ ses[s].op = "createAppointments"
    /\ \E a \in ses[s].ids :
        /\ \A b \in ses[s].ids : a <= b
        /\ appt' = [appt EXCEPT ![a] = ses[s].want[a]]
        /\ events' = events \cup NewEvents(s, a, ses[s].want[a])
        /\ IF ses[s].ids = {a}
           THEN /\ ses' = [ses EXCEPT ![s] = Idle]
                /\ exclusive' = [exclusive EXCEPT ![s] = {}]
                /\ shared' = [shared EXCEPT ![s] = {}]
           ELSE /\ ses' = [ses EXCEPT ![s].ids = @ \ {a}]
                /\ UNCHANGED <<exclusive, shared>>
        /\ UNCHANGED <<open, assigned, now>>

InsertAppointments(s) ==
    /\ ses[s].at = "write" /\ ses[s].op = "createAppointments"
    /\ WriteRows(s, [a \in Appts |-> IF a \in ses[s].ids THEN ses[s].want[a] ELSE appt[a]])

UpdateAppointment(s) ==
    /\ ses[s].at = "write"
    /\ ses[s].op \in {"updateAppointmentWithNotification", "rescheduleAppointment",
                      "cancelAppointment", "updateAppointment", "updateAppointmentStatusIfCurrent"}
    /\ \E a \in ses[s].ids :
        IF Matches(s, appt[a]) THEN WriteRows(s, [appt EXCEPT ![a] = Updated(s, a)])
        ELSE Finish(s)

-----------------------------------------------------------------------------
(* removeBarberFromLocation, assignBarberToLocation, updateLocation *)

PlaceRow(s) == IF ses[s].op = "updateLocation" THEN LocationRow(ses[s].place[2])
               ELSE AssignmentRow(ses[s].place[1], ses[s].place[2])

LockPlace(s) ==
    /\ ses[s].at = "place"
    /\ CanTake(s, PlaceRow(s))
    /\ exclusive' = [exclusive EXCEPT ![s] = @ \cup {PlaceRow(s)}]
    /\ GoTo(s, "check")
    /\ UNCHANGED <<tables, now, shared>>

\* The bookings a closing place would strand.
FutureBookings(s) ==
    {a \in Appts : /\ Booked(appt[a]) /\ appt[a].start >= now
                   /\ appt[a].loc = ses[s].place[2]
                   /\ ses[s].op # "updateLocation" => appt[a].barber = ses[s].place[1]}

CheckPlace(s) ==
    /\ ses[s].at = "check" /\ ses[s].op \in PlaceOps
    /\ LET l == ses[s].place[2]
           location == ses[s].op = "updateLocation"
       IN  IF /\ ~ses[s].up
              /\ \/ location /\ l = MainLocation
                 \/ (location => open[l]) /\ FutureBookings(s) # {}
           THEN Finish(s)
           ELSE /\ GoTo(s, "write")
                /\ UNCHANGED <<tables, now, exclusive, shared>>

WritePlace(s) ==
    /\ ses[s].at = "write" /\ ses[s].op \in PlaceOps
    /\ IF ses[s].op = "updateLocation"
       THEN open' = [open EXCEPT ![ses[s].place[2]] = ses[s].up] /\ UNCHANGED assigned
       ELSE assigned' = [assigned EXCEPT ![ses[s].place] = ses[s].up]
            /\ UNCHANGED open
    /\ ses' = [ses EXCEPT ![s] = Idle]
    /\ exclusive' = [exclusive EXCEPT ![s] = {}]
    /\ shared' = [shared EXCEPT ![s] = {}]
    /\ UNCHANGED <<appt, events, now>>

-----------------------------------------------------------------------------
\* The process is restarted or the connection is lost: PostgreSQL rolls back.
LoseConnection(s) == ses[s].at # "idle" /\ Finish(s)

Tick ==
    /\ now < MaxSlot
    /\ now' = now + 1
    /\ UNCHANGED <<tables, ses, exclusive, shared>>

Init ==
    /\ appt = [a \in Appts |-> NoRow]
    /\ open = [l \in Locations |-> TRUE]
    /\ assigned = [p \in Barbers \X Locations |-> TRUE]
    /\ events = {}
    /\ now = 0
    /\ ses = [s \in Sessions |-> Idle]
    /\ exclusive = [s \in Sessions |-> {}]
    /\ shared = [s \in Sessions |-> {}]

Request(s) ==
    \/ RequestCreate(s) \/ RequestPatch(s) \/ RequestStatus(s)
    \/ RequestMoveByToken(s) \/ RequestCancelByToken(s) \/ RequestPlace(s)

\* One statement of the session's transaction.
Statement(s) ==
    \/ ReadRevision(s) \/ LockAppointment(s) \/ ReadCurrent(s)
    \/ LockLocation(s) \/ LockAssignment(s) \/ LockDay(s) \/ AssertNoConflict(s)
    \/ InsertAppointments(s) \/ UpdateAppointment(s)
    \/ LockPlace(s) \/ CheckPlace(s) \/ WritePlace(s)

Next ==
    \/ \E s \in Sessions : Request(s) \/ Statement(s) \/ LoseConnection(s)
    \/ Tick

Spec == Init /\ [][Next]_vars

\* PostgreSQL queues the waiters of a lock, so a statement that can run again and
\* again in the end runs.
FairSpec == Spec /\ \A s \in Sessions : SF_vars(Statement(s))

-----------------------------------------------------------------------------
TypeOK ==
    /\ appt \in [Appts -> Row]
    /\ open \in [Locations -> BOOLEAN]
    /\ assigned \in [Barbers \X Locations -> BOOLEAN]
    /\ events \subseteq Event
    /\ now \in Slots
    /\ ses \in [Sessions -> Session]
    /\ exclusive \in [Sessions -> SUBSET Locks]
    /\ shared \in [Sessions -> SUBSET Locks]

\* A barber never has two booked appointments at the same time, whatever the
\* location and whichever handlers raced for the slot (docs/MULTI_LOCATION.md:44).
NoDoubleBooking ==
    \A a, b \in Appts :
        (a # b /\ Booked(appt[a]) /\ Booked(appt[b]) /\ appt[a].barber = appt[b].barber) =>
            appt[a].start + appt[a].dur <= appt[b].start
            \/ appt[b].start + appt[b].dur <= appt[a].start

\* The day locks alone already serialise the bookings that start on one day of a
\* barber: when a transaction has passed the conflict check, no such booking takes
\* its slot before it commits.  A booking that runs over the midnight of UTC, whose
\* second day nobody locks, is left to the exclusion constraint.
SlotsStayFreeUntilCommit ==
    \A s \in Sessions :
        (ses[s].at = "write" /\ ses[s].op \in {"createAppointments", "rescheduleAppointment"}) =>
            \A a \in ses[s].ids, b \in Appts \ ses[s].ids :
                LET row == Candidate(s, a)
                IN  Booked(row) /\ Conflict(appt, Appts \ {b}, row) => Day(appt[b].start) # Day(row.start)

\* A booked appointment in the future is at a location that is open and with a
\* barber assigned to it: closing either is refused while such a booking exists,
\* and a booking made meanwhile waits for the close or makes it wait.  Only the status
\* update that takes no lock can bring a booking back without its place.
FutureBookingsHavePlace ==
    \A a \in Appts :
        Booked(appt[a]) /\ appt[a].start >= now =>
            open[appt[a].loc] /\ assigned[<<appt[a].barber, appt[a].loc>>]

\* The outbox sends an event only while its revision is the appointment's: a
\* revision never goes back, or a stale event would become current again.  Of the
\* handlers that lock the appointment: updateAppointmentStatus may lose increments.
RevisionsAdvance ==
    [][\A a \in Appts : appt'[a].notif >= appt[a].notif]_appt

\* A booked appointment the customer was told about starts when the newest of the
\* confirmation and reschedule events says it does.
NoticesMatchStart ==
    \A a \in Appts :
        LET told == {e \in events : e.appt = a /\ e.kind \in {"confirmation", "rescheduled"}}
        IN  Booked(appt[a]) =>
                \A e \in told : (\A f \in told : f.rev <= e.rev) => e.start = appt[a].start

\* A cancelled appointment keeps a current cancellation event until something
\* changes it again, so the outbox does tell the customer.
CancellationsAreTold ==
    \A a \in Appts :
        appt[a].status \in Cancelled =>
            \E e \in events : e.appt = a /\ e.kind = "cancelled" /\ e.rev = appt[a].notif

\* Only a booked appointment changes barber, time or duration ("Apenas marcações ativas
\* podem ser editadas.", PATCH /api/appointments/:id). TLC refutes this: the handler
\* decides on a row read before its transaction, see README.md.
OnlyBookedIsEdited ==
    [][\A a \in Appts :
        appt[a].status \notin {"absent", "booked"} =>
            /\ appt'[a].barber = appt[a].barber
            /\ appt'[a].start = appt[a].start
            /\ appt'[a].dur = appt[a].dur]_appt

\* Every request is answered: the lock order leaves no two of them waiting for
\* each other.
RequestsAreAnswered ==
    \A s \in Sessions : ses[s].at # "idle" ~> ses[s].at = "idle"

-----------------------------------------------------------------------------
(* What booking promises, whatever the handlers and locks are: see BarberCalendar *)

\* What a row holds of a barber's time; the literals are the calendar's Free and Over.
Held(row) ==
    CASE Booked(row) -> [barber |-> row.barber, start |-> row.start, dur |-> row.dur]
      [] row.status = "absent" -> [barber |-> 0, start |-> 0, dur |-> 0]
      [] OTHER -> [barber |-> 0, start |-> 1, dur |-> 0]

Calendar == [a \in Appts |-> Held(appt[a])]

\* The series a request still has to insert.
SeriesOf(q) == [a \in IF q.op = "createAppointments" THEN q.ids ELSE {} |-> Held(q.want[a])]

Awaited == [s \in Sessions |-> SeriesOf(ses[s])]

Promise == INSTANCE BarberCalendar
           WITH calendar <- Calendar, asked <- Awaited, Callers <- Sessions

\* The transactions of storage.ts implement the calendar: a commit inserts every row of
\* the series its request asked for, as asked and into free time, or none (the loop of
\* createAppointments is one transaction), or it moves, ends or restores one booking.
BookingIsACalendar == Promise!Spec

=============================================================================
