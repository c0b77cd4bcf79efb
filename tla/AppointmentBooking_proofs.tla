---------------------- MODULE AppointmentBooking_proofs ----------------------
(***************************************************************************)
(* Type correctness, the absence of double bookings, what the commits of   *)
(* the transactions do (they refine the calendar of BarberCalendar and     *)
(* never lose a cancellation), and what their locks are worth, for every   *)
(* set of appointments, barbers, locations and concurrent requests.        *)
(***************************************************************************)
EXTENDS AppointmentBooking, TLAPS

\* Every constant of the session and of the rows, unfolded where types are checked.
LEMMA NoRowIsARow == NoRow \in Row
  BY InstanceAssumption DEF NoRow, Row, Status, Slots

LEMMA IdleIsASession == Idle \in Session
  BY NoRowIsARow, InstanceAssumption DEF Idle, Session, Ops, Steps, Row, Columns, NoRow

LEMMA PatchedIsARow ==
  ASSUME NEW row \in Row, NEW want \in Row, NEW set
  PROVE  Patched(row, want, set) \in Row
  BY DEF Patched, Row

LEMMA DayIsADay ==
  ASSUME NEW t \in Slots
  PROVE  Day(t) \in Days
  BY DEF Day, Days

-----------------------------------------------------------------------------
LEMMA FinishIsTyped ==
  ASSUME TypeOK, NEW s \in Sessions, Finish(s)
  PROVE  TypeOK'
  BY IdleIsASession DEF TypeOK, Finish, Slots

LEMMA CallIsTyped ==
  ASSUME TypeOK, NEW s \in Sessions, NEW op \in Ops, NEW a \in Appts, NEW want \in Row,
         NEW set \in SUBSET Columns, NEW expect \in Status \cup {"any"},
         Call(s, op, a, want, set, expect)
  PROVE  TypeOK'
<1>1. FirstStep(op, set) \in Steps
  BY DEF FirstStep, Steps
<1>2. Patched(NoRow, want, set) \in Row
  BY NoRowIsARow, PatchedIsARow
<1>3. [Idle.want EXCEPT ![a] = Patched(NoRow, want, set)] \in [Appts -> Row]
  BY <1>2, NoRowIsARow DEF Idle
<1>4. want.resched \in Nat
  BY DEF Row
<1> DEFINE next == [Idle EXCEPT !.op = op, !.at = FirstStep(op, set), !.ids = {a},
                       !.want = [Idle.want EXCEPT ![a] = Patched(NoRow, want, set)],
                       !.set = set, !.expect = expect,
                       !.token = IF op = "rescheduleAppointment" THEN want.resched ELSE 0]
<1>5. next \in Session
  <2> HIDE DEF Idle
  <2> QED BY <1>1, <1>3, <1>4, IdleIsASession DEF Session
<1>6. ses' = [ses EXCEPT ![s] = next]
  BY DEF Call
<1> QED
  BY <1>5, <1>6 DEF TypeOK, Call, Slots

\* Moving on to another statement, or holding more locks, keeps the types.
LEMMA GoToIsTyped ==
  ASSUME ses \in [Sessions -> Session], NEW s \in Sessions, NEW step \in Steps, GoTo(s, step)
  PROVE  ses' \in [Sessions -> Session]
<1>1. \A q \in Session : [q EXCEPT !.at = step] \in Session
  BY DEF Session
<1>2. ses[s] \in Session
  OBVIOUS
<1> QED
  BY <1>1, <1>2 DEF GoTo

LEMMA LocksAreTyped ==
  ASSUME NEW held \in [Sessions -> SUBSET Locks], NEW s \in Sessions, NEW r \in Locks
  PROVE  [held EXCEPT ![s] = @ \cup {r}] \in [Sessions -> SUBSET Locks]
  OBVIOUS

LEMMA LockNames ==
  /\ \A a \in Appts : AppointmentLock(a) \in Locks
  /\ \A b \in Barbers, d \in Days : DayLock(b, d) \in Locks
  /\ \A l \in Locations : LocationRow(l) \in Locks
  /\ \A b \in Barbers, l \in Locations : AssignmentRow(b, l) \in Locks
  BY DEF Locks

LEMMA CandidateIsARow ==
  ASSUME TypeOK, NEW s \in Sessions, NEW a \in Appts
  PROVE  Candidate(s, a) \in Row
<1>1. ses[s].cur \in Row /\ ses[s].want[a] \in Row
  BY DEF TypeOK, Session
<1> QED
  BY <1>1, PatchedIsARow DEF Candidate

-----------------------------------------------------------------------------
(* The handlers *)

LEMMA RequestCreateIsTyped ==
  ASSUME TypeOK, NEW s \in Sessions, RequestCreate(s)
  PROVE  TypeOK'
<1>1. PICK starts \in SUBSET Slots, b \in Barbers, l \in Locations, d \in Durations,
           st \in {"booked", "completed"}, rev \in {0, 1}, ids \in SUBSET Unused :
        /\ Insertable(starts, b, l, d, st, ids)
        /\ st = "completed" \/ ~EventsEnabled => rev = 0
        /\ \E want \in Batches(starts, b, l, d, st, rev, ids) :
            ses' = [ses EXCEPT ![s] = Insertion(ids, want, starts)]
  BY DEF RequestCreate
<1>2. PICK want \in Batches(starts, b, l, d, st, rev, ids) :
            ses' = [ses EXCEPT ![s] = Insertion(ids, want, starts)]
  BY <1>1
<1>3. \A a \in ids : want[a] \in Row
  <2>1. \A t \in starts : NewRow(b, l, t, d, st, rev) \in Row
    BY InstanceAssumption DEF Row, Status, NewRow
  <2> QED BY <2>1 DEF Batches
<1>4. [a \in Appts |-> IF a \in ids THEN want[a] ELSE NoRow] \in [Appts -> Row]
  BY <1>3, NoRowIsARow
<1>5. {Day(t) : t \in starts} \in SUBSET Days
  BY DayIsADay
<1>6. Insertion(ids, want, starts) \in Session
  BY <1>4, <1>5, IdleIsASession DEF Insertion, Session, Ops, Steps, Unused
<1>7. ses' \in [Sessions -> Session]
  BY <1>2, <1>6 DEF TypeOK
<1> QED
  BY <1>7 DEF TypeOK, RequestCreate, Slots

LEMMA SeenIsARow ==
  ASSUME TypeOK, NEW a \in Appts
  PROVE  appt[a] \in Row
  BY DEF TypeOK

LEMMA RequestPatchIsTyped ==
  ASSUME TypeOK, NEW s \in Sessions, RequestPatch(s)
  PROVE  TypeOK'
<1>1. PICK a \in Appts, set \in (SUBSET {"status", "barber", "start", "dur"}) \ {{}},
           st \in Asked \cup {"booked"}, b \in Barbers, t \in Slots, d \in Durations :
        LET seen == appt[a]
            want == Patched(seen, [seen EXCEPT !.status = st, !.barber = b, !.start = t, !.dur = d], set)
            details == set \cap {"barber", "start", "dur"} # {}
        IN  /\ Reads(a)
            /\ "status" \in set => st \in Asked
            /\ details => Booked(seen) /\ ~Conflict(appt, {a}, want)
            /\ want.start # seen.start => want.start >= now
            /\ "barber" \in set => assigned[<<want.barber, seen.loc>>]
            /\ "status" \in set /\ st = "completed" => Ends(want) <= now
            /\ Call(s, "updateAppointmentWithNotification", a, want, set, "any")
  BY DEF RequestPatch
<1> DEFINE want == Patched(appt[a], [appt[a] EXCEPT !.status = st, !.barber = b,
                                                    !.start = t, !.dur = d], set)
<1>2. want \in Row
  <2>1. [appt[a] EXCEPT !.status = st, !.barber = b, !.start = t, !.dur = d] \in Row
    BY SeenIsARow, InstanceAssumption DEF Row, Status
  <2> QED BY <2>1, SeenIsARow, PatchedIsARow
<1>3. Call(s, "updateAppointmentWithNotification", a, want, set, "any")
  BY <1>1
<1>4. set \in SUBSET Columns /\ "updateAppointmentWithNotification" \in Ops
  BY DEF Columns, Ops
<1> HIDE DEF want
<1> QED
  BY <1>2, <1>3, <1>4, CallIsTyped

LEMMA RequestStatusIsTyped ==
  ASSUME TypeOK, NEW s \in Sessions, RequestStatus(s)
  PROVE  TypeOK'
<1>1. PICK a \in Appts, st \in Asked, expects \in BOOLEAN :
        LET seen == appt[a]
            want == [seen EXCEPT !.status = st]
        IN  /\ Calling(s, IF expects THEN "statusIfCurrent" ELSE "status")
            /\ Reads(a)
            /\ st = "completed" => Ends(seen) <= now
            /\ st = "no_show" => seen.start <= now
            /\ IF EventsEnabled /\ st \in Cancelled
               THEN Call(s, "cancelAppointment", a, want, {"status"}, "booked")
               ELSE IF expects
               THEN Call(s, "updateAppointmentStatusIfCurrent", a, want, {"status"}, seen.status)
               ELSE Call(s, "updateAppointment", a, want, {"status", "notif"}, "any")
  BY DEF RequestStatus
<1> DEFINE want == [appt[a] EXCEPT !.status = st]
<1>2. want \in Row
  BY SeenIsARow, InstanceAssumption DEF Row
<1>3. \/ Call(s, "cancelAppointment", a, want, {"status"}, "booked")
      \/ Call(s, "updateAppointmentStatusIfCurrent", a, want, {"status"}, appt[a].status)
      \/ Call(s, "updateAppointment", a, want, {"status", "notif"}, "any")
  BY <1>1
<1>4. "booked" \in Status \cup {"any"} /\ "any" \in Status \cup {"any"}
  BY DEF Status
<1>5. {"status"} \in SUBSET Columns /\ {"status", "notif"} \in SUBSET Columns
  BY DEF Columns
<1>6. {"cancelAppointment", "updateAppointmentStatusIfCurrent", "updateAppointment"} \subseteq Ops
  BY DEF Ops
<1>7. CASE appt[a].status \in Status
  <2> HIDE DEF want
  <2>1. CASE Call(s, "cancelAppointment", a, want, {"status"}, "booked")
    BY <2>1, <1>2, <1>4, <1>5, <1>6, CallIsTyped
  <2>2. CASE Call(s, "updateAppointmentStatusIfCurrent", a, want, {"status"}, appt[a].status)
    BY <2>2, <1>2, <1>5, <1>6, <1>7, CallIsTyped
  <2>3. CASE Call(s, "updateAppointment", a, want, {"status", "notif"}, "any")
    BY <2>3, <1>2, <1>4, <1>5, <1>6, CallIsTyped
  <2> QED BY <1>3, <2>1, <2>2, <2>3
<1>8. appt[a].status \in Status
  BY <1>1, SeenIsARow DEF Reads, Row
<1> QED
  BY <1>7, <1>8

LEMMA RequestMoveByTokenIsTyped ==
  ASSUME TypeOK, NEW s \in Sessions, RequestMoveByToken(s)
  PROVE  TypeOK'
<1>1. PICK a \in Appts, t \in Slots :
        LET seen == appt[a]
            want == [seen EXCEPT !.start = t]
        IN  /\ Reads(a) /\ Booked(seen)
            /\ open[seen.loc] /\ assigned[<<seen.barber, seen.loc>>]
            /\ t >= now
            /\ ~Conflict(appt, {a}, want)
            /\ Call(s, IF EventsEnabled THEN "rescheduleAppointment" ELSE "updateAppointment",
                    a, want, {"start"}, "booked")
  BY DEF RequestMoveByToken
<1> DEFINE want == [appt[a] EXCEPT !.start = t]
           op == IF EventsEnabled THEN "rescheduleAppointment" ELSE "updateAppointment"
<1>2. want \in Row
  BY SeenIsARow DEF Row
<1>3. Call(s, op, a, want, {"start"}, "booked")
  BY <1>1
<1>4. op \in Ops /\ {"start"} \in SUBSET Columns /\ "booked" \in Status \cup {"any"}
  BY DEF Ops, Columns, Status
<1> HIDE DEF want, op
<1> QED
  BY <1>2, <1>3, <1>4, CallIsTyped

LEMMA RequestCancelByTokenIsTyped ==
  ASSUME TypeOK, NEW s \in Sessions, RequestCancelByToken(s)
  PROVE  TypeOK'
<1>1. PICK a \in Appts :
        LET seen == appt[a]
            want == [seen EXCEPT !.status = IF seen.start - now < PolicySlots
                                            THEN "late_cancelled" ELSE "cancelled"]
        IN  /\ Reads(a) /\ Booked(seen)
            /\ Call(s, IF EventsEnabled THEN "cancelAppointment"
                       ELSE "updateAppointmentStatusIfCurrent",
                    a, want, {"status"}, "booked")
  BY DEF RequestCancelByToken
<1> DEFINE want == [appt[a] EXCEPT !.status = IF appt[a].start - now < PolicySlots
                                              THEN "late_cancelled" ELSE "cancelled"]
           op == IF EventsEnabled THEN "cancelAppointment" ELSE "updateAppointmentStatusIfCurrent"
<1>2. want \in Row
  BY SeenIsARow DEF Row, Status
<1>3. Call(s, op, a, want, {"status"}, "booked")
  BY <1>1
<1>4. op \in Ops /\ {"status"} \in SUBSET Columns /\ "booked" \in Status \cup {"any"}
  BY DEF Ops, Columns, Status
<1> HIDE DEF want, op
<1> QED
  BY <1>2, <1>3, <1>4, CallIsTyped

LEMMA RequestPlaceIsTyped ==
  ASSUME TypeOK, NEW s \in Sessions, RequestPlace(s)
  PROVE  TypeOK'
<1>1. PICK place \in Barbers \X Locations, op \in PlaceOps, up \in BOOLEAN :
        CallPlace(s, op, place, up)
  BY DEF RequestPlace, PlaceOps
<1>2. [Idle EXCEPT !.op = op, !.at = "place", !.place = place, !.up = up] \in Session
  <2> HIDE DEF Idle
  <2> QED BY IdleIsASession DEF Session, Ops, Steps, PlaceOps
<1> QED
  BY <1>1, <1>2 DEF CallPlace, TypeOK, Slots

-----------------------------------------------------------------------------
(* The statements *)

LEMMA ReadRevisionIsTyped ==
  ASSUME TypeOK, NEW s \in Sessions, ReadRevision(s)
  PROVE  TypeOK'
<1>1. PICK a \in ses[s].ids :
        ses' = [ses EXCEPT ![s].want[a].notif = appt[a].notif + 1, ![s].at = "read"]
  BY DEF ReadRevision
<1>2. a \in Appts
  BY DEF TypeOK, Session
<1> DEFINE wanted == [ses[s].want EXCEPT ![a] = [ses[s].want[a] EXCEPT !.notif = appt[a].notif + 1]]
<1>3. wanted \in [Appts -> Row]
  <2>1. ses[s].want \in [Appts -> Row] /\ ses[s].want[a] \in Row /\ appt[a] \in Row
    BY <1>2 DEF TypeOK, Session
  <2>2. [ses[s].want[a] EXCEPT !.notif = appt[a].notif + 1] \in Row
    BY <2>1 DEF Row
  <2> QED BY <2>1, <2>2
<1> DEFINE next == [ses[s] EXCEPT !.want = wanted, !.at = "read"]
<1>4. ses' = [ses EXCEPT ![s] = next]
  BY <1>1, <1>2 DEF TypeOK, Session
<1>5. next \in Session
  <2>1. ses[s] \in Session
    BY DEF TypeOK
  <2> HIDE DEF wanted
  <2> QED BY <1>3, <2>1 DEF Session, Steps
<1> HIDE DEF next
<1>6. ses' \in [Sessions -> Session]
  BY <1>4, <1>5 DEF TypeOK
<1> QED
  BY <1>6 DEF TypeOK, ReadRevision, tables, Slots

LEMMA LockAppointmentIsTyped ==
  ASSUME TypeOK, NEW s \in Sessions, LockAppointment(s)
  PROVE  TypeOK'
<1>1. PICK a \in ses[s].ids :
        exclusive' = [exclusive EXCEPT ![s] = @ \cup {AppointmentLock(a)}]
  BY DEF LockAppointment
<1>2. AppointmentLock(a) \in Locks
  BY LockNames DEF TypeOK, Session
<1>3. exclusive' \in [Sessions -> SUBSET Locks]
  BY <1>1, <1>2, LocksAreTyped DEF TypeOK
<1>4. ses' \in [Sessions -> Session]
  BY GoToIsTyped DEF TypeOK, LockAppointment, Steps
<1> QED
  BY <1>3, <1>4 DEF TypeOK, LockAppointment, tables, Slots

LEMMA ReadCurrentIsTyped ==
  ASSUME TypeOK, NEW s \in Sessions, ReadCurrent(s)
  PROVE  TypeOK'
<1>1. CASE Finish(s)
  BY <1>1, FinishIsTyped
<1>2. ASSUME NEW a \in Appts, NEW step \in Steps, NEW d \in Days,
             ses' = [ses EXCEPT ![s].cur = appt[a], ![s].days = {d}, ![s].at = step],
             UNCHANGED <<tables, now, exclusive, shared>>
      PROVE  TypeOK'
  <2>0. ses[s] \in Session /\ appt[a] \in Row
    BY SeenIsARow DEF TypeOK
  <2>1. [ses[s] EXCEPT !.cur = appt[a], !.days = {d}, !.at = step] \in Session
    BY <2>0 DEF Session
  <2>2. ses' = [ses EXCEPT ![s] = [ses[s] EXCEPT !.cur = appt[a], !.days = {d}, !.at = step]]
    BY <1>2
  <2>3. ses' \in [Sessions -> Session]
    BY <2>1, <2>2, SMTT(40) DEF TypeOK
  <2> QED BY <1>2, <2>3 DEF TypeOK, tables, Slots
<1>3. PICK a \in ses[s].ids :
        LET row == appt[a]
            op == ses[s].op
            cand == Patched(row, ses[s].want[a], ses[s].set)
        IN  IF \/ ~Matches(s, row)
               \/ op = "updateAppointmentWithNotification" /\ cand = row
            THEN Finish(s)
            ELSE /\ ses' = [ses EXCEPT ![s].cur = row,
                                       ![s].days = {Day(cand.start)},
                                       ![s].at = IF ~Protects(op, row, cand) THEN "write"
                                                 ELSE IF Introduces(op, row, cand) THEN "location"
                                                 ELSE "days"]
                 /\ UNCHANGED <<tables, now, exclusive, shared>>
  BY DEF ReadCurrent
<1> DEFINE cand == Patched(appt[a], ses[s].want[a], ses[s].set)
<1>4. a \in Appts /\ ses[s].want[a] \in Row
  BY DEF TypeOK, Session
<1>5. cand \in Row
  BY <1>4, SeenIsARow, PatchedIsARow
<1>6. Day(cand.start) \in Days
  BY <1>5, DayIsADay DEF Row
<1> DEFINE step == IF ~Protects(ses[s].op, appt[a], cand) THEN "write"
                   ELSE IF Introduces(ses[s].op, appt[a], cand) THEN "location" ELSE "days"
<1>7. step \in Steps
  BY DEF Steps
<1>8. \/ Finish(s)
      \/ /\ ses' = [ses EXCEPT ![s].cur = appt[a], ![s].days = {Day(cand.start)}, ![s].at = step]
         /\ UNCHANGED <<tables, now, exclusive, shared>>
  BY <1>3
<1> HIDE DEF cand, step
<1> QED
  BY <1>1, <1>2, <1>4, <1>6, <1>7, <1>8

LEMMA LockLocationIsTyped ==
  ASSUME TypeOK, NEW s \in Sessions, LockLocation(s)
  PROVE  TypeOK'
<1>1. PICK l \in Locations :
        /\ \A a \in ses[s].ids : Candidate(s, a).loc = l
        /\ CanShare(s, LocationRow(l))
        /\ IF ~open[l] THEN Finish(s)
           ELSE /\ shared' = [shared EXCEPT ![s] = @ \cup {LocationRow(l)}]
                /\ GoTo(s, "assignment")
                /\ UNCHANGED <<tables, now, exclusive>>
  BY DEF LockLocation
<1>2. CASE Finish(s)
  BY <1>2, FinishIsTyped
<1>3. CASE /\ shared' = [shared EXCEPT ![s] = @ \cup {LocationRow(l)}]
           /\ GoTo(s, "assignment")
           /\ UNCHANGED <<tables, now, exclusive>>
  <2>1. shared' \in [Sessions -> SUBSET Locks]
    BY <1>3, LockNames, LocksAreTyped DEF TypeOK
  <2>2. ses' \in [Sessions -> Session]
    BY <1>3, GoToIsTyped DEF TypeOK, Steps
  <2> QED BY <1>3, <2>1, <2>2 DEF TypeOK, tables, Slots
<1> QED BY <1>1, <1>2, <1>3

LEMMA LockAssignmentIsTyped ==
  ASSUME TypeOK, NEW s \in Sessions, LockAssignment(s)
  PROVE  TypeOK'
<1>1. PICK b \in Barbers, l \in Locations :
        /\ \A a \in ses[s].ids : Candidate(s, a).loc = l /\ Candidate(s, a).barber = b
        /\ CanShare(s, AssignmentRow(b, l))
        /\ IF ~assigned[<<b, l>>] THEN Finish(s)
           ELSE /\ shared' = [shared EXCEPT ![s] = @ \cup {AssignmentRow(b, l)}]
                /\ GoTo(s, "days")
                /\ UNCHANGED <<tables, now, exclusive>>
  BY DEF LockAssignment
<1>2. CASE Finish(s)
  BY <1>2, FinishIsTyped
<1>3. CASE /\ shared' = [shared EXCEPT ![s] = @ \cup {AssignmentRow(b, l)}]
           /\ GoTo(s, "days")
           /\ UNCHANGED <<tables, now, exclusive>>
  <2>1. shared' \in [Sessions -> SUBSET Locks]
    BY <1>3, LockNames, LocksAreTyped DEF TypeOK
  <2>2. ses' \in [Sessions -> Session]
    BY <1>3, GoToIsTyped DEF TypeOK, Steps
  <2> QED BY <1>3, <2>1, <2>2 DEF TypeOK, tables, Slots
<1> QED BY <1>1, <1>2, <1>3

LEMMA LockDayIsTyped ==
  ASSUME TypeOK, NEW s \in Sessions, LockDay(s)
  PROVE  TypeOK'
<1>1. PICK b \in Barbers, d \in ses[s].days :
        /\ \A a \in ses[s].ids : Candidate(s, a).barber = b
        /\ \A e \in ses[s].days : d <= e
        /\ CanTake(s, DayLock(b, d))
        /\ exclusive' = [exclusive EXCEPT ![s] = @ \cup {DayLock(b, d)}]
        /\ ses' = [ses EXCEPT ![s].days = @ \ {d},
                              ![s].at = IF ses[s].days = {d} THEN "check" ELSE "days"]
  BY DEF LockDay
<1>2. ses[s] \in Session /\ d \in Days
  BY DEF TypeOK, Session
<1> DEFINE step == IF ses[s].days = {d} THEN "check" ELSE "days"
<1>3. step \in Steps
  BY DEF Steps
<1>4. [ses[s] EXCEPT !.days = @ \ {d}, !.at = step] \in Session
  <2> HIDE DEF step
  <2> QED BY <1>2, <1>3 DEF Session
<1>5. ses' = [ses EXCEPT ![s] = [ses[s] EXCEPT !.days = @ \ {d}, !.at = step]]
  BY <1>1 DEF TypeOK
<1>6. ses' \in [Sessions -> Session]
  <2> HIDE DEF step
  <2> QED BY <1>4, <1>5 DEF TypeOK
<1>7. exclusive' \in [Sessions -> SUBSET Locks]
  BY <1>1, <1>2, LockNames, LocksAreTyped DEF TypeOK
<1> QED
  BY <1>6, <1>7 DEF TypeOK, LockDay, tables, Slots

LEMMA AssertNoConflictIsTyped ==
  ASSUME TypeOK, NEW s \in Sessions, AssertNoConflict(s)
  PROVE  TypeOK'
<1> DEFINE clash == \E a \in ses[s].ids :
                      Booked(Candidate(s, a)) /\ Conflict(appt, ses[s].ids, Candidate(s, a))
<1>0. IF clash THEN Finish(s)
      ELSE GoTo(s, "write") /\ UNCHANGED <<tables, now, exclusive, shared>>
  BY DEF AssertNoConflict
<1> HIDE DEF clash
<1>1. Finish(s) \/ (GoTo(s, "write") /\ UNCHANGED <<tables, now, exclusive, shared>>)
  <2>1. CASE clash
    BY <1>0, <2>1
  <2>2. CASE ~clash
    BY <1>0, <2>2
  <2> QED BY <2>1, <2>2
<1>2. CASE Finish(s)
  BY <1>2, FinishIsTyped
<1>3. CASE GoTo(s, "write") /\ UNCHANGED <<tables, now, exclusive, shared>>
  <2>1. ses' \in [Sessions -> Session]
    BY <1>3, GoToIsTyped DEF TypeOK, Steps
  <2> QED BY <1>3, <2>1 DEF TypeOK, tables, Slots
<1> QED BY <1>1, <1>2, <1>3

-----------------------------------------------------------------------------
(* The final statements *)

LEMMA NewEventsAreEvents ==
  ASSUME TypeOK, NEW s \in Sessions, NEW a \in Appts, NEW row \in Row
  PROVE  NewEvents(s, a, row) \subseteq Event
<1>1. ses[s].cur \in Row
  BY DEF TypeOK, Session
<1>2. \A k \in EventKinds, t \in Slots : NewEvent(a, k, row, t) \in Event
  BY DEF NewEvent, Event, Row
<1>3. row.start \in Slots /\ ses[s].cur.start \in Slots
  BY <1>1 DEF Row
<1>4. UpdateEventKind(ses[s].cur, Candidate(s, a)) \subseteq EventKinds
  BY DEF UpdateEventKind, EventKinds
<1>5. {"confirmation", "rescheduled", "cancelled", "reminder"} \subseteq EventKinds
  BY DEF EventKinds
<1> QED
  BY <1>2, <1>3, <1>4, <1>5 DEF NewEvents

\* A commit writes rows and events of their types, or fails and changes neither.
LEMMA WriteRowsIsTyped ==
  ASSUME TypeOK, NEW s \in Sessions, NEW table \in [Appts -> Row], WriteRows(s, table)
  PROVE  TypeOK'
<1> DEFINE new == UNION {NewEvents(s, a, table[a]) : a \in ses[s].ids}
<1>1. new \subseteq Event
  BY NewEventsAreEvents DEF TypeOK, Session
<1>2. \/ Finish(s)
      \/ /\ appt' = table
         /\ events' = events \cup new
         /\ ses' = [ses EXCEPT ![s] = Idle]
         /\ exclusive' = [exclusive EXCEPT ![s] = {}]
         /\ shared' = [shared EXCEPT ![s] = {}]
         /\ UNCHANGED <<open, assigned, now>>
  BY DEF WriteRows
<1> HIDE DEF new
<1> QED
  BY <1>1, <1>2, FinishIsTyped, IdleIsASession DEF TypeOK, Slots

LEMMA InsertedTableIsTyped ==
  ASSUME TypeOK, NEW s \in Sessions
  PROVE  [a \in Appts |-> IF a \in ses[s].ids THEN ses[s].want[a] ELSE appt[a]] \in [Appts -> Row]
<1>1. ses[s].want \in [Appts -> Row]
  BY DEF TypeOK, Session
<1> QED BY <1>1 DEF TypeOK

LEMMA UpdatedTableIsTyped ==
  ASSUME TypeOK, NEW s \in Sessions, NEW a \in Appts
  PROVE  [appt EXCEPT ![a] = Updated(s, a)] \in [Appts -> Row]
<1>1. /\ ses[s].want[a] \in Row /\ ses[s].cur \in Row
      /\ appt[a] \in Row /\ appt \in [Appts -> Row]
  BY DEF TypeOK, Session
<1>2. Patched(appt[a], ses[s].want[a], ses[s].set) \in Row
  BY <1>1, PatchedIsARow
<1>3. NextRevision(s, a) \in Nat
  BY <1>1 DEF NextRevision, Row
<1>4. \A p \in Row : \A m, n \in Nat : [p EXCEPT !.notif = m, !.resched = n] \in Row
  BY DEF Row
<1>5. ses[s].cur.resched + 1 \in Nat /\ appt[a].resched \in Nat
  BY <1>1 DEF Row
<1>6. Updated(s, a) \in Row
  BY <1>2, <1>3, <1>4, <1>5, Zenon DEF Updated
<1> QED BY <1>1, <1>6

LEMMA InsertAppointmentsIsTyped ==
  ASSUME TypeOK, NEW s \in Sessions, InsertAppointments(s)
  PROVE  TypeOK'
  BY InsertedTableIsTyped, WriteRowsIsTyped DEF InsertAppointments

LEMMA UpdateAppointmentIsTyped ==
  ASSUME TypeOK, NEW s \in Sessions, UpdateAppointment(s)
  PROVE  TypeOK'
<1>1. PICK a \in ses[s].ids :
        IF Matches(s, appt[a]) THEN WriteRows(s, [appt EXCEPT ![a] = Updated(s, a)])
        ELSE Finish(s)
  BY DEF UpdateAppointment
<1>2. a \in Appts
  BY DEF TypeOK, Session
<1> QED
  BY <1>1, <1>2, UpdatedTableIsTyped, WriteRowsIsTyped, FinishIsTyped

LEMMA LockPlaceIsTyped ==
  ASSUME TypeOK, NEW s \in Sessions, LockPlace(s)
  PROVE  TypeOK'
<1>1. PlaceRow(s) \in Locks
  BY LockNames DEF PlaceRow, TypeOK, Session
<1>2. exclusive' \in [Sessions -> SUBSET Locks]
  BY <1>1, LocksAreTyped DEF LockPlace, TypeOK
<1>3. ses' \in [Sessions -> Session]
  BY GoToIsTyped DEF LockPlace, TypeOK, Steps
<1> QED
  BY <1>2, <1>3 DEF LockPlace, TypeOK, tables, Slots

LEMMA CheckPlaceIsTyped ==
  ASSUME TypeOK, NEW s \in Sessions, CheckPlace(s)
  PROVE  TypeOK'
<1>1. Finish(s) \/ (GoTo(s, "write") /\ UNCHANGED <<tables, now, exclusive, shared>>)
  <2> DEFINE l == ses[s].place[2]
             location == ses[s].op = "updateLocation"
             refused == /\ ~ses[s].up
                        /\ \/ location /\ l = MainLocation
                           \/ (location => open[l]) /\ FutureBookings(s) # {}
  <2>0. IF refused THEN Finish(s)
        ELSE GoTo(s, "write") /\ UNCHANGED <<tables, now, exclusive, shared>>
    BY DEF CheckPlace
  <2> HIDE DEF refused
  <2>1. CASE refused
    BY <2>0, <2>1
  <2>2. CASE ~refused
    BY <2>0, <2>2
  <2> QED BY <2>1, <2>2
<1>2. CASE Finish(s)
  BY <1>2, FinishIsTyped
<1>3. CASE GoTo(s, "write") /\ UNCHANGED <<tables, now, exclusive, shared>>
  <2>1. ses' \in [Sessions -> Session]
    BY <1>3, GoToIsTyped DEF TypeOK, Steps
  <2> QED BY <1>3, <2>1 DEF TypeOK, tables, Slots
<1> QED BY <1>1, <1>2, <1>3

LEMMA WritePlaceIsTyped ==
  ASSUME TypeOK, NEW s \in Sessions, WritePlace(s)
  PROVE  TypeOK'
<1>1. ses[s].place \in Barbers \X Locations /\ ses[s].up \in BOOLEAN
  BY DEF TypeOK, Session
<1>2. open' \in [Locations -> BOOLEAN] /\ assigned' \in [Barbers \X Locations -> BOOLEAN]
  BY <1>1 DEF WritePlace, TypeOK
<1> QED
  BY <1>2, IdleIsASession DEF WritePlace, TypeOK, Slots

LEMMA RequestIsTyped ==
  ASSUME TypeOK, NEW s \in Sessions, Request(s)
  PROVE  TypeOK'
  BY RequestCreateIsTyped, RequestPatchIsTyped, RequestStatusIsTyped,
     RequestMoveByTokenIsTyped, RequestCancelByTokenIsTyped, RequestPlaceIsTyped
     DEF Request

LEMMA StatementIsTyped ==
  ASSUME TypeOK, NEW s \in Sessions, Statement(s)
  PROVE  TypeOK'
  BY ReadRevisionIsTyped, LockAppointmentIsTyped, ReadCurrentIsTyped,
     LockLocationIsTyped, LockAssignmentIsTyped, LockDayIsTyped,
     AssertNoConflictIsTyped, InsertAppointmentsIsTyped, UpdateAppointmentIsTyped,
     LockPlaceIsTyped, CheckPlaceIsTyped, WritePlaceIsTyped
     DEF Statement

-----------------------------------------------------------------------------
\* The tables, the sessions and the locks keep their types in every state.
THEOREM TypeCorrect == Spec => []TypeOK
<1>1. Init => TypeOK
  <2>1. 0 \in Slots
    BY InstanceAssumption DEF Slots
  <2> QED
    BY <2>1, NoRowIsARow, IdleIsASession DEF Init, TypeOK
<1>2. TypeOK /\ [Next]_vars => TypeOK'
  <2> SUFFICES ASSUME TypeOK, [Next]_vars
               PROVE  TypeOK'
    OBVIOUS
  <2>1. ASSUME NEW s \in Sessions, Request(s)
        PROVE  TypeOK'
    BY <2>1, RequestIsTyped
  <2>2. ASSUME NEW s \in Sessions, Statement(s)
        PROVE  TypeOK'
    BY <2>2, StatementIsTyped
  <2>3. ASSUME NEW s \in Sessions, LoseConnection(s)
        PROVE  TypeOK'
    BY <2>3, FinishIsTyped DEF LoseConnection
  <2>4. CASE Tick
    BY <2>4, InstanceAssumption DEF Tick, tables, TypeOK, Slots
  <2>5. CASE UNCHANGED vars
    BY <2>5 DEF vars, TypeOK, Slots
  <2> QED
    BY <2>1, <2>2, <2>3, <2>4, <2>5 DEF Next
<1> QED
  BY <1>1, <1>2, PTL DEF Spec

-----------------------------------------------------------------------------
(* No double bookings *)

\* Only a commit that passed the exclusion constraint changes the appointments.
LEMMA OnlyCommitsChangeAppointments ==
  ASSUME Next
  PROVE  appt' = appt \/ ExclusionConstraint(appt')
<1>1. ASSUME NEW s \in Sessions, Finish(s)
      PROVE  appt' = appt
  BY <1>1 DEF Finish
<1>2. ASSUME NEW s \in Sessions, NEW op, NEW a, NEW want, NEW set, NEW expect,
             Call(s, op, a, want, set, expect)
      PROVE  appt' = appt
  BY <1>2 DEF Call
<1>3. ASSUME NEW s \in Sessions, NEW table, WriteRows(s, table)
      PROVE  appt' = appt \/ ExclusionConstraint(appt')
  BY <1>3, <1>1 DEF WriteRows
<1>4. ASSUME NEW s \in Sessions, Request(s)
      PROVE  appt' = appt
  <2>1. CASE RequestCreate(s)
    BY <2>1 DEF RequestCreate
  <2>2. CASE RequestPatch(s)
    BY <2>2, <1>2 DEF RequestPatch
  <2>3. CASE RequestStatus(s)
    BY <2>3, <1>2 DEF RequestStatus
  <2>4. CASE RequestMoveByToken(s)
    BY <2>4, <1>2 DEF RequestMoveByToken
  <2>5. CASE RequestCancelByToken(s)
    BY <2>5, <1>2 DEF RequestCancelByToken
  <2>6. CASE RequestPlace(s)
    BY <2>6 DEF RequestPlace, CallPlace
  <2> QED
    BY <1>4, <2>1, <2>2, <2>3, <2>4, <2>5, <2>6 DEF Request
<1>5. ASSUME NEW s \in Sessions, Statement(s)
      PROVE  appt' = appt \/ ExclusionConstraint(appt')
  <2>1. CASE InsertAppointments(s)
    BY <2>1, <1>3 DEF InsertAppointments
  <2>2. CASE UpdateAppointment(s)
    BY <2>2, <1>1, <1>3 DEF UpdateAppointment
  <2>3. CASE ReadRevision(s) \/ LockAppointment(s) \/ LockDay(s) \/ LockPlace(s) \/ WritePlace(s)
    BY <2>3 DEF ReadRevision, LockAppointment, LockDay, LockPlace, WritePlace, tables
  <2>4. CASE ReadCurrent(s)
    BY <2>4, <1>1 DEF ReadCurrent, tables
  <2>5. CASE LockLocation(s)
    BY <2>5, <1>1 DEF LockLocation, tables
  <2>6. CASE LockAssignment(s)
    BY <2>6, <1>1 DEF LockAssignment, tables
  <2>7. CASE AssertNoConflict(s)
    BY <2>7, <1>1 DEF AssertNoConflict, tables
  <2>8. CASE CheckPlace(s)
    BY <2>8, <1>1 DEF CheckPlace, tables
  <2> QED
    BY <1>5, <2>1, <2>2, <2>3, <2>4, <2>5, <2>6, <2>7, <2>8 DEF Statement
<1>6. ASSUME NEW s \in Sessions, LoseConnection(s)
      PROVE  appt' = appt
  BY <1>6, <1>1 DEF LoseConnection
<1>7. CASE Tick
  BY <1>7 DEF Tick, tables
<1> QED
  BY <1>4, <1>5, <1>6, <1>7 DEF Next

LEMMA ConstraintForbidsDoubleBooking ==
  ASSUME TypeOK, ExclusionConstraint(appt)
  PROVE  NoDoubleBooking
<1> SUFFICES ASSUME NEW a \in Appts, NEW b \in Appts, a # b,
                    Booked(appt[a]), Booked(appt[b]), appt[a].barber = appt[b].barber
             PROVE  \/ appt[a].start + appt[a].dur <= appt[b].start
                    \/ appt[b].start + appt[b].dur <= appt[a].start
  BY DEF NoDoubleBooking
<1>1. ~Overlap(appt[b], appt[a]) \/ ~Overlap(appt[a], appt[b])
  BY DEF ExclusionConstraint, Conflict
<1>2. \A r \in Row : r.start \in Int /\ r.dur \in Int
  <2>1. Slots \subseteq Int /\ Durations \subseteq Int
    BY InstanceAssumption DEF Slots
  <2> QED BY <2>1 DEF Row
<1>3. appt[a] \in Row /\ appt[b] \in Row
  BY SeenIsARow
<1> QED
  BY <1>1, <1>2, <1>3 DEF Overlap, Ends

LEMMA ConstraintAlwaysHolds == Spec => []ExclusionConstraint(appt)
<1>1. Init => ExclusionConstraint(appt)
  BY DEF Init, ExclusionConstraint, Booked, NoRow
<1>2. ExclusionConstraint(appt) /\ [Next]_vars => ExclusionConstraint(appt)'
  <2>1. CASE Next
    BY <2>1, OnlyCommitsChangeAppointments DEF ExclusionConstraint, Conflict, Booked, Overlap, Ends
  <2>2. CASE UNCHANGED vars
    BY <2>2 DEF vars, ExclusionConstraint, Conflict, Booked, Overlap, Ends
  <2> QED BY <2>1, <2>2
<1> QED
  BY <1>1, <1>2, PTL DEF Spec

\* A barber never has two booked appointments at the same time, however many
\* requests run at once, whatever they race for and wherever they are interrupted.
THEOREM NeverDoubleBooked == Spec => []NoDoubleBooking
<1>1. TypeOK /\ ExclusionConstraint(appt) => NoDoubleBooking
  BY ConstraintForbidsDoubleBooking
<1> QED
  BY <1>1, TypeCorrect, ConstraintAlwaysHolds, PTL

-----------------------------------------------------------------------------
(* Commits: what the requests ask for, and what a commit makes of it *)

UpdateOps == {"updateAppointmentWithNotification", "rescheduleAppointment",
              "cancelAppointment", "updateAppointment", "updateAppointmentStatusIfCurrent"}

\* What a handler asks of the storage operation it calls.
CalledAs(q) ==
    /\ q.at = "idle" => q = Idle
    /\ q.op = "createAppointments" =>
          /\ \A a \in q.ids : q.want[a].status \in {"booked", "completed"}
          /\ \A a, b \in q.ids : q.want[a].barber = q.want[b].barber
    /\ q.op \in UpdateOps => \E a \in Appts : q.ids = {a}
    /\ q.op \in UpdateOps /\ "status" \in q.set =>
          \A a \in q.ids : q.want[a].status \in Asked \cup Cancelled
    /\ q.op = "updateAppointmentWithNotification" => "patch" \in Requests
    /\ q.op = "cancelAppointment" => q.set = {"status"} /\ \A a \in q.ids : q.want[a].status \in Cancelled
    /\ q.op = "rescheduleAppointment" => q.set = {"start"} /\ q.expect = "booked"
    /\ q.op \in PlaceOps \cup {"none"} => q.ids = {}
    /\ EventsEnabled /\ q.op \in {"updateAppointment", "updateAppointmentStatusIfCurrent"} =>
          /\ Requests \cap {"status", "statusIfCurrent"} # {}
          /\ "status" \in q.set /\ \A a \in q.ids : q.want[a].status \notin Cancelled

\* An id that is being inserted is nobody else's, and not in the table yet.
Inserting(s) ==
    ses[s].op = "createAppointments" =>
        \A a \in ses[s].ids :
            appt[a].status = "absent" /\ \A t \in Sessions \ {s} : a \notin ses[t].ids

Called == \A s \in Sessions : CalledAs(ses[s]) /\ Inserting(s)

-----------------------------------------------------------------------------
(* Steps *)

\* What the request of a session asks for stays as it was called.
SameCall(p, q) ==
    /\ q.op = p.op /\ q.ids = p.ids /\ q.set = p.set /\ q.expect = p.expect
    /\ q.token = p.token /\ q.place = p.place /\ q.up = p.up
    /\ \A a \in Appts :
          /\ q.want[a].status = p.want[a].status /\ q.want[a].barber = p.want[a].barber
          /\ q.want[a].loc = p.want[a].loc /\ q.want[a].start = p.want[a].start
          /\ q.want[a].dur = p.want[a].dur

\* A statement that is not a commit.
Quiet(s) ==
    /\ UNCHANGED <<appt, events>>
    /\ \A t \in Sessions \ {s} : ses'[t] = ses[t]
    /\ ses'[s] = Idle \/ (ses'[s].at # "idle" /\ SameCall(ses[s], ses'[s]))

\* A commit: the new table satisfies the exclusion constraint and the events are new.
Commit(s, table) ==
    /\ ses[s].at = "write"
    /\ appt' = table /\ ExclusionConstraint(table)
    /\ events' = events \cup UNION {NewEvents(s, a, table[a]) : a \in ses[s].ids}
    /\ KeysFree(UNION {NewEvents(s, a, table[a]) : a \in ses[s].ids})
    /\ ses' = [ses EXCEPT ![s] = Idle]

Insert(s) ==
    /\ ses[s].op = "createAppointments"
    /\ Commit(s, [a \in Appts |-> IF a \in ses[s].ids THEN ses[s].want[a] ELSE appt[a]])

Update(s, a) ==
    /\ ses[s].op \in UpdateOps /\ ses[s].ids = {a} /\ Matches(s, appt[a])
    /\ Commit(s, [appt EXCEPT ![a] = Updated(s, a)])

LEMMA FinishIsQuiet ==
  ASSUME TypeOK, NEW s \in Sessions, Finish(s)
  PROVE  Quiet(s)
  BY DEF Finish, Quiet, TypeOK

LEMMA GoToIsQuiet ==
  ASSUME TypeOK, NEW s \in Sessions, NEW step \in Steps \ {"idle"}, GoTo(s, step),
         UNCHANGED <<appt, events>>
  PROVE  Quiet(s)
  BY DEF GoTo, Quiet, TypeOK, SameCall, Session, Steps

LEMMA WriteRowsCommits ==
  ASSUME TypeOK, NEW s \in Sessions, NEW table, ses[s].at = "write", WriteRows(s, table)
  PROVE  Quiet(s) \/ Commit(s, table)
<1> DEFINE new == UNION {NewEvents(s, a, table[a]) : a \in ses[s].ids}
<1>1. CASE Finish(s)
  BY <1>1, FinishIsQuiet
<1>2. CASE /\ ExclusionConstraint(table) /\ KeysFree(new)
           /\ appt' = table /\ events' = events \cup new
           /\ ses' = [ses EXCEPT ![s] = Idle]
  BY <1>2 DEF Commit
<1>3. Finish(s) \/ (/\ ExclusionConstraint(table) /\ KeysFree(new)
                    /\ appt' = table /\ events' = events \cup new
                    /\ ses' = [ses EXCEPT ![s] = Idle])
  <2> HIDE DEF new
  <2> QED BY DEF WriteRows, new
<1> QED BY <1>1, <1>2, <1>3

LEMMA StatementsAreQuietOrCommit ==
  ASSUME TypeOK, Called, NEW s \in Sessions, Statement(s)
  PROVE  Quiet(s) \/ Insert(s) \/ \E a \in Appts : Update(s, a)
<1> USE DEF tables
<1>1. CASE ReadRevision(s)
  <2>1. PICK a \in ses[s].ids :
          ses' = [ses EXCEPT ![s].want[a].notif = appt[a].notif + 1, ![s].at = "read"]
    BY <1>1 DEF ReadRevision
  <2>2. a \in Appts /\ ses[s] \in Session /\ ses[s].want \in [Appts -> Row]
    BY DEF TypeOK, Session
  <2> DEFINE q == [ses[s] EXCEPT !.want[a].notif = appt[a].notif + 1, !.at = "read"]
  <2>3. ses' = [ses EXCEPT ![s] = q]
    BY <2>1, <2>2 DEF TypeOK, Session
  <2>4. q.at = "read" /\ SameCall(ses[s], q)
    <3>1. q.want = [ses[s].want EXCEPT ![a].notif = appt[a].notif + 1]
      BY <2>2 DEF Session
    <3>2. /\ q.at = "read" /\ q.op = ses[s].op /\ q.ids = ses[s].ids /\ q.set = ses[s].set
          /\ q.expect = ses[s].expect /\ q.token = ses[s].token
          /\ q.place = ses[s].place /\ q.up = ses[s].up
      BY <2>2 DEF Session
    <3> HIDE DEF q
    <3>3. \A b \in Appts : /\ q.want[b].status = ses[s].want[b].status
                           /\ q.want[b].barber = ses[s].want[b].barber
                           /\ q.want[b].loc = ses[s].want[b].loc
                           /\ q.want[b].start = ses[s].want[b].start
                           /\ q.want[b].dur = ses[s].want[b].dur
      BY <3>1, <2>2 DEF Row
    <3> QED BY <3>2, <3>3 DEF SameCall
  <2> HIDE DEF q
  <2> QED BY <2>3, <2>4, <1>1 DEF Quiet, ReadRevision, TypeOK
<1>2. CASE LockAppointment(s)
  BY <1>2, GoToIsQuiet DEF LockAppointment, Steps
<1>3. CASE ReadCurrent(s)
  <2>1. CASE Finish(s)
    BY <2>1, FinishIsQuiet
  <2>2. ASSUME NEW r, NEW d, NEW step \in Steps \ {"idle"}, UNCHANGED <<appt, events>>,
               ses' = [ses EXCEPT ![s].cur = r, ![s].days = d, ![s].at = step]
        PROVE  Quiet(s)
    BY <2>2, SMTT(40) DEF Quiet, TypeOK, SameCall, Session, Steps
  <2>3. PICK a \in ses[s].ids :
          LET row == appt[a]
              op == ses[s].op
              cand == Patched(row, ses[s].want[a], ses[s].set)
          IN  IF \/ ~Matches(s, row)
                 \/ op = "updateAppointmentWithNotification" /\ cand = row
              THEN Finish(s)
              ELSE /\ ses' = [ses EXCEPT ![s].cur = row,
                                         ![s].days = {Day(cand.start)},
                                         ![s].at = IF ~Protects(op, row, cand) THEN "write"
                                                   ELSE IF Introduces(op, row, cand) THEN "location"
                                                   ELSE "days"]
                   /\ UNCHANGED <<tables, now, exclusive, shared>>
    BY <1>3 DEF ReadCurrent
  <2> DEFINE cand == Patched(appt[a], ses[s].want[a], ses[s].set)
             step == IF ~Protects(ses[s].op, appt[a], cand) THEN "write"
                     ELSE IF Introduces(ses[s].op, appt[a], cand) THEN "location" ELSE "days"
             day == {Day(cand.start)}
  <2>4. step \in Steps \ {"idle"}
    BY DEF Steps
  <2>5. \/ Finish(s)
        \/ /\ ses' = [ses EXCEPT ![s].cur = appt[a], ![s].days = day, ![s].at = step]
           /\ UNCHANGED <<appt, events>>
    BY <2>3
  <2> HIDE DEF step, day
  <2> QED BY <2>1, <2>2, <2>4, <2>5
<1>4. CASE LockLocation(s)
  BY <1>4, FinishIsQuiet, GoToIsQuiet DEF LockLocation, Steps
<1>5. CASE LockAssignment(s)
  BY <1>5, FinishIsQuiet, GoToIsQuiet DEF LockAssignment, Steps
<1>6. CASE LockDay(s)
  <2>1. PICK d \in ses[s].days :
          ses' = [ses EXCEPT ![s].days = @ \ {d},
                             ![s].at = IF ses[s].days = {d} THEN "check" ELSE "days"]
    BY <1>6 DEF LockDay
  <2> DEFINE q == [ses[s] EXCEPT !.days = @ \ {d}, !.at = IF ses[s].days = {d} THEN "check" ELSE "days"]
  <2>2. ses' = [ses EXCEPT ![s] = q]
    BY <2>1 DEF TypeOK
  <2>3. ses[s] \in Session
    BY DEF TypeOK
  <2>4. q.at # "idle" /\ SameCall(ses[s], q)
    BY <2>3 DEF SameCall, Session
  <2> HIDE DEF q
  <2> QED BY <2>2, <2>4, <1>6 DEF Quiet, LockDay, TypeOK
<1>7. CASE AssertNoConflict(s)
  <2>1. Finish(s) \/ (GoTo(s, "write") /\ UNCHANGED tables)
    BY <1>7 DEF AssertNoConflict
  <2> QED BY <2>1, FinishIsQuiet, GoToIsQuiet DEF Steps
<1>8. CASE InsertAppointments(s)
  BY <1>8, WriteRowsCommits DEF InsertAppointments, Insert
<1>9. CASE UpdateAppointment(s)
  <2>1. PICK a \in ses[s].ids :
          IF Matches(s, appt[a]) THEN WriteRows(s, [appt EXCEPT ![a] = Updated(s, a)])
          ELSE Finish(s)
    BY <1>9 DEF UpdateAppointment
  <2>2. ses[s].op \in UpdateOps /\ ses[s].at = "write" /\ a \in Appts
    BY <1>9 DEF UpdateAppointment, UpdateOps, TypeOK, Session
  <2>3. ses[s].ids = {a}
    BY <2>2, <2>1 DEF Called, CalledAs
  <2> QED BY <2>1, <2>2, <2>3, FinishIsQuiet, WriteRowsCommits DEF Update
<1>10. CASE LockPlace(s)
  BY <1>10, GoToIsQuiet DEF LockPlace, Steps
<1>11. CASE CheckPlace(s)
  <2>1. Finish(s) \/ (GoTo(s, "write") /\ UNCHANGED tables)
    BY <1>11 DEF CheckPlace
  <2> QED BY <2>1, FinishIsQuiet, GoToIsQuiet DEF Steps
<1>12. CASE WritePlace(s)
  BY <1>12 DEF WritePlace, Quiet, TypeOK
<1> QED
  BY <1>1, <1>2, <1>3, <1>4, <1>5, <1>6, <1>7, <1>8, <1>9, <1>10, <1>11, <1>12 DEF Statement

-----------------------------------------------------------------------------
(* Calls *)

\* What a handler that calls the storage operation op for one row has made sure of.
Asks(op, want, set, expect) ==
    /\ "status" \in set => want.status \in Asked \cup Cancelled
    /\ op = "updateAppointmentWithNotification" => "patch" \in Requests
    /\ op = "cancelAppointment" => set = {"status"} /\ want.status \in Cancelled
    /\ op = "rescheduleAppointment" => set = {"start"} /\ expect = "booked"
    /\ EventsEnabled /\ op \in {"updateAppointment", "updateAppointmentStatusIfCurrent"} =>
          /\ Requests \cap {"status", "statusIfCurrent"} # {}
          /\ "status" \in set /\ want.status \notin Cancelled

\* What CalledAs says of a request that has just been made.
LEMMA CalledWhatWasAsked ==
  ASSUME TypeOK, NEW s \in Sessions, NEW op \in UpdateOps, NEW a \in Appts, NEW want \in Row,
         NEW set \in SUBSET Columns, NEW expect \in Status \cup {"any"},
         Call(s, op, a, want, set, expect),
         Asks(op, want, set, expect)
  PROVE  /\ CalledAs(ses'[s]) /\ ses'[s].ids = {a} /\ ses'[s].op = op /\ ses'[s].at # "idle"
         /\ UNCHANGED <<appt, events>> /\ \A t \in Sessions \ {s} : ses'[t] = ses[t]
<1> DEFINE q == [Idle EXCEPT !.op = op, !.at = FirstStep(op, set), !.ids = {a},
                             !.want = [Idle.want EXCEPT ![a] = Patched(NoRow, want, set)],
                             !.set = set, !.expect = expect,
                             !.token = IF op = "rescheduleAppointment" THEN want.resched ELSE 0]
<1>1. ses' = [ses EXCEPT ![s] = q]
  BY DEF Call
<1>2. ses'[s] = q /\ \A t \in Sessions \ {s} : ses'[t] = ses[t]
  BY <1>1 DEF TypeOK
<1>3. /\ q.op = op /\ q.ids = {a} /\ q.set = set /\ q.expect = expect
      /\ q.at = FirstStep(op, set)
      /\ q.want = [Idle.want EXCEPT ![a] = Patched(NoRow, want, set)]
  BY DEF Idle
<1>4. Idle.want \in [Appts -> Row]
  BY IdleIsASession DEF Session
<1>5. q.want[a] = Patched(NoRow, want, set)
  BY <1>3, <1>4
<1>6. "status" \in set => q.want[a].status = want.status
  <2> HIDE DEF q
  <2>1. \A r \in Row : "status" \in set => Patched(r, want, set).status = want.status
    BY DEF Patched, Row
  <2> QED BY <1>5, <2>1, NoRowIsARow
<1>7. FirstStep(op, set) # "idle"
  BY DEF FirstStep
<1> HIDE DEF q
<1>8. CalledAs(q)
  BY <1>3, <1>5, <1>6, <1>7 DEF CalledAs, UpdateOps, PlaceOps, Asks
<1> QED
  BY <1>2, <1>3, <1>7, <1>8 DEF Call

\* A request of a session for one row of the table, or for the rows it will insert,
\* or for no row at all.
RequestsRow(s) ==
    \E a \in Appts :
        /\ ses'[s].op \in UpdateOps /\ ses'[s].ids = {a} /\ appt[a].status # "absent"
RequestsRows(s) ==
    /\ ses'[s].op = "createAppointments"
    /\ \A a \in ses'[s].ids : appt[a].status = "absent" /\ \A t \in Sessions : a \notin ses[t].ids
RequestsNoRow(s) == ses'[s].op \in PlaceOps /\ ses'[s].ids = {}

Requested(s) ==
    /\ UNCHANGED <<appt, events>>
    /\ \A t \in Sessions \ {s} : ses'[t] = ses[t]
    /\ CalledAs(ses'[s]) /\ ses'[s].at # "idle"
    /\ RequestsRow(s) \/ RequestsRows(s) \/ RequestsNoRow(s)

LEMMA RequestCreateIsRequested ==
  ASSUME TypeOK, NEW s \in Sessions, RequestCreate(s)
  PROVE  Requested(s)
<1>1. PICK starts \in SUBSET Slots, b \in Barbers, l \in Locations, d \in Durations,
           st \in {"booked", "completed"}, rev \in {0, 1}, ids \in SUBSET Unused :
        /\ Insertable(starts, b, l, d, st, ids)
        /\ st = "completed" \/ ~EventsEnabled => rev = 0
        /\ \E want \in Batches(starts, b, l, d, st, rev, ids) :
            ses' = [ses EXCEPT ![s] = Insertion(ids, want, starts)]
  BY DEF RequestCreate
<1>2. PICK want \in Batches(starts, b, l, d, st, rev, ids) :
            ses' = [ses EXCEPT ![s] = Insertion(ids, want, starts)]
  BY <1>1
<1> DEFINE q == Insertion(ids, want, starts)
<1>3. ids \subseteq Appts
  BY DEF Unused
<1>4. /\ q.op = "createAppointments" /\ q.at = "location" /\ q.ids = ids
      /\ \A a \in ids : q.want[a] = want[a]
  BY <1>3 DEF Insertion, Idle
<1>5. \A a \in ids : want[a].status = st /\ want[a].barber = b
  BY DEF Batches, NewRow
<1>6. ses'[s] = q /\ \A t \in Sessions \ {s} : ses'[t] = ses[t]
  BY <1>2 DEF TypeOK
<1> HIDE DEF q
<1>7. CalledAs(q)
  BY <1>4, <1>5 DEF CalledAs, UpdateOps, PlaceOps
<1>8. RequestsRows(s)
  BY <1>4, <1>6 DEF RequestsRows, Unused
<1> QED
  BY <1>4, <1>6, <1>7, <1>8 DEF Requested, RequestCreate

LEMMA CallIsRequested ==
  ASSUME TypeOK, NEW s \in Sessions, NEW op \in UpdateOps, NEW a \in Appts, NEW want \in Row,
         NEW set \in SUBSET Columns, NEW expect \in Status \cup {"any"},
         Reads(a), Call(s, op, a, want, set, expect),
         Asks(op, want, set, expect)
  PROVE  Requested(s)
<1>1. /\ CalledAs(ses'[s]) /\ ses'[s].ids = {a} /\ ses'[s].op = op /\ ses'[s].at # "idle"
      /\ UNCHANGED <<appt, events>> /\ \A t \in Sessions \ {s} : ses'[t] = ses[t]
  BY CalledWhatWasAsked
<1> QED
  BY <1>1 DEF Requested, RequestsRow, Reads

LEMMA RequestPatchIsRequested ==
  ASSUME TypeOK, NEW s \in Sessions, RequestPatch(s)
  PROVE  Requested(s)
<1>1. PICK a \in Appts, set \in (SUBSET {"status", "barber", "start", "dur"}) \ {{}},
           st \in Asked \cup {"booked"}, b \in Barbers, t \in Slots, d \in Durations :
        LET seen == appt[a]
            want == Patched(seen, [seen EXCEPT !.status = st, !.barber = b, !.start = t, !.dur = d], set)
            details == set \cap {"barber", "start", "dur"} # {}
        IN  /\ Reads(a)
            /\ "status" \in set => st \in Asked
            /\ details => Booked(seen) /\ ~Conflict(appt, {a}, want)
            /\ want.start # seen.start => want.start >= now
            /\ "barber" \in set => assigned[<<want.barber, seen.loc>>]
            /\ "status" \in set /\ st = "completed" => Ends(want) <= now
            /\ Call(s, "updateAppointmentWithNotification", a, want, set, "any")
  BY DEF RequestPatch
<1> DEFINE asked == [appt[a] EXCEPT !.status = st, !.barber = b, !.start = t, !.dur = d]
           want == Patched(appt[a], asked, set)
<1>2. asked \in Row /\ asked.status = st
  BY SeenIsARow, InstanceAssumption DEF Row, Status
<1>3. want \in Row
  <2> HIDE DEF asked
  <2> QED BY <1>2, SeenIsARow, PatchedIsARow
<1>4. "status" \in set => want.status \in Asked
  <2> HIDE DEF asked
  <2>1. "status" \in set => want.status = st
    BY <1>2, SeenIsARow DEF Patched, Row
  <2> QED BY <1>1, <2>1
<1>5. /\ Reads(a) /\ Call(s, "updateAppointmentWithNotification", a, want, set, "any")
      /\ "patch" \in Requests
  BY <1>1 DEF RequestPatch, Calling
<1>6. set \in SUBSET Columns /\ "updateAppointmentWithNotification" \in UpdateOps
  BY DEF Columns, UpdateOps
<1> HIDE DEF want
<1>7. Asks("updateAppointmentWithNotification", want, set, "any")
  BY <1>4, <1>5 DEF Asks
<1> QED
  BY <1>3, <1>5, <1>6, <1>7, CallIsRequested

LEMMA RequestStatusIsRequested ==
  ASSUME TypeOK, NEW s \in Sessions, RequestStatus(s)
  PROVE  Requested(s)
<1>1. PICK a \in Appts, st \in Asked, expects \in BOOLEAN :
        LET seen == appt[a]
            want == [seen EXCEPT !.status = st]
        IN  /\ Calling(s, IF expects THEN "statusIfCurrent" ELSE "status")
            /\ Reads(a)
            /\ st = "completed" => Ends(seen) <= now
            /\ st = "no_show" => seen.start <= now
            /\ IF EventsEnabled /\ st \in Cancelled
               THEN Call(s, "cancelAppointment", a, want, {"status"}, "booked")
               ELSE IF expects
               THEN Call(s, "updateAppointmentStatusIfCurrent", a, want, {"status"}, seen.status)
               ELSE Call(s, "updateAppointment", a, want, {"status", "notif"}, "any")
  BY DEF RequestStatus
<1> DEFINE want == [appt[a] EXCEPT !.status = st]
<1>2. want \in Row /\ want.status = st /\ st \in Asked
  BY SeenIsARow, InstanceAssumption DEF Row
<1>3. \/ st \in Cancelled /\ Call(s, "cancelAppointment", a, want, {"status"}, "booked")
      \/ /\ ~(EventsEnabled /\ st \in Cancelled)
         /\ Call(s, "updateAppointmentStatusIfCurrent", a, want, {"status"}, appt[a].status)
      \/ /\ ~(EventsEnabled /\ st \in Cancelled)
         /\ Call(s, "updateAppointment", a, want, {"status", "notif"}, "any")
  BY <1>1
<1>4. "booked" \in Status /\ appt[a].status \in Status /\ Reads(a)
  BY <1>1, SeenIsARow DEF Reads, Row, Status
<1>5. {"status"} \in SUBSET Columns /\ {"status", "notif"} \in SUBSET Columns
  BY DEF Columns
<1>6. Requests \cap {"status", "statusIfCurrent"} # {}
  BY <1>1 DEF Calling
<1> HIDE DEF want
<1>7. CASE st \in Cancelled /\ Call(s, "cancelAppointment", a, want, {"status"}, "booked")
  <2>1. Asks("cancelAppointment", want, {"status"}, "booked")
    BY <1>2, <1>7 DEF Asks
  <2> QED BY <1>2, <1>4, <1>5, <1>7, <2>1, CallIsRequested DEF UpdateOps
<1>8. CASE /\ ~(EventsEnabled /\ st \in Cancelled)
           /\ Call(s, "updateAppointmentStatusIfCurrent", a, want, {"status"}, appt[a].status)
  <2>1. Asks("updateAppointmentStatusIfCurrent", want, {"status"}, appt[a].status)
    BY <1>2, <1>6, <1>8 DEF Asks
  <2> QED BY <1>2, <1>4, <1>5, <1>8, <2>1, CallIsRequested DEF UpdateOps
<1>9. CASE /\ ~(EventsEnabled /\ st \in Cancelled)
           /\ Call(s, "updateAppointment", a, want, {"status", "notif"}, "any")
  <2>1. Asks("updateAppointment", want, {"status", "notif"}, "any")
    BY <1>2, <1>6, <1>9 DEF Asks
  <2> QED BY <1>2, <1>4, <1>5, <1>9, <2>1, CallIsRequested DEF UpdateOps
<1> QED
  BY <1>3, <1>7, <1>8, <1>9

LEMMA RequestMoveByTokenIsRequested ==
  ASSUME TypeOK, NEW s \in Sessions, RequestMoveByToken(s)
  PROVE  Requested(s)
<1>1. PICK a \in Appts, t \in Slots :
        LET seen == appt[a]
            want == [seen EXCEPT !.start = t]
        IN  /\ Reads(a) /\ Booked(seen)
            /\ open[seen.loc] /\ assigned[<<seen.barber, seen.loc>>]
            /\ t >= now
            /\ ~Conflict(appt, {a}, want)
            /\ Call(s, IF EventsEnabled THEN "rescheduleAppointment" ELSE "updateAppointment",
                    a, want, {"start"}, "booked")
  BY DEF RequestMoveByToken
<1> DEFINE want == [appt[a] EXCEPT !.start = t]
           op == IF EventsEnabled THEN "rescheduleAppointment" ELSE "updateAppointment"
<1>2. want \in Row
  BY SeenIsARow DEF Row
<1>3. Reads(a) /\ Call(s, op, a, want, {"start"}, "booked")
  BY <1>1
<1>4. /\ op \in UpdateOps /\ {"start"} \in SUBSET Columns /\ "booked" \in Status \cup {"any"}
      /\ Asks(op, want, {"start"}, "booked")
  BY DEF UpdateOps, Columns, Status, Asks
<1> HIDE DEF want, op
<1> QED
  BY <1>2, <1>3, <1>4, CallIsRequested

LEMMA RequestCancelByTokenIsRequested ==
  ASSUME TypeOK, NEW s \in Sessions, RequestCancelByToken(s)
  PROVE  Requested(s)
<1>1. PICK a \in Appts :
        LET seen == appt[a]
            want == [seen EXCEPT !.status = IF seen.start - now < PolicySlots
                                            THEN "late_cancelled" ELSE "cancelled"]
        IN  /\ Reads(a) /\ Booked(seen)
            /\ Call(s, IF EventsEnabled THEN "cancelAppointment"
                       ELSE "updateAppointmentStatusIfCurrent",
                    a, want, {"status"}, "booked")
  BY DEF RequestCancelByToken
<1> DEFINE want == [appt[a] EXCEPT !.status = IF appt[a].start - now < PolicySlots
                                              THEN "late_cancelled" ELSE "cancelled"]
           op == IF EventsEnabled THEN "cancelAppointment" ELSE "updateAppointmentStatusIfCurrent"
<1>2. want \in Row /\ want.status \in Cancelled
  BY SeenIsARow DEF Row, Status, Cancelled
<1>3. Reads(a) /\ Call(s, op, a, want, {"status"}, "booked")
  BY <1>1
<1>4. /\ op \in UpdateOps /\ {"status"} \in SUBSET Columns /\ "booked" \in Status \cup {"any"}
      /\ Asks(op, want, {"status"}, "booked")
  BY <1>2 DEF UpdateOps, Columns, Status, Asks
<1> HIDE DEF want, op
<1> QED
  BY <1>2, <1>3, <1>4, CallIsRequested

LEMMA RequestPlaceIsRequested ==
  ASSUME TypeOK, NEW s \in Sessions, RequestPlace(s)
  PROVE  Requested(s)
<1>1. PICK place \in Barbers \X Locations, op \in PlaceOps, up \in BOOLEAN :
        CallPlace(s, op, place, up)
  BY DEF RequestPlace, PlaceOps
<1> DEFINE q == [Idle EXCEPT !.op = op, !.at = "place", !.place = place, !.up = up]
<1>2. ses'[s] = q /\ \A t \in Sessions \ {s} : ses'[t] = ses[t]
  BY <1>1 DEF CallPlace, TypeOK
<1>3. q.op = op /\ q.at = "place" /\ q.ids = {}
  BY DEF Idle
<1> HIDE DEF q
<1> QED
  BY <1>1, <1>2, <1>3 DEF CallPlace, Requested, RequestsNoRow, CalledAs, PlaceOps, UpdateOps

LEMMA RequestsAreRequested ==
  ASSUME TypeOK, NEW s \in Sessions, Request(s)
  PROVE  Requested(s)
  BY RequestCreateIsRequested, RequestPatchIsRequested, RequestStatusIsRequested,
     RequestMoveByTokenIsRequested, RequestCancelByTokenIsRequested, RequestPlaceIsRequested
     DEF Request

LEMMA RequestsComeFromIdle ==
  ASSUME NEW s \in Sessions, Request(s)
  PROVE  ses[s].at = "idle"
  BY DEF Request, RequestCreate, RequestPatch, RequestStatus, RequestMoveByToken,
         RequestCancelByToken, RequestPlace, Calling

\* Every step is a request of an idle session, a quiet statement, a commit or the clock.
LEMMA EveryStep ==
  ASSUME TypeOK, Called, [Next]_vars
  PROVE  \/ \E s \in Sessions :
              \/ ses[s].at = "idle" /\ Requested(s)
              \/ Quiet(s) \/ Insert(s) \/ \E a \in Appts : Update(s, a)
         \/ UNCHANGED <<appt, events, ses>>
<1>1. ASSUME NEW s \in Sessions, Request(s)
      PROVE  ses[s].at = "idle" /\ Requested(s)
  BY <1>1, RequestsAreRequested, RequestsComeFromIdle
<1>2. ASSUME NEW s \in Sessions, Statement(s)
      PROVE  Quiet(s) \/ Insert(s) \/ \E a \in Appts : Update(s, a)
  BY <1>2, StatementsAreQuietOrCommit
<1>3. ASSUME NEW s \in Sessions, LoseConnection(s)
      PROVE  Quiet(s)
  BY <1>3, FinishIsQuiet DEF LoseConnection
<1>4. CASE Tick
  BY <1>4 DEF Tick, tables
<1>5. CASE UNCHANGED vars
  BY <1>5 DEF vars
<1> QED
  BY <1>1, <1>2, <1>3, <1>4, <1>5 DEF Next

LEMMA IdleIsCalled == CalledAs(Idle)
  BY DEF CalledAs, Idle, UpdateOps

\* A commit of one session writes no row that another is inserting.
LEMMA CommitWritesItsOwnRows ==
  ASSUME TypeOK, NEW s \in Sessions, Insert(s) \/ \E a \in Appts : Update(s, a)
  PROVE  /\ \A b \in Appts \ ses[s].ids : appt'[b] = appt[b]
         /\ ses'[s] = Idle /\ \A t \in Sessions \ {s} : ses'[t] = ses[t]
<1>1. ASSUME NEW table \in [Appts -> Row], Commit(s, table)
      PROVE  appt' = table /\ ses'[s] = Idle /\ \A t \in Sessions \ {s} : ses'[t] = ses[t]
  BY <1>1 DEF Commit, TypeOK
<1>2. CASE Insert(s)
  BY <1>1, <1>2, InsertedTableIsTyped DEF Insert
<1>3. ASSUME NEW a \in Appts, Update(s, a)
      PROVE  /\ \A b \in Appts \ ses[s].ids : appt'[b] = appt[b]
             /\ ses'[s] = Idle /\ \A t \in Sessions \ {s} : ses'[t] = ses[t]
  <2>1. [appt EXCEPT ![a] = Updated(s, a)] \in [Appts -> Row]
    BY UpdatedTableIsTyped
  <2>2. /\ appt' = [appt EXCEPT ![a] = Updated(s, a)] /\ ses[s].ids = {a}
        /\ ses'[s] = Idle /\ \A t \in Sessions \ {s} : ses'[t] = ses[t]
    BY <1>1, <1>3, <2>1 DEF Update
  <2>3. \A b \in Appts \ {a} : appt'[b] = appt[b]
    BY <2>2 DEF TypeOK
  <2> QED BY <2>2, <2>3
<1>4. CASE \E a \in Appts : Update(s, a)
  <2>1. PICK a \in Appts : Update(s, a)
    BY <1>4
  <2> QED BY <1>3, <2>1
<1> QED BY <1>2, <1>4

LEMMA SameCallIsCalled ==
  ASSUME NEW p \in Session, NEW q \in Session, CalledAs(p), SameCall(p, q), q.at # "idle"
  PROVE  CalledAs(q)
<1>1. \A a \in q.ids : a \in Appts
  BY DEF Session
<1> QED
  BY <1>1 DEF CalledAs, SameCall

LEMMA CalledIsKept ==
  ASSUME TypeOK, TypeOK', Called, [Next]_vars
  PROVE  Called'
<1>1. ASSUME NEW t \in Sessions
      PROVE  ses[t] \in Session /\ ses'[t] \in Session /\ CalledAs(ses[t]) /\ Inserting(t)
  BY DEF TypeOK, Called
<1>2. Idle.op = "none" /\ Idle.ids = {}
  BY DEF Idle
<1>3. ASSUME NEW s \in Sessions, Requested(s)
      PROVE  Called'
  <2>1. ASSUME NEW t \in Sessions
        PROVE  CalledAs(ses'[t])
    BY <1>1, <1>3 DEF Requested
  <2>2. ASSUME NEW t \in Sessions
        PROVE  Inserting(t)'
    <3>1. CASE t = s
      BY <1>3, <3>1 DEF Requested, RequestsRow, RequestsRows, RequestsNoRow, Inserting, UpdateOps, PlaceOps
    <3>2. CASE t # s
      BY <1>1, <1>3, <3>2 DEF Requested, RequestsRow, RequestsRows, RequestsNoRow, Inserting
    <3> QED BY <3>1, <3>2
  <2> QED BY <2>1, <2>2 DEF Called
<1>4. ASSUME NEW s \in Sessions, Quiet(s)
      PROVE  Called'
  <2>1. ASSUME NEW t \in Sessions
        PROVE  CalledAs(ses'[t])
    BY <1>1, <1>4, IdleIsCalled, SameCallIsCalled DEF Quiet
  <2>2. ASSUME NEW t \in Sessions
        PROVE  ses'[t].ids \subseteq ses[t].ids /\ (ses'[t].op = ses[t].op \/ ses'[t].op = "none")
    BY <1>2, <1>4 DEF Quiet, SameCall
  <2>3. ASSUME NEW t \in Sessions
        PROVE  Inserting(t)'
    BY <1>1, <1>4, <2>2 DEF Quiet, Inserting
  <2> QED BY <2>1, <2>3 DEF Called
<1>5. ASSUME NEW s \in Sessions, Insert(s) \/ \E a \in Appts : Update(s, a)
      PROVE  Called'
  <2>1. ASSUME NEW t \in Sessions
        PROVE  CalledAs(ses'[t])
    BY <1>1, <1>5, IdleIsCalled, CommitWritesItsOwnRows
  <2>2. ASSUME NEW t \in Sessions
        PROVE  Inserting(t)'
    <3>1. CASE t = s
      BY <1>2, <1>5, <3>1, CommitWritesItsOwnRows DEF Inserting
    <3>2. CASE t # s
      <4>1. ses'[t] = ses[t] /\ \A b \in Appts \ ses[s].ids : appt'[b] = appt[b]
        BY <1>5, <3>2, CommitWritesItsOwnRows
      <4>2. \A u \in Sessions : ses'[u].ids \subseteq ses[u].ids
        BY <1>2, <1>5, CommitWritesItsOwnRows
      <4>3. ses[t].ids \subseteq Appts
        BY <1>1 DEF Session
      <4> QED BY <1>1, <3>2, <4>1, <4>2, <4>3 DEF Inserting
    <3> QED BY <3>1, <3>2
  <2> QED BY <2>1, <2>2 DEF Called
<1>6. CASE UNCHANGED <<appt, events, ses>>
  BY <1>6 DEF Called, Inserting, CalledAs
<1> QED
  BY <1>3, <1>4, <1>5, <1>6, EveryStep

LEMMA SessionsAreCalled == Spec => []Called
<1>1. Init => Called
  <2>1. Idle.op = "none" /\ Idle.ids = {}
    BY DEF Idle
  <2> QED BY <2>1, IdleIsCalled DEF Init, Called, Inserting
<1>2. TypeOK /\ TypeOK' /\ Called /\ [Next]_vars => Called'
  BY CalledIsKept
<1> QED BY <1>1, <1>2, TypeCorrect, PTL DEF Spec

-----------------------------------------------------------------------------
(* What a commit writes *)

LEMMA PatchedFields ==
  ASSUME NEW row \in Row, NEW want \in Row, NEW set
  PROVE  /\ Patched(row, want, set).status = IF "status" \in set THEN want.status ELSE row.status
         /\ Patched(row, want, set).barber = IF "barber" \in set THEN want.barber ELSE row.barber
         /\ Patched(row, want, set).start = IF "start" \in set THEN want.start ELSE row.start
         /\ Patched(row, want, set).dur = IF "dur" \in set THEN want.dur ELSE row.dur
         /\ Patched(row, want, set).loc = row.loc
  BY DEF Patched, Row

LEMMA UpdatedFields ==
  ASSUME TypeOK, NEW s \in Sessions, NEW a \in Appts
  PROVE  LET row == Updated(s, a)
             patched == Patched(appt[a], ses[s].want[a], ses[s].set)
         IN  /\ row \in Row
             /\ row.status = patched.status /\ row.barber = patched.barber
             /\ row.start = patched.start /\ row.dur = patched.dur /\ row.loc = patched.loc
             /\ row.notif = NextRevision(s, a)
<1> DEFINE patched == Patched(appt[a], ses[s].want[a], ses[s].set)
<1>1. ses[s].want[a] \in Row /\ appt[a] \in Row
  BY SeenIsARow DEF TypeOK, Session
<1>2. patched \in Row
  BY <1>1, PatchedIsARow
<1>3. [appt EXCEPT ![a] = Updated(s, a)] \in [Appts -> Row]
  BY UpdatedTableIsTyped
<1>4. Updated(s, a) \in Row
  BY <1>3 DEF TypeOK
<1> DEFINE revision == NextRevision(s, a)
           moved == IF ses[s].op = "rescheduleAppointment" THEN ses[s].cur.resched + 1
                    ELSE appt[a].resched
<1>5. Updated(s, a) = [patched EXCEPT !.notif = revision, !.resched = moved]
  BY DEF Updated
<1> HIDE DEF patched, revision, moved
<1>6. LET row == Updated(s, a)
      IN  /\ row.status = patched.status /\ row.barber = patched.barber
          /\ row.start = patched.start /\ row.dur = patched.dur /\ row.loc = patched.loc
          /\ row.notif = revision
  BY <1>2, <1>5 DEF Row
<1> QED BY <1>4, <1>6 DEF patched, revision

\* The rows after a commit.
LEMMA InsertWrites ==
  ASSUME TypeOK, Called, NEW s \in Sessions, Insert(s)
  PROVE  /\ \A b \in Appts \ ses[s].ids : appt'[b] = appt[b]
         /\ \A b \in ses[s].ids : b \in Appts /\ appt'[b] = ses[s].want[b] /\ appt[b].status = "absent"
<1>1. appt' = [a \in Appts |-> IF a \in ses[s].ids THEN ses[s].want[a] ELSE appt[a]]
  BY DEF Insert, Commit
<1>2. ses[s].ids \subseteq Appts
  BY DEF TypeOK, Session
<1>3. \A b \in ses[s].ids : appt[b].status = "absent"
  BY DEF Called, Inserting, Insert
<1> QED BY <1>1, <1>2, <1>3

LEMMA UpdateWrites ==
  ASSUME TypeOK, NEW s \in Sessions, NEW a \in Appts, Update(s, a)
  PROVE  /\ \A b \in Appts \ {a} : appt'[b] = appt[b]
         /\ appt'[a] = Updated(s, a)
         /\ events' = events \cup NewEvents(s, a, Updated(s, a))
<1>1. appt' = [appt EXCEPT ![a] = Updated(s, a)] /\ ses[s].ids = {a}
  BY DEF Update, Commit
<1>2. appt'[a] = Updated(s, a) /\ \A b \in Appts \ {a} : appt'[b] = appt[b]
  BY <1>1 DEF TypeOK
<1>3. events' = events \cup UNION {NewEvents(s, b, appt'[b]) : b \in ses[s].ids}
  BY DEF Update, Commit
<1>4. UNION {NewEvents(s, b, appt'[b]) : b \in ses[s].ids} = NewEvents(s, a, appt'[a])
  BY <1>1
<1> QED BY <1>2, <1>3, <1>4

-----------------------------------------------------------------------------
(* Cancellations *)

LEMMA CancellationsStayTold ==
  ASSUME EventsEnabled, "patch" \notin Requests,
         TypeOK, Called, CancellationsAreTold, [Next]_vars
  PROVE  CancellationsAreTold'
<1> DEFINE Told(a) == appt[a].status \in Cancelled =>
                        \E e \in events : e.appt = a /\ e.kind = "cancelled" /\ e.rev = appt[a].notif
<1>1. \A a \in Appts : Told(a)
  BY DEF CancellationsAreTold
<1>2. ASSUME NEW a \in Appts, appt'[a] = appt[a], events \subseteq events'
      PROVE  Told(a)'
  BY <1>1, <1>2
<1> SUFFICES \A a \in Appts : Told(a)'
  BY DEF CancellationsAreTold
<1>3. ASSUME NEW s \in Sessions, Insert(s), NEW b \in Appts
      PROVE  Told(b)'
  <2>1. CASE b \in ses[s].ids
    <3>1. appt'[b].status \in {"booked", "completed"}
      BY <1>3, <2>1, InsertWrites DEF Called, CalledAs, Insert
    <3> QED BY <3>1 DEF Cancelled
  <2>2. CASE b \notin ses[s].ids
    <3>1. appt'[b] = appt[b] /\ events \subseteq events'
      BY <1>3, <2>2, InsertWrites DEF Insert, Commit
    <3> QED BY <1>2, <3>1
  <2> QED BY <2>1, <2>2
<1>4. ASSUME NEW s \in Sessions, NEW a \in Appts, Update(s, a), NEW b \in Appts
      PROVE  Told(b)'
  <2>1. CASE b # a
    <3>1. appt'[b] = appt[b] /\ events \subseteq events'
      BY <1>4, <2>1, UpdateWrites
    <3> QED BY <1>2, <3>1
  <2>2. CASE b = a
    <3> DEFINE row == Updated(s, a)
    <3>1. appt'[a] = row /\ events' = events \cup NewEvents(s, a, row)
      BY <1>4, UpdateWrites
    <3>2. ses[s].ids = {a} /\ ses[s].op \in UpdateOps /\ Matches(s, appt[a]) /\ CalledAs(ses[s])
      BY <1>4 DEF Update, Called
    <3>3. row.status = IF "status" \in ses[s].set THEN ses[s].want[a].status ELSE appt[a].status
      <4>1. ses[s].want[a] \in Row /\ appt[a] \in Row
        BY SeenIsARow DEF TypeOK, Session
      <4> QED BY <4>1, UpdatedFields, PatchedFields
    <3> HIDE DEF row
    <3>4. CASE ses[s].op = "cancelAppointment"
      <4> DEFINE e == NewEvent(a, "cancelled", row, ses[s].cur.start)
      <4>1. e \in events'
        BY <3>1, <3>4 DEF NewEvents
      <4>2. e.appt = a /\ e.kind = "cancelled" /\ e.rev = row.notif
        BY DEF NewEvent
      <4> QED BY <2>2, <3>1, <4>1, <4>2
    <3>5. CASE ses[s].op = "rescheduleAppointment"
      <4>1. row.status = "booked"
        BY <3>2, <3>3, <3>5 DEF CalledAs, Matches
      <4> QED BY <2>2, <3>1, <4>1 DEF Cancelled
    <3>6. CASE ses[s].op \in {"updateAppointment", "updateAppointmentStatusIfCurrent"}
      BY <2>2, <3>1, <3>2, <3>3, <3>6 DEF CalledAs
    <3>7. ses[s].op # "updateAppointmentWithNotification"
      BY <3>2 DEF CalledAs
    <3> QED BY <3>2, <3>4, <3>5, <3>6, <3>7 DEF UpdateOps
  <2> QED BY <2>1, <2>2
<1>5. ASSUME UNCHANGED <<appt, events>>
      PROVE  \A b \in Appts : Told(b)'
  BY <1>1, <1>5
<1> QED
  BY <1>3, <1>4, <1>5, EveryStep DEF Requested, Quiet

\* A cancelled appointment always has a cancellation event of its current revision,
\* whatever cancels it and whatever status changes race with that, as long as the
\* administrator's edit, which can edit a row that was cancelled meanwhile, is not used.
THEOREM CancellationsStayAnnounced ==
  ASSUME EventsEnabled, "patch" \notin Requests
  PROVE  Spec => []CancellationsAreTold
<1>1. Init => CancellationsAreTold
  BY DEF Init, CancellationsAreTold, NoRow, Cancelled
<1>2. TypeOK /\ Called /\ CancellationsAreTold /\ [Next]_vars => CancellationsAreTold'
  BY CancellationsStayTold
<1> QED BY <1>1, <1>2, TypeCorrect, SessionsAreCalled, PTL DEF Spec

-----------------------------------------------------------------------------
(* Rows *)

\* A row nobody inserted yet has revision 0, and nobody updates it.
RowsExist ==
    /\ \A a \in Appts : appt[a].status = "absent" => appt[a].notif = 0
    /\ \A s \in Sessions : ses[s].op \in UpdateOps =>
          \A a \in ses[s].ids : appt[a].status # "absent"

LEMMA CommitsWriteRows ==
  ASSUME TypeOK, Called, RowsExist, NEW s \in Sessions, Insert(s) \/ \E a \in Appts : Update(s, a)
  PROVE  \A b \in Appts : appt'[b] = appt[b] \/ appt'[b].status # "absent"
<1>1. CASE Insert(s)
  <2>1. \A b \in ses[s].ids : ses[s].want[b].status # "absent"
    BY <1>1 DEF Called, CalledAs, Insert
  <2> QED BY <1>1, <2>1, InsertWrites
<1>2. ASSUME NEW a \in Appts, Update(s, a)
      PROVE  \A b \in Appts : appt'[b] = appt[b] \/ appt'[b].status # "absent"
  <2>1. ses[s].ids = {a} /\ ses[s].op \in UpdateOps /\ CalledAs(ses[s]) /\ appt[a].status # "absent"
    BY <1>2 DEF Update, Called, RowsExist
  <2>2. Updated(s, a).status = IF "status" \in ses[s].set THEN ses[s].want[a].status ELSE appt[a].status
    <3>1. ses[s].want[a] \in Row /\ appt[a] \in Row
      BY SeenIsARow DEF TypeOK, Session
    <3> QED BY <3>1, UpdatedFields, PatchedFields
  <2>3. "status" \in ses[s].set => ses[s].want[a].status # "absent"
    BY <2>1, InstanceAssumption DEF CalledAs, Status, Cancelled
  <2> QED BY <1>2, <2>1, <2>2, <2>3, UpdateWrites
<1> QED BY <1>1, <1>2

LEMMA RowsStay ==
  ASSUME TypeOK, TypeOK', Called, RowsExist, [Next]_vars
  PROVE  RowsExist'
<1>1. \A t \in Sessions : ses[t].ids \subseteq Appts /\ ses'[t].ids \subseteq Appts
  BY DEF TypeOK, Session
<1>2. Idle.op \notin UpdateOps
  BY DEF Idle, UpdateOps
<1> HIDE DEF Idle
<1>3. ASSUME NEW s \in Sessions, Requested(s)
      PROVE  RowsExist'
  <2>1. \A t \in Sessions \ {s} : ses'[t] = ses[t]
    BY <1>3 DEF Requested
  <2>2. ses'[s].op \in UpdateOps => \A a \in ses'[s].ids : appt[a].status # "absent"
    BY <1>3 DEF Requested, RequestsRow, RequestsRows, RequestsNoRow, UpdateOps, PlaceOps
  <2> QED BY <1>3, <2>1, <2>2 DEF RowsExist, Requested
<1>4. ASSUME NEW s \in Sessions, Quiet(s)
      PROVE  RowsExist'
  BY <1>2, <1>4 DEF RowsExist, Quiet, SameCall
<1>5. ASSUME NEW s \in Sessions, Insert(s) \/ \E a \in Appts : Update(s, a)
      PROVE  RowsExist'
  <2>1. \A b \in Appts : appt'[b] = appt[b] \/ appt'[b].status # "absent"
    BY <1>5, CommitsWriteRows
  <2>2. ses'[s] = Idle /\ \A t \in Sessions \ {s} : ses'[t] = ses[t]
    BY <1>5, CommitWritesItsOwnRows
  <2>3. \A t \in Sessions : ses'[t].op \in UpdateOps => ses'[t] = ses[t]
    BY <1>2, <2>2
  <2>4. \A a \in Appts : appt'[a].status = "absent" => appt'[a].notif = 0
    BY <2>1 DEF RowsExist
  <2>5. \A t \in Sessions : ses'[t].op \in UpdateOps =>
          \A a \in ses'[t].ids : appt'[a].status # "absent"
    BY <1>1, <2>1, <2>3 DEF RowsExist
  <2> QED BY <2>4, <2>5 DEF RowsExist
<1>6. CASE UNCHANGED <<appt, events, ses>>
  BY <1>6 DEF RowsExist
<1> QED BY <1>3, <1>4, <1>5, <1>6, EveryStep

LEMMA RowsAlwaysExist == Spec => []RowsExist
<1>1. Init => RowsExist
  <2>1. Idle.op \notin UpdateOps
    BY DEF Idle, UpdateOps
  <2> HIDE DEF Idle
  <2> QED BY <2>1 DEF Init, RowsExist, NoRow
<1>2. TypeOK /\ TypeOK' /\ Called /\ RowsExist /\ [Next]_vars => RowsExist'
  BY RowsStay
<1> QED BY <1>1, <1>2, TypeCorrect, SessionsAreCalled, PTL DEF Spec

-----------------------------------------------------------------------------
(* The calendar *)

LEMMA CalendarHolds ==
  /\ Calendar = [a \in Appts |-> Held(appt[a])]
  /\ Calendar' = [a \in Appts |-> Held(appt'[a])]
  BY DEF Calendar, Held, Booked

LEMMA AwaitedHolds ==
  /\ Awaited = [s \in Sessions |-> SeriesOf(ses[s])]
  /\ Awaited' = [s \in Sessions |-> SeriesOf(ses'[s])]
  BY DEF Awaited, SeriesOf, Held, Booked

LEMMA HeldIsAnInterval ==
  ASSUME NEW row \in Row, Booked(row)
  PROVE  Held(row) \in Promise!Interval /\ Promise!Holds(Held(row)) /\ Held(row).barber = row.barber
<1>1. row.barber \in Barbers /\ row.start \in 0..MaxSlot /\ row.dur \in Durations /\ row.dur # 0
  BY InstanceAssumption DEF Row, Slots
<1>2. Held(row) = [barber |-> row.barber, start |-> row.start, dur |-> row.dur]
  BY DEF Held, Booked
<1>3. Held(row) \in Promise!Interval /\ Held(row).barber = row.barber /\ Held(row).dur # 0
  BY <1>1, <1>2 DEF Promise!Interval
<1>4. Promise!Free.dur = 0 /\ Promise!Over.dur = 0
  BY DEF Promise!Free, Promise!Over
<1>5. Held(row) \notin {Promise!Free, Promise!Over}
  BY <1>3, <1>4
<1> QED
  BY <1>3, <1>5 DEF Promise!Holds

\* A row that is not booked holds nothing, and tells whether it is in the table.
LEMMA HeldIsNothing ==
  ASSUME NEW row \in Row, ~Booked(row)
  PROVE  /\ Held(row) = IF row.status = "absent" THEN Promise!Free ELSE Promise!Over
         /\ ~Promise!Holds(Held(row))
  BY DEF Held, Booked, Promise!Free, Promise!Over, Promise!Holds

LEMMA ConstraintIsDisjoint ==
  ASSUME NEW table \in [Appts -> Row], ExclusionConstraint(table)
  PROVE  Promise!Disjoint([a \in Appts |-> Held(table[a])])
<1> DEFINE c == [a \in Appts |-> Held(table[a])]
<1> SUFFICES ASSUME NEW a \in Appts, NEW b \in Appts, a # b, Promise!Holds(c[a]), Promise!Holds(c[b])
             PROVE  ~Promise!Clash(c[a], c[b])
  BY DEF Promise!Disjoint
<1>1. Booked(table[a]) /\ Booked(table[b])
  <2>1. c[a] = Held(table[a]) /\ c[b] = Held(table[b]) /\ table[a] \in Row /\ table[b] \in Row
    OBVIOUS
  <2> HIDE DEF c
  <2> QED BY <2>1, HeldIsNothing
<1>2. /\ c[a] = [barber |-> table[a].barber, start |-> table[a].start, dur |-> table[a].dur]
      /\ c[b] = [barber |-> table[b].barber, start |-> table[b].start, dur |-> table[b].dur]
  BY <1>1 DEF Held, Booked
<1>3. ~(table[b].barber = table[a].barber /\ Overlap(table[b], table[a]))
  BY <1>1 DEF ExclusionConstraint, Conflict
<1> QED
  BY <1>2, <1>3 DEF Promise!Clash, Overlap, Ends

LEMMA CalendarIsDisjoint ==
  ASSUME TypeOK, ExclusionConstraint(appt)
  PROVE  Promise!Disjoint(Calendar)
  BY ConstraintIsDisjoint, CalendarHolds DEF TypeOK

LEMMA IdleAwaitsNothing == SeriesOf(Idle) = Promise!Nothing
  BY DEF SeriesOf, Idle, Promise!Nothing

LEMMA SameCallSameSeries ==
  ASSUME NEW p \in Session, NEW q \in Session, SameCall(p, q)
  PROVE  SeriesOf(q) = SeriesOf(p)
<1>1. p.ids \subseteq Appts
  BY DEF Session
<1>2. \A a \in p.ids : Held(q.want[a]) = Held(p.want[a])
  BY <1>1 DEF SameCall, Held, Booked
<1> QED BY <1>1, <1>2 DEF SeriesOf, SameCall

\* What one session's step does to what is awaited.
LEMMA AwaitedAfter ==
  ASSUME NEW s \in Sessions, \A t \in Sessions \ {s} : ses'[t] = ses[t]
  PROVE  Awaited' = [Awaited EXCEPT ![s] = SeriesOf(ses'[s])]
  BY AwaitedHolds

\* A request for a series asks the calendar for it.
LEMMA RequestAsks ==
  ASSUME TypeOK, TypeOK', Called, ExclusionConstraint(appt), NEW s \in Sessions,
         ses[s].at = "idle", Requested(s)
  PROVE  [Promise!Next]_<<Calendar, Awaited>>
<1>1. ses[s] = Idle /\ CalledAs(ses'[s]) /\ ses'[s] \in Session
  BY DEF Called, CalledAs, Requested, TypeOK
<1>2. Awaited[s] = Promise!Nothing /\ Awaited' = [Awaited EXCEPT ![s] = SeriesOf(ses'[s])]
  BY <1>1, AwaitedHolds, AwaitedAfter, IdleAwaitsNothing DEF Requested
<1>3. Calendar' = Calendar
  BY CalendarHolds DEF Requested
<1> DEFINE q == ses'[s]
           ids == IF q.op = "createAppointments" THEN q.ids ELSE {}
<1>4. ids \subseteq Appts /\ \A a \in ids : q.want[a] \in Row
  BY <1>1 DEF Session
<1>5. SeriesOf(q) = [a \in ids |-> Held(q.want[a])]
  BY DEF SeriesOf
<1>6. CASE ids = {}
  <2>1. SeriesOf(q) = Promise!Nothing
    BY <1>5, <1>6 DEF Promise!Nothing
  <2>2. Awaited' = Awaited
    BY <1>2, <2>1, AwaitedHolds
  <2> QED BY <1>3, <2>2
<1>7. ASSUME NEW first \in ids
      PROVE  Promise!Next
  <2> DEFINE b == q.want[first].barber
  <2>1. \A a \in ids : q.want[a].barber = b /\ q.want[a].status \in {"booked", "completed"}
    BY <1>1, <1>7 DEF CalledAs
  <2> DEFINE own == {i \in Promise!Interval : i.barber = b} \cup {Promise!Over}
  <2>2. \A a \in ids : Held(q.want[a]) \in own
    <3> SUFFICES ASSUME NEW a \in ids
                 PROVE  Held(q.want[a]) \in own
      OBVIOUS
    <3>1. q.want[a] \in Row /\ q.want[a].barber = b /\ q.want[a].status \in {"booked", "completed"}
      BY <1>4, <2>1
    <3>2. CASE Booked(q.want[a])
      BY <3>1, <3>2, HeldIsAnInterval
    <3>3. CASE ~Booked(q.want[a])
      BY <3>1, <3>3, HeldIsNothing
    <3> QED BY <3>2, <3>3
  <2>3. b \in Barbers
    BY <1>4, <1>7 DEF Row
  <2>4. SeriesOf(q) \in [ids -> own]
    <3>1. [a \in ids |-> Held(q.want[a])] \in [ids -> own]
      <4> HIDE DEF own, q, ids
      <4> QED BY <2>2
    <3> HIDE DEF own, q, ids
    <3> QED BY <1>5, <3>1
  <2>5. ids \in (SUBSET Appts) \ {{}}
    <3> HIDE DEF q, ids
    <3> QED BY <1>4, <1>7
  <2>6. SeriesOf(q) \in Promise!Series
    <3> HIDE DEF q, ids, b
    <3> DEFINE sets == {[i -> {j \in Promise!Interval : j.barber = d} \cup {Promise!Over}] :
                           i \in (SUBSET Appts) \ {{}}, d \in Barbers}
    <3>1. [ids -> own] \in sets
      BY <2>3, <2>5
    <3>2. Promise!Series = UNION sets
      BY DEF Promise!Series
    <3> HIDE DEF sets, own
    <3> QED BY <2>4, <3>1, <3>2
  <2> HIDE DEF q, ids, b
  <2>7. Awaited'[s] = SeriesOf(q)
    BY <1>2, AwaitedHolds DEF q
  <2>8. Promise!Ask(s)
    BY <1>2, <1>3, <2>6, <2>7 DEF Promise!Ask, q
  <2> QED BY <1>3, <2>8, CalendarIsDisjoint DEF Promise!Next
<1> QED BY <1>6, <1>7

\* A statement that commits nothing keeps what the request waits for, or refuses it.
LEMMA QuietRefuses ==
  ASSUME TypeOK, TypeOK', ExclusionConstraint(appt), NEW s \in Sessions, Quiet(s)
  PROVE  [Promise!Next]_<<Calendar, Awaited>>
<1>1. Calendar' = Calendar /\ Awaited' = [Awaited EXCEPT ![s] = SeriesOf(ses'[s])]
  BY CalendarHolds, AwaitedAfter DEF Quiet
<1>2. CASE ses'[s] = Idle
  <2>1. Promise!Refuse(s)
    BY <1>1, <1>2, IdleAwaitsNothing DEF Promise!Refuse
  <2> QED BY <1>1, <2>1, CalendarIsDisjoint DEF Promise!Next
<1>3. CASE SameCall(ses[s], ses'[s])
  <2>1. SeriesOf(ses'[s]) = SeriesOf(ses[s])
    BY <1>3, SameCallSameSeries DEF TypeOK
  <2>2. Awaited' = Awaited
    BY <1>1, <2>1, AwaitedHolds
  <2> QED BY <1>1, <2>2
<1> QED BY <1>2, <1>3 DEF Quiet

\* The commit of a series books all of it, as it was asked for.
LEMMA InsertBooks ==
  ASSUME TypeOK, TypeOK', Called, NEW s \in Sessions, Insert(s)
  PROVE  [Promise!Next]_<<Calendar, Awaited>>
<1> DEFINE ids == ses[s].ids
<1>1. /\ ids \subseteq Appts /\ ses[s].op = "createAppointments" /\ ses[s].want \in [Appts -> Row]
      /\ ses'[s] = Idle /\ \A t \in Sessions \ {s} : ses'[t] = ses[t]
  BY CommitWritesItsOwnRows DEF TypeOK, Session, Insert
<1>2. Awaited[s] = [a \in ids |-> Held(ses[s].want[a])]
  BY <1>1, AwaitedHolds DEF SeriesOf
<1>3. Awaited' = [Awaited EXCEPT ![s] = Promise!Nothing]
  BY <1>1, AwaitedAfter, IdleAwaitsNothing
<1>4. \A a \in ids : Calendar[a] = Promise!Free
  <2>1. \A a \in ids : a \in Appts /\ appt[a] \in Row /\ appt[a].status = "absent"
    BY <1>1, InsertWrites DEF TypeOK
  <2> QED BY <2>1, CalendarHolds, HeldIsNothing DEF Booked
<1>5. Calendar' = [a \in Appts |-> IF a \in ids THEN Awaited[s][a] ELSE Calendar[a]]
  BY <1>2, InsertWrites, CalendarHolds
<1>6. Promise!Disjoint(Calendar')
  <2>1. ExclusionConstraint(appt') /\ appt' \in [Appts -> Row]
    BY DEF Insert, Commit, TypeOK
  <2> QED BY <2>1, ConstraintIsDisjoint, CalendarHolds
<1>7. CASE ids = {}
  <2>1. Calendar' = Calendar
    BY <1>5, <1>7, CalendarHolds
  <2>2. Awaited[s] = Promise!Nothing
    BY <1>2, <1>7 DEF Promise!Nothing
  <2>3. Awaited' = Awaited
    BY <1>3, <2>2, AwaitedHolds
  <2> QED BY <2>1, <2>3
<1>8. CASE ids # {}
  <2>1. DOMAIN Awaited[s] = ids
    BY <1>2
  <2>2. Awaited[s] # Promise!Nothing
    <3>1. DOMAIN Promise!Nothing = {}
      BY DEF Promise!Nothing
    <3> QED BY <1>8, <2>1, <3>1
  <2> HIDE DEF ids
  <2>3. Promise!Book(s)
    BY <1>3, <1>4, <1>5, <2>1, <2>2 DEF Promise!Book
  <2> QED BY <1>6, <2>3 DEF Promise!Next
<1> QED BY <1>7, <1>8

\* An update moves, ends or restores one booking.
LEMMA UpdateMoves ==
  ASSUME TypeOK, TypeOK', Called, RowsExist, NEW s \in Sessions, NEW a \in Appts, Update(s, a)
  PROVE  [Promise!Next]_<<Calendar, Awaited>>
<1>1. /\ ses[s].op \in UpdateOps /\ ses[s].ids = {a} /\ ses'[s] = Idle
      /\ \A t \in Sessions \ {s} : ses'[t] = ses[t]
  BY CommitWritesItsOwnRows DEF Update
<1>2. Awaited' = Awaited
  <2>1. SeriesOf(ses[s]) = Promise!Nothing
    BY <1>1 DEF SeriesOf, UpdateOps, Promise!Nothing
  <2> QED BY <1>1, <2>1, AwaitedAfter, AwaitedHolds, IdleAwaitsNothing
<1>3. Calendar' = [Calendar EXCEPT ![a] = Held(appt'[a])]
  BY UpdateWrites, CalendarHolds
<1>4. Promise!Disjoint(Calendar')
  <2>1. ExclusionConstraint(appt') /\ appt' \in [Appts -> Row]
    BY DEF Update, Commit, TypeOK
  <2> QED BY <2>1, ConstraintIsDisjoint, CalendarHolds
<1>5. appt'[a] \in Row /\ appt[a] \in Row /\ Calendar[a] = Held(appt[a])
  BY CalendarHolds DEF TypeOK
<1>6. appt[a].status # "absent" /\ appt'[a].status # "absent"
  BY <1>1, CommitsWriteRows DEF RowsExist
<1>7. CASE Booked(appt[a]) /\ Booked(appt'[a])
  <2>1. Promise!Move(a)
    BY <1>2, <1>3, <1>5, <1>7, HeldIsAnInterval DEF Promise!Move
  <2> QED BY <1>4, <2>1 DEF Promise!Next
<1>8. CASE Booked(appt[a]) /\ ~Booked(appt'[a])
  <2>1. Promise!End(a)
    BY <1>2, <1>3, <1>5, <1>6, <1>8, HeldIsAnInterval, HeldIsNothing DEF Promise!End
  <2> QED BY <1>4, <2>1 DEF Promise!Next
<1>9. CASE ~Booked(appt[a]) /\ Booked(appt'[a])
  <2>1. Promise!Restore(a)
    BY <1>2, <1>3, <1>5, <1>6, <1>9, HeldIsAnInterval, HeldIsNothing DEF Promise!Restore
  <2> QED BY <1>4, <2>1 DEF Promise!Next
<1>10. CASE ~Booked(appt[a]) /\ ~Booked(appt'[a])
  <2>1. Held(appt'[a]) = Calendar[a]
    BY <1>5, <1>6, <1>10, HeldIsNothing
  <2>2. Calendar' = Calendar
    BY <1>3, <2>1, CalendarHolds
  <2> QED BY <1>2, <2>2
<1> QED BY <1>7, <1>8, <1>9, <1>10

\* The transactions implement the calendar: whatever requests race and wherever they
\* are interrupted, a commit books the whole of the series its request asked for, as it
\* was asked, into free time of one barber; or it moves, ends or restores one booking;
\* or it leaves the calendar alone.
THEOREM BookingImplementsTheCalendar == Spec => BookingIsACalendar
<1>1. Init => Promise!Init
  <2>1. Init => \A a \in Appts : Held(appt[a]) = Promise!Free
    BY DEF Init, NoRow, Held, Booked, Promise!Free
  <2>2. Init => \A s \in Sessions : SeriesOf(ses[s]) = Promise!Nothing
    BY IdleAwaitsNothing DEF Init
  <2> QED BY <2>1, <2>2, CalendarHolds, AwaitedHolds DEF Promise!Init
<1>2. /\ TypeOK /\ TypeOK' /\ Called /\ RowsExist /\ ExclusionConstraint(appt) /\ [Next]_vars
      => [Promise!Next]_<<Calendar, Awaited>>
  <2> SUFFICES ASSUME TypeOK, TypeOK', Called, RowsExist, ExclusionConstraint(appt), [Next]_vars
               PROVE  [Promise!Next]_<<Calendar, Awaited>>
    OBVIOUS
  <2>1. CASE UNCHANGED <<appt, events, ses>>
    BY <2>1, CalendarHolds, AwaitedHolds
  <2> QED
    BY <2>1, EveryStep, RequestAsks, QuietRefuses, InsertBooks, UpdateMoves
<1> QED
  BY <1>1, <1>2, TypeCorrect, SessionsAreCalled, RowsAlwaysExist, ConstraintAlwaysHolds, PTL
     DEF Spec, BookingIsACalendar, Promise!Spec

-----------------------------------------------------------------------------
\* What the locks of the transactions are worth, for the handlers that lock the
\* appointment they change: what a transaction has read and checked under its
\* locks is still so when it commits.


\* Every handler but the status update, which takes no lock of the appointment
\* (updateAppointmentStatus and updateAppointmentStatusIfCurrent).
LockingHandlers == EventsEnabled /\ Requests \cap {"status", "statusIfCurrent"} = {}

\* The statements that follow the read of the current row.
Transacting == {"location", "assignment", "days", "check", "write"}

\* Candidate, of what a session holds.
CandidateOf(q, a) ==
    IF q.op = "createAppointments" THEN q.want[a] ELSE Patched(q.cur, q.want[a], q.set)

\* lockAndValidateAppointmentScopes is called: the result takes a place it did not have.
NeedsPlace(q, a) ==
    \/ q.op = "createAppointments"
    \/ /\ Protects(q.op, q.cur, CandidateOf(q, a))
       /\ Introduces(q.op, q.cur, CandidateOf(q, a))
DayOf(row) == DayLock(row.barber, Day(row.start))

\* PlaceRow, of what a session holds.
PlaceOf(q) == IF q.op = "updateLocation" THEN LocationRow(q.place[2])
              ELSE AssignmentRow(q.place[1], q.place[2])

\* The statements each operation goes through.
InOrder(q) ==
    /\ q.at # "revision"
    /\ q.op = "none" <=> q.at = "idle"
    /\ q.op \in PlaceOps => q.at \in {"place", "check", "write"}
    /\ q.op = "createAppointments" => q.at \in Transacting
    /\ q.op \in UpdateOps => q.at \in {"lock", "read"} \cup Transacting

\* The locks a session holds at each statement: x exclusively, h to share.
HoldsLocks(q, x, h) ==
    /\ q.op \in UpdateOps /\ q.at # "lock" => \A a \in q.ids : AppointmentLock(a) \in x
    /\ q.op \notin PlaceOps /\ q.at \in {"location", "assignment", "days"} =>
          \A a \in q.ids : Day(CandidateOf(q, a).start) \in q.days \/ DayOf(CandidateOf(q, a)) \in x
    /\ q.op \notin PlaceOps /\ q.at \in {"check", "write"} =>
          \A a \in q.ids : Booked(CandidateOf(q, a)) => DayOf(CandidateOf(q, a)) \in x
    /\ q.op \notin PlaceOps /\ q.at \in {"assignment", "days", "check", "write"} =>
          \A a \in q.ids : NeedsPlace(q, a) =>
              /\ LocationRow(CandidateOf(q, a).loc) \in h
              /\ q.at # "assignment" => AssignmentRow(CandidateOf(q, a).barber, CandidateOf(q, a).loc) \in h
    /\ q.op \in PlaceOps /\ q.at # "place" => PlaceOf(q) \in x
InPlace(row, opened, staffed) == opened[row.loc] /\ staffed[<<row.barber, row.loc>>]

\* What a session has read and checked is still so.
KnowsTables(q, table, opened, staffed, n) ==
    /\ q.op \in UpdateOps /\ q.at \in Transacting => \A a \in q.ids : q.cur = table[a]
    /\ q.op \notin PlaceOps /\ q.at \in {"assignment", "days", "check", "write"} =>
          \A a \in q.ids : NeedsPlace(q, a) =>
              /\ opened[CandidateOf(q, a).loc]
              /\ q.at # "assignment" => InPlace(CandidateOf(q, a), opened, staffed)
    /\ q.op \notin PlaceOps /\ q.at = "write" =>
          \A a \in q.ids, b \in Appts \ q.ids :
              /\ Booked(CandidateOf(q, a)) /\ Booked(table[b])
              /\ table[b].barber = CandidateOf(q, a).barber /\ Overlap(table[b], CandidateOf(q, a))
              => Day(table[b].start) # Day(CandidateOf(q, a).start)
    /\ q.op \in PlaceOps /\ q.at = "write" /\ ~q.up =>
          \A b \in Appts :
              Booked(table[b]) /\ table[b].start >= n /\ table[b].loc = q.place[2] =>
                  q.op # "updateLocation" /\ table[b].barber # q.place[1]

\* No lock of a session is exclusively another's.
LocksExclude ==
    \A s, t \in Sessions : s # t => exclusive[s] \cap (exclusive[t] \cup shared[t]) = {}

\* The inductive invariant: what the locks protect stays as it was read.
Guarded ==
    /\ \A s \in Sessions :
          /\ InOrder(ses[s])
          /\ HoldsLocks(ses[s], exclusive[s], shared[s])
          /\ KnowsTables(ses[s], appt, open, assigned, now)
    /\ LocksExclude
    /\ FutureBookingsHavePlace

-----------------------------------------------------------------------------
LEMMA CandidateIsCandidateOf ==
  ASSUME NEW s, NEW a
  PROVE  Candidate(s, a) = CandidateOf(ses[s], a)
  BY DEF Candidate, CandidateOf

LEMMA PlaceRowIsPlaceOf ==
  ASSUME NEW s
  PROVE  PlaceRow(s) = PlaceOf(ses[s])
  BY DEF PlaceRow, PlaceOf

LEMMA CandidateOfIsARow ==
  ASSUME NEW q \in Session, NEW a \in Appts
  PROVE  CandidateOf(q, a) \in Row
<1>1. q.cur \in Row /\ q.want[a] \in Row
  BY DEF Session
<1> QED BY <1>1, PatchedIsARow DEF CandidateOf

\* Sessions that are idle, or only about to start, hold and know nothing.
LEMMA IdleIsGuarded ==
  ASSUME NEW x, NEW h, NEW table, NEW opened, NEW staffed, NEW n
  PROVE  InOrder(Idle) /\ HoldsLocks(Idle, x, h) /\ KnowsTables(Idle, table, opened, staffed, n)
<1>1. Idle.op = "none" /\ Idle.at = "idle"
  BY DEF Idle
<1> HIDE DEF Idle
<1> QED
  BY <1>1 DEF InOrder, HoldsLocks, KnowsTables, UpdateOps, PlaceOps, Transacting

-----------------------------------------------------------------------------
(* Requests *)

\* Where a request starts: it has read the tables, but holds and knows nothing of them.
Starts(s) ==
    /\ UNCHANGED <<appt, open, assigned, now, exclusive, shared>>
    /\ \A t \in Sessions \ {s} : ses'[t] = ses[t]
    /\ \/ ses'[s].op \in UpdateOps /\ ses'[s].at = "lock"
       \/ ses'[s].op \in PlaceOps /\ ses'[s].at = "place"
       \/ /\ ses'[s].op = "createAppointments" /\ ses'[s].at = "location"
          /\ \A a \in ses'[s].ids : Day(ses'[s].want[a].start) \in ses'[s].days

LEMMA CallStarts ==
  ASSUME TypeOK, NEW s \in Sessions, NEW a, NEW want, NEW set, NEW expect,
         NEW op \in {"updateAppointmentWithNotification", "rescheduleAppointment", "cancelAppointment"},
         Call(s, op, a, want, set, expect)
  PROVE  Starts(s)
<1> DEFINE q == [Idle EXCEPT !.op = op, !.at = FirstStep(op, set), !.ids = {a},
                             !.want = [Idle.want EXCEPT ![a] = Patched(NoRow, want, set)],
                             !.set = set, !.expect = expect,
                             !.token = IF op = "rescheduleAppointment" THEN want.resched ELSE 0]
<1>1. ses' = [ses EXCEPT ![s] = q]
  BY DEF Call
<1>2. ses'[s] = q /\ \A t \in Sessions \ {s} : ses'[t] = ses[t]
  BY <1>1 DEF TypeOK
<1>3. q.op = op /\ q.at = FirstStep(op, set)
  BY DEF Idle
<1> HIDE DEF q
<1>4. FirstStep(op, set) = "lock"
  BY DEF FirstStep, PlaceOps
<1>5. op \in UpdateOps
  BY DEF UpdateOps
<1> QED
  BY <1>2, <1>3, <1>4, <1>5 DEF Call, Starts

LEMMA RequestCreateStarts ==
  ASSUME TypeOK, NEW s \in Sessions, RequestCreate(s)
  PROVE  Starts(s)
<1>1. PICK starts \in SUBSET Slots, b \in Barbers, l \in Locations, d \in Durations,
           st \in {"booked", "completed"}, rev \in {0, 1}, ids \in SUBSET Unused :
        /\ Insertable(starts, b, l, d, st, ids)
        /\ st = "completed" \/ ~EventsEnabled => rev = 0
        /\ \E want \in Batches(starts, b, l, d, st, rev, ids) :
            ses' = [ses EXCEPT ![s] = Insertion(ids, want, starts)]
  BY DEF RequestCreate
<1>2. PICK want \in Batches(starts, b, l, d, st, rev, ids) :
            ses' = [ses EXCEPT ![s] = Insertion(ids, want, starts)]
  BY <1>1
<1> DEFINE q == Insertion(ids, want, starts)
<1>3. ids \subseteq Appts
  BY DEF Unused
<1>4. /\ q.op = "createAppointments" /\ q.at = "location" /\ q.ids = ids
      /\ q.days = {Day(t) : t \in starts} /\ \A a \in ids : q.want[a] = want[a]
  BY <1>3 DEF Insertion, Idle
<1>5. \A a \in ids : \E t \in starts : want[a].start = t
  BY DEF Batches, NewRow
<1>6. ses'[s] = q /\ \A t \in Sessions \ {s} : ses'[t] = ses[t]
  BY <1>2 DEF TypeOK
<1> HIDE DEF q
<1>7. \A a \in q.ids : Day(q.want[a].start) \in q.days
  BY <1>4, <1>5
<1> QED
  BY <1>4, <1>6, <1>7 DEF Starts, RequestCreate

LEMMA RequestsStart ==
  ASSUME LockingHandlers, TypeOK, NEW s \in Sessions, Request(s)
  PROVE  Starts(s)
<1>1. CASE RequestCreate(s)
  BY <1>1, RequestCreateStarts
<1>2. CASE RequestPatch(s)
  <2>1. \E a, want, set : Call(s, "updateAppointmentWithNotification", a, want, set, "any")
    BY <1>2 DEF RequestPatch
  <2> QED BY <2>1, CallStarts
<1>3. ~RequestStatus(s)
  BY DEF RequestStatus, LockingHandlers, Calling
<1>4. CASE RequestMoveByToken(s)
  <2>1. \E a, want, set : Call(s, "rescheduleAppointment", a, want, set, "booked")
    BY <1>4 DEF RequestMoveByToken, LockingHandlers
  <2> QED BY <2>1, CallStarts
<1>5. CASE RequestCancelByToken(s)
  <2>1. \E a, want, set : Call(s, "cancelAppointment", a, want, set, "booked")
    BY <1>5 DEF RequestCancelByToken, LockingHandlers
  <2> QED BY <2>1, CallStarts
<1>6. CASE RequestPlace(s)
  <2>1. PICK place \in Barbers \X Locations, op \in PlaceOps, up \in BOOLEAN : CallPlace(s, op, place, up)
    BY <1>6 DEF RequestPlace, PlaceOps
  <2> DEFINE q == [Idle EXCEPT !.op = op, !.at = "place", !.place = place, !.up = up]
  <2>2. ses'[s] = q /\ \A t \in Sessions \ {s} : ses'[t] = ses[t]
    BY <2>1 DEF CallPlace, TypeOK
  <2>3. q.op = op /\ q.at = "place"
    BY DEF Idle
  <2> HIDE DEF q
  <2> QED BY <2>1, <2>2, <2>3 DEF CallPlace, Starts
<1> QED
  BY <1>1, <1>2, <1>3, <1>4, <1>5, <1>6 DEF Request

LEMMA StartsIsGuarded ==
  ASSUME Guarded, NEW s \in Sessions, Starts(s)
  PROVE  Guarded'
<1>1. InOrder(ses'[s])
  BY DEF Starts, InOrder, UpdateOps, PlaceOps, Transacting
<1>2. HoldsLocks(ses'[s], exclusive'[s], shared'[s])
  BY DEF Starts, HoldsLocks, UpdateOps, PlaceOps, CandidateOf
<1>3. KnowsTables(ses'[s], appt', open', assigned', now')
  BY DEF Starts, KnowsTables, UpdateOps, PlaceOps, Transacting
<1>4. ASSUME NEW t \in Sessions
      PROVE  /\ InOrder(ses'[t])
             /\ HoldsLocks(ses'[t], exclusive'[t], shared'[t])
             /\ KnowsTables(ses'[t], appt', open', assigned', now')
  BY <1>1, <1>2, <1>3 DEF Guarded, Starts
<1>5. LocksExclude' /\ FutureBookingsHavePlace'
  BY DEF Guarded, LocksExclude, FutureBookingsHavePlace, Starts
<1> QED BY <1>4, <1>5 DEF Guarded

-----------------------------------------------------------------------------
(* Statements that change no table *)

\* A step of one session that leaves the tables and the other sessions alone.
LEMMA OwnStepIsGuarded ==
  ASSUME Guarded, NEW s \in Sessions, UNCHANGED <<appt, open, assigned, now>>,
         \A t \in Sessions \ {s} :
            ses'[t] = ses[t] /\ exclusive'[t] = exclusive[t] /\ shared'[t] = shared[t],
         InOrder(ses'[s]),
         HoldsLocks(ses'[s], exclusive'[s], shared'[s]),
         KnowsTables(ses'[s], appt, open, assigned, now),
         \A t \in Sessions \ {s} :
            /\ exclusive'[s] \cap (exclusive[t] \cup shared[t]) = {}
            /\ exclusive[t] \cap shared'[s] = {}
  PROVE  Guarded'
<1>1. ASSUME NEW t \in Sessions
      PROVE  /\ InOrder(ses'[t])
             /\ HoldsLocks(ses'[t], exclusive'[t], shared'[t])
             /\ KnowsTables(ses'[t], appt', open', assigned', now')
  BY DEF Guarded
<1>2. LocksExclude'
  <2> SUFFICES ASSUME NEW t \in Sessions, NEW u \in Sessions, t # u
               PROVE  exclusive'[t] \cap (exclusive'[u] \cup shared'[u]) = {}
    BY DEF LocksExclude
  <2>1. exclusive[t] \cap (exclusive[u] \cup shared[u]) = {}
    BY DEF Guarded, LocksExclude
  <2>2. CASE t = s
    BY <2>2
  <2>3. CASE u = s
    BY <2>3
  <2>4. CASE t # s /\ u # s
    BY <2>1, <2>4
  <2> QED BY <2>2, <2>3, <2>4
<1>3. FutureBookingsHavePlace'
  BY DEF Guarded, FutureBookingsHavePlace
<1> QED BY <1>1, <1>2, <1>3 DEF Guarded

LEMMA FinishIsGuarded ==
  ASSUME TypeOK, Guarded, NEW s \in Sessions, Finish(s)
  PROVE  Guarded'
<1>1. /\ ses'[s] = Idle /\ exclusive'[s] = {} /\ shared'[s] = {}
      /\ \A t \in Sessions \ {s} :
            ses'[t] = ses[t] /\ exclusive'[t] = exclusive[t] /\ shared'[t] = shared[t]
  BY DEF Finish, TypeOK
<1>2. UNCHANGED <<appt, open, assigned, now>>
  BY DEF Finish
<1>3. /\ InOrder(ses'[s]) /\ HoldsLocks(ses'[s], exclusive'[s], shared'[s])
      /\ KnowsTables(ses'[s], appt, open, assigned, now)
  BY <1>1, IdleIsGuarded
<1> HIDE DEF Idle
<1> QED BY <1>1, <1>2, <1>3, OwnStepIsGuarded

\* Everything a session remembers but the statement it is at and its day locks.
SameWork(p, q) ==
    /\ q.op = p.op /\ q.ids = p.ids /\ q.want = p.want /\ q.set = p.set
    /\ q.cur = p.cur /\ q.place = p.place /\ q.up = p.up

LEMMA SameWorkSameCandidate ==
  ASSUME NEW p, NEW q, SameWork(p, q)
  PROVE  /\ PlaceOf(q) = PlaceOf(p)
         /\ \A a : CandidateOf(q, a) = CandidateOf(p, a) /\ NeedsPlace(q, a) = NeedsPlace(p, a)
  BY DEF SameWork, CandidateOf, NeedsPlace, PlaceOf

LEMMA GoToOnlyMoves ==
  ASSUME TypeOK, NEW s \in Sessions, NEW step, GoTo(s, step)
  PROVE  /\ ses'[s].at = step /\ ses'[s].days = ses[s].days /\ SameWork(ses[s], ses'[s])
         /\ \A t \in Sessions \ {s} : ses'[t] = ses[t]
<1>1. ses' = [ses EXCEPT ![s].at = step] /\ ses[s] \in Session
  BY DEF GoTo, TypeOK
<1> QED BY <1>1 DEF TypeOK, SameWork, Session

LEMMA OpsAreOfAKind ==
  ASSUME NEW q \in Session
  PROVE  q.op \in UpdateOps \cup PlaceOps \cup {"createAppointments", "none"}
  BY DEF Session, Ops, UpdateOps, PlaceOps

\* Holding one more lock that nobody else holds.
LEMMA TakingIsExclusive ==
  ASSUME TypeOK, Guarded, NEW s \in Sessions, NEW r, CanTake(s, r),
         exclusive' = [exclusive EXCEPT ![s] = @ \cup {r}]
  PROVE  /\ exclusive'[s] = exclusive[s] \cup {r}
         /\ \A t \in Sessions \ {s} :
              /\ exclusive'[t] = exclusive[t]
              /\ exclusive'[s] \cap (exclusive[t] \cup shared[t]) = {}
              /\ exclusive[t] \cap shared[s] = {}
<1>1. exclusive'[s] = exclusive[s] \cup {r}
      /\ \A t \in Sessions \ {s} : exclusive'[t] = exclusive[t]
  BY DEF TypeOK
<1>2. \A t \in Sessions \ {s} : /\ exclusive[s] \cap (exclusive[t] \cup shared[t]) = {}
                                /\ exclusive[t] \cap (exclusive[s] \cup shared[s]) = {}
                                /\ r \notin exclusive[t] \cup shared[t]
  BY DEF Guarded, LocksExclude, CanTake
<1> QED BY <1>1, <1>2

LEMMA SharingExcludesNobody ==
  ASSUME TypeOK, Guarded, NEW s \in Sessions, NEW r, CanShare(s, r),
         shared' = [shared EXCEPT ![s] = @ \cup {r}]
  PROVE  /\ shared'[s] = shared[s] \cup {r}
         /\ \A t \in Sessions \ {s} :
              /\ shared'[t] = shared[t]
              /\ exclusive[s] \cap (exclusive[t] \cup shared[t]) = {}
              /\ exclusive[t] \cap shared'[s] = {}
<1>1. shared'[s] = shared[s] \cup {r}
      /\ \A t \in Sessions \ {s} : shared'[t] = shared[t]
  BY DEF TypeOK
<1>2. \A t \in Sessions \ {s} : /\ exclusive[s] \cap (exclusive[t] \cup shared[t]) = {}
                                /\ exclusive[t] \cap (exclusive[s] \cup shared[s]) = {}
                                /\ r \notin exclusive[t]
  BY DEF Guarded, LocksExclude, CanShare
<1> QED BY <1>1, <1>2

LEMMA KeepingExcludesNobody ==
  ASSUME Guarded, NEW s \in Sessions
  PROVE  \A t \in Sessions \ {s} : /\ exclusive[s] \cap (exclusive[t] \cup shared[t]) = {}
                                   /\ exclusive[t] \cap shared[s] = {}
<1>1. \A t \in Sessions \ {s} : /\ exclusive[s] \cap (exclusive[t] \cup shared[t]) = {}
                                /\ exclusive[t] \cap (exclusive[s] \cup shared[s]) = {}
  BY DEF Guarded, LocksExclude
<1> QED BY <1>1

LEMMA ReadRevisionIsNotReached ==
  ASSUME Guarded, NEW s \in Sessions
  PROVE  ~ReadRevision(s)
  BY DEF Guarded, InOrder, ReadRevision

LEMMA LockAppointmentIsGuarded ==
  ASSUME TypeOK, Called, Guarded, NEW s \in Sessions, LockAppointment(s)
  PROVE  Guarded'
<1>1. PICK a \in ses[s].ids :
        /\ CanTake(s, AppointmentLock(a))
        /\ exclusive' = [exclusive EXCEPT ![s] = @ \cup {AppointmentLock(a)}]
  BY DEF LockAppointment
<1>2. /\ exclusive'[s] = exclusive[s] \cup {AppointmentLock(a)}
      /\ \A t \in Sessions \ {s} :
            /\ exclusive'[t] = exclusive[t]
            /\ exclusive'[s] \cap (exclusive[t] \cup shared[t]) = {}
            /\ exclusive[t] \cap shared[s] = {}
  BY <1>1, TakingIsExclusive
<1>3. /\ ses[s].at = "lock" /\ ses'[s].at = "read" /\ SameWork(ses[s], ses'[s])
      /\ \A t \in Sessions \ {s} : ses'[t] = ses[t]
  BY GoToOnlyMoves DEF LockAppointment
<1>4. ses[s].op \in UpdateOps
  BY <1>3, OpsAreOfAKind DEF Guarded, InOrder, TypeOK, Transacting
<1>5. ses[s].ids = {a} /\ ses'[s].ids = {a} /\ ses'[s].op \in UpdateOps
  BY <1>1, <1>3, <1>4 DEF Called, CalledAs, SameWork
<1>6. ses'[s].op \notin PlaceOps /\ ses'[s].op # "createAppointments" /\ ses'[s].op # "none"
  BY <1>5 DEF UpdateOps, PlaceOps
<1>7. InOrder(ses'[s])
  BY <1>3, <1>6 DEF InOrder
<1>8. HoldsLocks(ses'[s], exclusive'[s], shared'[s])
  BY <1>2, <1>3, <1>5, <1>6 DEF HoldsLocks
<1>9. KnowsTables(ses'[s], appt, open, assigned, now)
  BY <1>3, <1>6 DEF KnowsTables, Transacting
<1>10. UNCHANGED <<appt, open, assigned, now, shared>>
  BY DEF LockAppointment, tables
<1> QED
  BY <1>2, <1>3, <1>7, <1>8, <1>9, <1>10, OwnStepIsGuarded

\* The result of an update holds a slot exactly if it is protected.
LEMMA TheBookedAreProtected ==
  ASSUME LockingHandlers, NEW q \in Session, CalledAs(q), q.op \in UpdateOps,
         NEW a \in Appts, q.ids = {a}, NEW row \in Row
  PROVE  LET cand == Patched(row, q.want[a], q.set)
         IN  Protects(q.op, row, cand) <=> Booked(cand)
<1> DEFINE cand == Patched(row, q.want[a], q.set)
<1>1. q.want[a] \in Row
  BY DEF Session
<1>2. q.op \in {"updateAppointmentWithNotification", "rescheduleAppointment", "cancelAppointment"}
  BY DEF CalledAs, UpdateOps, LockingHandlers
<1>3. q.op = "cancelAppointment" => ~Booked(cand)
  <2>1. q.op = "cancelAppointment" => cand.status = q.want[a].status /\ q.want[a].status \in Cancelled
    BY <1>1, PatchedFields DEF CalledAs
  <2> QED BY <2>1 DEF Booked, Cancelled
<1> HIDE DEF cand
<1>4. Protects(q.op, row, cand) <=> Booked(cand)
  BY <1>2, <1>3 DEF Protects
<1> QED BY <1>4 DEF cand

LEMMA ReadCurrentIsGuarded ==
  ASSUME LockingHandlers, TypeOK, Called, Guarded, NEW s \in Sessions, ReadCurrent(s)
  PROVE  Guarded'
<1>1. PICK a \in ses[s].ids :
        LET row == appt[a]
            op == ses[s].op
            cand == Patched(row, ses[s].want[a], ses[s].set)
        IN  IF \/ ~Matches(s, row)
               \/ op = "updateAppointmentWithNotification" /\ cand = row
            THEN Finish(s)
            ELSE /\ ses' = [ses EXCEPT ![s].cur = row,
                                       ![s].days = {Day(cand.start)},
                                       ![s].at = IF ~Protects(op, row, cand) THEN "write"
                                                 ELSE IF Introduces(op, row, cand) THEN "location"
                                                 ELSE "days"]
                 /\ UNCHANGED <<tables, now, exclusive, shared>>
  BY DEF ReadCurrent
<1> DEFINE cand == Patched(appt[a], ses[s].want[a], ses[s].set)
           step == IF ~Protects(ses[s].op, appt[a], cand) THEN "write"
                   ELSE IF Introduces(ses[s].op, appt[a], cand) THEN "location" ELSE "days"
           q == [ses[s] EXCEPT !.cur = appt[a], !.days = {Day(cand.start)}, !.at = step]
<1>2. ses[s] \in Session /\ a \in Appts /\ appt[a] \in Row /\ ses[s].at = "read"
  BY DEF TypeOK, Session, ReadCurrent
<1>3. CASE Finish(s)
  BY <1>3, FinishIsGuarded
<1>4. CASE ses' = [ses EXCEPT ![s] = q] /\ UNCHANGED <<tables, now, exclusive, shared>>
  <2>1. ses'[s] = q /\ \A t \in Sessions \ {s} : ses'[t] = ses[t]
    BY <1>4 DEF TypeOK
  <2>2. /\ q.cur = appt[a] /\ q.days = {Day(cand.start)} /\ q.at = step
        /\ q.op = ses[s].op /\ q.ids = ses[s].ids /\ q.want = ses[s].want /\ q.set = ses[s].set
    BY <1>2 DEF Session
  <2>3. ses[s].op \in UpdateOps
    BY <1>2, OpsAreOfAKind DEF Guarded, InOrder, Transacting
  <2>4. ses[s].ids = {a} /\ CalledAs(ses[s])
    BY <2>3 DEF Called, CalledAs
  <2>5. Protects(ses[s].op, appt[a], cand) <=> Booked(cand)
    BY <1>2, <2>3, <2>4, TheBookedAreProtected
  <2>6. ses[s].op \notin PlaceOps /\ ses[s].op # "createAppointments" /\ ses[s].op # "none"
    BY <2>3 DEF UpdateOps, PlaceOps
  <2> HIDE DEF q
  <2>7. CandidateOf(q, a) = cand
    BY <2>2, <2>6 DEF CandidateOf
  <2>8. NeedsPlace(q, a) <=> Protects(ses[s].op, appt[a], cand) /\ Introduces(ses[s].op, appt[a], cand)
    BY <2>2, <2>6, <2>7 DEF NeedsPlace
  <2> HIDE DEF cand
  <2>9. /\ step \in {"write", "location", "days"}
        /\ step = "write" => ~Booked(cand) /\ ~NeedsPlace(q, a)
        /\ step = "days" => ~NeedsPlace(q, a)
    BY <2>5, <2>8
  <2> HIDE DEF step
  <2>10. AppointmentLock(a) \in exclusive[s]
    BY <1>2, <2>3, <2>4 DEF Guarded, HoldsLocks
  <2>11. InOrder(q)
    BY <2>2, <2>3, <2>6, <2>9 DEF InOrder, Transacting
  <2>12. HoldsLocks(q, exclusive[s], shared[s])
    BY <2>2, <2>4, <2>6, <2>7, <2>9, <2>10 DEF HoldsLocks
  <2>13. KnowsTables(q, appt, open, assigned, now)
    BY <2>2, <2>4, <2>6, <2>7, <2>9 DEF KnowsTables
  <2>14. UNCHANGED <<appt, open, assigned, now, exclusive, shared>>
    BY <1>4 DEF tables
  <2> QED
    BY <2>1, <2>11, <2>12, <2>13, <2>14, KeepingExcludesNobody, OwnStepIsGuarded
<1>5. Finish(s) \/ (ses' = [ses EXCEPT ![s] = q] /\ UNCHANGED <<tables, now, exclusive, shared>>)
  BY <1>1 DEF TypeOK
<1> QED BY <1>3, <1>4, <1>5, SMTT(40)

\* A session that works on a booking is past the locks of the administration.
LEMMA WorksOnABooking ==
  ASSUME TypeOK, Guarded, NEW s \in Sessions,
         ses[s].at \in {"location", "assignment", "days"} \/
         (ses[s].at \in {"check", "write"} /\ ses[s].op \notin PlaceOps)
  PROVE  /\ ses[s].op \notin PlaceOps
         /\ ses[s].op = "createAppointments" \/ ses[s].op \in UpdateOps
         /\ ses[s].at \in Transacting /\ ses[s].op # "none"
<1>1. InOrder(ses[s]) /\ ses[s] \in Session
  BY DEF Guarded, TypeOK
<1>2. ses[s].op \notin PlaceOps /\ ses[s].op # "none"
  BY <1>1 DEF InOrder
<1> QED BY <1>1, <1>2, OpsAreOfAKind DEF Transacting

LEMMA LockLocationIsGuarded ==
  ASSUME TypeOK, Guarded, NEW s \in Sessions, LockLocation(s)
  PROVE  Guarded'
<1>1. PICK l \in Locations :
        /\ \A a \in ses[s].ids : Candidate(s, a).loc = l
        /\ CanShare(s, LocationRow(l))
        /\ IF ~open[l] THEN Finish(s)
           ELSE /\ shared' = [shared EXCEPT ![s] = @ \cup {LocationRow(l)}]
                /\ GoTo(s, "assignment")
                /\ UNCHANGED <<tables, now, exclusive>>
  BY DEF LockLocation
<1>2. CASE Finish(s)
  BY <1>2, FinishIsGuarded
<1>3. CASE /\ open[l]
           /\ shared' = [shared EXCEPT ![s] = @ \cup {LocationRow(l)}]
           /\ GoTo(s, "assignment")
           /\ UNCHANGED <<tables, now, exclusive>>
  <2>1. /\ shared'[s] = shared[s] \cup {LocationRow(l)}
        /\ \A t \in Sessions \ {s} :
              /\ shared'[t] = shared[t]
              /\ exclusive[s] \cap (exclusive[t] \cup shared[t]) = {}
              /\ exclusive[t] \cap shared'[s] = {}
    BY <1>1, <1>3, SharingExcludesNobody
  <2>2. /\ ses[s].at = "location" /\ ses'[s].at = "assignment" /\ SameWork(ses[s], ses'[s])
        /\ ses'[s].days = ses[s].days
        /\ \A t \in Sessions \ {s} : ses'[t] = ses[t]
    BY <1>3, GoToOnlyMoves DEF LockLocation
  <2>3. /\ ses[s].op \notin PlaceOps /\ ses[s].at \in Transacting /\ ses[s].op # "none"
    BY <2>2, WorksOnABooking
  <2>4. \A a \in ses[s].ids : CandidateOf(ses[s], a).loc = l
    BY <1>1, CandidateIsCandidateOf
  <2>5. \A a : /\ CandidateOf(ses'[s], a) = CandidateOf(ses[s], a)
               /\ NeedsPlace(ses'[s], a) = NeedsPlace(ses[s], a)
    BY <2>2, SameWorkSameCandidate
  <2>6. ses'[s].op = ses[s].op /\ ses'[s].ids = ses[s].ids /\ ses'[s].cur = ses[s].cur
    BY <2>2 DEF SameWork
  <2>7. InOrder(ses'[s])
    BY <2>2, <2>3, <2>6 DEF InOrder, Transacting
  <2>8. HoldsLocks(ses[s], exclusive[s], shared[s]) /\ KnowsTables(ses[s], appt, open, assigned, now)
    BY DEF Guarded
  <2>9. HoldsLocks(ses'[s], exclusive[s], shared'[s])
    BY <2>1, <2>2, <2>3, <2>4, <2>5, <2>6, <2>8 DEF HoldsLocks
  <2>10. KnowsTables(ses'[s], appt, open, assigned, now)
    BY <1>3, <2>2, <2>3, <2>4, <2>5, <2>6, <2>8 DEF KnowsTables, Transacting
  <2>11. UNCHANGED <<appt, open, assigned, now, exclusive>>
    BY <1>3 DEF tables
  <2> QED BY <2>1, <2>2, <2>7, <2>9, <2>10, <2>11, OwnStepIsGuarded
<1> QED BY <1>1, <1>2, <1>3

LEMMA LockAssignmentIsGuarded ==
  ASSUME TypeOK, Guarded, NEW s \in Sessions, LockAssignment(s)
  PROVE  Guarded'
<1>1. PICK b \in Barbers, l \in Locations :
        /\ \A a \in ses[s].ids : Candidate(s, a).loc = l /\ Candidate(s, a).barber = b
        /\ CanShare(s, AssignmentRow(b, l))
        /\ IF ~assigned[<<b, l>>] THEN Finish(s)
           ELSE /\ shared' = [shared EXCEPT ![s] = @ \cup {AssignmentRow(b, l)}]
                /\ GoTo(s, "days")
                /\ UNCHANGED <<tables, now, exclusive>>
  BY DEF LockAssignment
<1>2. CASE Finish(s)
  BY <1>2, FinishIsGuarded
<1>3. CASE /\ assigned[<<b, l>>]
           /\ shared' = [shared EXCEPT ![s] = @ \cup {AssignmentRow(b, l)}]
           /\ GoTo(s, "days")
           /\ UNCHANGED <<tables, now, exclusive>>
  <2>1. /\ shared'[s] = shared[s] \cup {AssignmentRow(b, l)}
        /\ \A t \in Sessions \ {s} :
              /\ shared'[t] = shared[t]
              /\ exclusive[s] \cap (exclusive[t] \cup shared[t]) = {}
              /\ exclusive[t] \cap shared'[s] = {}
    BY <1>1, <1>3, SharingExcludesNobody
  <2>2. /\ ses[s].at = "assignment" /\ ses'[s].at = "days" /\ SameWork(ses[s], ses'[s])
        /\ ses'[s].days = ses[s].days
        /\ \A t \in Sessions \ {s} : ses'[t] = ses[t]
    BY <1>3, GoToOnlyMoves DEF LockAssignment
  <2>3. /\ ses[s].op \notin PlaceOps /\ ses[s].at \in Transacting /\ ses[s].op # "none"
    BY <2>2, WorksOnABooking
  <2>4. \A a \in ses[s].ids : CandidateOf(ses[s], a).loc = l /\ CandidateOf(ses[s], a).barber = b
    BY <1>1, CandidateIsCandidateOf
  <2>5. \A a : /\ CandidateOf(ses'[s], a) = CandidateOf(ses[s], a)
               /\ NeedsPlace(ses'[s], a) = NeedsPlace(ses[s], a)
    BY <2>2, SameWorkSameCandidate
  <2>6. ses'[s].op = ses[s].op /\ ses'[s].ids = ses[s].ids /\ ses'[s].cur = ses[s].cur
    BY <2>2 DEF SameWork
  <2>7. InOrder(ses'[s])
    BY <2>2, <2>3, <2>6 DEF InOrder, Transacting
  <2>8. HoldsLocks(ses[s], exclusive[s], shared[s]) /\ KnowsTables(ses[s], appt, open, assigned, now)
    BY DEF Guarded
  <2>9. HoldsLocks(ses'[s], exclusive[s], shared'[s])
    BY <2>1, <2>2, <2>3, <2>4, <2>5, <2>6, <2>8 DEF HoldsLocks
  <2>10. KnowsTables(ses'[s], appt, open, assigned, now)
    BY <1>3, <2>2, <2>3, <2>4, <2>5, <2>6, <2>8 DEF KnowsTables, Transacting, InPlace
  <2>11. UNCHANGED <<appt, open, assigned, now, exclusive>>
    BY <1>3 DEF tables
  <2> QED BY <2>1, <2>2, <2>7, <2>9, <2>10, <2>11, OwnStepIsGuarded
<1> QED BY <1>1, <1>2, <1>3

LEMMA LockDayIsGuarded ==
  ASSUME TypeOK, Guarded, NEW s \in Sessions, LockDay(s)
  PROVE  Guarded'
<1>1. PICK b \in Barbers, d \in ses[s].days :
        /\ \A a \in ses[s].ids : Candidate(s, a).barber = b
        /\ \A e \in ses[s].days : d <= e
        /\ CanTake(s, DayLock(b, d))
        /\ exclusive' = [exclusive EXCEPT ![s] = @ \cup {DayLock(b, d)}]
        /\ ses' = [ses EXCEPT ![s].days = @ \ {d},
                              ![s].at = IF ses[s].days = {d} THEN "check" ELSE "days"]
  BY DEF LockDay
<1>2. /\ exclusive'[s] = exclusive[s] \cup {DayLock(b, d)}
      /\ \A t \in Sessions \ {s} :
            /\ exclusive'[t] = exclusive[t]
            /\ exclusive'[s] \cap (exclusive[t] \cup shared[t]) = {}
            /\ exclusive[t] \cap shared[s] = {}
  BY <1>1, TakingIsExclusive
<1> DEFINE q == [ses[s] EXCEPT !.days = @ \ {d},
                               !.at = IF ses[s].days = {d} THEN "check" ELSE "days"]
<1>3. ses'[s] = q /\ \A t \in Sessions \ {s} : ses'[t] = ses[t]
  BY <1>1 DEF TypeOK
<1>4. /\ q.days = ses[s].days \ {d} /\ SameWork(ses[s], q)
      /\ q.at = IF ses[s].days = {d} THEN "check" ELSE "days"
  <2>1. ses[s] \in Session
    BY DEF TypeOK
  <2> QED BY <2>1 DEF Session, SameWork
<1> HIDE DEF q
<1>5. ses[s].at = "days"
  BY DEF LockDay
<1>6. ses[s].op \notin PlaceOps /\ ses[s].at \in Transacting /\ ses[s].op # "none"
  BY <1>5, WorksOnABooking
<1>7. \A a \in ses[s].ids : CandidateOf(ses[s], a).barber = b
  BY <1>1, CandidateIsCandidateOf
<1>8. \A a : CandidateOf(q, a) = CandidateOf(ses[s], a) /\ NeedsPlace(q, a) = NeedsPlace(ses[s], a)
  BY <1>4, SameWorkSameCandidate
<1>9. q.op = ses[s].op /\ q.ids = ses[s].ids /\ q.cur = ses[s].cur
  BY <1>4 DEF SameWork
<1>10. q.at \in {"check", "days"} /\ (q.at = "check" => q.days = {})
  BY <1>4
<1>11. InOrder(q)
  BY <1>6, <1>9, <1>10 DEF InOrder, Transacting
<1>12. HoldsLocks(ses[s], exclusive[s], shared[s]) /\ KnowsTables(ses[s], appt, open, assigned, now)
  BY DEF Guarded
<1>13. \A a \in q.ids : Day(CandidateOf(q, a).start) \in q.days \/ DayOf(CandidateOf(q, a)) \in exclusive'[s]
  BY <1>2, <1>4, <1>5, <1>6, <1>7, <1>8, <1>9, <1>12 DEF HoldsLocks, DayOf
<1>14. HoldsLocks(q, exclusive'[s], shared[s])
  BY <1>2, <1>5, <1>6, <1>8, <1>9, <1>10, <1>12, <1>13 DEF HoldsLocks
<1>15. KnowsTables(q, appt, open, assigned, now)
  BY <1>5, <1>6, <1>8, <1>9, <1>10, <1>12 DEF KnowsTables
<1>16. UNCHANGED <<appt, open, assigned, now, shared>>
  BY DEF LockDay, tables
<1> QED BY <1>2, <1>3, <1>11, <1>14, <1>15, <1>16, OwnStepIsGuarded

LEMMA AssertNoConflictIsGuarded ==
  ASSUME TypeOK, Guarded, NEW s \in Sessions, AssertNoConflict(s)
  PROVE  Guarded'
<1> DEFINE clash == \E a \in ses[s].ids :
                      Booked(Candidate(s, a)) /\ Conflict(appt, ses[s].ids, Candidate(s, a))
<1>1. /\ ses[s].at = "check" /\ ses[s].op \notin PlaceOps
      /\ Finish(s) \/ (~clash /\ GoTo(s, "write") /\ UNCHANGED <<tables, now, exclusive, shared>>)
  BY DEF AssertNoConflict
<1>2. CASE Finish(s)
  BY <1>2, FinishIsGuarded
<1>3. CASE ~clash /\ GoTo(s, "write") /\ UNCHANGED <<tables, now, exclusive, shared>>
  <2>1. /\ ses'[s].at = "write" /\ SameWork(ses[s], ses'[s])
        /\ \A t \in Sessions \ {s} : ses'[t] = ses[t]
    BY <1>3, GoToOnlyMoves
  <2>2. ses[s].op \notin PlaceOps /\ ses[s].at \in Transacting /\ ses[s].op # "none"
    BY <1>1, WorksOnABooking
  <2>3. \A a : /\ CandidateOf(ses'[s], a) = CandidateOf(ses[s], a)
               /\ NeedsPlace(ses'[s], a) = NeedsPlace(ses[s], a)
    BY <2>1, SameWorkSameCandidate
  <2>4. ses'[s].op = ses[s].op /\ ses'[s].ids = ses[s].ids /\ ses'[s].cur = ses[s].cur
    BY <2>1 DEF SameWork
  <2>5. ~\E a \in ses[s].ids : /\ Booked(CandidateOf(ses[s], a))
                               /\ Conflict(appt, ses[s].ids, CandidateOf(ses[s], a))
    BY <1>3, CandidateIsCandidateOf
  <2>6. InOrder(ses'[s])
    BY <2>1, <2>2, <2>4 DEF InOrder, Transacting
  <2>7. HoldsLocks(ses[s], exclusive[s], shared[s]) /\ KnowsTables(ses[s], appt, open, assigned, now)
    BY DEF Guarded
  <2>8. HoldsLocks(ses'[s], exclusive[s], shared[s])
    BY <1>1, <2>1, <2>2, <2>3, <2>4, <2>7 DEF HoldsLocks
  <2>9. KnowsTables(ses'[s], appt, open, assigned, now)
    BY <1>1, <2>1, <2>2, <2>3, <2>4, <2>5, <2>7 DEF KnowsTables, Conflict
  <2>10. UNCHANGED <<appt, open, assigned, now, exclusive, shared>>
    BY <1>3 DEF tables
  <2> QED BY <2>1, <2>6, <2>8, <2>9, <2>10, KeepingExcludesNobody, OwnStepIsGuarded
<1> QED BY <1>1, <1>2, <1>3

LEMMA LockPlaceIsGuarded ==
  ASSUME TypeOK, Guarded, NEW s \in Sessions, LockPlace(s)
  PROVE  Guarded'
<1>1. /\ exclusive'[s] = exclusive[s] \cup {PlaceRow(s)}
      /\ \A t \in Sessions \ {s} :
            /\ exclusive'[t] = exclusive[t]
            /\ exclusive'[s] \cap (exclusive[t] \cup shared[t]) = {}
            /\ exclusive[t] \cap shared[s] = {}
  BY TakingIsExclusive DEF LockPlace
<1>2. /\ ses[s].at = "place" /\ ses'[s].at = "check" /\ SameWork(ses[s], ses'[s])
      /\ \A t \in Sessions \ {s} : ses'[t] = ses[t]
  BY GoToOnlyMoves DEF LockPlace
<1>3. ses[s].op \in PlaceOps
  BY <1>2, OpsAreOfAKind DEF Guarded, InOrder, TypeOK, Transacting
<1>4. ses'[s].op \in PlaceOps /\ ses'[s].op \notin UpdateOps
      /\ ses'[s].op # "createAppointments" /\ ses'[s].op # "none"
  BY <1>2, <1>3 DEF SameWork, PlaceOps, UpdateOps
<1>5. PlaceOf(ses'[s]) = PlaceRow(s)
  BY <1>2, SameWorkSameCandidate, PlaceRowIsPlaceOf
<1>6. InOrder(ses'[s])
  BY <1>2, <1>4 DEF InOrder
<1>7. HoldsLocks(ses'[s], exclusive'[s], shared[s])
  BY <1>1, <1>4, <1>5 DEF HoldsLocks
<1>8. KnowsTables(ses'[s], appt, open, assigned, now)
  BY <1>2, <1>4 DEF KnowsTables
<1>9. UNCHANGED <<appt, open, assigned, now, shared>>
  BY DEF LockPlace, tables
<1> QED BY <1>1, <1>2, <1>6, <1>7, <1>8, <1>9, OwnStepIsGuarded

\* A closing place has no future booking when the check passed: none was found, or the
\* location was closed already and so had none.
LEMMA CheckPlaceIsGuarded ==
  ASSUME TypeOK, Guarded, NEW s \in Sessions, CheckPlace(s)
  PROVE  Guarded'
<1> DEFINE refused == /\ ~ses[s].up
                      /\ \/ ses[s].op = "updateLocation" /\ ses[s].place[2] = MainLocation
                         \/ /\ ses[s].op = "updateLocation" => open[ses[s].place[2]]
                            /\ FutureBookings(s) # {}
<1>1. /\ ses[s].at = "check" /\ ses[s].op \in PlaceOps
      /\ Finish(s) \/ (~refused /\ GoTo(s, "write") /\ UNCHANGED <<tables, now, exclusive, shared>>)
  BY DEF CheckPlace
<1>2. CASE Finish(s)
  BY <1>2, FinishIsGuarded
<1>3. CASE ~refused /\ GoTo(s, "write") /\ UNCHANGED <<tables, now, exclusive, shared>>
  <2>1. /\ ses'[s].at = "write" /\ SameWork(ses[s], ses'[s])
        /\ \A t \in Sessions \ {s} : ses'[t] = ses[t]
    BY <1>3, GoToOnlyMoves
  <2>2. /\ ses'[s].op = ses[s].op /\ ses'[s].place = ses[s].place /\ ses'[s].up = ses[s].up
        /\ PlaceOf(ses'[s]) = PlaceOf(ses[s])
    BY <2>1, SameWorkSameCandidate DEF SameWork
  <2>3. ses[s].op \notin UpdateOps /\ ses[s].op # "createAppointments" /\ ses[s].op # "none"
    BY <1>1 DEF PlaceOps, UpdateOps
  <2>4. InOrder(ses'[s])
    BY <1>1, <2>1, <2>2, <2>3 DEF InOrder
  <2>5. PlaceOf(ses[s]) \in exclusive[s]
    BY <1>1 DEF Guarded, HoldsLocks
  <2>6. HoldsLocks(ses'[s], exclusive[s], shared[s])
    BY <1>1, <2>2, <2>3, <2>5 DEF HoldsLocks
  <2>7. ASSUME ~ses[s].up, NEW b \in Appts, Booked(appt[b]), appt[b].start >= now,
               appt[b].loc = ses[s].place[2]
        PROVE  ses[s].op # "updateLocation" /\ appt[b].barber # ses[s].place[1]
    <3>1. open[ses[s].place[2]]
      BY <2>7 DEF Guarded, FutureBookingsHavePlace
    <3>2. FutureBookings(s) = {}
      BY <1>3, <2>7, <3>1
    <3> QED BY <2>7, <3>2 DEF FutureBookings
  <2>8. KnowsTables(ses'[s], appt, open, assigned, now)
    BY <1>1, <2>1, <2>2, <2>3, <2>7 DEF KnowsTables
  <2>9. UNCHANGED <<appt, open, assigned, now, exclusive, shared>>
    BY <1>3 DEF tables
  <2> QED BY <2>1, <2>4, <2>6, <2>8, <2>9, KeepingExcludesNobody, OwnStepIsGuarded
<1> QED BY <1>1, <1>2, <1>3

-----------------------------------------------------------------------------
(* Commits *)

\* Two rows that hold the same slot in the same place.
SameSlotAs(p, q) ==
    /\ p.status = q.status /\ p.barber = q.barber /\ p.loc = q.loc
    /\ p.start = q.start /\ p.dur = q.dur

\* A commit of a booking: the session's rows become the candidates it has checked.
Commits(s) ==
    /\ ses[s].at = "write" /\ ses[s].op \notin PlaceOps
    /\ UNCHANGED <<open, assigned, now>>
    /\ ses'[s] = Idle /\ exclusive'[s] = {} /\ shared'[s] = {}
    /\ \A t \in Sessions \ {s} :
          ses'[t] = ses[t] /\ exclusive'[t] = exclusive[t] /\ shared'[t] = shared[t]
    /\ \A b \in Appts \ ses[s].ids : appt'[b] = appt[b]
    /\ \A a \in ses[s].ids : SameSlotAs(appt'[a], CandidateOf(ses[s], a))

LEMMA WriteRowsFrees ==
  ASSUME TypeOK, NEW s \in Sessions, NEW table, WriteRows(s, table)
  PROVE  \/ Finish(s)
         \/ /\ appt' = table /\ UNCHANGED <<open, assigned, now>>
            /\ ses'[s] = Idle /\ exclusive'[s] = {} /\ shared'[s] = {}
            /\ \A t \in Sessions \ {s} :
                  ses'[t] = ses[t] /\ exclusive'[t] = exclusive[t] /\ shared'[t] = shared[t]
<1>1. \/ Finish(s)
      \/ /\ appt' = table /\ UNCHANGED <<open, assigned, now>>
         /\ ses' = [ses EXCEPT ![s] = Idle]
         /\ exclusive' = [exclusive EXCEPT ![s] = {}]
         /\ shared' = [shared EXCEPT ![s] = {}]
  BY DEF WriteRows
<1> HIDE DEF Idle
<1> QED BY <1>1 DEF TypeOK

LEMMA InsertAppointmentsCommits ==
  ASSUME TypeOK, NEW s \in Sessions, InsertAppointments(s)
  PROVE  Finish(s) \/ Commits(s)
<1> DEFINE table == [a \in Appts |-> IF a \in ses[s].ids THEN ses[s].want[a] ELSE appt[a]]
<1>1. ses[s].at = "write" /\ ses[s].op = "createAppointments" /\ WriteRows(s, table)
  BY DEF InsertAppointments
<1>2. ses[s].ids \subseteq Appts
  BY DEF TypeOK, Session
<1>3. /\ \A b \in Appts \ ses[s].ids : table[b] = appt[b]
      /\ \A a \in ses[s].ids : SameSlotAs(table[a], CandidateOf(ses[s], a))
  BY <1>1, <1>2 DEF CandidateOf, SameSlotAs
<1>4. ses[s].op \notin PlaceOps
  BY <1>1 DEF PlaceOps
<1> HIDE DEF table
<1> QED BY <1>1, <1>3, <1>4, WriteRowsFrees DEF Commits

LEMMA UpdateAppointmentCommits ==
  ASSUME TypeOK, Called, Guarded, NEW s \in Sessions, UpdateAppointment(s)
  PROVE  Finish(s) \/ Commits(s)
<1>1. PICK a \in ses[s].ids :
        IF Matches(s, appt[a]) THEN WriteRows(s, [appt EXCEPT ![a] = Updated(s, a)])
        ELSE Finish(s)
  BY DEF UpdateAppointment
<1> DEFINE table == [appt EXCEPT ![a] = Updated(s, a)]
<1>2. ses[s].at = "write" /\ ses[s].op \in UpdateOps /\ a \in Appts
  BY DEF UpdateAppointment, UpdateOps, TypeOK, Session
<1>3. ses[s].ids = {a} /\ ses[s].op \notin PlaceOps /\ ses[s].op # "createAppointments"
  BY <1>1, <1>2 DEF Called, CalledAs, UpdateOps, PlaceOps
<1>4. ses[s].cur = appt[a]
  BY <1>2, <1>3 DEF Guarded, KnowsTables, Transacting
<1>5. CandidateOf(ses[s], a) = Patched(appt[a], ses[s].want[a], ses[s].set)
  BY <1>3, <1>4 DEF CandidateOf
<1>6. SameSlotAs(Updated(s, a), CandidateOf(ses[s], a))
  BY <1>2, <1>5, UpdatedFields DEF SameSlotAs
<1>7. table[a] = Updated(s, a) /\ \A b \in Appts \ {a} : table[b] = appt[b]
  BY <1>2 DEF TypeOK
<1> HIDE DEF table
<1>8. /\ \A b \in Appts \ ses[s].ids : table[b] = appt[b]
      /\ \A b \in ses[s].ids : SameSlotAs(table[b], CandidateOf(ses[s], b))
  BY <1>3, <1>6, <1>7
<1>9. Finish(s) \/ WriteRows(s, table)
  BY <1>1 DEF table
<1> QED BY <1>2, <1>3, <1>8, <1>9, WriteRowsFrees DEF Commits

\* What the committing session's locks say of a booking it writes.
LEMMA CommittedIsLocked ==
  ASSUME LockingHandlers, TypeOK, Called, Guarded, NEW s \in Sessions, Commits(s),
         NEW a \in ses[s].ids, Booked(appt'[a])
  PROVE  /\ DayOf(appt'[a]) \in exclusive[s]
         /\ \/ /\ LocationRow(appt'[a].loc) \in shared[s]
               /\ AssignmentRow(appt'[a].barber, appt'[a].loc) \in shared[s]
               /\ InPlace(appt'[a], open, assigned)
            \/ /\ Booked(appt[a]) /\ appt[a].barber = appt'[a].barber
               /\ appt[a].loc = appt'[a].loc /\ appt[a].start = appt'[a].start
<1> DEFINE cand == CandidateOf(ses[s], a)
<1>1. SameSlotAs(appt'[a], cand) /\ ses[s].at = "write" /\ ses[s].op \notin PlaceOps
  BY DEF Commits
<1>2. /\ HoldsLocks(ses[s], exclusive[s], shared[s])
      /\ KnowsTables(ses[s], appt, open, assigned, now)
  BY DEF Guarded
<1>3. a \in Appts /\ ses[s] \in Session
  BY DEF TypeOK, Session
<1>4. Booked(cand)
  BY <1>1 DEF SameSlotAs, Booked
<1>5. DayOf(cand) \in exclusive[s]
  BY <1>1, <1>2, <1>4 DEF HoldsLocks
<1>6. DayOf(appt'[a]) = DayOf(cand)
  BY <1>1 DEF SameSlotAs, DayOf
<1>7. CASE NeedsPlace(ses[s], a)
  <2>1. /\ LocationRow(cand.loc) \in shared[s] /\ AssignmentRow(cand.barber, cand.loc) \in shared[s]
        /\ InPlace(cand, open, assigned)
    BY <1>1, <1>2, <1>7 DEF HoldsLocks, KnowsTables
  <2> QED BY <1>1, <1>5, <1>6, <2>1 DEF SameSlotAs, InPlace
<1>8. CASE ~NeedsPlace(ses[s], a)
  <2>1. ses[s].op \in UpdateOps /\ ses[s].op # "createAppointments"
    BY <1>1, <1>8, WorksOnABooking DEF NeedsPlace
  <2>2. ses[s].ids = {a} /\ CalledAs(ses[s])
    BY <2>1 DEF Called, CalledAs
  <2>3. ses[s].cur = appt[a]
    BY <1>1, <1>2, <2>1 DEF KnowsTables, Transacting
  <2>4. cand = Patched(appt[a], ses[s].want[a], ses[s].set)
    BY <2>1, <2>3 DEF CandidateOf
  <2>5. Protects(ses[s].op, appt[a], cand)
    BY <1>3, <1>4, <2>1, <2>2, <2>4, SeenIsARow, TheBookedAreProtected
  <2>6. ~Introduces(ses[s].op, appt[a], cand)
    BY <1>8, <2>3, <2>5 DEF NeedsPlace
  <2>7. Booked(appt[a]) /\ cand.barber = appt[a].barber /\ cand.start = appt[a].start
    BY <2>6 DEF Introduces
  <2>8. cand.loc = appt[a].loc
    <3>1. ses[s].want[a] \in Row
      BY <1>3 DEF Session
    <3> QED BY <1>3, <2>4, <3>1, SeenIsARow, PatchedFields
  <2> QED BY <1>1, <1>5, <1>6, <2>7, <2>8 DEF SameSlotAs
<1> QED BY <1>7, <1>8

LEMMA CommitIsGuarded ==
  ASSUME LockingHandlers, TypeOK, TypeOK', Called, Guarded, NEW s \in Sessions, Commits(s)
  PROVE  Guarded'
<1> HIDE DEF Idle
<1>1. \A b \in Appts : b \in ses[s].ids \/ appt'[b] = appt[b]
  BY DEF Commits
<1>2. ASSUME NEW t \in Sessions
      PROVE  InOrder(ses'[t]) /\ HoldsLocks(ses'[t], exclusive'[t], shared'[t])
  <2>1. CASE t = s
    BY <2>1, IdleIsGuarded DEF Commits
  <2>2. CASE t # s
    BY <2>2 DEF Guarded, Commits
  <2> QED BY <2>1, <2>2
<1>3. LocksExclude'
  <2> SUFFICES ASSUME NEW t \in Sessions, NEW u \in Sessions, t # u
               PROVE  exclusive'[t] \cap (exclusive'[u] \cup shared'[u]) = {}
    BY DEF LocksExclude
  <2>1. exclusive[t] \cap (exclusive[u] \cup shared[u]) = {}
    BY DEF Guarded, LocksExclude
  <2> QED BY <2>1 DEF Commits
<1>4. FutureBookingsHavePlace'
  <2> SUFFICES ASSUME NEW b \in Appts, Booked(appt'[b]), appt'[b].start >= now
               PROVE  open[appt'[b].loc] /\ assigned[<<appt'[b].barber, appt'[b].loc>>]
    BY DEF FutureBookingsHavePlace, Commits
  <2>1. CASE appt'[b] = appt[b]
    BY <2>1 DEF Guarded, FutureBookingsHavePlace
  <2>2. CASE b \in ses[s].ids
    BY <2>2, CommittedIsLocked DEF Guarded, FutureBookingsHavePlace, InPlace
  <2> QED BY <1>1, <2>1, <2>2
<1>5. ASSUME NEW t \in Sessions \ {s}
      PROVE  KnowsTables(ses[t], appt', open, assigned, now)
  <2>0. KnowsTables(ses[t], appt, open, assigned, now)
    BY DEF Guarded
  <2>1. /\ HoldsLocks(ses[t], exclusive[t], shared[t])
        /\ exclusive[s] \cap (exclusive[t] \cup shared[t]) = {}
        /\ exclusive[t] \cap (exclusive[s] \cup shared[s]) = {}
    BY DEF Guarded, LocksExclude
  <2>2. ASSUME ses[t].op \in UpdateOps, ses[t].at \in Transacting, NEW a \in ses[t].ids
        PROVE  ses[t].cur = appt'[a]
    <3>1. ses[t].cur = appt[a] /\ AppointmentLock(a) \in exclusive[t]
      BY <2>0, <2>1, <2>2 DEF KnowsTables, HoldsLocks, Transacting
    <3>2. a \notin ses[s].ids
      <4>1. SUFFICES ASSUME a \in ses[s].ids PROVE FALSE
        OBVIOUS
      <4>2. CASE ses[s].op \in UpdateOps
        <5>1. AppointmentLock(a) \in exclusive[s]
          BY <4>1, <4>2 DEF Guarded, HoldsLocks, Commits
        <5> QED BY <2>1, <3>1, <5>1
      <4>3. CASE ses[s].op = "createAppointments"
        BY <2>2, <4>1, <4>3 DEF Called, Inserting
      <4> QED BY <4>2, <4>3, WorksOnABooking DEF Commits
    <3>3. a \in Appts
      BY DEF TypeOK, Session
    <3> QED BY <1>1, <3>1, <3>2, <3>3
  <2>3. ASSUME ses[t].op \notin PlaceOps, ses[t].at = "write",
               NEW a \in ses[t].ids, NEW b \in Appts \ ses[t].ids,
               Booked(CandidateOf(ses[t], a)), Booked(appt'[b]),
               appt'[b].barber = CandidateOf(ses[t], a).barber,
               Overlap(appt'[b], CandidateOf(ses[t], a))
        PROVE  Day(appt'[b].start) # Day(CandidateOf(ses[t], a).start)
    <3>1. CASE appt'[b] = appt[b]
      BY <2>0, <2>3, <3>1 DEF KnowsTables
    <3>2. CASE b \in ses[s].ids
      <4>1. DayOf(appt'[b]) \in exclusive[s] /\ DayOf(CandidateOf(ses[t], a)) \in exclusive[t]
        BY <2>1, <2>3, <3>2, CommittedIsLocked DEF HoldsLocks
      <4>2. DayOf(appt'[b]) # DayOf(CandidateOf(ses[t], a))
        BY <2>1, <4>1
      <4> QED BY <2>3, <4>2 DEF DayOf, DayLock
    <3> QED BY <1>1, <3>1, <3>2
  <2>4. ASSUME ses[t].op \in PlaceOps, ses[t].at = "write", ~ses[t].up, NEW b \in Appts,
               Booked(appt'[b]), appt'[b].start >= now, appt'[b].loc = ses[t].place[2]
        PROVE  ses[t].op # "updateLocation" /\ appt'[b].barber # ses[t].place[1]
    <3>1. PlaceOf(ses[t]) \in exclusive[t]
      BY <2>1, <2>4 DEF HoldsLocks
    <3>2. CASE appt'[b] = appt[b]
      BY <2>0, <2>4, <3>2 DEF KnowsTables
    <3>3. CASE b \in ses[s].ids
      <4>1. CASE /\ LocationRow(appt'[b].loc) \in shared[s]
                 /\ AssignmentRow(appt'[b].barber, appt'[b].loc) \in shared[s]
        <5>1. /\ PlaceOf(ses[t]) # LocationRow(appt'[b].loc)
              /\ PlaceOf(ses[t]) # AssignmentRow(appt'[b].barber, appt'[b].loc)
          BY <2>1, <3>1, <4>1
        <5> QED BY <2>4, <5>1 DEF PlaceOf
      <4>2. CASE /\ Booked(appt[b]) /\ appt[b].barber = appt'[b].barber
                 /\ appt[b].loc = appt'[b].loc /\ appt[b].start = appt'[b].start
        BY <2>0, <2>4, <4>2 DEF KnowsTables
      <4> QED BY <2>4, <3>3, <4>1, <4>2, CommittedIsLocked
    <3> QED BY <1>1, <3>2, <3>3
  <2> QED BY <2>0, <2>2, <2>3, <2>4 DEF KnowsTables
<1>6. ASSUME NEW t \in Sessions
      PROVE  KnowsTables(ses'[t], appt', open', assigned', now')
  <2>1. CASE t = s
    BY <2>1, IdleIsGuarded DEF Commits
  <2>2. CASE t # s
    BY <1>5, <2>2 DEF Commits
  <2> QED BY <2>1, <2>2
<1> QED BY <1>2, <1>3, <1>4, <1>6 DEF Guarded

\* Closing a place strands no booking and takes no place from a transaction that has
\* locked it.
LEMMA WritePlaceIsGuarded ==
  ASSUME TypeOK, Guarded, NEW s \in Sessions, WritePlace(s)
  PROVE  Guarded'
<1> DEFINE place == ses[s].place
<1>1. /\ ses[s].at = "write" /\ ses[s].op \in PlaceOps /\ UNCHANGED <<appt, now>>
      /\ IF ses[s].op = "updateLocation"
         THEN open' = [open EXCEPT ![place[2]] = ses[s].up] /\ UNCHANGED assigned
         ELSE assigned' = [assigned EXCEPT ![place] = ses[s].up] /\ UNCHANGED open
  BY DEF WritePlace
<1>2. /\ ses'[s] = Idle /\ exclusive'[s] = {} /\ shared'[s] = {}
      /\ \A t \in Sessions \ {s} :
            ses'[t] = ses[t] /\ exclusive'[t] = exclusive[t] /\ shared'[t] = shared[t]
  <2> HIDE DEF Idle
  <2> QED BY DEF WritePlace, TypeOK
<1>3. place \in Barbers \X Locations /\ ses[s].up \in BOOLEAN
  BY DEF TypeOK, Session
<1>4. place = <<place[1], place[2]>> /\ place[1] \in Barbers /\ place[2] \in Locations
  BY <1>3
<1>5. PlaceOf(ses[s]) \in exclusive[s] /\ KnowsTables(ses[s], appt, open, assigned, now)
  BY <1>1 DEF Guarded, HoldsLocks
<1>6. \A l \in Locations : LocationRow(l) # PlaceOf(ses[s]) => open'[l] = open[l]
  BY <1>1, <1>4 DEF TypeOK, PlaceOf
<1>7. \A b \in Barbers, l \in Locations :
        AssignmentRow(b, l) # PlaceOf(ses[s]) => assigned'[<<b, l>>] = assigned[<<b, l>>]
  BY <1>1, <1>4 DEF TypeOK, PlaceOf
<1> HIDE DEF Idle
<1>8. ASSUME NEW t \in Sessions
      PROVE  InOrder(ses'[t]) /\ HoldsLocks(ses'[t], exclusive'[t], shared'[t])
  BY <1>2, IdleIsGuarded DEF Guarded
<1>9. ASSUME NEW t \in Sessions \ {s}
      PROVE  KnowsTables(ses[t], appt, open', assigned', now)
  <2>1. KnowsTables(ses[t], appt, open, assigned, now)
    BY DEF Guarded
  <2>2. /\ HoldsLocks(ses[t], exclusive[t], shared[t])
        /\ exclusive[s] \cap (exclusive[t] \cup shared[t]) = {}
    BY DEF Guarded, LocksExclude
  <2>3. ASSUME ses[t].op \notin PlaceOps, ses[t].at \in {"assignment", "days", "check", "write"},
               NEW a \in ses[t].ids, NeedsPlace(ses[t], a)
        PROVE  /\ open'[CandidateOf(ses[t], a).loc]
               /\ ses[t].at # "assignment" => InPlace(CandidateOf(ses[t], a), open', assigned')
    <3> DEFINE c == CandidateOf(ses[t], a)
    <3>1. c.loc \in Locations /\ c.barber \in Barbers
      <4>1. a \in Appts /\ ses[t] \in Session
        BY DEF TypeOK, Session
      <4>2. c \in Row
        BY <4>1, CandidateOfIsARow
      <4> QED BY <4>2 DEF Row
    <3>2. /\ open[c.loc] /\ LocationRow(c.loc) \in shared[t]
          /\ ses[t].at # "assignment" => assigned[<<c.barber, c.loc>>] /\ AssignmentRow(c.barber, c.loc) \in shared[t]
      BY <2>1, <2>2, <2>3 DEF KnowsTables, HoldsLocks, InPlace
    <3> HIDE DEF c
    <3>3. open'[c.loc]
      BY <1>5, <1>6, <2>2, <3>1, <3>2
    <3>4. ses[t].at # "assignment" => assigned'[<<c.barber, c.loc>>]
      BY <1>5, <1>7, <2>2, <3>1, <3>2
    <3> QED BY <3>3, <3>4 DEF c, InPlace
  <2> QED BY <2>1, <2>3 DEF KnowsTables
<1>10. ASSUME NEW t \in Sessions
       PROVE  KnowsTables(ses'[t], appt', open', assigned', now')
  <2>1. CASE t = s
    BY <1>2, <2>1, IdleIsGuarded
  <2>2. CASE t # s
    BY <1>1, <1>2, <1>9, <2>2
  <2> QED BY <2>1, <2>2
<1>11. LocksExclude'
  <2> SUFFICES ASSUME NEW t \in Sessions, NEW u \in Sessions, t # u
               PROVE  exclusive'[t] \cap (exclusive'[u] \cup shared'[u]) = {}
    BY DEF LocksExclude
  <2>1. exclusive[t] \cap (exclusive[u] \cup shared[u]) = {}
    BY DEF Guarded, LocksExclude
  <2> QED BY <1>2, <2>1
<1>12. FutureBookingsHavePlace'
  <2> SUFFICES ASSUME NEW b \in Appts, Booked(appt[b]), appt[b].start >= now
               PROVE  open'[appt[b].loc] /\ assigned'[<<appt[b].barber, appt[b].loc>>]
    BY <1>1 DEF FutureBookingsHavePlace
  <2>1. open[appt[b].loc] /\ assigned[<<appt[b].barber, appt[b].loc>>]
    BY DEF Guarded, FutureBookingsHavePlace
  <2>2. appt[b].loc \in Locations /\ appt[b].barber \in Barbers
    BY SeenIsARow DEF Row
  <2>3. ~ses[s].up => /\ ses[s].op = "updateLocation" => appt[b].loc # place[2]
                      /\ appt[b].loc # place[2] \/ appt[b].barber # place[1]
    BY <1>1, <1>5 DEF KnowsTables
  <2>4. open'[appt[b].loc]
    BY <1>1, <1>3, <1>4, <2>1, <2>2, <2>3 DEF TypeOK
  <2>5. assigned'[<<appt[b].barber, appt[b].loc>>]
    BY <1>1, <1>3, <1>4, <2>1, <2>2, <2>3 DEF TypeOK
  <2> QED BY <2>4, <2>5
<1> QED BY <1>8, <1>10, <1>11, <1>12 DEF Guarded

LEMMA TickIsGuarded ==
  ASSUME TypeOK, Guarded, Tick
  PROVE  Guarded'
<1>1. now' = now + 1 /\ UNCHANGED <<appt, open, assigned, ses, exclusive, shared>>
  BY DEF Tick, tables
<1>2. \A b \in Appts : appt[b].start >= now' => appt[b].start >= now
  <2>1. now \in Int /\ Slots \subseteq Int
    BY InstanceAssumption DEF TypeOK, Slots
  <2>2. \A b \in Appts : appt[b].start \in Int
    BY <2>1, SeenIsARow DEF Row
  <2> QED BY <1>1, <2>1, <2>2
<1>3. ASSUME NEW t \in Sessions
      PROVE  KnowsTables(ses[t], appt, open, assigned, now')
  <2>1. KnowsTables(ses[t], appt, open, assigned, now)
    BY DEF Guarded
  <2> QED BY <1>2, <2>1 DEF KnowsTables
<1>4. FutureBookingsHavePlace'
  BY <1>1, <1>2 DEF Guarded, FutureBookingsHavePlace
<1>5. LocksExclude'
  BY <1>1 DEF Guarded, LocksExclude
<1>6. ASSUME NEW t \in Sessions
      PROVE  /\ InOrder(ses'[t]) /\ HoldsLocks(ses'[t], exclusive'[t], shared'[t])
             /\ KnowsTables(ses'[t], appt', open', assigned', now')
  BY <1>1, <1>3 DEF Guarded
<1> QED BY <1>4, <1>5, <1>6 DEF Guarded

LEMMA StatementIsGuarded ==
  ASSUME LockingHandlers, TypeOK, TypeOK', Called, Guarded, NEW s \in Sessions, Statement(s)
  PROVE  Guarded'
<1>1. CASE InsertAppointments(s)
  BY <1>1, InsertAppointmentsCommits, FinishIsGuarded, CommitIsGuarded
<1>2. CASE UpdateAppointment(s)
  BY <1>2, UpdateAppointmentCommits, FinishIsGuarded, CommitIsGuarded
<1> QED
  BY <1>1, <1>2, ReadRevisionIsNotReached, LockAppointmentIsGuarded, ReadCurrentIsGuarded,
     LockLocationIsGuarded, LockAssignmentIsGuarded, LockDayIsGuarded,
     AssertNoConflictIsGuarded, LockPlaceIsGuarded, CheckPlaceIsGuarded, WritePlaceIsGuarded
     DEF Statement

LEMMA GuardedIsKept ==
  ASSUME LockingHandlers, TypeOK, TypeOK', Called, Guarded, [Next]_vars
  PROVE  Guarded'
<1>1. ASSUME NEW s \in Sessions, Request(s)
      PROVE  Guarded'
  BY <1>1, RequestsStart, StartsIsGuarded
<1>2. ASSUME NEW s \in Sessions, Statement(s)
      PROVE  Guarded'
  BY <1>2, StatementIsGuarded
<1>3. ASSUME NEW s \in Sessions, LoseConnection(s)
      PROVE  Guarded'
  BY <1>3, FinishIsGuarded DEF LoseConnection
<1>4. CASE Tick
  BY <1>4, TickIsGuarded
<1>5. CASE UNCHANGED vars
  BY <1>5 DEF vars, Guarded, LocksExclude, FutureBookingsHavePlace
<1> QED BY <1>1, <1>2, <1>3, <1>4, <1>5 DEF Next

LEMMA InitIsGuarded ==
  ASSUME Init
  PROVE  Guarded
<1> HIDE DEF Idle
<1>1. \A s \in Sessions : ses[s] = Idle /\ exclusive[s] = {} /\ shared[s] = {}
  BY DEF Init
<1>2. \A a \in Appts : ~Booked(appt[a])
  BY DEF Init, NoRow, Booked
<1> QED
  BY <1>1, <1>2, IdleIsGuarded DEF Guarded, LocksExclude, FutureBookingsHavePlace

\* What a transaction has read and checked under its locks is still so when it
\* commits, whatever runs beside it: the inductive invariant of the theorems below.
THEOREM LocksProtect ==
  ASSUME LockingHandlers
  PROVE  Spec => []Guarded
<1>1. TypeOK /\ TypeOK' /\ Called /\ Guarded /\ [Next]_vars => Guarded'
  BY GuardedIsKept
<1> QED BY <1>1, InitIsGuarded, TypeCorrect, SessionsAreCalled, PTL DEF Spec

\* Between the conflict check of a transaction and its commit, no booking that starts
\* on the same day takes its slot: the day locks serialise those bookings by
\* themselves, before the exclusion constraint is asked.
THEOREM SlotsStayFree ==
  ASSUME LockingHandlers
  PROVE  Spec => []SlotsStayFreeUntilCommit
<1>1. Guarded => SlotsStayFreeUntilCommit
  <2> SUFFICES ASSUME Guarded, NEW s \in Sessions, ses[s].at = "write",
                      ses[s].op \in {"createAppointments", "rescheduleAppointment"},
                      NEW a \in ses[s].ids, NEW b \in Appts \ ses[s].ids,
                      Booked(Candidate(s, a)), Conflict(appt, Appts \ {b}, Candidate(s, a))
               PROVE  Day(appt[b].start) # Day(Candidate(s, a).start)
    BY DEF SlotsStayFreeUntilCommit
  <2>1. KnowsTables(ses[s], appt, open, assigned, now) /\ ses[s].op \notin PlaceOps
    BY DEF Guarded, PlaceOps
  <2>2. Booked(appt[b]) /\ appt[b].barber = Candidate(s, a).barber /\ Overlap(appt[b], Candidate(s, a))
    BY DEF Conflict
  <2> QED BY <2>1, <2>2, CandidateIsCandidateOf DEF KnowsTables
<1> QED BY <1>1, LocksProtect, PTL

\* No future booking is ever at a closed location or with a barber who was removed
\* from it, however closing and booking interleave.
THEOREM BookingsKeepTheirPlace ==
  ASSUME LockingHandlers
  PROVE  Spec => []FutureBookingsHavePlace
<1>1. Guarded => FutureBookingsHavePlace
  BY DEF Guarded
<1> QED BY <1>1, LocksProtect, PTL

-----------------------------------------------------------------------------
(* Revisions *)

\* An update of a handler that locks writes its candidate and the next revision.
LEMMA LockedUpdate ==
  ASSUME LockingHandlers, TypeOK, Called, Guarded, NEW s \in Sessions, NEW a \in Appts, Update(s, a)
  PROVE  /\ ses[s].cur = appt[a] /\ ses[s].ids = {a} /\ CalledAs(ses[s])
         /\ ses[s].op \in {"updateAppointmentWithNotification", "rescheduleAppointment", "cancelAppointment"}
         /\ Candidate(s, a) = Patched(appt[a], ses[s].want[a], ses[s].set)
         /\ SameSlotAs(appt'[a], Candidate(s, a))
         /\ appt'[a].notif = appt[a].notif + 1
<1>1. /\ ses[s].op \in UpdateOps /\ ses[s].ids = {a} /\ ses[s].at = "write" /\ CalledAs(ses[s])
      /\ KnowsTables(ses[s], appt, open, assigned, now)
  BY DEF Update, Commit, Called, Guarded
<1>2. ses[s].cur = appt[a]
  BY <1>1 DEF KnowsTables, Transacting
<1>3. ses[s].op \in {"updateAppointmentWithNotification", "rescheduleAppointment", "cancelAppointment"}
  BY <1>1 DEF CalledAs, UpdateOps, LockingHandlers
<1>4. Candidate(s, a) = Patched(appt[a], ses[s].want[a], ses[s].set)
  BY <1>2, <1>3 DEF Candidate
<1>5. NextRevision(s, a) = appt[a].notif + 1
  BY <1>2, <1>3 DEF NextRevision
<1>6. appt'[a] = Updated(s, a)
  BY UpdateWrites
<1> QED BY <1>1, <1>2, <1>3, <1>4, <1>5, <1>6, UpdatedFields DEF SameSlotAs

LEMMA StepsAdvance ==
  ASSUME LockingHandlers, TypeOK, TypeOK', Called, Guarded, RowsExist, [Next]_vars
  PROVE  \A a \in Appts : appt'[a].notif >= appt[a].notif
<1>1. \A a \in Appts : appt[a].notif \in Nat /\ appt'[a].notif \in Nat
  BY DEF TypeOK, Row
<1>2. ASSUME UNCHANGED appt
      PROVE  \A a \in Appts : appt'[a].notif >= appt[a].notif
  BY <1>1, <1>2
<1>3. ASSUME NEW s \in Sessions, Insert(s)
      PROVE  \A a \in Appts : appt'[a].notif >= appt[a].notif
  <2>1. \A a \in Appts : appt'[a] = appt[a] \/ appt[a].notif = 0
    BY <1>3, InsertWrites DEF RowsExist
  <2> QED BY <1>1, <2>1
<1>4. ASSUME NEW s \in Sessions, NEW b \in Appts, Update(s, b)
      PROVE  \A a \in Appts : appt'[a].notif >= appt[a].notif
  <2>1. appt'[b].notif = appt[b].notif + 1 /\ \A a \in Appts \ {b} : appt'[a] = appt[a]
    BY <1>4, LockedUpdate, UpdateWrites
  <2> QED BY <1>1, <2>1
<1> QED BY <1>2, <1>3, <1>4, EveryStep DEF Requested, Quiet

\* The revision of an appointment never goes back, so that an event of an old revision
\* never becomes current again.
THEOREM RevisionsNeverGoBack ==
  ASSUME LockingHandlers
  PROVE  Spec => RevisionsAdvance
<1>1. TypeOK /\ TypeOK' /\ Called /\ Guarded /\ RowsExist /\ [Next]_vars
        => [\A a \in Appts : appt'[a].notif >= appt[a].notif]_appt
  BY StepsAdvance
<1> QED
  BY <1>1, TypeCorrect, SessionsAreCalled, LocksProtect, RowsAlwaysExist, PTL
     DEF Spec, RevisionsAdvance

-----------------------------------------------------------------------------
(* Notices *)

Telling(e, a) == e.appt = a /\ e.kind \in {"confirmation", "rescheduled"}

\* The newest of the events that tell the customer when the appointment starts is right,
\* and no event is of a revision the appointment has not reached.
NoticeIsRight(a) ==
    /\ \A e \in events : e.appt = a => e.rev <= appt[a].notif /\ appt[a].status # "absent"
    /\ Booked(appt[a]) =>
          \A e \in events :
              /\ Telling(e, a)
              /\ \A f \in events : Telling(f, a) => f.rev <= e.rev
              => e.start = appt[a].start

LEMMA NewEventsAreOfTheRow ==
  ASSUME TypeOK, NEW s \in Sessions, NEW a \in Appts, NEW row \in Row
  PROVE  \A e \in NewEvents(s, a, row) :
            /\ e.appt = a /\ e.rev = row.notif
            /\ e.kind \in {"confirmation", "rescheduled"} => e.start = row.start
<1>1. ASSUME NEW k, NEW t
      PROVE  /\ NewEvent(a, k, row, t).appt = a /\ NewEvent(a, k, row, t).rev = row.notif
             /\ NewEvent(a, k, row, t).kind = k /\ NewEvent(a, k, row, t).start = t
  BY DEF NewEvent
<1>2. ASSUME NEW e \in NewEvents(s, a, row)
      PROVE  \/ \E k : e = NewEvent(a, k, row, row.start)
             \/ e = NewEvent(a, "cancelled", row, ses[s].cur.start)
  BY DEF NewEvents
<1> QED BY <1>1, <1>2

\* Inserting a row tells the customer its start, or nothing.
LEMMA InsertedNoticeIsRight ==
  ASSUME TypeOK, TypeOK', Called, NEW s \in Sessions, Insert(s), NEW b \in ses[s].ids,
         \A a \in Appts : NoticeIsRight(a)
  PROVE  NoticeIsRight(b)'
<1>1. b \in Appts /\ ses[s].ids \subseteq Appts /\ appt[b].status = "absent"
  BY InsertWrites DEF TypeOK, Session
<1>2. \A e \in events : e.appt # b
  BY <1>1 DEF NoticeIsRight
<1>3. events' = events \cup UNION {NewEvents(s, a, appt'[a]) : a \in ses[s].ids}
  BY DEF Insert, Commit
<1>4. \A a \in Appts : appt'[a] \in Row
  BY DEF TypeOK
<1>5. \A e \in events' : e.appt = b => e \in NewEvents(s, b, appt'[b])
  BY <1>1, <1>2, <1>3, <1>4, NewEventsAreOfTheRow
<1>6. \A e \in events' : e.appt = b =>
          /\ e.rev = appt'[b].notif
          /\ e.kind \in {"confirmation", "rescheduled"} => e.start = appt'[b].start
  BY <1>1, <1>4, <1>5, NewEventsAreOfTheRow
<1>7. appt'[b].notif \in Nat /\ appt'[b].status # "absent"
  BY <1>1, <1>4, InsertWrites DEF Called, CalledAs, Insert, Row
<1> QED BY <1>6, <1>7 DEF NoticeIsRight, Telling

\* An update that leaves the appointment booked with another start announces that start.
LEMMA MovesAreAnnounced ==
  ASSUME LockingHandlers, "booked" \notin Asked,
         TypeOK, TypeOK', Called, Guarded, NEW s \in Sessions, NEW a \in Appts, Update(s, a),
         Booked(appt'[a])
  PROVE  /\ Booked(appt[a])
         /\ \/ \E e \in NewEvents(s, a, appt'[a]) : Telling(e, a)
            \/ /\ appt'[a].start = appt[a].start
               /\ \A e \in NewEvents(s, a, appt'[a]) : ~Telling(e, a)
<1> DEFINE cand == Candidate(s, a)
<1>1. /\ ses[s].cur = appt[a] /\ ses[s].ids = {a} /\ CalledAs(ses[s])
      /\ ses[s].op \in {"updateAppointmentWithNotification", "rescheduleAppointment", "cancelAppointment"}
      /\ cand = Patched(appt[a], ses[s].want[a], ses[s].set)
      /\ SameSlotAs(appt'[a], cand)
  BY LockedUpdate
<1>2. ses[s].want[a] \in Row /\ appt[a] \in Row
  BY SeenIsARow DEF TypeOK, Session
<1>3. cand.status = IF "status" \in ses[s].set THEN ses[s].want[a].status ELSE appt[a].status
  BY <1>1, <1>2, PatchedFields
<1>4. Booked(cand)
  BY <1>1 DEF SameSlotAs, Booked
<1>5. "status" \notin ses[s].set
  BY <1>1, <1>3, <1>4 DEF CalledAs, UpdateOps, Cancelled, Booked
<1>6. Booked(appt[a])
  BY <1>3, <1>4, <1>5 DEF Booked
<1>7. ses[s].op # "cancelAppointment"
  BY <1>1, <1>5 DEF CalledAs
<1> HIDE DEF cand
<1>8. \A k, t : /\ NewEvent(a, k, appt'[a], t).appt = a
                /\ NewEvent(a, k, appt'[a], t).kind = k
  BY DEF NewEvent
<1>9. CASE ses[s].op = "rescheduleAppointment"
  <2>1. NewEvent(a, "rescheduled", appt'[a], appt'[a].start) \in NewEvents(s, a, appt'[a])
    BY <1>9 DEF NewEvents, LockingHandlers
  <2> QED BY <1>6, <1>8, <2>1 DEF Telling
<1>10. CASE ses[s].op = "updateAppointmentWithNotification"
  <2> DEFINE kinds == UpdateEventKind(appt[a], cand)
  <2>1. /\ \A k \in kinds : NewEvent(a, k, appt'[a], appt'[a].start) \in NewEvents(s, a, appt'[a])
        /\ \A e \in NewEvents(s, a, appt'[a]) :
              \E k \in kinds \cup {"reminder"} : e = NewEvent(a, k, appt'[a], appt'[a].start)
    BY <1>1, <1>10 DEF NewEvents, LockingHandlers, cand
  <2>2. cand.status \notin Cancelled
    BY <1>4 DEF Booked, Cancelled
  <2>3. CASE appt[a].start # cand.start
    <3>1. "rescheduled" \in kinds
      BY <1>4, <1>6, <2>2, <2>3 DEF UpdateEventKind
    <3> QED BY <1>6, <1>8, <2>1, <3>1 DEF Telling
  <2>4. CASE appt[a].start = cand.start
    <3>1. kinds \subseteq {"updated"}
      BY <2>2, <2>4 DEF UpdateEventKind
    <3>2. appt'[a].start = appt[a].start
      BY <1>1, <2>4 DEF SameSlotAs
    <3> HIDE DEF kinds
    <3>3. \A e \in NewEvents(s, a, appt'[a]) : ~Telling(e, a)
      BY <1>8, <2>1, <3>1 DEF Telling
    <3> QED BY <1>6, <3>2, <3>3
  <2> QED BY <2>3, <2>4
<1> QED BY <1>1, <1>7, <1>9, <1>10

LEMMA UpdatedNoticeIsRight ==
  ASSUME LockingHandlers, "booked" \notin Asked, TypeOK, TypeOK', Called, Guarded, RowsExist,
         NEW s \in Sessions, NEW a \in Appts, Update(s, a), NoticeIsRight(a)
  PROVE  NoticeIsRight(a)'
<1> DEFINE new == NewEvents(s, a, appt'[a])
<1>1. events' = events \cup new /\ appt'[a] \in Row /\ appt'[a].notif = appt[a].notif + 1
  BY UpdateWrites, LockedUpdate DEF TypeOK
<1>2. \A e \in new : /\ e.appt = a /\ e.rev = appt'[a].notif
                     /\ e.kind \in {"confirmation", "rescheduled"} => e.start = appt'[a].start
  BY <1>1, NewEventsAreOfTheRow
<1>3. appt'[a].status # "absent"
  <2>1. appt[a].status # "absent"
    BY DEF Update, RowsExist
  <2> QED BY <2>1, CommitsWriteRows
<1>4. appt[a].notif \in Nat /\ \A e \in events : e.rev \in Nat
  BY SeenIsARow DEF Row, TypeOK, Event
<1> HIDE DEF new
<1>5. \A e \in events' : e.appt = a => e.rev <= appt'[a].notif
  BY <1>1, <1>2, <1>4 DEF NoticeIsRight
<1>6. ASSUME Booked(appt'[a]), NEW e \in events', Telling(e, a),
             \A f \in events' : Telling(f, a) => f.rev <= e.rev
      PROVE  e.start = appt'[a].start
  <2>1. Booked(appt[a]) /\ \/ \E f \in new : Telling(f, a)
                           \/ appt'[a].start = appt[a].start /\ \A f \in new : ~Telling(f, a)
    BY <1>6, MovesAreAnnounced DEF new
  <2>2. CASE e \in new
    BY <1>2, <1>6, <2>2 DEF Telling
  <2>3. CASE e \in events /\ e \notin new
    <3>1. e.rev <= appt[a].notif
      BY <1>6, <2>3 DEF NoticeIsRight, Telling
    <3>2. ~\E f \in new : Telling(f, a)
      BY <1>1, <1>2, <1>4, <1>6, <2>3, <3>1
    <3> QED BY <1>1, <1>6, <2>1, <2>3, <3>2 DEF NoticeIsRight
  <2> QED BY <1>1, <2>2, <2>3
<1> QED BY <1>3, <1>5, <1>6 DEF NoticeIsRight

LEMMA NoticesStayRight ==
  ASSUME LockingHandlers, "booked" \notin Asked, TypeOK, TypeOK', Called, Guarded, RowsExist,
         \A a \in Appts : NoticeIsRight(a), [Next]_vars
  PROVE  \A a \in Appts : NoticeIsRight(a)'
<1>1. ASSUME UNCHANGED <<appt, events>>
      PROVE  \A a \in Appts : NoticeIsRight(a)'
  BY <1>1 DEF NoticeIsRight
<1>2. ASSUME NEW b \in Appts, appt'[b] = appt[b],
             \A e : e.appt = b => (e \in events' <=> e \in events)
      PROVE  NoticeIsRight(b)'
  BY <1>2 DEF NoticeIsRight, Telling
<1>3. \A b \in Appts : appt'[b] \in Row
  BY DEF TypeOK
<1>4. ASSUME NEW s \in Sessions, Insert(s), NEW b \in Appts
      PROVE  NoticeIsRight(b)'
  <2>1. CASE b \in ses[s].ids
    BY <1>4, <2>1, InsertedNoticeIsRight
  <2>2. CASE b \notin ses[s].ids
    <3>1. events' = events \cup UNION {NewEvents(s, a, appt'[a]) : a \in ses[s].ids}
      BY <1>4 DEF Insert, Commit
    <3>2. ses[s].ids \subseteq Appts
      BY DEF TypeOK, Session
    <3>3. \A e : e.appt = b => (e \in events' <=> e \in events)
      BY <1>3, <2>2, <3>1, <3>2, NewEventsAreOfTheRow
    <3> QED BY <1>2, <1>4, <2>2, <3>3, InsertWrites
  <2> QED BY <2>1, <2>2
<1>5. ASSUME NEW s \in Sessions, NEW a \in Appts, Update(s, a), NEW b \in Appts
      PROVE  NoticeIsRight(b)'
  <2>1. CASE b = a
    BY <1>5, <2>1, UpdatedNoticeIsRight
  <2>2. CASE b # a
    <3>1. /\ appt'[b] = appt[b] /\ appt'[a] = Updated(s, a)
          /\ events' = events \cup NewEvents(s, a, Updated(s, a))
      BY <1>5, <2>2, UpdateWrites
    <3>2. \A e : e.appt = b => (e \in events' <=> e \in events)
      BY <1>3, <2>2, <3>1, NewEventsAreOfTheRow
    <3> QED BY <1>2, <3>1, <3>2
  <2> QED BY <2>1, <2>2
<1> QED BY <1>1, <1>4, <1>5, EveryStep DEF Requested, Quiet

\* A customer who was told when the appointment starts was last told the truth, as long
\* as no edit sets a cancelled appointment back to booked, which announces nothing.
THEOREM NoticesFollowTheStart ==
  ASSUME LockingHandlers, "booked" \notin Asked
  PROVE  Spec => []NoticesMatchStart
<1> DEFINE Right == \A a \in Appts : NoticeIsRight(a)
<1>1. Init => Right
  BY DEF Init, NoticeIsRight, NoRow, Booked
<1>2. TypeOK /\ TypeOK' /\ Called /\ Guarded /\ RowsExist /\ Right /\ [Next]_vars => Right'
  BY NoticesStayRight
<1>3. Right => NoticesMatchStart
  BY DEF NoticesMatchStart, NoticeIsRight, Telling
<1> QED
  BY <1>1, <1>2, <1>3, TypeCorrect, SessionsAreCalled, LocksProtect, RowsAlwaysExist, PTL DEF Spec
==============================================================================
