-------------------------- MODULE VisitSettlement --------------------------
(***************************************************************************)
(* How visits come to be settled: bookings, completions and edits of       *)
(* visits by several clerks at once, while managers save the pay of the    *)
(* barbers and the catalogue changes its prices.                           *)
(*                                                                         *)
(* An instant is one booking long and a request is shorter than that.      *)
(* Places, series, events and the day locks belong to AppointmentBooking;  *)
(* a request they refuse is one that fails here.                           *)
(***************************************************************************)
EXTENDS AppointmentFinance

CONSTANTS
    Visits,        \* ids that the serial of the visits gives
    Legacy,        \* the visits from before prices and pay were kept with them
    LegacyRules,   \* the rules that the migration to rules by location left
    Barbers,
    Veterans,      \* the barbers of the location then
    Managers,      \* requests that save pay
    Clerks,        \* requests that change visits
    MaxNow, MaxRules,
    Prices,        \* of the one service in the catalogue
    Orders,        \* what a booking adds to a service: [extras, operational]
    Payments,      \* ways in which a visit is paid for
    PayInputs,     \* bodies of PATCH and POST /api/barbers, None for a field not sent
    Patches,       \* bodies of PATCH /api/appointments/:id, by column
    Asked,         \* statuses asked of PATCH /api/appointments/:id/status
    Expectations   \* the expectedStatus that comes with them, NotSaid for none

Details == {"start", "barber", "price", "extras"}
Statuses == {"booked", "completed", "no_show", "cancelled", "late_cancelled"}

ASSUME MaxNowAssumption == MaxNow \in Nat \ {0}

\* Rules and visits are of barbers whom the migration gave a row of barber_locations, ids
\* are serial, and what is completed is over when the first instant begins.
ASSUME LegacyAssumption ==
    /\ Visits \subseteq Nat /\ Veterans \subseteq Barbers
    /\ IsFiniteSet(LegacyRules)
    /\ \A r \in LegacyRules : /\ r.id \in 1..Cardinality(LegacyRules) /\ r.barber \in Veterans
                              /\ r.from \in 0..MaxNow /\ ValuesCheck(r.terms)
    /\ \A r, q \in LegacyRules : r.id = q.id => r = q
    /\ DOMAIN Legacy \subseteq Visits /\ IsFiniteSet(DOMAIN Legacy)
    /\ DOMAIN Legacy = 1..Cardinality(DOMAIN Legacy)
    /\ \A v \in DOMAIN Legacy : /\ {"barber", "start", "status", "snapshot"} \subseteq DOMAIN Legacy[v]
                                /\ Legacy[v].barber \in Veterans /\ Legacy[v].start \in 0..MaxNow
                                /\ Legacy[v].status \in Statuses /\ Legacy[v].snapshot = None
                                /\ Legacy[v].status = "completed" => Legacy[v].start = 0

ASSUME RequestAssumption ==
    /\ Asked \subseteq Statuses
    /\ \A patch \in Patches : /\ DOMAIN patch \subseteq Details \cup {"status", "payment"}
                              /\ "status" \in DOMAIN patch => patch.status \in Statuses
                              /\ "start" \in DOMAIN patch => patch.start \in 0..MaxNow

VARIABLES
    visits,  \* appointments and appointment_extras
    rules,   \* barber_compensation_rules of the location
    hired,   \* barber_locations
    price,   \* of the service in the catalogue
    now,
    save,    \* the pay a manager is about to insert
    edit     \* the change a clerk is about to make

NotSaid == "any"
Idle == [step |-> "idle"]

vars == <<visits, rules, hired, price, now, save, edit>>

Init ==
    /\ visits = Legacy
    /\ rules = LegacyRules
    /\ hired = Veterans
    /\ price \in Prices
    /\ now = 1
    /\ save = [m \in Managers |-> Idle]
    /\ edit = [c \in Clerks |-> Idle]

----------------------------------------------------------------------------
(* The pay of a barber *)

Or(value, default) == IF value # None THEN value ELSE default

normalizeBarberCompensationInput(input) ==
    CASE input.model = "commission" ->
            [NoTerms EXCEPT !.model = "commission", !.percent = input.percent]
      [] input.model = "chair_rent" ->
            [NoTerms EXCEPT !.model = "chair_rent", !.cents = input.cents,
                            !.period = Or(input.period, "month")]
      [] OTHER -> NoTerms

\* The input over what the latest rule says, field by field.
Merged(input, current) ==
    normalizeBarberCompensationInput(
        [model |-> Or(input.model, current.model), percent |-> Or(input.percent, current.percent),
         cents |-> Or(input.cents, current.cents), period |-> Or(input.period, current.period)])

saveBarberCompensationRuleIfNeeded(m, b, input, from) ==
    LET known == {r \in rules : r.barber = b}
        current == IF known = {} THEN NoTerms ELSE Latest(known).terms
        next == Merged(input, current)
    IN save' = IF known # {} /\ next = current THEN save
               ELSE [save EXCEPT ![m] = [step |-> "insert", barber |-> b, terms |-> next, from |-> from]]

SavePay(m, b, input) ==
    /\ save[m] = Idle /\ b \in hired
    /\ saveBarberCompensationRuleIfNeeded(m, b, input, now)
    /\ UNCHANGED <<visits, rules, hired, price, now, edit>>

HireBarber(m, b, input) ==
    /\ save[m] = Idle /\ b \notin hired
    /\ hired' = hired \cup {b}
    /\ saveBarberCompensationRuleIfNeeded(m, b, input, 0)
    /\ UNCHANGED <<visits, rules, price, now, edit>>

\* A barber of another location joins, or one who was here returns.
AssignBarber(m, b) ==
    /\ save[m] = Idle
    /\ hired' = hired \cup {b}
    /\ IF \E r \in rules : r.barber = b THEN UNCHANGED save
       ELSE saveBarberCompensationRuleIfNeeded(m, b,
                [model |-> "none", percent |-> None, cents |-> None, period |-> None], 0)
    /\ UNCHANGED <<visits, rules, price, now, edit>>

\* barber_compensation_rules_barber_location_effective_uidx
Unique(b, from) == \A r \in rules : r.barber = b => r.from # from

InsertPay(m) ==
    /\ save[m] # Idle /\ Cardinality(rules) < MaxRules
    /\ ValuesCheck(save[m].terms) /\ Unique(save[m].barber, save[m].from)
    /\ rules' = rules \cup {[id |-> Cardinality(rules) + 1, barber |-> save[m].barber,
                             terms |-> save[m].terms, from |-> save[m].from]}
    /\ save' = [save EXCEPT ![m] = Idle]
    /\ UNCHANGED <<visits, hired, price, now, edit>>

\* A constraint refuses the insert, or the process dies before it.
PayIsNotSaved(m) ==
    /\ save[m] # Idle
    /\ save' = [save EXCEPT ![m] = Idle]
    /\ UNCHANGED <<visits, rules, hired, price, now, edit>>

----------------------------------------------------------------------------
(* The life of a visit *)

\* A row with the columns of a change.
With(change, row) ==
    [x \in DOMAIN change \cup DOMAIN row |-> IF x \in DOMAIN change THEN change[x] ELSE row[x]]

\* getAppointmentStatusTimingError
Timely(status, start) ==
    /\ status = "completed" => start + 1 <= now
    /\ status = "no_show" => start <= now

resolveAppointmentCompensationSnapshot(visit) ==
    createAppointmentCompensationSnapshot(getCompensationRuleForDate(rules, visit.barber, visit.start))

\* The snapshot of a visit that becomes visit: taken when it is first completed.
SnapshotOf(visit, current) ==
    IF visit.status = "completed" /\ current.snapshot = None
    THEN resolveAppointmentCompensationSnapshot(visit) ELSE current.snapshot

NoForeignKey(visit) == visit.snapshot # None => visit.snapshot.id \in Nat

\* appointments_compensation_rule_snapshot_fkey: the rule is one of the barber.
ForeignKey(visit) ==
    visit.snapshot # None /\ visit.snapshot.id # 0 =>
        \E r \in rules : r.id = visit.snapshot.id /\ r.barber = visit.barber

\* No two bookings of a barber at one time.
NoOverlap(id, visit) ==
    visit.status = "booked" =>
        \A w \in DOMAIN visits \ {id} :
            visits[w].status = "booked" /\ visits[w].barber = visit.barber => visits[w].start # visit.start

BookVisit(b, t, order, status, payment) ==
    LET id == Cardinality(DOMAIN visits) + 1
        row == [status |-> status, barber |-> b, start |-> t, price |-> price, extras |-> order.extras,
                operational |-> order.operational, snapshot |-> None,
                payment |-> IF status = "completed" THEN payment ELSE "pending"]
        visit == [row EXCEPT !.snapshot = SnapshotOf(row, row)]
    IN /\ id \in Visits /\ b \in hired
       /\ Timely(status, t) /\ NoOverlap(id, visit) /\ ForeignKey(visit)
       /\ visits' = [v \in DOMAIN visits \cup {id} |-> IF v = id THEN visit ELSE visits[v]]
       /\ UNCHANGED <<rules, hired, price, now, save, edit>>

RequestStatus(c, v, status, expected, payment) ==
    /\ edit[c] = Idle /\ v \in DOMAIN visits
    /\ Timely(status, visits[v].start)
    /\ edit' = [edit EXCEPT ![c] =
        [step |-> "read", visit |-> v, locks |-> FALSE, expected |-> expected,
         change |-> [status |-> status,
                     payment |-> IF status = "completed" THEN payment ELSE "pending"]]]
    /\ UNCHANGED <<visits, rules, hired, price, now, save>>

\* The price goes back into the row with the schedule, as it was read here.
RequestPatch(c, v, patch) ==
    LET seen == visits[v]
        sent == DOMAIN patch
    IN /\ edit[c] = Idle /\ v \in DOMAIN visits
       /\ sent \cap Details # {} => seen.status = "booked"
       /\ "start" \in sent => patch.start = seen.start \/ patch.start >= now
       /\ "barber" \in sent => patch.barber \in hired
       /\ "status" \in sent /\ patch.status = "completed" => Timely("completed", With(patch, seen).start)
       /\ edit' = [edit EXCEPT ![c] =
            [step |-> "read", visit |-> v, locks |-> TRUE, expected |-> NotSaid,
             change |-> IF sent \cap {"start", "barber", "price"} = {} THEN patch
                        ELSE With(patch, [price |-> seen.price])]]
       /\ UNCHANGED <<visits, rules, hired, price, now, save>>

Expected(e, status) == e \in {NotSaid, status}

\* The transaction reads the row; two patches of one visit exclude each other.
ReadVisit(c) ==
    LET e == edit[c]
        current == visits[e.visit]
        candidate == With(e.change, current)
        taken == SnapshotOf(candidate, current)
    IN /\ e.step = "read" /\ Expected(e.expected, current.status)
       /\ e.locks => \A d \in Clerks : edit[d].step = "write" /\ edit[d].locks => edit[d].visit # e.visit
       /\ candidate.extras # current.extras => current.status = "booked" /\ candidate.status = "booked"
       /\ edit' = [edit EXCEPT ![c].step = "write",
                       ![c].change = IF taken = current.snapshot THEN @ ELSE With(@, [snapshot |-> taken])]
       /\ UNCHANGED <<visits, rules, hired, price, now, save>>

\* UPDATE ... WHERE id = v AND status = expected, and COMMIT.
WriteVisit(c) ==
    LET e == edit[c]
        visit == With(e.change, visits[e.visit])
    IN /\ e.step = "write" /\ Expected(e.expected, visits[e.visit].status)
       /\ NoOverlap(e.visit, visit) /\ ForeignKey(visit)
       /\ visits' = [visits EXCEPT ![e.visit] = visit]
       /\ edit' = [edit EXCEPT ![c] = Idle]
       /\ UNCHANGED <<rules, hired, price, now, save>>

\* Not found, refused by a constraint or a check, or cut off by a crash.
VisitIsNotChanged(c) ==
    /\ edit[c] # Idle
    /\ edit' = [edit EXCEPT ![c] = Idle]
    /\ UNCHANGED <<visits, rules, hired, price, now, save>>

----------------------------------------------------------------------------
AllIdle == (\A m \in Managers : save[m] = Idle) /\ (\A c \in Clerks : edit[c] = Idle)

\* No step of a request that is under way looks at the catalogue, so its
\* changes may come between requests.
ChangePrice(p) ==
    /\ AllIdle /\ p # price /\ price' = p
    /\ UNCHANGED <<visits, rules, hired, now, save, edit>>

Tick ==
    /\ AllIdle /\ now < MaxNow /\ now' = now + 1
    /\ UNCHANGED <<visits, rules, hired, price, save, edit>>

Next ==
    \/ \E m \in Managers, b \in Barbers :
        \/ AssignBarber(m, b)
        \/ \E input \in PayInputs : SavePay(m, b, input) \/ HireBarber(m, b, input)
    \/ \E m \in Managers : InsertPay(m) \/ PayIsNotSaved(m)
    \/ \E b \in Barbers, t \in 0..MaxNow, order \in Orders, payment \in Payments,
          status \in {"booked", "completed"} : BookVisit(b, t, order, status, payment)
    \/ \E c \in Clerks, v \in DOMAIN visits :
        \/ \E status \in Asked, expected \in Expectations, payment \in Payments :
               RequestStatus(c, v, status, expected, payment)
        \/ \E patch \in Patches : RequestPatch(c, v, patch)
    \/ \E c \in Clerks : ReadVisit(c) \/ WriteVisit(c) \/ VisitIsNotChanged(c)
    \/ \E p \in Prices : ChangePrice(p)
    \/ Tick

Spec == Init /\ [][Next]_vars

----------------------------------------------------------------------------
(* Rules are what barber_compensation_rules_values_check admits, and every
   visit has a barber, a status and, if it has one, a snapshot of terms. *)
TypeOK ==
    /\ DOMAIN visits \subseteq Visits /\ now \in 0..MaxNow /\ hired \subseteq Barbers
    /\ \A r \in rules : /\ r.barber \in Barbers /\ r.from \in 0..MaxNow /\ r.terms.model \in Models
                        /\ r.terms.model = "commission" => r.terms.percent \in 0..100
                        /\ r.terms.model = "chair_rent" => r.terms.cents > 0 /\ r.terms.period \in Periods
    /\ \A v \in DOMAIN visits : /\ visits[v].barber \in Barbers /\ visits[v].status \in Statuses
                                /\ visits[v].snapshot # None => visits[v].snapshot.id \in Nat

\* The operational visits from one time to another: what a report is about.
Report(from, to) == {v \in DOMAIN visits : visits[v].operational /\ visits[v].start \in from..(to - 1)}

\* The visits of a report that bear the rent of a unit, and what they bear.
RentFiled(unit, ids) ==
    {<<e.id, e.terms.cents>> : e \in {r \in Rents(visits, rules, ids) : RentUnit(r) = unit}}

(* The rent of a barber's day, week or month is charged once, to one visit of
   it, and every report that holds the visit agrees: the reports on single days
   add up to the report on all of them and to that of the barber alone, also
   when a day is not the one the rent falls due.  Nothing is charged if the
   first visit is one that reports leave out (a block or an absence). *)
RentIsChargedOnce ==
    LET all == Report(0, MaxNow + 1) IN
    \A e \in getChairRentAnchors(WithTerms(visits, rules, DOMAIN visits)) :
        LET due == IF visits[e.id].operational THEN {<<e.id, e.terms.cents>>} ELSE {} IN
        /\ RentFiled(RentUnit(e), all) = due
        /\ RentFiled(RentUnit(e), {v \in all : visits[v].barber = e.barber}) = due
        /\ UNION {RentFiled(RentUnit(e), Report(t, t + 1)) : t \in 0..MaxNow} = due

(* A visit's snapshot is of a rule of the barber who has the visit, with the
   terms of that rule, whatever completions and reassignments it raced with. *)
PaidUnderItsBarbersRule ==
    \A v \in DOMAIN visits :
        LET snapshot == visits[v].snapshot IN
        snapshot # None =>
            \/ snapshot = [id |-> 0, terms |-> NoTerms]
            \/ \E r \in rules : /\ r.id = snapshot.id /\ r.barber = visits[v].barber
                                /\ r.terms = snapshot.terms

Filed(v, from, to) == calculateAppointmentsFinancials(visits, rules, price, Report(from, to))[v]

Settled == {v \in DOMAIN visits : visits[v].status = "completed" /\ visits[v].price # None
                                  /\ visits[v].operational}

(* What is filed under a past visit that has its own price, in the report on
   its day and in the report on all days, is not rewritten by saved pay, by new
   barbers or by the catalogue's prices. *)
HistoryIsNotRepriced ==
    [][rules' # rules \/ price' # price =>
        \A v \in Settled :
            /\ Filed(v, 0, MaxNow + 1)' = Filed(v, 0, MaxNow + 1)
            /\ Filed(v, visits[v].start, visits[v].start + 1)' = Filed(v, visits[v].start, visits[v].start + 1)]_vars

(* The pay a visit was first completed under stays with it, through every
   reopening, second completion and edit (a snapshot is immutable). *)
SnapshotsAreKept ==
    [][\A v \in DOMAIN visits :
        visits[v].snapshot # None => visits'[v].snapshot = visits[v].snapshot]_vars

(* A completed visit is over: only a visit whose time has passed is paid for.
   TLC refutes this: two writers pass the check of one another's old row, see
   README.md. *)
CompletedVisitsAreOver ==
    \A v \in DOMAIN visits : visits[v].status = "completed" => visits[v].start < now
============================================================================
