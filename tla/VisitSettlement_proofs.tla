----------------------- MODULE VisitSettlement_proofs -----------------------
(***************************************************************************)
(* Visits are paid under a rule of the barber who has them, rent is charged *)
(* once, and neither new pay nor a new price rewrites what is settled: for *)
(* any number of clerks, managers, barbers and visits and whatever they ask *)
(* for.                                                                    *)
(***************************************************************************)
EXTENDS VisitSettlement, FiniteSetTheorems, WellFoundedInduction, TLAPS

-----------------------------------------------------------------------------
(* Rules *)

(* Of rules with effective dates, one is the latest: what the history of a
   barber says of a date is well defined. *)
LEMMA LatestIsOne ==
  ASSUME NEW known, known # {}, \A r \in known : r.from \in 0..MaxNow
  PROVE  Latest(known) \in known
<1> DEFINE T == {MaxNow - r.from : r \in known}
<1>1. T \subseteq Nat /\ T # {}
  BY MaxNowAssumption
<1>2. PICK x \in T : \A y \in T : <<y, x>> \notin OpToRel(<, Nat)
  BY <1>1, NatLessThanWellFounded, WFMin
<1>3. \A y \in T : ~(y < x)
  BY <1>1, <1>2 DEF OpToRel
<1>4. PICK r \in known : x = MaxNow - r.from
  BY <1>2
<1>5. \A q \in known : q.from <= r.from
  <2> TAKE q \in known
  <2>1. ~(MaxNow - q.from < MaxNow - r.from)
    BY <1>3, <1>4
  <2> QED
    BY <2>1, MaxNowAssumption
<1> QED
  BY <1>5 DEF Latest

(* The rules that the table admits: found by their id. *)
RulesOK ==
  /\ IsFiniteSet(rules)
  /\ \A r \in rules : /\ r.id \in 1..Cardinality(rules) /\ r.barber \in Barbers
                      /\ r.from \in 0..MaxNow /\ ValuesCheck(r.terms)
  /\ \A r, q \in rules : r.id = q.id => r = q

Known(snapshot) ==
  \/ snapshot = [id |-> 0, terms |-> NoTerms]
  \/ \E r \in rules : r.id = snapshot.id /\ r.terms = snapshot.terms

Paid(visit) ==
  \/ visit.snapshot = [id |-> 0, terms |-> NoTerms]
  \/ \E r \in rules : /\ r.id = visit.snapshot.id /\ r.barber = visit.barber
                       /\ r.terms = visit.snapshot.terms

SaveOK ==
  /\ DOMAIN save = Managers
  /\ \A m \in Managers : save[m] # Idle => save[m].barber \in Barbers /\ save[m].from \in 0..MaxNow

RowOK(visit) ==
  /\ {"barber", "start", "status", "snapshot"} \subseteq DOMAIN visit
  /\ visit.barber \in Barbers /\ visit.start \in 0..MaxNow /\ visit.status \in Statuses
  /\ visit.snapshot # None => Paid(visit)

VisitsOK ==
  /\ DOMAIN visits \subseteq Visits /\ IsFiniteSet(DOMAIN visits)
  /\ DOMAIN visits = 1..Cardinality(DOMAIN visits)
  /\ \A v \in DOMAIN visits : RowOK(visits[v])

(* What a clerk is about to write into a row. *)
ChangeOK(change) ==
  /\ "barber" \in DOMAIN change => change.barber \in Barbers
  /\ "start" \in DOMAIN change => change.start \in 0..MaxNow
  /\ "status" \in DOMAIN change => change.status \in Statuses
  /\ "snapshot" \in DOMAIN change => Known(change.snapshot)

EditOK ==
  /\ DOMAIN edit = Clerks
  /\ \A c \in Clerks : edit[c] # Idle =>
        /\ DOMAIN edit[c] = {"step", "visit", "locks", "expected", "change"}
        /\ edit[c].visit \in DOMAIN visits /\ ChangeOK(edit[c].change)

Ind == RulesOK /\ now \in 0..MaxNow /\ hired \subseteq Barbers /\ SaveOK /\ VisitsOK /\ EditOK

(* A snapshot that is taken is that of a known rule. *)
LEMMA SnapshotIsKnown ==
  ASSUME RulesOK, NEW visit
  PROVE  Known(resolveAppointmentCompensationSnapshot(visit))
<1> DEFINE known == {r \in rules : r.barber = visit.barber /\ r.from <= visit.start}
<1>1. CASE known = {}
  BY <1>1 DEF Known, resolveAppointmentCompensationSnapshot, createAppointmentCompensationSnapshot,
     getCompensationRuleForDate, createDefaultCompensationRule
<1>2. CASE known # {}
  <2>1. Latest(known) \in known
    <3>1. \A r \in known : r.from \in 0..MaxNow
      BY DEF RulesOK
    <3> QED
      BY <1>2, <3>1, LatestIsOne
  <2>2. resolveAppointmentCompensationSnapshot(visit) = [id |-> Latest(known).id, terms |-> Latest(known).terms]
    BY <1>2 DEF resolveAppointmentCompensationSnapshot, createAppointmentCompensationSnapshot,
       getCompensationRuleForDate
  <2>3. PICK r \in rules : r = Latest(known)
    BY <2>1
  <2> HIDE DEF known
  <2>4. resolveAppointmentCompensationSnapshot(visit) = [id |-> r.id, terms |-> r.terms]
    BY <2>2, <2>3
  <2> QED
    BY <2>4 DEF Known
<1> QED
  BY <1>1, <1>2

(* The foreign key makes a known snapshot one of the barber's own rules:
   this is where two rules of one id would hurt. *)
LEMMA ForeignKeyPays ==
  ASSUME RulesOK, NEW visit, visit.snapshot # None, Known(visit.snapshot), ForeignKey(visit)
  PROVE  Paid(visit)
<1>1. CASE visit.snapshot = [id |-> 0, terms |-> NoTerms]
  BY <1>1 DEF Paid
<1>2. CASE visit.snapshot # [id |-> 0, terms |-> NoTerms]
  <2>1. PICK r \in rules : r.id = visit.snapshot.id /\ r.terms = visit.snapshot.terms
    BY <1>2 DEF Known
  <2>2. visit.snapshot.id # 0
    <3>1. r.id \in 1..Cardinality(rules)
      BY DEF RulesOK
    <3>2. Cardinality(rules) \in Nat
      BY FS_CardinalityType DEF RulesOK
    <3> QED
      BY <2>1, <3>1, <3>2
  <2>3. PICK q \in rules : q.id = visit.snapshot.id /\ q.barber = visit.barber
    BY <2>2 DEF ForeignKey
  <2>4. q = r
    BY <2>1, <2>3 DEF RulesOK
  <2> QED
    BY <2>1, <2>3, <2>4 DEF Paid
<1> QED
  BY <1>1, <1>2

-----------------------------------------------------------------------------
(* The invariant *)

LEMMA IndInit == Init => Ind
<1> SUFFICES ASSUME Init PROVE Ind
  OBVIOUS
<1>1. RulesOK
  BY LegacyAssumption DEF Init, RulesOK
<1>2. SaveOK /\ EditOK
  BY DEF Init, SaveOK, EditOK
<1>3. VisitsOK
  BY LegacyAssumption DEF Init, VisitsOK, RowOK
<1>4. now \in 0..MaxNow /\ hired \subseteq Barbers
  BY MaxNowAssumption, LegacyAssumption DEF Init
<1> QED
  BY <1>1, <1>2, <1>3, <1>4 DEF Ind

(* A barber whose pay is saved is one the location knows. *)
LEMMA SavesAreOfBarbers ==
  ASSUME SaveOK, now \in 0..MaxNow, NEW m \in Managers, NEW b \in Barbers, NEW input, NEW from \in 0..MaxNow,
         saveBarberCompensationRuleIfNeeded(m, b, input, from)
  PROVE  SaveOK'
<1> DEFINE next == Merged(input, IF {r \in rules : r.barber = b} = {} THEN NoTerms
                                 ELSE Latest({r \in rules : r.barber = b}).terms)
           pay == [step |-> "insert", barber |-> b, terms |-> next, from |-> from]
<1>1. save' = save \/ save' = [save EXCEPT ![m] = pay]
  BY DEF saveBarberCompensationRuleIfNeeded
<1>2. pay.barber = b /\ pay.from = from
  OBVIOUS
<1> HIDE DEF pay
<1> QED
  BY <1>1, <1>2 DEF SaveOK, Idle

(* Inserting a rule admits one that the table's check admits, under a new id. *)
LEMMA InsertedRules ==
  ASSUME Ind, NEW m \in Managers, InsertPay(m)
  PROVE  RulesOK' /\ rules \subseteq rules'
<1> DEFINE new == [id |-> Cardinality(rules) + 1, barber |-> save[m].barber,
                   terms |-> save[m].terms, from |-> save[m].from]
<1>1. /\ new.id = Cardinality(rules) + 1 /\ new.barber \in Barbers
      /\ new.from \in 0..MaxNow /\ ValuesCheck(new.terms)
  BY DEF InsertPay, Ind, SaveOK
<1>2. rules' = rules \cup {new}
  BY DEF InsertPay
<1> HIDE DEF new
<1>3. Cardinality(rules) \in Nat
  BY FS_CardinalityType DEF Ind, RulesOK
<1>4. \A r \in rules : r.id \in 1..Cardinality(rules)
  BY DEF Ind, RulesOK
<1>5. new \notin rules
  BY <1>1, <1>3, <1>4
<1>6. IsFiniteSet(rules') /\ Cardinality(rules') = Cardinality(rules) + 1
  BY <1>2, <1>5, FS_AddElement DEF Ind, RulesOK
<1>7. \A r \in rules' : r.id \in 1..Cardinality(rules')
  BY <1>1, <1>2, <1>3, <1>4, <1>6
<1>8. \A r, q \in rules' : r.id = q.id => r = q
  BY <1>1, <1>2, <1>3, <1>4 DEF Ind, RulesOK
<1>9. \A r \in rules' : r.barber \in Barbers /\ r.from \in 0..MaxNow /\ ValuesCheck(r.terms)
  BY <1>1, <1>2 DEF Ind, RulesOK
<1> QED
  BY <1>2, <1>6, <1>7, <1>8, <1>9 DEF RulesOK, ValuesCheck

(* More rules pay what was paid and know what was known. *)
LEMMA MoreRules ==
  ASSUME rules \subseteq rules', UNCHANGED <<visits, edit>>, VisitsOK, EditOK
  PROVE  VisitsOK' /\ EditOK'
<1>1. \A visit : Paid(visit) => Paid(visit)'
  BY DEF Paid
<1>2. \A snapshot : Known(snapshot) => Known(snapshot)'
  BY DEF Known
<1>3. VisitsOK'
  BY <1>1 DEF VisitsOK, RowOK
<1>4. EditOK'
  BY <1>2 DEF EditOK, ChangeOK
<1> QED
  BY <1>3, <1>4

(* The serial of the visits gives an id that no visit has. *)
LEMMA NextId ==
  ASSUME Ind, NEW id, id = Cardinality(DOMAIN visits) + 1, NEW S, S = DOMAIN visits \cup {id}
  PROVE  id \notin DOMAIN visits /\ IsFiniteSet(S) /\ S = 1..Cardinality(S)
<1>1. /\ IsFiniteSet(DOMAIN visits) /\ Cardinality(DOMAIN visits) \in Nat
      /\ DOMAIN visits = 1..Cardinality(DOMAIN visits)
  BY FS_CardinalityType DEF Ind, VisitsOK
<1>2. id \notin DOMAIN visits
  BY <1>1
<1>3. IsFiniteSet(S) /\ Cardinality(S) = Cardinality(DOMAIN visits) + 1
  BY <1>1, <1>2, FS_AddElement
<1>4. \A n \in Nat : 1..(n + 1) = (1..n) \cup {n + 1}
  OBVIOUS
<1>5. 1..(Cardinality(DOMAIN visits) + 1) = DOMAIN visits \cup {id}
  BY <1>1, <1>4
<1> QED
  BY <1>2, <1>3, <1>5

(* A new visit is paid as its barber is, if it is entered as done. *)
LEMMA BookedVisits ==
  ASSUME Ind, NEW b \in Barbers, NEW t \in 0..MaxNow, NEW order, NEW payment,
         NEW status \in {"booked", "completed"}, BookVisit(b, t, order, status, payment)
  PROVE  VisitsOK' /\ EditOK'
<1> DEFINE id == Cardinality(DOMAIN visits) + 1
           row == [status |-> status, barber |-> b, start |-> t, price |-> price, extras |-> order.extras,
                   operational |-> order.operational, snapshot |-> None,
                   payment |-> IF status = "completed" THEN payment ELSE "pending"]
           visit == [row EXCEPT !.snapshot = SnapshotOf(row, row)]
<1>1. id \in Visits /\ ForeignKey(visit) /\ visits' = [v \in DOMAIN visits \cup {id} |-> IF v = id THEN visit ELSE visits[v]] /\ UNCHANGED <<rules, edit>>
  BY DEF BookVisit
<1>2. /\ row.snapshot = None
      /\ {"barber", "start", "status", "snapshot"} \subseteq DOMAIN visit
      /\ visit.barber = b /\ visit.start = t /\ visit.status = status /\ visit.snapshot = SnapshotOf(row, row)
  OBVIOUS
<1>3. visit.snapshot # None => Known(visit.snapshot)
  BY <1>2, SnapshotIsKnown DEF Ind, SnapshotOf
<1> HIDE DEF row, visit, id
<1>4. RowOK(visit)
  BY <1>1, <1>2, <1>3, ForeignKeyPays DEF RowOK, Ind, Statuses
<1>5. /\ DOMAIN visits' = DOMAIN visits \cup {id}
      /\ \A v \in DOMAIN visits' : visits'[v] = IF v = id THEN visit ELSE visits[v]
  BY <1>1
<1>6. \A v \in DOMAIN visits' : RowOK(visits'[v])
  BY <1>4, <1>5 DEF Ind, VisitsOK
<1>7. IsFiniteSet(DOMAIN visits') /\ DOMAIN visits' = 1..Cardinality(DOMAIN visits')
  BY <1>5, NextId DEF id
<1>8. VisitsOK'
  BY <1>1, <1>5, <1>6, <1>7 DEF Ind, VisitsOK, RowOK, Paid
<1>9. EditOK'
  BY <1>1, <1>5 DEF Ind, EditOK, ChangeOK, Known
<1> QED
  BY <1>8, <1>9

(* A request asks for statuses and barbers that exist, and for no snapshot. *)
LEMMA Requests ==
  ASSUME Ind, NEW c \in Clerks, NEW v \in DOMAIN visits, UNCHANGED <<visits, rules>>,
         \/ \E status \in Asked, expected \in Expectations, payment \in Payments :
                RequestStatus(c, v, status, expected, payment)
         \/ \E patch \in Patches : RequestPatch(c, v, patch)
  PROVE  EditOK'
<1>1. ASSUME NEW e, edit' = [edit EXCEPT ![c] = e], e.visit = v, ChangeOK(e.change),
             DOMAIN e = {"step", "visit", "locks", "expected", "change"}
      PROVE  EditOK'
  BY <1>1 DEF Ind, EditOK, ChangeOK, Known
<1>2. CASE \E status \in Asked, expected \in Expectations, payment \in Payments :
             RequestStatus(c, v, status, expected, payment)
  <2>1. PICK status \in Asked, expected \in Expectations, payment \in Payments :
               RequestStatus(c, v, status, expected, payment)
    BY <1>2
  <2> DEFINE change == [status |-> status, payment |-> IF status = "completed" THEN payment ELSE "pending"]
             e == [step |-> "read", visit |-> v, locks |-> FALSE, expected |-> expected, change |-> change]
  <2>2. ChangeOK(change)
    BY RequestAssumption DEF ChangeOK
  <2>3. edit' = [edit EXCEPT ![c] = e]
    BY <2>1 DEF RequestStatus
  <2>4. e.visit = v /\ e.change = change /\ DOMAIN e = {"step", "visit", "locks", "expected", "change"}
    OBVIOUS
  <2> HIDE DEF change, e
  <2> QED
    BY <1>1, <2>2, <2>3, <2>4
<1>3. CASE \E patch \in Patches : RequestPatch(c, v, patch)
  <2>1. PICK patch \in Patches : RequestPatch(c, v, patch)
    BY <1>3
  <2> DEFINE change == IF DOMAIN patch \cap {"start", "barber", "price"} = {} THEN patch
                       ELSE With(patch, [price |-> visits[v].price])
             e == [step |-> "read", visit |-> v, locks |-> TRUE, expected |-> NotSaid, change |-> change]
  <2>2. "barber" \in DOMAIN patch => patch.barber \in Barbers
    BY <2>1 DEF RequestPatch, Ind
  <2>3. /\ "snapshot" \notin DOMAIN patch /\ ("status" \in DOMAIN patch => patch.status \in Statuses)
        /\ "start" \in DOMAIN patch => patch.start \in 0..MaxNow
    BY RequestAssumption DEF Details
  <2>4. ChangeOK(change)
    <3>1. CASE DOMAIN patch \cap {"start", "barber", "price"} = {}
      BY <2>2, <2>3, <3>1 DEF ChangeOK
    <3>2. CASE DOMAIN patch \cap {"start", "barber", "price"} # {}
      <4>1. change = With(patch, [price |-> visits[v].price])
        BY <3>2
      <4> HIDE DEF change
      <4>2. /\ DOMAIN change = DOMAIN patch \cup {"price"}
            /\ \A x \in DOMAIN patch : change[x] = patch[x]
        BY <4>1 DEF With
      <4> QED
        BY <2>2, <2>3, <4>2 DEF ChangeOK
    <3> QED
      BY <3>1, <3>2
  <2>5. edit' = [edit EXCEPT ![c] = e]
    BY <2>1 DEF RequestPatch
  <2>6. e.visit = v /\ e.change = change /\ DOMAIN e = {"step", "visit", "locks", "expected", "change"}
    OBVIOUS
  <2> HIDE DEF change, e
  <2> QED
    BY <1>1, <2>4, <2>5, <2>6
<1> QED
  BY <1>2, <1>3

(* The transaction adds no snapshot but one it takes from the rules. *)
LEMMA ReadVisits ==
  ASSUME Ind, NEW c \in Clerks, ReadVisit(c)
  PROVE  EditOK'
<1> DEFINE e == edit[c]
           current == visits[e.visit]
           taken == SnapshotOf(With(e.change, current), current)
           change == IF taken = current.snapshot THEN e.change ELSE With(e.change, [snapshot |-> taken])
<1>1. /\ e.step = "read" /\ UNCHANGED <<visits, rules>>
      /\ edit' = [edit EXCEPT ![c].step = "write", ![c].change = change]
  BY DEF ReadVisit
<1>2. /\ DOMAIN e = {"step", "visit", "locks", "expected", "change"}
      /\ e.visit \in DOMAIN visits /\ ChangeOK(e.change)
  BY <1>1 DEF Ind, EditOK, Idle
<1>3. ChangeOK(change)
  <2>1. CASE taken = current.snapshot
    BY <1>2, <2>1
  <2>2. CASE taken # current.snapshot
    <3>1. Known(taken)
      BY <2>2, SnapshotIsKnown DEF Ind, SnapshotOf
    <3>2. change = With(e.change, [snapshot |-> taken])
      BY <2>2
    <3> HIDE DEF change, taken, e
    <3>3. /\ DOMAIN change = DOMAIN e.change \cup {"snapshot"}
          /\ \A x \in DOMAIN e.change : change[x] = e.change[x]
          /\ "snapshot" \notin DOMAIN e.change => change["snapshot"] = taken
      BY <3>2 DEF With
    <3> QED
      BY <1>2, <3>1, <3>3 DEF ChangeOK
  <2> QED
    BY <2>1, <2>2
<1> HIDE DEF change, taken, current
<1>4. DOMAIN edit = Clerks
  BY DEF Ind, EditOK
<1> DEFINE new == [e EXCEPT !.step = "write", !.change = change]
<1>5. edit' = [edit EXCEPT ![c] = new]
  BY <1>1, <1>4
<1>6. DOMAIN new = DOMAIN e /\ new.visit = e.visit /\ new.change = change
  BY <1>2
<1> HIDE DEF e, new
<1> QED
  BY <1>1, <1>2, <1>3, <1>4, <1>5, <1>6 DEF Ind, EditOK, ChangeOK, Known

(* The row that is written obeys the foreign key with whatever was written
   since the transaction read it. *)
LEMMA WrittenVisits ==
  ASSUME Ind, NEW c \in Clerks, WriteVisit(c)
  PROVE  VisitsOK' /\ EditOK'
<1> DEFINE e == edit[c]
           current == visits[e.visit]
           visit == With(e.change, current)
<1>1. /\ e.step = "write" /\ ForeignKey(visit) /\ UNCHANGED rules
      /\ visits' = [visits EXCEPT ![e.visit] = visit] /\ edit' = [edit EXCEPT ![c] = Idle]
  BY DEF WriteVisit
<1>2. e.visit \in DOMAIN visits /\ ChangeOK(e.change)
  BY <1>1 DEF Ind, EditOK, Idle
<1>3. RowOK(current)
  BY <1>2 DEF Ind, VisitsOK
<1> HIDE DEF current, e
<1>4. /\ DOMAIN visit = DOMAIN e.change \cup DOMAIN current
      /\ \A x \in DOMAIN visit : visit[x] = IF x \in DOMAIN e.change THEN e.change[x] ELSE current[x]
  BY DEF With
<1> HIDE DEF visit
<1>5. \A s : Paid(s) => Known(s.snapshot)
  BY DEF Paid, Known
<1>6. /\ {"barber", "start", "status", "snapshot"} \subseteq DOMAIN visit
      /\ visit.barber \in Barbers /\ visit.start \in 0..MaxNow /\ visit.status \in Statuses
      /\ visit.snapshot # None => Known(visit.snapshot)
  BY <1>2, <1>3, <1>4, <1>5 DEF RowOK, ChangeOK
<1>7. RowOK(visit)
  BY <1>1, <1>6, ForeignKeyPays DEF RowOK, Ind
<1>8. \A v \in DOMAIN visits' : RowOK(visits'[v])
  BY <1>1, <1>7 DEF Ind, VisitsOK
<1>9. VisitsOK'
  BY <1>1, <1>8 DEF Ind, VisitsOK, RowOK, Paid
<1>10. EditOK'
  BY <1>1 DEF Ind, EditOK, ChangeOK, Known
<1> QED
  BY <1>9, <1>10

(* Every step of the system preserves the invariant. *)
LEMMA IndStep == Ind /\ [Next]_vars => Ind'
<1> SUFFICES ASSUME Ind, [Next]_vars PROVE Ind'
  OBVIOUS
<1> USE DEF Ind
<1>1. ASSUME NEW m \in Managers, NEW b \in Barbers, NEW input,
             SavePay(m, b, input) \/ HireBarber(m, b, input) \/ AssignBarber(m, b)
      PROVE  Ind'
  <2>1. UNCHANGED <<visits, rules, now, edit>> /\ hired' \subseteq Barbers
    BY <1>1 DEF SavePay, HireBarber, AssignBarber
  <2>2. SaveOK'
    <3>1. 0 \in 0..MaxNow
      BY MaxNowAssumption
    <3>2. CASE SavePay(m, b, input)
      BY <3>2, SavesAreOfBarbers DEF SavePay
    <3>3. CASE HireBarber(m, b, input)
      BY <3>1, <3>3, SavesAreOfBarbers DEF HireBarber
    <3>4. CASE AssignBarber(m, b)
      BY <3>1, <3>4, SavesAreOfBarbers DEF AssignBarber, SaveOK
    <3> QED
      BY <1>1, <3>2, <3>3, <3>4
  <2> QED
    BY <2>1, <2>2, MoreRules DEF RulesOK
<1>2. ASSUME NEW m \in Managers, InsertPay(m)
      PROVE  Ind'
  <2>1. UNCHANGED <<visits, hired, now, edit>> /\ save' = [save EXCEPT ![m] = Idle]
    BY <1>2 DEF InsertPay
  <2>2. SaveOK'
    BY <2>1 DEF SaveOK
  <2> QED
    BY <1>2, <2>1, <2>2, InsertedRules, MoreRules
<1>3. ASSUME NEW m \in Managers, PayIsNotSaved(m)
      PROVE  Ind'
  <2>1. UNCHANGED <<visits, rules, hired, now, edit>> /\ save' = [save EXCEPT ![m] = Idle]
    BY <1>3 DEF PayIsNotSaved
  <2>2. SaveOK'
    BY <2>1 DEF SaveOK
  <2> QED
    BY <2>1, <2>2, MoreRules DEF RulesOK
<1>4. ASSUME NEW b \in Barbers, NEW t \in 0..MaxNow, NEW order, NEW payment, NEW status \in {"booked", "completed"},
             BookVisit(b, t, order, status, payment)
      PROVE  Ind'
  <2>1. UNCHANGED <<rules, hired, now, save>>
    BY <1>4 DEF BookVisit
  <2> QED
    BY <1>4, <2>1, BookedVisits DEF RulesOK, SaveOK
<1>5. ASSUME NEW c \in Clerks, NEW v \in DOMAIN visits,
             \/ \E status \in Asked, expected \in Expectations, payment \in Payments :
                    RequestStatus(c, v, status, expected, payment)
             \/ \E patch \in Patches : RequestPatch(c, v, patch)
      PROVE  Ind'
  <2>1. UNCHANGED <<visits, rules, hired, now, save>>
    BY <1>5 DEF RequestStatus, RequestPatch
  <2>2. EditOK'
    BY <1>5, <2>1, Requests
  <2>3. VisitsOK'
    BY <2>1 DEF VisitsOK, RowOK, Paid
  <2> QED
    BY <2>1, <2>2, <2>3 DEF RulesOK, SaveOK
<1>6. ASSUME NEW c \in Clerks, ReadVisit(c)
      PROVE  Ind'
  <2>1. UNCHANGED <<visits, rules, hired, now, save>>
    BY <1>6 DEF ReadVisit
  <2>2. VisitsOK'
    BY <2>1 DEF VisitsOK, RowOK, Paid
  <2> QED
    BY <1>6, <2>1, <2>2, ReadVisits DEF RulesOK, SaveOK
<1>7. ASSUME NEW c \in Clerks, WriteVisit(c)
      PROVE  Ind'
  <2>1. UNCHANGED <<rules, hired, now, save>>
    BY <1>7 DEF WriteVisit
  <2> QED
    BY <1>7, <2>1, WrittenVisits DEF RulesOK, SaveOK
<1>8. ASSUME NEW c \in Clerks, VisitIsNotChanged(c)
      PROVE  Ind'
  <2>1. UNCHANGED <<visits, rules, hired, now, save>> /\ edit' = [edit EXCEPT ![c] = Idle]
    BY <1>8 DEF VisitIsNotChanged
  <2>2. VisitsOK'
    BY <2>1 DEF VisitsOK, RowOK, Paid
  <2>3. EditOK'
    BY <2>1 DEF EditOK, ChangeOK, Known
  <2> QED
    BY <2>1, <2>2, <2>3 DEF RulesOK, SaveOK
<1>9. ASSUME Tick \/ (\E p \in Prices : ChangePrice(p)) \/ UNCHANGED vars
      PROVE  Ind'
  <2>1. UNCHANGED <<visits, rules, hired, save, edit>>
    BY <1>9 DEF Tick, ChangePrice, vars
  <2>2. now' \in 0..MaxNow
    BY <1>9, MaxNowAssumption DEF Tick, ChangePrice, vars
  <2> QED
    BY <2>1, <2>2, MoreRules DEF RulesOK, SaveOK
<1> QED
  BY <1>1, <1>2, <1>3, <1>4, <1>5, <1>6, <1>7, <1>8, <1>9 DEF Next

(* The invariant says what the runs check. *)
LEMMA IndShows == Ind => TypeOK /\ PaidUnderItsBarbersRule
<1> SUFFICES ASSUME Ind PROVE TypeOK /\ PaidUnderItsBarbersRule
  OBVIOUS
<1>1. PaidUnderItsBarbersRule
  BY DEF Ind, VisitsOK, RowOK, Paid, PaidUnderItsBarbersRule
<1>2. ASSUME NEW r \in rules
      PROVE  /\ r.barber \in Barbers /\ r.from \in 0..MaxNow /\ r.terms.model \in Models
             /\ r.terms.model = "commission" => r.terms.percent \in 0..100
             /\ r.terms.model = "chair_rent" => r.terms.cents > 0 /\ r.terms.period \in Periods
  <2>1. r.barber \in Barbers /\ r.from \in 0..MaxNow /\ ValuesCheck(r.terms)
    BY DEF Ind, RulesOK
  <2>2. CASE r.terms = NoTerms
    BY <2>1, <2>2 DEF NoTerms, Models
  <2>3. CASE r.terms # NoTerms
    BY <2>1, <2>3 DEF ValuesCheck, Terms, Models
  <2> QED
    BY <2>2, <2>3
<1>3. ASSUME NEW v \in DOMAIN visits
      PROVE  /\ visits[v].barber \in Barbers /\ visits[v].status \in Statuses
             /\ visits[v].snapshot # None => visits[v].snapshot.id \in Nat
  <2>1. RowOK(visits[v])
    BY DEF Ind, VisitsOK
  <2>2. \A r \in rules : r.id \in Nat
    <3>1. \A r \in rules : r.id \in 1..Cardinality(rules)
      BY DEF Ind, RulesOK
    <3>2. Cardinality(rules) \in Nat
      BY FS_CardinalityType DEF Ind, RulesOK
    <3> QED
      BY <3>1, <3>2
  <2>3. Paid(visits[v]) => visits[v].snapshot.id \in Nat
    BY <2>2 DEF Paid
  <2> QED
    BY <2>1, <2>3 DEF RowOK
<1> QED
  BY <1>1, <1>2, <1>3 DEF TypeOK, Ind, VisitsOK

-----------------------------------------------------------------------------
(* Rent *)

\* What a report knows of a visit, and of all visits.
Entry(vs, rs, v) ==
  [id |-> v, barber |-> vs[v].barber, start |-> vs[v].start, status |-> vs[v].status,
   terms |-> getCompensationRuleForAppointment(rs, vs[v]).terms]

LEMMA Entries ==
  ASSUME NEW vs, NEW rs, NEW ids
  PROVE  /\ \A e : e \in WithTerms(vs, rs, ids) <=> \E v \in ids : e = Entry(vs, rs, v)
         /\ \A v : /\ Entry(vs, rs, v).id = v /\ Entry(vs, rs, v).barber = vs[v].barber
                   /\ Entry(vs, rs, v).start = vs[v].start /\ Entry(vs, rs, v).status = vs[v].status
                   /\ Entry(vs, rs, v).terms = getCompensationRuleForAppointment(rs, vs[v]).terms
BY DEF WithTerms, Entry

(* The visits of a report that bear rent are those of the report that bear it
   among all: looking in what the same barbers did is enough, since a unit is of
   one barber, and choosing again within the report loses none. *)
LEMMA RentsOfAReport ==
  ASSUME NEW vs, NEW rs, NEW ids, ids \subseteq DOMAIN vs
  PROVE  Rents(vs, rs, ids) = {e \in getChairRentAnchors(WithTerms(vs, rs, DOMAIN vs)) : e.id \in ids}
<1>1. PICK all : all = WithTerms(vs, rs, DOMAIN vs)
  OBVIOUS
<1>2. PICK barbers : barbers = {vs[v].barber : v \in ids}
  OBVIOUS
<1>3. PICK known : known = WithTerms(vs, rs, {w \in DOMAIN vs : vs[w].barber \in barbers})
  OBVIOUS
<1>4. AnchorsOfTheLocation(vs, rs, ids) = getChairRentAnchors(known)
  BY <1>2, <1>3 DEF AnchorsOfTheLocation
<1>5. \A e : e \in known <=> e \in all /\ e.barber \in barbers
  <2>1. \A e : e \in all <=> \E v \in DOMAIN vs : e = Entry(vs, rs, v)
    BY <1>1, Entries
  <2>2. \A e : e \in known <=> \E v \in {w \in DOMAIN vs : vs[w].barber \in barbers} : e = Entry(vs, rs, v)
    BY <1>3, Entries
  <2>3. \A v : Entry(vs, rs, v).barber = vs[v].barber
    BY Entries
  <2> QED
    BY <2>1, <2>2, <2>3
<1>6. \A e : e \in OnRent(known) <=> e \in OnRent(all) /\ e.barber \in barbers
  BY <1>5 DEF OnRent
<1>7. \A e, f : RentUnit(e) = RentUnit(f) => e.barber = f.barber
  BY DEF RentUnit
<1>8. \A e : e \in getChairRentAnchors(known) <=> e \in getChairRentAnchors(all) /\ e.barber \in barbers
  BY <1>6, <1>7 DEF getChairRentAnchors
<1>9. \A e \in all : e.id \in ids => e.barber \in barbers
  <2>1. \A e \in all : e.id \in DOMAIN vs /\ e.barber = vs[e.id].barber
    BY <1>1, Entries
  <2> QED
    BY <1>2, <2>1
<1>10. PICK S : S = {e \in getChairRentAnchors(all) : e.id \in ids}
  OBVIOUS
<1>11. {e \in getChairRentAnchors(known) : e.id \in ids} = S
  BY <1>8, <1>9, <1>10 DEF getChairRentAnchors, OnRent
<1>12. OnRent(S) = S /\ S \subseteq OnRent(all)
  BY <1>10 DEF getChairRentAnchors, OnRent
<1>13. \A e, f \in S : RentUnit(f) = RentUnit(e) => ~Earlier(f, e)
  BY <1>10, <1>12 DEF getChairRentAnchors
<1>14. getChairRentAnchors(S) = S
  BY <1>12, <1>13 DEF getChairRentAnchors
<1> QED
  BY <1>1, <1>4, <1>10, <1>11, <1>14 DEF Rents

LEMMA IdsAreNumbers == Visits \subseteq Nat
BY LegacyAssumption

LEMMA VisitsAreInOrder ==
  ASSUME Ind, NEW v \in DOMAIN visits
  PROVE  v \in Int /\ visits[v].start \in Int
<1>1. v \in Nat
  BY IdsAreNumbers DEF Ind, VisitsOK
<1>2. visits[v].start \in 0..MaxNow
  BY DEF Ind, VisitsOK, RowOK
<1> QED
  BY <1>1, <1>2, MaxNowAssumption

(* A unit has one first visit: visits start at times and have ids in order. *)
LEMMA OneBearsTheRent ==
  ASSUME Ind, NEW e, NEW f,
         e \in getChairRentAnchors(WithTerms(visits, rules, DOMAIN visits)),
         f \in getChairRentAnchors(WithTerms(visits, rules, DOMAIN visits)), RentUnit(f) = RentUnit(e)
  PROVE  f = e
<1>1. PICK all : all = WithTerms(visits, rules, DOMAIN visits)
  OBVIOUS
<1>2. ~Earlier(f, e) /\ ~Earlier(e, f) /\ e \in all /\ f \in all
  BY <1>1 DEF getChairRentAnchors, OnRent
<1>3. PICK v, w \in DOMAIN visits : e = Entry(visits, rules, v) /\ f = Entry(visits, rules, w)
  BY <1>1, <1>2, Entries
<1>4. e.id = v /\ e.start = visits[v].start /\ f.id = w /\ f.start = visits[w].start
  BY <1>3, Entries
<1>5. v \in Int /\ visits[v].start \in Int
  BY VisitsAreInOrder
<1>6. w \in Int /\ visits[w].start \in Int
  BY VisitsAreInOrder
<1>7. v = w
  BY <1>2, <1>4, <1>5, <1>6 DEF Earlier
<1> QED
  BY <1>3, <1>7

(* So a report files a unit's rent under that visit, if it holds it. *)
LEMMA RentOfAUnit ==
  ASSUME Ind, NEW e \in getChairRentAnchors(WithTerms(visits, rules, DOMAIN visits)),
         NEW ids, ids \subseteq DOMAIN visits
  PROVE  RentFiled(RentUnit(e), ids) = IF e.id \in ids THEN {<<e.id, e.terms.cents>>} ELSE {}
<1>1. PICK first : first = getChairRentAnchors(WithTerms(visits, rules, DOMAIN visits))
  OBVIOUS
<1>2. Rents(visits, rules, ids) = {f \in first : f.id \in ids}
  BY <1>1, RentsOfAReport
<1>3. \A f \in first : RentUnit(f) = RentUnit(e) => f = e
  BY <1>1, OneBearsTheRent
<1>4. {r \in Rents(visits, rules, ids) : RentUnit(r) = RentUnit(e)} = IF e.id \in ids THEN {e} ELSE {}
  BY <1>1, <1>2, <1>3
<1>5. CASE e.id \in ids
  BY <1>4, <1>5 DEF RentFiled
<1>6. CASE e.id \notin ids
  BY <1>4, <1>6 DEF RentFiled
<1> QED
  BY <1>5, <1>6

Due(e) == IF visits[e.id].operational THEN {<<e.id, e.terms.cents>>} ELSE {}

LEMMA RentOnce ==
  ASSUME Ind, NEW e \in getChairRentAnchors(WithTerms(visits, rules, DOMAIN visits))
  PROVE  /\ RentFiled(RentUnit(e), Report(0, MaxNow + 1)) = Due(e)
         /\ RentFiled(RentUnit(e), {v \in Report(0, MaxNow + 1) : visits[v].barber = e.barber}) = Due(e)
         /\ UNION {RentFiled(RentUnit(e), Report(t, t + 1)) : t \in 0..MaxNow} = Due(e)
<1>0. PICK all, due : all = Report(0, MaxNow + 1) /\ due = Due(e)
  OBVIOUS
<1>1. e.id \in DOMAIN visits /\ visits[e.id].barber = e.barber
  <2>1. e \in WithTerms(visits, rules, DOMAIN visits)
    BY DEF getChairRentAnchors, OnRent
  <2> QED
    BY <2>1, Entries
<1>2. PICK at : at = visits[e.id].start
  OBVIOUS
<1>3. at \in 0..MaxNow
  BY <1>1, <1>2 DEF Ind, VisitsOK, RowOK
<1>4. \A from, to : /\ Report(from, to) \subseteq DOMAIN visits
                    /\ e.id \in Report(from, to) <=> visits[e.id].operational /\ at \in from..(to - 1)
  BY <1>1, <1>2 DEF Report
<1>5. at \in 0..((MaxNow + 1) - 1) /\ \A t \in 0..MaxNow : at \in t..((t + 1) - 1) <=> at = t
  BY <1>3, MaxNowAssumption
<1>6. e.id \in all <=> visits[e.id].operational
  BY <1>0, <1>4, <1>5
<1>7. RentFiled(RentUnit(e), all) = due
  BY <1>0, <1>4, <1>6, RentOfAUnit DEF Due
<1>8. RentFiled(RentUnit(e), {v \in all : visits[v].barber = e.barber}) = due
  <2>1. PICK ids : ids = {v \in all : visits[v].barber = e.barber}
    OBVIOUS
  <2>2. ids \subseteq DOMAIN visits /\ (e.id \in ids <=> visits[e.id].operational)
    BY <1>0, <1>1, <1>4, <1>6, <2>1
  <2> QED
    BY <1>0, <2>1, <2>2, RentOfAUnit DEF Due
<1>9. UNION {RentFiled(RentUnit(e), Report(t, t + 1)) : t \in 0..MaxNow} = due
  <2>1. ASSUME NEW t \in 0..MaxNow
        PROVE  RentFiled(RentUnit(e), Report(t, t + 1)) = IF t = at THEN due ELSE {}
    <3>1. e.id \in Report(t, t + 1) <=> visits[e.id].operational /\ at = t
      BY <1>4, <1>5
    <3> QED
      BY <1>0, <1>4, <3>1, RentOfAUnit DEF Due
  <2>2. \A t \in 0..MaxNow : RentFiled(RentUnit(e), Report(t, t + 1)) = IF t = at THEN due ELSE {}
    BY <2>1
  <2> QED
    BY <1>3, <2>2
<1> QED
  BY <1>0, <1>7, <1>8, <1>9

LEMMA RentIsFiledOnce ==
  ASSUME Ind
  PROVE  RentIsChargedOnce
BY RentOnce, Zenon DEF RentIsChargedOnce, Due

-----------------------------------------------------------------------------
(* What is settled is settled *)

\* A visit whose pay is still that of the history of its barber.
Unfrozen(visit) == visit.status = "completed" /\ visit.snapshot = None

(* Only visits from before the snapshots are unfrozen, as they were then. *)
OldVisits ==
  \A v \in DOMAIN visits :
      Unfrozen(visits[v]) => visits[v].barber \in Veterans /\ visits[v].start = 0

(* A change leaves an unfrozen visit with its barber at its time, takes no
   snapshot away, and completes no visit without one. *)
Freezing(e) ==
  /\ Unfrozen(visits[e.visit]) => "barber" \notin DOMAIN e.change /\ "start" \notin DOMAIN e.change
  /\ e.step = "read" => "snapshot" \notin DOMAIN e.change
  /\ e.step = "write" /\ "status" \in DOMAIN e.change /\ e.change.status = "completed" =>
        "snapshot" \in DOMAIN e.change \/ visits[e.visit].snapshot # None
  /\ "snapshot" \in DOMAIN e.change => e.change.snapshot # None

(* Pay saved for a barber from before starts with the model, or is none. *)
Later(pay) ==
  pay # Idle => pay.from >= 1 \/ pay.terms = NoTerms \/ pay.barber \notin Veterans

Frozen ==
  /\ OldVisits /\ \A c \in Clerks : edit[c] # Idle => Freezing(edit[c])
  /\ now >= 1 /\ Veterans \subseteq hired /\ \A m \in Managers : Later(save[m])

-----------------------------------------------------------------------------
(* Snapshots that are taken *)

LEMMA TakenSnapshot ==
  ASSUME RulesOK, NEW visit
  PROVE  resolveAppointmentCompensationSnapshot(visit) # None
<1>1. PICK snapshot : snapshot = resolveAppointmentCompensationSnapshot(visit)
  OBVIOUS
<1>2. PICK rule : rule = getCompensationRuleForDate(rules, visit.barber, visit.start)
  OBVIOUS
<1>3. snapshot = [id |-> rule.id, terms |-> rule.terms]
  BY <1>1, <1>2 DEF resolveAppointmentCompensationSnapshot, createAppointmentCompensationSnapshot
<1>4. rule.id \in Nat /\ rule.terms \in Terms
  <2>1. PICK known : known = {r \in rules : r.barber = visit.barber /\ r.from <= visit.start}
    OBVIOUS
  <2>2. CASE known = {}
    <3>1. rule = [id |-> 0, barber |-> visit.barber, terms |-> NoTerms, from |-> 0]
      BY <1>2, <2>1, <2>2 DEF getCompensationRuleForDate, createDefaultCompensationRule
    <3> QED
      BY <3>1 DEF Terms
  <2>3. CASE known # {}
    <3>1. rule = Latest(known)
      BY <1>2, <2>1, <2>3 DEF getCompensationRuleForDate
    <3>2. \A r \in known : r.from \in 0..MaxNow
      BY <2>1 DEF RulesOK
    <3>3. rule \in rules
      BY <2>1, <2>3, <3>1, <3>2, LatestIsOne
    <3>4. Cardinality(rules) \in Nat
      BY FS_CardinalityType DEF RulesOK
    <3>5. rule.id \in 1..Cardinality(rules) /\ rule.terms \in Terms
      BY <3>3 DEF RulesOK, ValuesCheck
    <3> QED
      BY <3>4, <3>5
  <2> QED
    BY <2>2, <2>3
<1>5. snapshot \in [id : Nat, terms : Terms]
  BY <1>3, <1>4
<1> QED
  BY <1>1, <1>5, NoneAssumption

LEMMA FrozenInit == Init => Frozen
<1> SUFFICES ASSUME Init PROVE Frozen
  OBVIOUS
<1>1. OldVisits
  <2> SUFFICES ASSUME NEW v \in DOMAIN Legacy, Legacy[v].status = "completed"
               PROVE  Legacy[v].barber \in Veterans /\ Legacy[v].start = 0
    BY DEF Init, OldVisits, Unfrozen
  <2> QED
    BY LegacyAssumption
<1>2. \A c \in Clerks : edit[c] = Idle
  BY DEF Init
<1>3. \A m \in Managers : save[m] = Idle
  BY DEF Init
<1> QED
  BY <1>1, <1>2, <1>3 DEF Init, Frozen, Later

-----------------------------------------------------------------------------
(* Steps *)

LEMMA VisitsAsBefore ==
  ASSUME Frozen, UNCHANGED <<visits, edit>>, now' = now \/ now' = now + 1, Ind,
         hired \subseteq hired', \A m \in Managers : Later(save'[m])
  PROVE  Frozen'
<1>1. now' >= 1
  BY MaxNowAssumption DEF Frozen, Ind
<1>2. OldVisits' /\ \A c \in Clerks : edit'[c] # Idle => Freezing(edit[c])'
  BY DEF Frozen, OldVisits, Freezing, Unfrozen
<1> QED
  BY <1>1, <1>2 DEF Frozen, Freezing, Unfrozen, Later

LEMMA SavedLater ==
  ASSUME Ind, Frozen, NEW m \in Managers, NEW b, NEW input, NEW from,
         saveBarberCompensationRuleIfNeeded(m, b, input, from),
         \/ from >= 1
         \/ b \notin Veterans
         \/ /\ ~\E r \in rules : r.barber = b
            /\ input = [model |-> "none", percent |-> None, cents |-> None, period |-> None]
  PROVE  \A o \in Managers : Later(save'[o])
<1>1. PICK next : next = Merged(input, IF {r \in rules : r.barber = b} = {} THEN NoTerms
                                       ELSE Latest({r \in rules : r.barber = b}).terms)
  OBVIOUS
<1>2. PICK pay : pay = [step |-> "insert", barber |-> b, terms |-> next, from |-> from]
  OBVIOUS
<1>3. save' = save \/ save' = [save EXCEPT ![m] = pay]
  BY <1>1, <1>2 DEF saveBarberCompensationRuleIfNeeded
<1>4. pay.barber = b /\ pay.terms = next /\ pay.from = from
  BY <1>2
<1>5. ASSUME ~\E r \in rules : r.barber = b,
             input = [model |-> "none", percent |-> None, cents |-> None, period |-> None]
      PROVE  next = NoTerms
  <2>1. next = Merged(input, NoTerms)
    BY <1>1, <1>5
  <2>2. input.model = "none" /\ "none" # None
    BY <1>5, NoneAssumption DEF Models
  <2>3. Or(input.model, NoTerms.model) = "none"
    BY <2>2 DEF Or
  <2>4. \A percent, cents, period :
          normalizeBarberCompensationInput([model |-> "none", percent |-> percent, cents |-> cents,
                                            period |-> period]) = NoTerms
    BY DEF normalizeBarberCompensationInput
  <2> QED
    BY <2>1, <2>3, <2>4 DEF Merged
<1>6. Later(pay)
  BY <1>4, <1>5 DEF Later
<1>7. DOMAIN save = Managers /\ \A o \in Managers : Later(save[o])
  BY DEF Ind, SaveOK, Frozen
<1> QED
  BY <1>3, <1>6, <1>7

LEMMA BookedFrozen ==
  ASSUME Ind, Frozen, NEW b, NEW t, NEW order, NEW payment, NEW status,
         BookVisit(b, t, order, status, payment)
  PROVE  OldVisits' /\ \A c \in Clerks : edit'[c] # Idle => Freezing(edit[c])'
<1>1. PICK id, row : /\ id = Cardinality(DOMAIN visits) + 1
                     /\ row = [status |-> status, barber |-> b, start |-> t, price |-> price,
                               extras |-> order.extras, operational |-> order.operational, snapshot |-> None,
                               payment |-> IF status = "completed" THEN payment ELSE "pending"]
  OBVIOUS
<1>2. PICK visit : visit = [row EXCEPT !.snapshot = SnapshotOf(row, row)]
  OBVIOUS
<1>3. /\ visits' = [v \in DOMAIN visits \cup {id} |-> IF v = id THEN visit ELSE visits[v]]
      /\ edit' = edit
  BY <1>1, <1>2 DEF BookVisit
<1>4. row.snapshot = None /\ visit.snapshot = SnapshotOf(row, row) /\ visit.status = row.status
  BY <1>1, <1>2
<1>5. ~Unfrozen(visit)
  BY <1>4, TakenSnapshot DEF Ind, Unfrozen, SnapshotOf
<1>6. id \notin DOMAIN visits
  BY <1>1, NextId
<1>7. /\ DOMAIN visits' = DOMAIN visits \cup {id} /\ visits'[id] = visit
      /\ \A v \in DOMAIN visits : visits'[v] = visits[v]
  BY <1>3, <1>6
<1>8. OldVisits'
  BY <1>5, <1>7 DEF Frozen, OldVisits, Unfrozen
<1>9. ASSUME NEW c \in Clerks, edit'[c] # Idle PROVE Freezing(edit[c])'
  <2>1. Freezing(edit[c]) /\ visits'[edit[c].visit] = visits[edit[c].visit] /\ edit'[c] = edit[c]
    BY <1>3, <1>7, <1>9 DEF Ind, EditOK, Frozen
  <2> QED
    BY <2>1 DEF Freezing, Unfrozen
<1> QED
  BY <1>8, <1>9

\* A request starts a change, or a transaction goes on with it, and nothing else happens.
LEMMA EditedFrozen ==
  ASSUME Ind, Frozen, NEW c \in Clerks, NEW e, edit' = [edit EXCEPT ![c] = e], visits' = visits,
         e # Idle => Freezing(e)
  PROVE  OldVisits' /\ \A d \in Clerks : edit'[d] # Idle => Freezing(edit[d])'
<1>1. DOMAIN edit = Clerks
  BY DEF Ind, EditOK
<1>2. OldVisits'
  BY DEF Frozen, OldVisits, Unfrozen
<1>3. ASSUME NEW d \in Clerks, edit'[d] # Idle PROVE Freezing(edit[d])'
  <2>1. PICK q : q = edit'[d]
    OBVIOUS
  <2>2. Freezing(q)
    BY <1>1, <1>3, <2>1 DEF Frozen
  <2> QED
    BY <2>1, <2>2 DEF Freezing, Unfrozen
<1> QED
  BY <1>2, <1>3

LEMMA StatusFrozen ==
  ASSUME Ind, Frozen, NEW c \in Clerks, NEW v, NEW status, NEW expected, NEW payment,
         RequestStatus(c, v, status, expected, payment)
  PROVE  OldVisits' /\ \A d \in Clerks : edit'[d] # Idle => Freezing(edit[d])'
<1>1. PICK change : change = [status |-> status, payment |-> IF status = "completed" THEN payment ELSE "pending"]
  OBVIOUS
<1>2. PICK e : e = [step |-> "read", visit |-> v, locks |-> FALSE, expected |-> expected, change |-> change]
  OBVIOUS
<1>3. edit' = [edit EXCEPT ![c] = e] /\ visits' = visits
  BY <1>1, <1>2 DEF RequestStatus
<1>4. DOMAIN change = {"status", "payment"}
  BY <1>1
<1>5. e.step = "read" /\ e.change = change
  BY <1>2
<1>6. Freezing(e)
  BY <1>4, <1>5 DEF Freezing
<1> QED
  BY <1>3, <1>6, EditedFrozen

LEMMA PatchFrozen ==
  ASSUME Ind, Frozen, NEW c \in Clerks, NEW v, NEW patch \in Patches, RequestPatch(c, v, patch)
  PROVE  OldVisits' /\ \A d \in Clerks : edit'[d] # Idle => Freezing(edit[d])'
<1>1. PICK change : change = IF DOMAIN patch \cap {"start", "barber", "price"} = {} THEN patch
                             ELSE With(patch, [price |-> visits[v].price])
  OBVIOUS
<1>2. PICK e : e = [step |-> "read", visit |-> v, locks |-> TRUE, expected |-> NotSaid, change |-> change]
  OBVIOUS
<1>3. edit' = [edit EXCEPT ![c] = e] /\ visits' = visits
  BY <1>1, <1>2 DEF RequestPatch
<1>4. "snapshot" \notin DOMAIN patch
  BY RequestAssumption DEF Details
<1>5. DOMAIN change \subseteq DOMAIN patch \cup {"price"}
  BY <1>1 DEF With
<1>6. Unfrozen(visits[v]) => "barber" \notin DOMAIN patch /\ "start" \notin DOMAIN patch
  BY DEF RequestPatch, Unfrozen, Details
<1>7. e.step = "read" /\ e.change = change /\ e.visit = v
  BY <1>2
<1>8. Freezing(e)
  BY <1>4, <1>5, <1>6, <1>7 DEF Freezing
<1> QED
  BY <1>3, <1>8, EditedFrozen

LEMMA ReadFrozen ==
  ASSUME Ind, Frozen, NEW c \in Clerks, ReadVisit(c)
  PROVE  OldVisits' /\ \A d \in Clerks : edit'[d] # Idle => Freezing(edit[d])'
<1>1. PICK e, current, candidate : /\ e = edit[c] /\ current = visits[e.visit]
                                   /\ candidate = With(e.change, current)
  OBVIOUS
<1>2. PICK taken : taken = SnapshotOf(candidate, current)
  OBVIOUS
<1>3. PICK change : change = IF taken = current.snapshot THEN e.change ELSE With(e.change, [snapshot |-> taken])
  OBVIOUS
<1>4. /\ e.step = "read" /\ visits' = visits
      /\ edit' = [edit EXCEPT ![c].step = "write", ![c].change = change]
  BY <1>1, <1>2, <1>3 DEF ReadVisit
<1>5. e # Idle /\ DOMAIN edit = Clerks
  BY <1>4 DEF Ind, EditOK, Idle
<1>6. PICK new : new = [e EXCEPT !.step = "write", !.change = change]
  OBVIOUS
<1>7. edit' = [edit EXCEPT ![c] = new]
  BY <1>1, <1>4, <1>5, <1>6
<1>8. DOMAIN e = {"step", "visit", "locks", "expected", "change"}
  BY <1>1, <1>5 DEF Ind, EditOK
<1>9. new.step = "write" /\ new.change = change /\ new.visit = e.visit
  BY <1>6, <1>8
<1>10. Freezing(e)
  BY <1>1, <1>5 DEF Frozen
<1>11. "snapshot" \notin DOMAIN e.change
  BY <1>4, <1>10 DEF Freezing
<1>12. \/ taken = current.snapshot /\ change = e.change
       \/ taken # current.snapshot /\ change = With(e.change, [snapshot |-> taken])
  BY <1>3
<1>13. DOMAIN change \subseteq DOMAIN e.change \cup {"snapshot"} /\ \A x \in DOMAIN e.change : change[x] = e.change[x]
  BY <1>12 DEF With
<1>14. "snapshot" \in DOMAIN change <=> taken # current.snapshot
  BY <1>11, <1>12 DEF With
<1>15. "snapshot" \in DOMAIN change => change["snapshot"] = taken
  BY <1>11, <1>12 DEF With
<1>16. taken # current.snapshot => taken # None
  BY <1>2, TakenSnapshot DEF SnapshotOf, Ind
<1>17. "status" \in DOMAIN e.change => candidate["status"] = e.change["status"]
  BY <1>1 DEF With
<1>18. candidate.status = "completed" => taken # None
  BY <1>2, TakenSnapshot DEF SnapshotOf, Ind
<1>19. ASSUME "status" \in DOMAIN change, change.status = "completed"
       PROVE  "snapshot" \in DOMAIN change \/ current.snapshot # None
  <2>1. "status" \in DOMAIN e.change
    BY <1>13, <1>19
  <2>2. taken # None
    BY <1>13, <1>17, <1>18, <1>19, <2>1
  <2> QED
    BY <1>14, <2>2
<1>20. Unfrozen(current) => "barber" \notin DOMAIN change /\ "start" \notin DOMAIN change
  BY <1>1, <1>10, <1>13 DEF Freezing
<1>21. Freezing(new)
  BY <1>1, <1>9, <1>14, <1>15, <1>16, <1>19, <1>20 DEF Freezing
<1> QED
  BY <1>4, <1>7, <1>21, EditedFrozen

LEMMA WriteFrozen ==
  ASSUME Ind, Frozen, NEW c \in Clerks, WriteVisit(c)
  PROVE  OldVisits' /\ \A d \in Clerks : edit'[d] # Idle => Freezing(edit[d])'
<1>1. PICK e, id, current : e = edit[c] /\ id = e.visit /\ current = visits[id]
  OBVIOUS
<1>2. PICK visit : visit = With(e.change, current)
  OBVIOUS
<1>3. /\ e.step = "write" /\ visits' = [visits EXCEPT ![id] = visit]
      /\ edit' = [edit EXCEPT ![c] = Idle]
  BY <1>1, <1>2 DEF WriteVisit
<1>4. e # Idle /\ DOMAIN edit = Clerks /\ Freezing(e)
  BY <1>1, <1>3 DEF Ind, EditOK, Idle, Frozen
<1>5. id \in DOMAIN visits /\ RowOK(current)
  BY <1>1, <1>4 DEF Ind, EditOK, VisitsOK
<1>6. /\ DOMAIN visit = DOMAIN e.change \cup DOMAIN current
      /\ \A x \in DOMAIN e.change : visit[x] = e.change[x]
      /\ \A x \in DOMAIN current : x \notin DOMAIN e.change => visit[x] = current[x]
  BY <1>2 DEF With
<1>7. /\ "snapshot" \in DOMAIN e.change => e.change["snapshot"] # None
      /\ "status" \in DOMAIN e.change /\ e.change["status"] = "completed" =>
            "snapshot" \in DOMAIN e.change \/ current["snapshot"] # None
  BY <1>1, <1>3, <1>4 DEF Freezing
<1>8. /\ "snapshot" \in DOMAIN current /\ "status" \in DOMAIN current
      /\ "barber" \in DOMAIN current /\ "start" \in DOMAIN current
  BY <1>5 DEF RowOK
<1>9. current["snapshot"] # None => visit["snapshot"] # None
  BY <1>6, <1>7, <1>8
<1>10. visit["status"] = "completed" /\ visit["snapshot"] = None =>
         /\ current["status"] = "completed" /\ current["snapshot"] = None
  <2> SUFFICES ASSUME visit["status"] = "completed", visit["snapshot"] = None
               PROVE  current["status"] = "completed" /\ current["snapshot"] = None
    OBVIOUS
  <2>1. "snapshot" \notin DOMAIN e.change
    BY <1>6, <1>7
  <2>2. current["snapshot"] = None
    BY <1>6, <1>8, <2>1
  <2>3. "status" \notin DOMAIN e.change
    BY <1>6, <1>7, <2>1, <2>2
  <2> QED
    BY <1>6, <1>8, <2>2, <2>3
<1>11. Unfrozen(visit) => Unfrozen(current)
  BY <1>10 DEF Unfrozen
<1>12. Unfrozen(current) => visit["barber"] = current["barber"] /\ visit["start"] = current["start"]
  BY <1>1, <1>4, <1>6, <1>8 DEF Freezing
<1>13. DOMAIN visits' = DOMAIN visits /\ visits'[id] = visit /\ \A v \in DOMAIN visits \ {id} : visits'[v] = visits[v]
  BY <1>3, <1>5
<1>14. OldVisits'
  <2> SUFFICES ASSUME NEW v \in DOMAIN visits, NEW row, row = visits'[v], Unfrozen(row)
               PROVE  row.barber \in Veterans /\ row.start = 0
    BY <1>13 DEF OldVisits, Unfrozen
  <2>1. \A w \in DOMAIN visits : Unfrozen(visits[w]) => visits[w].barber \in Veterans /\ visits[w].start = 0
    BY DEF Frozen, OldVisits
  <2>2. CASE v = id
    <3>1. Unfrozen(current) /\ current.barber \in Veterans /\ current.start = 0
      BY <1>1, <1>5, <1>11, <1>13, <2>1, <2>2
    <3> QED
      BY <1>12, <1>13, <2>2, <3>1
  <2>3. CASE v # id
    BY <1>13, <2>1, <2>3
  <2> QED
    BY <2>2, <2>3
<1>15. ASSUME NEW d \in Clerks, edit'[d] # Idle PROVE Freezing(edit[d])'
  <2>1. PICK q, w : q = edit[d] /\ w = q.visit
    OBVIOUS
  <2>2. edit'[d] = q /\ q # Idle
    BY <1>3, <1>4, <1>15, <2>1
  <2>3. Freezing(q) /\ w \in DOMAIN visits
    BY <2>1, <2>2 DEF Frozen, Ind, EditOK
  <2>4. /\ Unfrozen(visits'[w]) => Unfrozen(visits[w])
        /\ visits[w].snapshot # None => visits'[w].snapshot # None
    BY <1>1, <1>9, <1>11, <1>13, <2>3
  <2>5. Freezing(q)'
    BY <2>1, <2>3, <2>4 DEF Freezing, Unfrozen
  <2> QED
    BY <2>2, <2>5 DEF Freezing, Unfrozen
<1> QED
  BY <1>14, <1>15

LEMMA FrozenStep ==
  ASSUME Ind, Frozen, [Next]_vars
  PROVE  Frozen'
<1>1. ASSUME OldVisits' /\ (\A d \in Clerks : edit'[d] # Idle => Freezing(edit[d])'),
             UNCHANGED <<hired, now, save>>
      PROVE  Frozen'
  BY <1>1 DEF Frozen, Later
<1>2. ASSUME NEW m \in Managers, NEW b \in Barbers, NEW input,
             SavePay(m, b, input) \/ HireBarber(m, b, input) \/ AssignBarber(m, b)
      PROVE  Frozen'
  <2>1. UNCHANGED <<visits, now, edit>> /\ hired \subseteq hired'
    BY <1>2 DEF SavePay, HireBarber, AssignBarber
  <2>2. \A o \in Managers : Later(save'[o])
    <3>1. CASE SavePay(m, b, input)
      BY <3>1, SavedLater DEF SavePay, Frozen
    <3>2. CASE HireBarber(m, b, input)
      BY <3>2, SavedLater DEF HireBarber, Frozen
    <3>3. CASE AssignBarber(m, b)
      BY <3>3, SavedLater DEF AssignBarber, Frozen
    <3> QED
      BY <1>2, <3>1, <3>2, <3>3
  <2> QED
    BY <2>1, <2>2, VisitsAsBefore
<1>3. ASSUME NEW m \in Managers, InsertPay(m) \/ PayIsNotSaved(m)
      PROVE  Frozen'
  <2>1. UNCHANGED <<visits, hired, now, edit>> /\ save' = [save EXCEPT ![m] = Idle]
    BY <1>3 DEF InsertPay, PayIsNotSaved
  <2>2. \A o \in Managers : Later(save'[o])
    BY <2>1 DEF Frozen, Later, Ind, SaveOK
  <2> QED
    BY <2>1, <2>2, VisitsAsBefore
<1>4. ASSUME NEW b, NEW t, NEW order, NEW payment, NEW status, BookVisit(b, t, order, status, payment)
      PROVE  Frozen'
  <2>1. UNCHANGED <<hired, now, save>>
    BY <1>4 DEF BookVisit
  <2> QED
    BY <1>1, <1>4, <2>1, BookedFrozen
<1>5. ASSUME NEW c \in Clerks, NEW v, NEW status, NEW expected, NEW payment,
             RequestStatus(c, v, status, expected, payment)
      PROVE  Frozen'
  <2>1. UNCHANGED <<hired, now, save>>
    BY <1>5 DEF RequestStatus
  <2> QED
    BY <1>1, <1>5, <2>1, StatusFrozen
<1>6. ASSUME NEW c \in Clerks, NEW v, NEW patch \in Patches, RequestPatch(c, v, patch)
      PROVE  Frozen'
  <2>1. UNCHANGED <<hired, now, save>>
    BY <1>6 DEF RequestPatch
  <2> QED
    BY <1>1, <1>6, <2>1, PatchFrozen
<1>7. ASSUME NEW c \in Clerks, ReadVisit(c) \/ WriteVisit(c)
      PROVE  Frozen'
  <2>1. UNCHANGED <<hired, now, save>>
    BY <1>7 DEF ReadVisit, WriteVisit
  <2> QED
    BY <1>1, <1>7, <2>1, ReadFrozen, WriteFrozen
<1>8. ASSUME NEW c \in Clerks, VisitIsNotChanged(c)
      PROVE  Frozen'
  <2>1. UNCHANGED <<visits, hired, now, save>> /\ edit' = [edit EXCEPT ![c] = Idle]
    BY <1>8 DEF VisitIsNotChanged
  <2> QED
    BY <1>1, <2>1, EditedFrozen
<1>9. ASSUME Tick \/ (\E p \in Prices : ChangePrice(p)) \/ UNCHANGED vars
      PROVE  Frozen'
  <2>1. UNCHANGED <<visits, hired, save, edit>> /\ (now' = now \/ now' = now + 1)
    BY <1>9 DEF Tick, ChangePrice, vars
  <2>2. \A o \in Managers : Later(save'[o])
    BY <2>1 DEF Frozen
  <2> QED
    BY <2>1, <2>2, VisitsAsBefore
<1> QED
  BY <1>2, <1>3, <1>4, <1>5, <1>6, <1>7, <1>8, <1>9 DEF Next

-----------------------------------------------------------------------------
(* New pay and new prices *)

\* A step after which every completed visit is paid as it was.
SamePay ==
  /\ visits' = visits
  /\ \A v \in DOMAIN visits : visits[v].status = "completed" =>
        getCompensationRuleForAppointment(rules', visits[v]).terms
          = getCompensationRuleForAppointment(rules, visits[v]).terms

(* A rule that is inserted starts after the visits of its barber that have no
   snapshot, or is the first and gives them the terms they had without it. *)
LEMMA InsertedPay ==
  ASSUME Ind, Frozen, NEW m \in Managers, InsertPay(m)
  PROVE  SamePay
<1>1. PICK new : new = [id |-> Cardinality(rules) + 1, barber |-> save[m].barber,
                        terms |-> save[m].terms, from |-> save[m].from]
  OBVIOUS
<1>2. /\ rules' = rules \cup {new} /\ visits' = visits
      /\ Unique(save[m].barber, save[m].from) /\ save[m] # Idle
  BY <1>1 DEF InsertPay
<1>3. new.barber = save[m].barber /\ new.terms = save[m].terms /\ new.from = save[m].from
  BY <1>1
<1>4. new.from \in 0..MaxNow /\ (new.from >= 1 \/ new.terms = NoTerms \/ new.barber \notin Veterans)
  BY <1>2, <1>3 DEF Ind, SaveOK, Frozen, Later
<1>5. \A r \in rules : r.barber = new.barber => r.from # new.from
  BY <1>2, <1>3 DEF Unique
<1>6. \A r \in rules : r.from \in 0..MaxNow
  BY DEF Ind, RulesOK
<1>7. ASSUME NEW b \in Veterans
      PROVE  getCompensationRuleForDate(rules', b, 0).terms = getCompensationRuleForDate(rules, b, 0).terms
  <2>1. PICK known, then : /\ known = {r \in rules : r.barber = b /\ r.from <= 0}
                           /\ then = {r \in rules' : r.barber = b /\ r.from <= 0}
    OBVIOUS
  <2>2. CASE new.barber = b /\ new.from = 0
    <3>1. new.terms = NoTerms
      BY <1>4, <1>7, <2>2
    <3>2. known = {}
      BY <1>5, <1>6, <2>1, <2>2, MaxNowAssumption
    <3>3. then = {new}
      BY <1>2, <2>1, <2>2, <3>2
    <3>4. Latest(then) = new
      BY <1>4, <3>3, LatestIsOne
    <3>5. getCompensationRuleForDate(rules', b, 0) = new
      BY <2>1, <3>3, <3>4 DEF getCompensationRuleForDate
    <3>6. getCompensationRuleForDate(rules, b, 0).terms = NoTerms
      BY <2>1, <3>2 DEF getCompensationRuleForDate, createDefaultCompensationRule
    <3> QED
      BY <3>1, <3>5, <3>6
  <2>3. CASE ~(new.barber = b /\ new.from = 0)
    <3>1. ~(new.barber = b /\ new.from <= 0)
      BY <1>4, <2>3, MaxNowAssumption
    <3>2. then = known
      BY <1>2, <2>1, <3>1
    <3> QED
      BY <2>1, <3>2 DEF getCompensationRuleForDate
  <2> QED
    BY <2>2, <2>3
<1>8. ASSUME NEW v \in DOMAIN visits, visits[v].status = "completed"
      PROVE  getCompensationRuleForAppointment(rules', visits[v]).terms
               = getCompensationRuleForAppointment(rules, visits[v]).terms
  <2>1. PICK visit : visit = visits[v]
    OBVIOUS
  <2>2. CASE visit.snapshot # None
    BY <2>1, <2>2 DEF getCompensationRuleForAppointment
  <2>3. CASE visit.snapshot = None
    <3>1. visit.barber \in Veterans /\ visit.start = 0
      BY <1>8, <2>1, <2>3 DEF Frozen, OldVisits, Unfrozen
    <3> QED
      BY <1>7, <2>1, <2>3, <3>1 DEF getCompensationRuleForAppointment
  <2> QED
    BY <2>2, <2>3
<1> QED
  BY <1>2, <1>8 DEF SamePay

(* The rent is then borne as it was. *)
LEMMA SameRents ==
  ASSUME SamePay, NEW ids
  PROVE  Rents(visits, rules', ids) = Rents(visits, rules, ids)
<1>1. ASSUME NEW S, S \subseteq DOMAIN visits
      PROVE  getChairRentAnchors(WithTerms(visits, rules', S)) = getChairRentAnchors(WithTerms(visits, rules, S))
  <2>1. PICK new, old : new = WithTerms(visits, rules', S) /\ old = WithTerms(visits, rules, S)
    OBVIOUS
  <2>2. \A v \in S : visits[v].status = "completed" => Entry(visits, rules', v) = Entry(visits, rules, v)
    BY <1>1 DEF SamePay, Entry
  <2>3. /\ \A e : e \in new <=> \E v \in S : e = Entry(visits, rules', v)
        /\ \A e : e \in old <=> \E v \in S : e = Entry(visits, rules, v)
        /\ \A v : Entry(visits, rules', v).status = visits[v].status
        /\ \A v : Entry(visits, rules, v).status = visits[v].status
    BY <2>1, Entries
  <2>4. \A e : e.status = "completed" => (e \in new <=> e \in old)
    BY <2>2, <2>3
  <2>5. OnRent(new) = OnRent(old)
    BY <2>4 DEF OnRent
  <2> QED
    BY <2>1, <2>5 DEF getChairRentAnchors
<1>2. AnchorsOfTheLocation(visits, rules', ids) = AnchorsOfTheLocation(visits, rules, ids)
  BY <1>1 DEF AnchorsOfTheLocation
<1> QED
  BY <1>2 DEF Rents

(* A visit with a price of its own is worth what it was. *)
LEMMA SamePrice ==
  ASSUME NEW visit, visit.price # None, NEW p, NEW q, NEW terms
  PROVE  calculateBaseAppointmentFinancials(visit, p, terms) = calculateBaseAppointmentFinancials(visit, q, terms)
<1>1. Lines(visit, p) = Lines(visit, q)
  BY DEF Lines, getAppointmentPriceCents
<1> QED
  BY <1>1, Zenon DEF calculateBaseAppointmentFinancials

LEMMA SameFinancials ==
  ASSUME SamePay, NEW ids, NEW v \in ids, v \in DOMAIN visits, NEW p, NEW q,
         visits[v].status = "completed", visits[v].price # None
  PROVE  calculateAppointmentsFinancials(visits, rules', p, ids)[v]
           = calculateAppointmentsFinancials(visits, rules, q, ids)[v]
<1>1. Rents(visits, rules', ids) = Rents(visits, rules, ids)
  BY SameRents
<1>2. getCompensationRuleForAppointment(rules', visits[v]).terms
        = getCompensationRuleForAppointment(rules, visits[v]).terms
  BY DEF SamePay
<1>3. PICK terms : terms = getCompensationRuleForAppointment(rules, visits[v]).terms
  OBVIOUS
<1>4. calculateBaseAppointmentFinancials(visits[v], p, terms)
        = calculateBaseAppointmentFinancials(visits[v], q, terms)
  BY SamePrice
<1>5. calculateBaseAppointmentFinancials(visits[v], p, getCompensationRuleForAppointment(rules', visits[v]).terms)
        = calculateBaseAppointmentFinancials(visits[v], q, getCompensationRuleForAppointment(rules, visits[v]).terms)
  BY <1>2, <1>3, <1>4
<1> QED
  BY <1>1, <1>5, Zenon DEF calculateAppointmentsFinancials

(* Only the rules a manager files and a new price change what a report reads
   besides the visits. *)
LEMMA OnlyPayAndPriceReprice ==
  ASSUME [Next]_vars, rules' # rules \/ price' # price
  PROVE  (\E m \in Managers : InsertPay(m)) \/ (\E p \in Prices : ChangePrice(p))
<1>1. ASSUME NEW m, NEW b, AssignBarber(m, b) PROVE FALSE
  BY <1>1 DEF AssignBarber
<1>2. ASSUME NEW m, NEW b, NEW input, SavePay(m, b, input) \/ HireBarber(m, b, input) PROVE FALSE
  BY <1>2 DEF SavePay, HireBarber
<1>3. ASSUME NEW m, PayIsNotSaved(m) PROVE FALSE
  BY <1>3 DEF PayIsNotSaved
<1>4. ASSUME NEW b, NEW t, NEW order, NEW status, NEW payment, BookVisit(b, t, order, status, payment)
      PROVE  FALSE
  BY <1>4 DEF BookVisit
<1>5. ASSUME NEW c, NEW v, NEW status, NEW expected, NEW payment,
             RequestStatus(c, v, status, expected, payment)
      PROVE  FALSE
  BY <1>5 DEF RequestStatus
<1>6. ASSUME NEW c, NEW v, NEW patch, RequestPatch(c, v, patch) PROVE FALSE
  BY <1>6 DEF RequestPatch
<1>7. ASSUME NEW c, ReadVisit(c) PROVE FALSE
  BY <1>7 DEF ReadVisit
<1>8. ASSUME NEW c, WriteVisit(c) PROVE FALSE
  BY <1>8 DEF WriteVisit
<1>9. ASSUME NEW c, VisitIsNotChanged(c) PROVE FALSE
  BY <1>9 DEF VisitIsNotChanged
<1>10. ASSUME Tick PROVE FALSE
  BY <1>10 DEF Tick
<1>11. Next
  BY DEF vars
<1> QED
  BY <1>1, <1>2, <1>3, <1>4, <1>5, <1>6, <1>7, <1>8, <1>9, <1>10, <1>11, Zenon DEF Next

(* So a report that holds a settled visit files the same under it. *)
LEMMA NotRepriced ==
  ASSUME Ind, Frozen, [Next]_vars, rules' # rules \/ price' # price, NEW v \in Settled
  PROVE  /\ Filed(v, 0, MaxNow + 1)' = Filed(v, 0, MaxNow + 1)
         /\ Filed(v, visits[v].start, visits[v].start + 1)' = Filed(v, visits[v].start, visits[v].start + 1)
<1>1. SamePay
  <2>1. (\E m \in Managers : InsertPay(m)) \/ (\E p \in Prices : ChangePrice(p))
    BY OnlyPayAndPriceReprice
  <2>2. ASSUME NEW p, ChangePrice(p) PROVE SamePay
    BY <2>2 DEF ChangePrice, SamePay
  <2> QED
    BY <2>1, <2>2, InsertedPay
<1>2. /\ v \in DOMAIN visits /\ visits[v].status = "completed" /\ visits[v].price # None
      /\ visits[v].operational
  BY DEF Settled
<1>3. visits' = visits
  BY <1>1 DEF SamePay
<1>4. visits[v].start \in 0..MaxNow
  BY <1>2 DEF Ind, VisitsOK, RowOK
<1>5. PICK t : t = visits[v].start
  OBVIOUS
<1>6. t \in 0..((MaxNow + 1) - 1) /\ t \in t..((t + 1) - 1)
  BY <1>4, <1>5, MaxNowAssumption
<1>7. ASSUME NEW from, NEW to, t \in from..(to - 1)
      PROVE  Filed(v, from, to)' = Filed(v, from, to)
  <2>1. PICK ids : ids = Report(from, to)
    OBVIOUS
  <2>2. v \in ids /\ Report(from, to)' = ids
    BY <1>2, <1>3, <1>5, <1>7, <2>1 DEF Report
  <2>3. calculateAppointmentsFinancials(visits, rules', price', ids)[v]
          = calculateAppointmentsFinancials(visits, rules, price, ids)[v]
    BY <1>1, <1>2, <2>2, SameFinancials
  <2>4. Filed(v, from, to) = calculateAppointmentsFinancials(visits, rules, price, ids)[v]
    BY <2>1 DEF Filed
  <2>5. Filed(v, from, to)' = calculateAppointmentsFinancials(visits, rules', price', ids)[v]
    BY <1>3, <2>2, Zenon DEF Filed
  <2> QED
    BY <2>3, <2>4, <2>5
<1>8. Filed(v, 0, MaxNow + 1)' = Filed(v, 0, MaxNow + 1)
  BY <1>6, <1>7
<1>9. Filed(v, t, t + 1)' = Filed(v, t, t + 1)
  BY <1>6, <1>7
<1>10. Filed(v, visits[v].start, visits[v].start + 1)' = Filed(v, visits[v].start, visits[v].start + 1)
  BY <1>3, <1>5, <1>9, Zenon DEF Filed, Report
<1> QED
  BY <1>8, <1>10

-----------------------------------------------------------------------------
(* Rules, visits and their snapshots stay what the tables' checks and keys
   admit, for all inputs and interleavings. *)
THEOREM SettlementTypeCorrect == Spec => []TypeOK
<1>1. Spec => []Ind
  BY IndInit, IndStep, PTL DEF Spec
<1> QED
  BY <1>1, IndShows, PTL

(* However completions race with reassignments, second completions and saved
   pay, a visit's snapshot is of a rule of the barber who has the visit: the
   foreign key on the pair, with ids that no two rules share, is enough. *)
THEOREM VisitsArePaidUnderTheirBarbersRule == Spec => []PaidUnderItsBarbersRule
<1>1. Spec => []Ind
  BY IndInit, IndStep, PTL DEF Spec
<1> QED
  BY <1>1, IndShows, PTL

(* The rent of a barber's unit is filed once, under one visit, and every report
   that holds the visit agrees (loadAppointmentsFinancials and
   getChairRentAnchorAppointmentIds of appointment-finance.ts), for rent units
   of any lengths and any visits, rules and ranges. *)
THEOREM RentStaysChargedOnce == Spec => []RentIsChargedOnce
<1>1. Spec => []Ind
  BY IndInit, IndStep, PTL DEF Spec
<1>2. Ind => RentIsChargedOnce
  BY RentIsFiledOnce
<1> QED
  BY <1>1, <1>2, PTL

(* Saved pay, new barbers and the catalogue's prices do not change what is
   filed under a completed visit that has its own price (the snapshots of
   storage.ts, and for visits from before them the dates that
   saveBarberCompensationRuleIfNeeded of routes.ts gives new rules). *)
THEOREM HistoryStaysPriced == Spec => HistoryIsNotRepriced
<1>1. Spec => []Ind
  BY IndInit, IndStep, PTL DEF Spec
<1>2. Spec => []Frozen
  BY <1>1, FrozenInit, FrozenStep, PTL DEF Spec
<1>3. Ind /\ Frozen /\ [Next]_vars =>
        [rules' # rules \/ price' # price =>
            \A v \in Settled :
                /\ Filed(v, 0, MaxNow + 1)' = Filed(v, 0, MaxNow + 1)
                /\ Filed(v, visits[v].start, visits[v].start + 1)'
                     = Filed(v, visits[v].start, visits[v].start + 1)]_vars
  BY NotRepriced
<1> QED
  BY <1>1, <1>2, <1>3, PTL DEF Spec, HistoryIsNotRepriced
=============================================================================
