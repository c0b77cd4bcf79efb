------------------------ MODULE AppointmentFinance ------------------------
(***************************************************************************)
(* What a visit is worth and who gets it: server/appointment-finance.ts    *)
(* as functions of the rows they are given.  One location, so a rule names *)
(* its barber only; an instant is one booking long and a rent unit is      *)
(* PeriodLength instants, which need not divide each other, as weeks do    *)
(* not divide months.                                                      *)
(***************************************************************************)
EXTENDS Integers, FiniteSets, FiniteSetsExt

CONSTANTS
    PeriodLength,  \* instants of a rent unit, for each period
    None           \* SQL NULL

Models == {"none", "commission", "chair_rent"}
Periods == {"day", "week", "month"}

ASSUME PeriodAssumption == PeriodLength \in [Periods -> Nat \ {0}]

(* The terms of a rule; 0 and None stand where the model has no value. *)
NoTerms == [model |-> "none", percent |-> 0, cents |-> 0, period |-> None]

\* What barber_compensation_rules_values_check admits.
Terms ==
    {NoTerms}
    \cup [model : {"commission"}, percent : 0..100, cents : {0}, period : {None}]
    \cup [model : {"chair_rent"}, percent : {0}, cents : Nat \ {0}, period : Periods]

ValuesCheck(terms) == terms \in Terms

\* NULL is no model, and a visit without a snapshot has none of any rule.
ASSUME NoneAssumption == None \notin Models /\ None \notin [id : Nat, terms : Terms]

createDefaultCompensationRule(b) == [id |-> 0, barber |-> b, terms |-> NoTerms, from |-> 0]

Latest(rules) == CHOOSE r \in rules : \A q \in rules : q.from <= r.from

LatestOfAll(rules, b, t) ==
    LET known == {r \in rules : r.barber = b} IN
    IF known = {} THEN createDefaultCompensationRule(b) ELSE Latest(known)

getCompensationRuleForDate(rules, b, t) ==
    LET known == {r \in rules : r.barber = b /\ r.from <= t} IN
    IF known = {} THEN createDefaultCompensationRule(b) ELSE Latest(known)

\* The frozen terms of a visit, or the history of its barber if it has none.
getCompensationRuleForAppointment(rules, visit) ==
    IF visit.snapshot # None
    THEN [id |-> visit.snapshot.id, barber |-> visit.barber,
          terms |-> visit.snapshot.terms, from |-> 0]
    ELSE getCompensationRuleForDate(rules, visit.barber, visit.start)

createAppointmentCompensationSnapshot(rule) == [id |-> rule.id, terms |-> rule.terms]

getAppointmentPriceCents(visit, price) == IF visit.price # None THEN visit.price ELSE price

getChairRentUnitKey(t, period) == t \div PeriodLength[period]

roundPercentageCents(amount, percent) == (amount * percent + 50) \div 100

\* What the barber gets of an amount; the establishment gets the rest.
splitRealizedAmount(amount, financialRule, terms) ==
    IF financialRule = "follow_compensation"
    THEN CASE terms.model = "commission" -> roundPercentageCents(amount, terms.percent)
           [] terms.model = "chair_rent" -> amount
           [] OTHER -> 0
    ELSE IF financialRule = "barber" THEN amount ELSE 0

\* A line for the service and one for each extra of the visit.
Lines(visit, price) ==
    {[amount |-> getAppointmentPriceCents(visit, price), rule |-> "follow_compensation", position |-> 0]}
    \cup {[amount |-> e.amount, rule |-> e.rule, position |-> e.id] : e \in visit.extras}

calculateBaseAppointmentFinancials(visit, price, terms) ==
    LET lines == Lines(visit, price)
        total == MapThenSumSet(LAMBDA l : l.amount, lines)
        realized == visit.status = "completed" /\ visit.payment # "gift"
        barber == MapThenSumSet(LAMBDA l : splitRealizedAmount(l.amount, l.rule, terms), lines)
    IN [projected |-> IF visit.status = "booked" THEN total ELSE 0,
        realized |-> IF realized THEN total ELSE 0,
        barber |-> IF realized THEN barber ELSE 0,
        establishment |-> IF realized THEN total - barber ELSE 0]

----------------------------------------------------------------------------
(* Chair rent: the first completed visit of a barber in a unit bears it. *)

\* The visits ids with the terms that hold for each.
WithTerms(visits, rules, ids) ==
    {[id |-> v, barber |-> visits[v].barber, start |-> visits[v].start, status |-> visits[v].status,
      terms |-> getCompensationRuleForAppointment(rules, visits[v]).terms] : v \in ids}

OnRent(entries) == {e \in entries : e.status = "completed" /\ e.terms.model = "chair_rent"}

RentUnit(e) == <<e.barber, e.terms.period, getChairRentUnitKey(e.start, e.terms.period)>>

Earlier(e, f) == e.start < f.start \/ (e.start = f.start /\ e.id < f.id)

getChairRentAnchors(entries) ==
    {e \in OnRent(entries) : \A f \in OnRent(entries) : RentUnit(f) = RentUnit(e) => ~Earlier(f, e)}

AnchorsOfTheReport(visits, rules, ids) == getChairRentAnchors(WithTerms(visits, rules, ids))

\* loadAppointmentsFinancials looks for the anchors in everything that the
\* barbers of the report did at the location.
AnchorsOfTheLocation(visits, rules, ids) ==
    LET barbers == {visits[v].barber : v \in ids}
        theirs == {w \in DOMAIN visits : visits[w].barber \in barbers}
    IN getChairRentAnchors(WithTerms(visits, rules, theirs))

\* The visits of a report that bear rent, again one for each unit.
Rents(visits, rules, ids) ==
    getChairRentAnchors({e \in AnchorsOfTheLocation(visits, rules, ids) : e.id \in ids})

\* What is filed under each visit in a report on the visits ids.
calculateAppointmentsFinancials(visits, rules, price, ids) ==
    LET Base(v) == calculateBaseAppointmentFinancials(visits[v], price,
                       getCompensationRuleForAppointment(rules, visits[v]).terms)
        rents == Rents(visits, rules, ids)
        Rent(v) == MapThenSumSet(LAMBDA e : e.terms.cents, {e \in rents : e.id = v})
    IN [v \in ids |-> [Base(v) EXCEPT !.barber = @ - Rent(v), !.establishment = @ + Rent(v)]]
============================================================================
