----------------------- MODULE RecurringExpenses_proofs -----------------------
(***************************************************************************)
(* The ledger of a recurring expense agrees with its series, and recorded  *)
(* expenses are never lost and what was due on a past date stays due, for  *)
(* every calendar, every number of requests and workers, and whatever      *)
(* terms, pauses and ends are asked for.                                   *)
(***************************************************************************)
EXTENDS RecurringExpenses, TLAPS

\* The lock has one holder: the process whose transaction is open.
Alone ==
    /\ \A p, q \in holders : p = q
    /\ \A p \in Procs : p \in holders <=> proc[p].at \in {"locked", "read"}

\* Nothing is recorded after the date that an open request decides on.
Clock ==
    /\ \A p \in Procs : proc[p].now <= today
    /\ \A p \in Admins, d \in Dates :
        proc[p].at = "locked" /\ ledger[d].recorded => d <= proc[p].now

\* What a worker read is still what the tables say.
Fresh == \A p \in Procs : proc[p].at = "read" => proc[p].seen = series

Absent == ~series.exists => series = NoSeries

Ind == TypeOK /\ Alone /\ Clock /\ Fresh /\ Absent /\ LedgerMatchesSeries

-----------------------------------------------------------------------------
(* Data *)

LEMMA ScheduleIsNatural ==
  ASSUME NEW recurrence \in Frequency, NEW d \in Dates
  PROVE  Schedule(recurrence, d) \in Nat
<1>1. Weekday(d) \in Nat
  BY CalendarAssumption DEF Weekday, Dates
<1>2. MonthDay(d) \in Nat
  BY CalendarAssumption, SMTT(40) DEF MonthDay, Dates
<1> QED
  BY <1>1, <1>2 DEF Schedule

LEMMA NeverIsAfter == Never \in Nat /\ Never \notin Dates /\ \A d \in Dates : d < Never /\ d \in Nat
  BY CalendarAssumption DEF Never, Dates

LEMMA NoSeriesIsASeries == NoSeries \in Series /\ UniqueIndexes(NoSeries) /\ \A d \in Dates : Due(NoSeries, d) = {}
<1>1. 0 \in Dates
  BY CalendarAssumption DEF Dates
<1> QED
  BY <1>1 DEF NoSeries, Series, UniqueIndexes, Due, InForce

LEMMA IdleIsAProc == Idle \in Proc
<1>1. 0 \in Dates
  BY CalendarAssumption DEF Dates
<1> QED
  BY <1>1, NoSeriesIsASeries DEF Idle, Proc

LEMMA NoRowIsARow == NoRow \in Row /\ ~NoRow.recorded /\ ~NoRow.override
  BY InstanceAssumption DEF NoRow, Row, Frequency

LEMMA NewSeriesIsASeries ==
  ASSUME NEW start \in Dates, NEW recurrence \in Frequency, NEW amount \in Amounts
  PROVE  NewSeries(start, recurrence, amount) \in Series
         /\ UniqueIndexes(NewSeries(start, recurrence, amount))
<1> DEFINE v == [from |-> start, recurrence |-> recurrence,
                 day |-> Schedule(recurrence, start), amount |-> amount]
<1>1. v \in Version
  BY ScheduleIsNatural DEF Version
<1>2. NewSeries(start, recurrence, amount) =
        [exists |-> TRUE, anchor |-> start, ended |-> Never, pauses |-> {}, versions |-> {v}]
  BY DEF NewSeries
<1> HIDE DEF v
<1> QED
  BY <1>1, <1>2 DEF Series, UniqueIndexes

-----------------------------------------------------------------------------
(* What a change of the series leaves due *)

\* New terms leave what is due before them as it was.
LEMMA VersionKeepsPast ==
  ASSUME NEW s \in Series, NEW v \in Version, NEW d \in Dates, d < v.from
  PROVE  Due([s EXCEPT !.versions = WithVersion(s, v)], d) = Due(s, d)
<1> DEFINE t == [s EXCEPT !.versions = WithVersion(s, v)]
<1>1. /\ t.versions = WithVersion(s, v) /\ t.anchor = s.anchor
      /\ t.ended = s.ended /\ t.pauses = s.pauses
  BY DEF Series
<1>2. \A w : w.from <= d => (w \in WithVersion(s, v) <=> w \in s.versions)
  <2> SUFFICES ASSUME NEW w, w.from <= d PROVE w \in WithVersion(s, v) <=> w \in s.versions
    OBVIOUS
  <2>0. s.versions \subseteq Version
    BY DEF Series
  <2>1. CASE w \in s.versions
    <3>1. w.from # v.from
      BY <2>0, <2>1, NeverIsAfter DEF Version
    <3> QED
      BY <2>1, <3>1 DEF WithVersion
  <2>2. CASE w \notin s.versions
    <3>1. w # v
      BY NeverIsAfter DEF Version
    <3> QED
      BY <2>2, <3>1 DEF WithVersion
  <2> QED
    BY <2>1, <2>2
<1>3. InForce(t, d) = InForce(s, d)
  BY <1>1, <1>2 DEF InForce
<1>4. IsPaused(t, d) <=> IsPaused(s, d)
  BY <1>1 DEF IsPaused
<1> HIDE DEF t
<1>5. Due(t, d) = Due(s, d)
  BY <1>1, <1>3, <1>4 DEF Due
<1> QED
  BY <1>5 DEF t

LEMMA VersionIsASeries ==
  ASSUME NEW s \in Series, UniqueIndexes(s), NEW v \in Version
  PROVE  [s EXCEPT !.versions = WithVersion(s, v)] \in Series
         /\ UniqueIndexes([s EXCEPT !.versions = WithVersion(s, v)])
<1>1. WithVersion(s, v) \subseteq Version
  BY DEF WithVersion, Series
<1>2. \A u, w \in WithVersion(s, v) : u.from = w.from => u = w
  BY DEF WithVersion, UniqueIndexes
<1> QED
  BY <1>1, <1>2 DEF Series, UniqueIndexes

\* A pause leaves what is due before it as it was; so does the end.
LEMMA PauseKeepsPast ==
  ASSUME NEW s \in Series, NEW p \in Pause, NEW d \in Dates, d < p.from
  PROVE  Due([s EXCEPT !.pauses = @ \cup {p}], d) = Due(s, d)
<1> DEFINE t == [s EXCEPT !.pauses = @ \cup {p}]
<1>1. /\ t.versions = s.versions /\ t.anchor = s.anchor
      /\ t.ended = s.ended /\ t.pauses = s.pauses \cup {p}
  BY DEF Series
<1>2. InForce(t, d) = InForce(s, d)
  BY <1>1 DEF InForce
<1>3. ~(p.from <= d)
  BY NeverIsAfter DEF Pause
<1>4. IsPaused(t, d) <=> IsPaused(s, d)
  BY <1>1, <1>3 DEF IsPaused
<1> HIDE DEF t
<1>5. Due(t, d) = Due(s, d)
  BY <1>1, <1>2, <1>4 DEF Due
<1> QED
  BY <1>5 DEF t

LEMMA EndKeepsPast ==
  ASSUME NEW s \in Series, NEW from \in Dates, NEW d \in Dates, d < from
  PROVE  Due(s, d) \subseteq Due([s EXCEPT !.ended = from], d)
<1> DEFINE t == [s EXCEPT !.ended = from]
<1>1. /\ t.versions = s.versions /\ t.anchor = s.anchor
      /\ t.ended = from /\ t.pauses = s.pauses
  BY DEF Series
<1>2. InForce(t, d) = InForce(s, d)
  BY <1>1 DEF InForce
<1>3. IsPaused(t, d) <=> IsPaused(s, d)
  BY <1>1 DEF IsPaused
<1> HIDE DEF t
<1>4. Due(s, d) \subseteq Due(t, d)
  BY <1>1, <1>2, <1>3 DEF Due
<1> QED
  BY <1>4 DEF t

\* Resuming only adds dates.
Resumed(s, open, from) == [s EXCEPT !.pauses = (@ \ {open}) \cup {[open EXCEPT !.to = from]}]

LEMMA ResumeKeepsDue ==
  ASSUME NEW s \in Series, NEW open \in s.pauses, open.to = Never,
         NEW from \in Dates, NEW d \in Dates
  PROVE  Due(s, d) \subseteq Due(Resumed(s, open, from), d)
<1> DEFINE shorter == [open EXCEPT !.to = from]
<1> DEFINE t == Resumed(s, open, from)
<1>0. open \in Pause
  BY DEF Series
<1>1. /\ t.versions = s.versions /\ t.anchor = s.anchor
      /\ t.ended = s.ended /\ t.pauses = (s.pauses \ {open}) \cup {shorter}
  BY DEF Series, Resumed
<1>2. shorter.from = open.from /\ shorter.to = from
  BY <1>0 DEF Pause
<1>3. InForce(t, d) = InForce(s, d)
  BY <1>1 DEF InForce
<1>4. d < open.to
  BY NeverIsAfter
<1> HIDE DEF t, shorter
<1>5. IsPaused(t, d) => IsPaused(s, d)
  BY <1>1, <1>2, <1>4 DEF IsPaused
<1>6. Due(s, d) \subseteq Due(t, d)
  BY <1>1, <1>3, <1>5 DEF Due
<1> QED
  BY <1>6 DEF t

LEMMA PauseIsASeries ==
  ASSUME NEW s \in Series, UniqueIndexes(s), NEW p \in Pause,
         \A q \in s.pauses : ~Overlaps(p, q)
  PROVE  [s EXCEPT !.pauses = @ \cup {p}] \in Series
         /\ UniqueIndexes([s EXCEPT !.pauses = @ \cup {p}])
<1> DEFINE t == [s EXCEPT !.pauses = @ \cup {p}]
<1>1. t.versions = s.versions /\ t.pauses = s.pauses \cup {p} /\ t \in Series
  BY DEF Series
<1>2. ASSUME NEW q \in s.pauses, p.to = Never, q.to = Never PROVE FALSE
  <2>1. q \in Pause
    BY DEF Series
  <2>2. p.from < Never /\ q.from < Never
    BY <2>1, NeverIsAfter DEF Pause
  <2> QED
    BY <1>2, <2>2 DEF Overlaps
<1> HIDE DEF t
<1>3. UniqueIndexes(t)
  BY <1>1, <1>2 DEF UniqueIndexes
<1> QED
  BY <1>1, <1>3 DEF t

LEMMA ResumedIsASeries ==
  ASSUME NEW s \in Series, UniqueIndexes(s), NEW open \in s.pauses, open.to = Never,
         NEW from \in Dates
  PROVE  Resumed(s, open, from) \in Series /\ UniqueIndexes(Resumed(s, open, from))
<1> DEFINE shorter == [open EXCEPT !.to = from]
<1> DEFINE t == Resumed(s, open, from)
<1>1. open \in Pause
  BY DEF Series
<1>2. shorter \in Pause /\ shorter.to = from /\ from # Never
  BY <1>1, NeverIsAfter DEF Pause
<1>3. /\ t.versions = s.versions /\ t.pauses = (s.pauses \ {open}) \cup {shorter}
      /\ t \in Series
  BY <1>2 DEF Series, Resumed
<1> HIDE DEF t, shorter
<1>4. UniqueIndexes(t)
  BY <1>2, <1>3 DEF UniqueIndexes
<1> QED
  BY <1>3, <1>4 DEF t

-----------------------------------------------------------------------------
(* Rows *)

\* The rows that a change deletes were not recorded, when all that is recorded is
\* before the date of the change.
LEMMA DeletesNothingRecorded ==
  ASSUME ledger \in [Dates -> Row], NEW from \in Dates,
         \A d \in Dates : ledger[d].recorded => d < from
  PROVE  /\ WithoutRowsFrom(from) \in [Dates -> Row]
         /\ \A d \in Dates : WithoutRowsFrom(from)[d].recorded => ledger[d].recorded
         /\ \A d \in Dates : ledger[d].recorded => WithoutRowsFrom(from)[d] = ledger[d]
<1>1. \A d \in Dates : ledger[d].recorded => ~(d >= from)
  BY NeverIsAfter
<1>2. \A d \in Dates : ledger[d] \in Row
  OBVIOUS
<1>3. \A d \in Dates : WithoutRowsFrom(from)[d] = ledger[d] \/ WithoutRowsFrom(from)[d] = NoRow
  BY DEF WithoutRowsFrom
<1>4. WithoutRowsFrom(from) \in [Dates -> Row]
  BY <1>2, NoRowIsARow DEF WithoutRowsFrom
<1>5. \A d \in Dates : ledger[d].recorded => WithoutRowsFrom(from)[d] = ledger[d]
  BY <1>1 DEF WithoutRowsFrom
<1>6. \A d \in Dates : WithoutRowsFrom(from)[d].recorded => ledger[d].recorded
  BY <1>3, NoRowIsARow
<1> QED
  BY <1>4, <1>5, <1>6

\* What a change owes the ledger: each recorded row is kept, or comes with a reason,
\* and what accounted for it still does.
LEMMA LedgerStillMatches ==
  ASSUME LedgerMatchesSeries, today' = today,
         \A d \in Dates : ledger'[d].recorded => ledger'[d] = ledger[d],
         \A d \in Dates : ledger[d].recorded => Due(series, d) \subseteq Due(series', d)
  PROVE  LedgerMatchesSeries'
<1> SUFFICES ASSUME NEW d \in Dates, ledger'[d].recorded
             PROVE  d <= today'
                    /\ \E v \in Due(series', d) :
                        /\ ledger'[d].recurrence = v.recurrence
                        /\ ledger'[d].override \/ ledger'[d].amount = v.amount
  BY DEF LedgerMatchesSeries
<1>1. ledger'[d] = ledger[d] /\ ledger[d].recorded
  OBVIOUS
<1>2. PICK v \in Due(series, d) :
        /\ d <= today
        /\ ledger[d].recurrence = v.recurrence
        /\ ledger[d].override \/ ledger[d].amount = v.amount
  BY <1>1 DEF LedgerMatchesSeries
<1>3. v \in Due(series', d)
  BY <1>1, <1>2
<1> QED
  BY <1>1, <1>2, <1>3

\* Without a series there is no row; nor where an open request finds no history.
LEMMA NoSeriesNoRows ==
  ASSUME Ind, ~series.exists
  PROVE  \A d \in Dates : ~ledger[d].recorded
BY NoSeriesIsASeries DEF Ind, Absent, LedgerMatchesSeries

LEMMA NoHistoryNoRows ==
  ASSUME Ind, NEW p \in Admins, proc[p].at = "locked", ~HasOccurrences(p)
  PROVE  \A d \in Dates : ~ledger[d].recorded
BY DEF Ind, Clock, HasOccurrences

-----------------------------------------------------------------------------
(* Transactions *)

\* Once its holder lets go of the lock, nobody has read anything that may go stale.
LEMMA ReleaseLeavesNobody ==
  ASSUME Ind, NEW p \in Procs, proc[p].at \in {"locked", "read"}, Release(p), today' = today
  PROVE  /\ proc' \in [Procs -> Proc] /\ holders' \in SUBSET Procs
         /\ Alone' /\ Clock' /\ Fresh'
<1>1. /\ proc \in [Procs -> Proc] /\ holders \in SUBSET Procs
      /\ p \in holders /\ holders' = holders \ {p} /\ holders = {p}
  BY DEF Ind, TypeOK, Alone, Release
<1>2. proc' \in [Procs -> Proc]
  BY <1>1, IdleIsAProc DEF Release
<1>3. \A q \in Procs : proc'[q].at \notin {"locked", "read"} /\ proc'[q].now <= today
  <2> SUFFICES ASSUME NEW q \in Procs
               PROVE  proc'[q].at \notin {"locked", "read"} /\ proc'[q].now <= today
    OBVIOUS
  <2>1. CASE q = p
    <3>1. proc'[q] = Idle /\ today \in Nat
      BY <1>1, <2>1, NeverIsAfter DEF Release, Ind, TypeOK
    <3> QED
      BY <3>1 DEF Idle
  <2>2. CASE q # p
    <3>1. proc'[q] = proc[q]
      BY <1>1, <2>2 DEF Release
    <3>2. q \notin holders
      BY <1>1, <2>2
    <3> QED
      BY <3>1, <3>2 DEF Ind, Alone, Clock
  <2> QED
    BY <2>1, <2>2
<1>4. Alone'
  BY <1>1, <1>3 DEF Alone
<1>5. Clock'
  BY <1>3 DEF Clock, Procs
<1>6. Fresh'
  BY <1>3 DEF Fresh
<1> QED
  BY <1>1, <1>2, <1>4, <1>5, <1>6

-----------------------------------------------------------------------------
(* The changes *)

\* What a step does to the row of a date.
RowKept(d) ==
    ledger[d].recorded =>
        /\ ledger'[d].recorded
        /\ ledger'[d] = ledger[d] \/ ledger'[d].override

\* What every change owes: a series, a ledger that agrees with it, and the past.
Kept ==
    /\ series' \in Series /\ UniqueIndexes(series') /\ Absent'
    /\ ledger' \in [Dates -> Row]
    /\ LedgerMatchesSeries'
    /\ \A d \in Dates : RowKept(d)

LEMMA EmptyLedgerIsKept ==
  ASSUME Ind, \A d \in Dates : ~ledger[d].recorded, UNCHANGED <<today, ledger>>,
         series' \in Series, UniqueIndexes(series'), Absent'
  PROVE  Kept
<1>1. ledger' \in [Dates -> Row]
  BY DEF Ind, TypeOK
<1>2. LedgerMatchesSeries'
  BY DEF LedgerMatchesSeries
<1> QED
  BY <1>1, <1>2 DEF Kept, RowKept

LEMMA CutLedgerIsKept ==
  ASSUME Ind, today' = today, NEW from \in Dates,
         ledger' = WithoutRowsFrom(from),
         \A d \in Dates : ledger[d].recorded => d < from,
         \A d \in Dates : ledger[d].recorded => Due(series, d) \subseteq Due(series', d),
         series' \in Series, UniqueIndexes(series'), series'.exists
  PROVE  Kept
<1>1. ledger \in [Dates -> Row]
  BY DEF Ind, TypeOK
<1>2. /\ ledger' \in [Dates -> Row]
      /\ \A d \in Dates : ledger'[d].recorded => ledger[d].recorded
      /\ \A d \in Dates : ledger[d].recorded => ledger'[d] = ledger[d]
  BY <1>1, DeletesNothingRecorded
<1>3. LedgerMatchesSeries'
  BY <1>2, LedgerStillMatches DEF Ind
<1> QED
  BY <1>2, <1>3 DEF Kept, RowKept, Absent

\* Every date recorded is one the open request calls past.
LEMMA RecordedIsPast ==
  ASSUME Ind, NEW p \in Admins, proc[p].at = "locked",
         NEW from \in Dates, InTheFuture(p, from)
  PROVE  \A d \in Dates : ledger[d].recorded => d < from
<1>1. proc[p].now \in Nat /\ from \in Nat
  BY NeverIsAfter DEF Ind, TypeOK, Proc, Procs
<1> QED
  BY <1>1, NeverIsAfter DEF Ind, Clock, InTheFuture

LEMMA InsertedSeriesIsKept ==
  ASSUME Ind, NEW p \in Admins, CreateSeries(p) \/ UpdateSeries(p) \/ DeleteSeries(p)
  PROVE  Kept
<1>1. \A d \in Dates : ~ledger[d].recorded
  BY NoSeriesNoRows, NoHistoryNoRows DEF CreateSeries, UpdateSeries, DeleteSeries
<1>2. UNCHANGED <<today, ledger>>
  BY DEF CreateSeries, UpdateSeries, DeleteSeries
<1>3. series' \in Series /\ UniqueIndexes(series') /\ Absent'
  <2>1. CASE DeleteSeries(p)
    BY <2>1, NoSeriesIsASeries DEF DeleteSeries, Absent
  <2>2. CASE CreateSeries(p) \/ UpdateSeries(p)
    <3>1. PICK start \in Dates, recurrence \in Frequency, amount \in Amounts :
            series' = NewSeries(start, recurrence, amount)
      BY <2>2 DEF CreateSeries, UpdateSeries
    <3>2. series'.exists
      BY <3>1 DEF NewSeries
    <3> QED
      BY <3>1, <3>2, NewSeriesIsASeries DEF Absent
  <2> QED
    BY <2>1, <2>2
<1> QED
  BY <1>1, <1>2, <1>3, EmptyLedgerIsKept

LEMMA NewVersionIsKept ==
  ASSUME Ind, NEW p \in Admins, CreateVersion(p)
  PROVE  Kept
<1>1. PICK from \in Dates, recurrence \in Frequency, amount \in Amounts :
        /\ InTheFuture(p, from)
        /\ \E v \in NewVersions(from, recurrence, amount) :
            series' = [series EXCEPT !.versions = WithVersion(series, v)]
        /\ ledger' = WithoutRowsFrom(from)
  BY DEF CreateVersion
<1>2. PICK v \in NewVersions(from, recurrence, amount) :
        series' = [series EXCEPT !.versions = WithVersion(series, v)]
  BY <1>1
<1>3. series \in Series /\ UniqueIndexes(series)
  BY DEF Ind, TypeOK
<1>4. v \in Version /\ v.from = from
  <2>1. PICK last \in Latest(series) :
          v = [from |-> from, recurrence |-> recurrence, amount |-> amount,
               day |-> IF last.recurrence = recurrence THEN last.day
                       ELSE Schedule(recurrence, from)]
    BY DEF NewVersions
  <2>2. last.day \in Nat
    BY <1>3 DEF Latest, Series, Version
  <2>3. v.day \in Nat
    BY <2>1, <2>2, ScheduleIsNatural
  <2> QED
    BY <2>1, <2>3 DEF Version
<1>5. proc[p].at = "locked" /\ today' = today /\ series.exists
  BY DEF CreateVersion, Running
<1>6. \A d \in Dates : ledger[d].recorded => d < from
  BY <1>1, <1>5, RecordedIsPast
<1>7. \A d \in Dates : ledger[d].recorded => Due(series, d) \subseteq Due(series', d)
  <2>1. \A d \in Dates : d < v.from => Due(series', d) = Due(series, d)
    BY <1>2, <1>3, <1>4, VersionKeepsPast
  <2> QED
    BY <2>1, <1>4, <1>6
<1>8. series' \in Series /\ UniqueIndexes(series')
  BY <1>2, <1>3, <1>4, VersionIsASeries
<1>9. series'.exists
  BY <1>2, <1>3, <1>5 DEF Series
<1> QED
  BY <1>1, <1>5, <1>6, <1>7, <1>8, <1>9, CutLedgerIsKept

LEMMA NewPauseIsKept ==
  ASSUME Ind, NEW p \in Admins, PauseSeries(p)
  PROVE  Kept
<1>1. PICK from \in Dates, to \in Dates \cup {Never} :
        /\ InTheFuture(p, from)
        /\ \A q \in series.pauses : ~Overlaps([from |-> from, to |-> to], q)
        /\ SetState(p, from, [series EXCEPT !.pauses = @ \cup {[from |-> from, to |-> to]}])
  BY DEF PauseSeries
<1> DEFINE pause == [from |-> from, to |-> to]
<1>2. pause \in Pause /\ pause.from = from
  BY DEF Pause
<1>3. series \in Series /\ UniqueIndexes(series)
  BY DEF Ind, TypeOK
<1>4. /\ proc[p].at = "locked" /\ today' = today /\ series.exists
      /\ series' = [series EXCEPT !.pauses = @ \cup {pause}]
      /\ ledger' = WithoutRowsFrom(from)
  BY <1>1 DEF SetState, Running
<1>5. \A q \in series.pauses : ~Overlaps(pause, q)
  BY <1>1
<1> HIDE DEF pause
<1>6. \A d \in Dates : ledger[d].recorded => d < from
  BY <1>1, <1>4, RecordedIsPast
<1>7. \A d \in Dates : ledger[d].recorded => Due(series, d) \subseteq Due(series', d)
  <2>1. \A d \in Dates : d < pause.from => Due(series', d) = Due(series, d)
    BY <1>2, <1>3, <1>4, PauseKeepsPast
  <2> QED
    BY <2>1, <1>2, <1>6
<1>8. series' \in Series /\ UniqueIndexes(series')
  BY <1>2, <1>3, <1>4, <1>5, PauseIsASeries
<1>9. series'.exists
  BY <1>3, <1>4 DEF Series
<1> QED
  BY <1>4, <1>6, <1>7, <1>8, <1>9, CutLedgerIsKept

LEMMA NewEndIsKept ==
  ASSUME Ind, NEW p \in Admins, EndSeries(p)
  PROVE  Kept
<1>1. PICK from \in Dates :
        InTheFuture(p, from) /\ SetState(p, from, [series EXCEPT !.ended = from])
  BY DEF EndSeries
<1>2. series \in Series /\ UniqueIndexes(series)
  BY DEF Ind, TypeOK
<1>3. /\ proc[p].at = "locked" /\ today' = today /\ series.exists
      /\ series' = [series EXCEPT !.ended = from] /\ ledger' = WithoutRowsFrom(from)
  BY <1>1 DEF SetState, Running
<1>4. \A d \in Dates : ledger[d].recorded => d < from
  BY <1>1, <1>3, RecordedIsPast
<1>5. \A d \in Dates : ledger[d].recorded => Due(series, d) \subseteq Due(series', d)
  BY <1>2, <1>3, <1>4, EndKeepsPast
<1>6. series' \in Series /\ UniqueIndexes(series') /\ series'.exists
  BY <1>2, <1>3 DEF Series, UniqueIndexes
<1> QED
  BY <1>3, <1>4, <1>5, <1>6, CutLedgerIsKept

\* A series resumed today was paused today: there is no row of today to delete.
LEMMA ResumptionIsKept ==
  ASSUME Ind, NEW p \in Admins, ResumeSeries(p)
  PROVE  Kept
<1>1. PICK open \in series.pauses, from \in Dates :
        /\ NotPast(p, from)
        /\ open.to = Never /\ open.from <= from
        /\ SetState(p, from, [series EXCEPT !.pauses =
                                (@ \ {open}) \cup {[open EXCEPT !.to = from]}])
  BY DEF ResumeSeries
<1>2. series \in Series /\ UniqueIndexes(series)
  BY DEF Ind, TypeOK
<1>3. /\ proc[p].at = "locked" /\ today' = today /\ series.exists
      /\ series' = Resumed(series, open, from) /\ ledger' = WithoutRowsFrom(from)
  BY <1>1 DEF SetState, Running, Resumed
<1>4. ASSUME NEW d \in Dates, ledger[d].recorded PROVE d < from
  <2>1. d <= proc[p].now /\ proc[p].now \in Nat /\ from \in Nat /\ d \in Nat
    BY <1>3, <1>4, NeverIsAfter DEF Ind, Clock, TypeOK, Proc, Procs
  <2>2. d <= from
    BY <1>1, <2>1 DEF NotPast
  <2>3. ~IsPaused(series, d)
    BY <1>4 DEF Ind, LedgerMatchesSeries, Due
  <2>4. ~(open.from <= d)
    BY <1>1, <2>3, NeverIsAfter DEF IsPaused
  <2> QED
    BY <1>1, <2>1, <2>2, <2>4
<1>5. \A d \in Dates : Due(series, d) \subseteq Due(series', d)
  BY <1>1, <1>2, <1>3, ResumeKeepsDue
<1>6. series' \in Series /\ UniqueIndexes(series')
  BY <1>1, <1>2, <1>3, ResumedIsASeries
<1>7. series'.exists
  BY <1>2, <1>3 DEF Series, Resumed
<1> QED
  BY <1>3, <1>4, <1>5, <1>6, <1>7, CutLedgerIsKept

LEMMA CorrectionOfARow ==
  ASSUME NEW r \in Row, r.recorded, NEW amount \in Amounts
  PROVE  /\ [r EXCEPT !.amount = amount, !.override = TRUE] \in Row
         /\ [r EXCEPT !.amount = amount, !.override = TRUE].override
         /\ [r EXCEPT !.amount = amount, !.override = TRUE].recorded
         /\ [r EXCEPT !.amount = amount, !.override = TRUE].recurrence = r.recurrence
  BY DEF Row

\* A correction changes the amount of one row and marks it.
LEMMA CorrectionIsKept ==
  ASSUME Ind, NEW p \in Admins, UpdateOccurrence(p)
  PROVE  Kept
<1>1. PICK e \in Dates, amount \in Amounts :
        /\ ledger[e].recorded
        /\ ledger' = [ledger EXCEPT ![e] = [@ EXCEPT !.amount = amount, !.override = TRUE]]
  BY DEF UpdateOccurrence
<1>2. ledger \in [Dates -> Row] /\ UNCHANGED <<today, series>>
  BY DEF UpdateOccurrence, Ind, TypeOK
<1>3. /\ ledger[e] \in Row
      /\ ledger'[e] = [ledger[e] EXCEPT !.amount = amount, !.override = TRUE]
      /\ \A d \in Dates \ {e} : ledger'[d] = ledger[d]
  BY <1>1, <1>2
<1>4. /\ ledger'[e] \in Row /\ ledger'[e].override /\ ledger'[e].recorded
      /\ ledger'[e].recurrence = ledger[e].recurrence
  <2>1. ledger[e] \in Row /\ ledger[e].recorded
    BY <1>1, <1>3
  <2> DEFINE r == ledger[e]
             c == [r EXCEPT !.amount = amount, !.override = TRUE]
  <2>2. c \in Row /\ c.override /\ c.recorded /\ c.recurrence = r.recurrence
    <3> HIDE DEF r
    <3>1. r \in Row /\ r.recorded
      BY <2>1 DEF r
    <3> QED
      BY <3>1, CorrectionOfARow
  <2>3. ledger'[e] = c
    BY <1>3
  <2> HIDE DEF c
  <2> QED
    BY <2>2, <2>3
<1>5. ledger' \in [Dates -> Row]
  BY <1>1, <1>2, <1>4
<1>6. LedgerMatchesSeries'
  <2> SUFFICES ASSUME NEW d \in Dates, ledger'[d].recorded
               PROVE  d <= today'
                      /\ \E v \in Due(series', d) :
                          /\ ledger'[d].recurrence = v.recurrence
                          /\ ledger'[d].override \/ ledger'[d].amount = v.amount
    BY DEF LedgerMatchesSeries
  <2>1. ledger[d].recorded
    BY <1>1, <1>3
  <2>2. PICK v \in Due(series, d) :
          /\ d <= today
          /\ ledger[d].recurrence = v.recurrence
          /\ ledger[d].override \/ ledger[d].amount = v.amount
    BY <2>1 DEF Ind, LedgerMatchesSeries
  <2> QED
    BY <1>2, <1>3, <1>4, <2>2
<1>7. series' \in Series /\ UniqueIndexes(series') /\ Absent'
  BY <1>2 DEF Ind, TypeOK, Absent
<1>8. \A d \in Dates : RowKept(d)
  BY <1>3, <1>4 DEF RowKept
<1> QED
  BY <1>5, <1>6, <1>7, <1>8 DEF Kept

\* The worker records only what the series still gives, up to a date already reached.
LEMMA InsertionIsKept ==
  ASSUME Ind, NEW w \in Workers, InsertDue(w)
  PROVE  Kept
<1>1. w \in Procs /\ proc[w].at = "read" /\ UNCHANGED <<today, series>>
  BY DEF InsertDue, Procs
<1>2. /\ proc[w].seen = series /\ proc[w].now <= today /\ proc[w].now \in Nat /\ today \in Nat
      /\ ledger \in [Dates -> Row] /\ series \in Series
  BY <1>1, NeverIsAfter DEF Ind, Fresh, Clock, TypeOK, Proc
<1> DEFINE New(d) == Projected(w, d) /\ Due(series, d) # {} /\ ~ledger[d].recorded
           Given(d) == [recorded |-> TRUE,
                        recurrence |-> (CHOOSE u \in Due(series, d) : TRUE).recurrence,
                        amount |-> (CHOOSE u \in Due(series, d) : TRUE).amount,
                        override |-> FALSE]
<1>3. ledger' = [d \in Dates |-> IF New(d) THEN Given(d) ELSE ledger[d]]
  BY <1>2 DEF InsertDue
<1>4. ASSUME NEW d \in Dates, New(d)
      PROVE  /\ Given(d) \in Row /\ d <= today
             /\ \E v \in Due(series, d) :
                  Given(d).recurrence = v.recurrence /\ Given(d).amount = v.amount
  <2> DEFINE u == CHOOSE u \in Due(series, d) : TRUE
  <2>1. u \in Due(series, d)
    BY <1>4
  <2>2. u \in Version
    BY <1>2, <2>1 DEF Due, InForce, Series
  <2>3. d <= today
    BY <1>2, <1>4, NeverIsAfter DEF Projected
  <2>4. Given(d) = [recorded |-> TRUE, recurrence |-> u.recurrence,
                    amount |-> u.amount, override |-> FALSE]
    OBVIOUS
  <2> HIDE DEF u, Given
  <2>5. Given(d) \in Row
    BY <2>2, <2>4 DEF Row, Version
  <2> QED
    BY <2>1, <2>3, <2>4, <2>5
<1>5. \A d \in Dates : Given(d).recorded
  OBVIOUS
<1> HIDE DEF Given
<1>6. ledger' \in [Dates -> Row]
  BY <1>2, <1>3, <1>4
<1>7. LedgerMatchesSeries'
  <2> SUFFICES ASSUME NEW d \in Dates, ledger'[d].recorded
               PROVE  d <= today
                      /\ \E v \in Due(series, d) :
                          /\ ledger'[d].recurrence = v.recurrence
                          /\ ledger'[d].override \/ ledger'[d].amount = v.amount
    BY <1>1 DEF LedgerMatchesSeries
  <2>1. CASE New(d)
    BY <1>3, <1>4, <2>1
  <2>2. CASE ~New(d)
    BY <1>3, <2>2 DEF Ind, LedgerMatchesSeries
  <2> QED
    BY <2>1, <2>2
<1>8. series' \in Series /\ UniqueIndexes(series') /\ Absent'
  BY <1>1 DEF Ind, TypeOK, Absent
<1>9. \A d \in Dates : RowKept(d)
  BY <1>3 DEF RowKept
<1> QED
  BY <1>6, <1>7, <1>8, <1>9 DEF Kept

-----------------------------------------------------------------------------
(* Every step *)

LEMMA ChangeIsKept ==
  ASSUME Ind, NEW p \in Admins, Change(p)
  PROVE  Kept /\ proc[p].at = "locked" /\ Release(p) /\ today' = today
<1>1. Kept
  BY InsertedSeriesIsKept, NewVersionIsKept, NewPauseIsKept, ResumptionIsKept,
     NewEndIsKept, CorrectionIsKept DEF Change
<1>2. proc[p].at = "locked" /\ Release(p) /\ today' = today
  BY DEF Change, CreateSeries, UpdateSeries, DeleteSeries, CreateVersion, PauseSeries,
         ResumeSeries, EndSeries, SetState, UpdateOccurrence
<1> QED
  BY <1>1, <1>2

\* A process that takes the lock when it is free, or goes on without it.
LEMMA NothingWrittenIsKept ==
  ASSUME Ind, UNCHANGED <<series, ledger>>, today' >= today, today' \in Dates
  PROVE  Kept
<1>1. LedgerMatchesSeries'
  <2> SUFFICES ASSUME NEW d \in Dates, ledger[d].recorded
               PROVE  d <= today'
                      /\ \E v \in Due(series, d) :
                          /\ ledger[d].recurrence = v.recurrence
                          /\ ledger[d].override \/ ledger[d].amount = v.amount
    BY DEF LedgerMatchesSeries
  <2>1. d <= today /\ d \in Nat /\ today \in Nat /\ today' \in Nat
    BY NeverIsAfter DEF Ind, TypeOK, LedgerMatchesSeries
  <2> QED
    BY <2>1 DEF Ind, LedgerMatchesSeries
<1> QED
  BY <1>1 DEF Ind, TypeOK, Absent, Kept, RowKept

LEMMA StepIsKept ==
  ASSUME Ind, [Next]_vars
  PROVE  Ind' /\ Kept
<1>1. ASSUME Kept, today' = today, NEW p \in Procs, proc[p].at \in {"locked", "read"}, Release(p)
      PROVE  Ind'
  <2>1. /\ proc' \in [Procs -> Proc] /\ holders' \in SUBSET Procs
        /\ Alone' /\ Clock' /\ Fresh'
    BY <1>1, ReleaseLeavesNobody
  <2>2. today' \in Dates
    BY <1>1 DEF Ind, TypeOK
  <2> QED
    BY <1>1, <2>1, <2>2 DEF Ind, TypeOK, Kept
<1>2. CASE \E p \in Admins : Change(p)
  BY <1>1, <1>2, ChangeIsKept DEF Procs
<1>3. CASE \E w \in Workers : InsertDue(w)
  <2>1. PICK w \in Workers : InsertDue(w)
    BY <1>3
  <2>2. w \in Procs /\ proc[w].at = "read" /\ Release(w) /\ today' = today
    BY <2>1 DEF InsertDue, Procs
  <2> QED
    BY <1>1, <2>1, <2>2, InsertionIsKept
<1>4. CASE \E p \in Procs : Abort(p)
  <2>1. PICK p \in Procs : Abort(p)
    BY <1>4
  <2>2. /\ proc[p].at \in {"locked", "read"} /\ Release(p)
        /\ UNCHANGED <<today, series, ledger>>
    BY <2>1 DEF Abort
  <2>3. Kept
    BY <2>2, NothingWrittenIsKept, NeverIsAfter DEF Ind, TypeOK
  <2> QED
    BY <1>1, <2>2, <2>3
<1>5. CASE \E p \in Admins : Begin(p)
  <2>1. PICK p \in Admins : Begin(p)
    BY <1>5
  <2>2. /\ p \in Procs /\ holders = {} /\ holders' = {p}
        /\ proc' = [proc EXCEPT ![p] = [Idle EXCEPT !.at = "locked", !.now = today]]
        /\ UNCHANGED <<today, series, ledger>>
    BY <2>1 DEF Begin, CanLock, Procs
  <2>3. Kept
    BY <2>2, NothingWrittenIsKept, NeverIsAfter DEF Ind, TypeOK
  <2>4. /\ [Idle EXCEPT !.at = "locked", !.now = today] \in Proc
        /\ [Idle EXCEPT !.at = "locked", !.now = today].at = "locked"
        /\ [Idle EXCEPT !.at = "locked", !.now = today].now = today
    BY IdleIsAProc DEF Proc, Ind, TypeOK
  <2>5. /\ proc' \in [Procs -> Proc] /\ proc'[p].at = "locked" /\ proc'[p].now = today
        /\ \A q \in Procs \ {p} : proc'[q] = proc[q]
    BY <2>2, <2>4 DEF Ind, TypeOK
  <2>6. today \in Nat /\ \A d \in Dates : ledger[d].recorded => d <= today
    BY NeverIsAfter DEF Ind, TypeOK, LedgerMatchesSeries
  <2>7. Alone' /\ Fresh'
    BY <2>2, <2>5 DEF Ind, Alone, Fresh
  <2>8. Clock'
    BY <2>2, <2>5, <2>6 DEF Ind, Clock, Procs
  <2> QED
    BY <2>2, <2>3, <2>5, <2>7, <2>8 DEF Ind, TypeOK, Kept
<1>6. CASE \E w \in Workers : Tick(w)
  <2>1. PICK w \in Workers : Tick(w)
    BY <1>6
  <2>2. /\ w \in Procs /\ proc[w].at = "idle" /\ w \notin Admins
        /\ proc' = [proc EXCEPT ![w] = [Idle EXCEPT !.at = "waiting", !.now = today]]
        /\ UNCHANGED <<today, series, ledger, holders>>
    BY <2>1, InstanceAssumption DEF Tick, Procs
  <2>3. Kept
    BY <2>2, NothingWrittenIsKept, NeverIsAfter DEF Ind, TypeOK
  <2>4. /\ [Idle EXCEPT !.at = "waiting", !.now = today] \in Proc
        /\ [Idle EXCEPT !.at = "waiting", !.now = today].at = "waiting"
        /\ [Idle EXCEPT !.at = "waiting", !.now = today].now = today
    BY IdleIsAProc DEF Proc, Ind, TypeOK
  <2>5. /\ proc' \in [Procs -> Proc] /\ proc'[w].at = "waiting" /\ proc'[w].now = today
        /\ \A q \in Procs \ {w} : proc'[q] = proc[q]
    BY <2>2, <2>4 DEF Ind, TypeOK
  <2>6. today \in Nat
    BY NeverIsAfter DEF Ind, TypeOK
  <2>7. Alone' /\ Fresh'
    BY <2>2, <2>5 DEF Ind, Alone, Fresh
  <2>8. Clock'
    BY <2>2, <2>5, <2>6 DEF Ind, Clock, Procs
  <2> QED
    BY <2>2, <2>3, <2>5, <2>7, <2>8 DEF Ind, TypeOK, Kept
<1>7. CASE \E w \in Workers : BeginMaterialization(w)
  <2>1. PICK w \in Workers : BeginMaterialization(w)
    BY <1>7
  <2>2. /\ w \in Procs /\ holders = {} /\ holders' = {w} /\ w \notin Admins
        /\ proc' = [proc EXCEPT ![w].at = "locked"]
        /\ UNCHANGED <<today, series, ledger>>
    BY <2>1, InstanceAssumption DEF BeginMaterialization, CanLock, Procs
  <2>3. Kept
    BY <2>2, NothingWrittenIsKept, NeverIsAfter DEF Ind, TypeOK
  <2>4. proc[w] \in Proc
    BY <2>2 DEF Ind, TypeOK
  <2>5. /\ proc' \in [Procs -> Proc] /\ proc'[w].at = "locked" /\ proc'[w].now = proc[w].now
        /\ \A q \in Procs \ {w} : proc'[q] = proc[q]
    BY <2>2, <2>4 DEF Ind, TypeOK, Proc
  <2>6. Alone' /\ Fresh'
    BY <2>2, <2>5 DEF Ind, Alone, Fresh
  <2>7. Clock'
    BY <2>2, <2>5 DEF Ind, Clock, Procs
  <2> QED
    BY <2>2, <2>3, <2>5, <2>6, <2>7 DEF Ind, TypeOK, Kept
<1>8. CASE \E w \in Workers : ReadSeries(w)
  <2>1. PICK w \in Workers : ReadSeries(w)
    BY <1>8
  <2>2. /\ w \in Procs /\ proc[w].at = "locked" /\ w \notin Admins
        /\ proc' = [proc EXCEPT ![w].at = "read", ![w].seen = series]
        /\ UNCHANGED <<today, series, ledger, holders>>
    BY <2>1, InstanceAssumption DEF ReadSeries, Procs
  <2>3. Kept
    BY <2>2, NothingWrittenIsKept, NeverIsAfter DEF Ind, TypeOK
  <2>4. proc[w] \in Proc /\ series \in Series
    BY <2>2 DEF Ind, TypeOK
  <2>5. /\ proc' \in [Procs -> Proc] /\ proc'[w].at = "read"
        /\ proc'[w].now = proc[w].now /\ proc'[w].seen = series
        /\ \A q \in Procs \ {w} : proc'[q] = proc[q]
    BY <2>2, <2>4 DEF Ind, TypeOK, Proc
  <2>6. Alone' /\ Fresh'
    BY <2>2, <2>5 DEF Ind, Alone, Fresh
  <2>7. Clock'
    BY <2>2, <2>5 DEF Ind, Clock, Procs
  <2> QED
    BY <2>2, <2>3, <2>5, <2>6, <2>7 DEF Ind, TypeOK, Kept
<1>9. CASE Midnight
  <2>1. /\ today' = today + 1 /\ today < LastDate
        /\ UNCHANGED <<series, ledger, proc, holders>>
    BY <1>9 DEF Midnight
  <2>2. today \in Nat /\ today' \in Dates /\ today' >= today
    BY <2>1, CalendarAssumption DEF Ind, TypeOK, Dates
  <2>3. Kept
    BY <2>1, <2>2, NothingWrittenIsKept
  <2>4. Clock'
    <3>1. ASSUME NEW p \in Procs PROVE proc'[p].now <= today'
      <4>1. proc[p] \in Proc /\ proc'[p] = proc[p]
        BY <2>1 DEF Ind, TypeOK
      <4>2. proc[p].now \in Nat /\ proc[p].now <= today
        BY <4>1, NeverIsAfter DEF Proc, Ind, Clock
      <4> QED
        BY <2>1, <2>2, <4>1, <4>2
    <3>2. \A p \in Admins, d \in Dates :
            proc'[p].at = "locked" /\ ledger'[d].recorded => d <= proc'[p].now
      BY <2>1 DEF Ind, Clock
    <3> QED
      BY <3>1, <3>2 DEF Clock
  <2>5. Alone' /\ Fresh'
    BY <2>1 DEF Ind, Alone, Fresh
  <2> QED
    BY <2>1, <2>2, <2>3, <2>4, <2>5 DEF Ind, TypeOK, Kept
<1>10. CASE UNCHANGED vars
  <2>1. Kept
    BY <1>10, NothingWrittenIsKept, NeverIsAfter DEF vars, Ind, TypeOK
  <2>2. Alone' /\ Fresh' /\ Clock'
    BY <1>10 DEF vars, Ind, Alone, Fresh, Clock
  <2> QED
    BY <1>10, <2>1, <2>2 DEF vars, Ind, TypeOK, Kept
<1> QED
  BY <1>2, <1>3, <1>4, <1>5, <1>6, <1>7, <1>8, <1>9, <1>10, ChangeIsKept, InsertionIsKept
  DEF Next, Materialize

-----------------------------------------------------------------------------
(* The specification *)

LEMMA InitIsInd == Init => Ind
<1> SUFFICES ASSUME Init PROVE Ind
  OBVIOUS
<1>1. 0 \in Dates /\ today = 0
  BY CalendarAssumption DEF Dates, Init
<1>2. \A p \in Procs : proc[p] = Idle
  BY DEF Init
<1>3. \A d \in Dates : ledger[d] = NoRow
  BY DEF Init
<1>4. TypeOK
  BY <1>1, NoSeriesIsASeries, NoRowIsARow, IdleIsAProc DEF Init, TypeOK
<1>5. Idle.at = "idle" /\ Idle.now = 0
  BY DEF Idle
<1>6. Alone /\ Fresh
  BY <1>2, <1>5 DEF Init, Alone, Fresh
<1>7. Clock
  BY <1>1, <1>2, <1>3, <1>5, NoRowIsARow DEF Clock
<1>8. Absent /\ LedgerMatchesSeries
  BY <1>3, NoRowIsARow DEF Init, Absent, LedgerMatchesSeries
<1> QED
  BY <1>4, <1>6, <1>7, <1>8 DEF Ind

LEMMA IndHolds == Spec => []Ind
  BY InitIsInd, StepIsKept, PTL DEF Spec

\* The tables keep their shape and their unique indexes, whatever the requests, the
\* workers and midnight do (createRecurringExpenseSeries and the other operations).
THEOREM ExpensesTypeCorrect == Spec => []TypeOK
<1>1. Ind => TypeOK
  BY DEF Ind
<1> QED
  BY <1>1, IndHolds, PTL

\* Every row of the ledger is one that the series accounts for, at a date already
\* reached: what materializeDue records and what each change deletes agree.
THEOREM LedgerAgrees == Spec => []LedgerMatchesSeries
<1>1. Ind => LedgerMatchesSeries
  BY DEF Ind
<1> QED
  BY <1>1, IndHolds, PTL

\* No recorded expense is ever deleted or rewritten, except as a correction.
THEOREM HistoryKept == Spec => HistoryIsKept
<1>1. Ind /\ [Next]_vars =>
        [\A d \in Dates : ledger[d].recorded =>
            /\ ledger'[d].recorded
            /\ ledger'[d] = ledger[d] \/ ledger'[d].override]_ledger
  <2> SUFFICES ASSUME Ind, [Next]_vars, NEW d \in Dates, ledger[d].recorded
               PROVE  /\ ledger'[d].recorded
                      /\ ledger'[d] = ledger[d] \/ ledger'[d].override
    OBVIOUS
  <2> QED
    BY StepIsKept DEF Kept, RowKept
<1> QED
  BY <1>1, IndHolds, PTL DEF Spec, HistoryIsKept

-----------------------------------------------------------------------------
(* What was due on a past date *)

\* A request that holds the lock read its date today or, over one midnight, yesterday.
OneNight == \A p \in Admins : proc[p].at = "locked" => today <= proc[p].now + 1

\* What a step does to the request of an administrator.
LEMMA RequestsStep ==
  ASSUME Ind, [Next]_vars, NEW p \in Admins, proc'[p].at = "locked"
  PROVE  \/ proc'[p] = proc[p] /\ today' = today
         \/ proc'[p].now = today'
         \/ Midnight
<1>1. p \in Procs /\ proc \in [Procs -> Proc] /\ today \in Dates /\ \A w \in Workers : w # p
  BY InstanceAssumption DEF Ind, TypeOK, Procs
<1>2. CASE UNCHANGED vars
  BY <1>2 DEF vars
<1>3. ASSUME NEW q \in Procs, Release(q), today' = today
      PROVE  proc'[p] = proc[p] /\ today' = today
  <2>1. Idle.at # "locked"
    BY DEF Idle
  <2>2. q # p
    BY <1>1, <1>3, <2>1 DEF Release
  <2> QED
    BY <1>1, <1>3, <2>2 DEF Release
<1>4. CASE \E q \in Admins : Change(q)
  BY <1>3, <1>4, ChangeIsKept DEF Procs
<1>5. CASE \E w \in Workers : InsertDue(w)
  BY <1>3, <1>5 DEF InsertDue, Procs
<1>6. CASE \E q \in Procs : Abort(q)
  BY <1>3, <1>6 DEF Abort
<1>7. CASE \E q \in Admins : Begin(q)
  <2>1. PICK q \in Admins : Begin(q)
    BY <1>7
  <2>2. /\ q \in Procs /\ today' = today
        /\ proc' = [proc EXCEPT ![q] = [Idle EXCEPT !.at = "locked", !.now = today]]
    BY <2>1 DEF Begin, Procs
  <2>3. [Idle EXCEPT !.at = "locked", !.now = today].now = today
    BY IdleIsAProc DEF Proc
  <2> QED
    BY <1>1, <2>2, <2>3
<1>8. CASE \E w \in Workers : Tick(w)
  BY <1>1, <1>8 DEF Tick
<1>9. CASE \E w \in Workers : BeginMaterialization(w)
  BY <1>1, <1>9 DEF BeginMaterialization
<1>10. CASE \E w \in Workers : ReadSeries(w)
  BY <1>1, <1>10 DEF ReadSeries
<1> QED
  BY <1>2, <1>4, <1>5, <1>6, <1>7, <1>8, <1>9, <1>10 DEF Next, Materialize

LEMMA OneNightStays == Ind /\ OneNight /\ [Next]_vars => OneNight'
<1> SUFFICES ASSUME Ind, OneNight, [Next]_vars, NEW p \in Admins, proc'[p].at = "locked"
             PROVE  today' <= proc'[p].now + 1
  BY DEF OneNight
<1>1. /\ proc[p].now \in Nat /\ today \in Nat /\ proc'[p].now \in Nat /\ today' \in Nat
  BY StepIsKept, NeverIsAfter DEF Ind, TypeOK, Proc, Procs
<1>2. CASE proc'[p] = proc[p] /\ today' = today
  <2>1. proc[p].at = "locked"
    BY <1>2
  <2> QED
    BY <1>2, <2>1 DEF OneNight
<1>3. CASE proc'[p].now = today'
  <2>1. \A n \in Nat : n <= n + 1
    OBVIOUS
  <2> QED
    BY <1>1, <1>3, <2>1
<1>4. CASE Midnight
  <2>1. proc' = proc /\ today' = today + 1 /\ proc[p].at # "idle"
    BY <1>4 DEF Midnight
  <2>2. proc[p].now = today
    BY <1>4, <2>1 DEF Midnight
  <2> QED
    BY <1>1, <2>1, <2>2
<1> QED
  BY <1>2, <1>3, <1>4, RequestsStep

\* A date before a change asked for after the date of its request is past today too.
LEMMA ChangesComeLater ==
  ASSUME Ind, OneNight, NEW p \in Admins, proc[p].at = "locked",
         NEW from \in Dates, InTheFuture(p, from), NEW d \in Dates, d < today
  PROVE  d < from
<1>1. proc[p].now \in Nat /\ today \in Nat /\ d \in Nat /\ from \in Nat
  BY NeverIsAfter DEF Ind, TypeOK, Proc, Procs
<1> QED
  BY <1>1 DEF OneNight, InTheFuture

\* What the change of a series with history leaves due on a past date.
LEMMA ChangeKeepsPast ==
  ASSUME Ind, OneNight, NEW p \in Admins, Change(p), NEW h \in Dates, ledger[h].recorded,
         NEW d \in Dates, d < today
  PROVE  Due(series, d) \subseteq Due(series', d)
<1>1. proc[p].at = "locked" /\ series \in Series
  BY ChangeIsKept DEF Ind, TypeOK
<1>2. series.exists /\ HasOccurrences(p)
  BY <1>1, NoSeriesNoRows, NoHistoryNoRows
<1>3. ~CreateSeries(p) /\ ~UpdateSeries(p) /\ ~DeleteSeries(p)
  BY <1>2 DEF CreateSeries, UpdateSeries, DeleteSeries
<1>4. CASE CreateVersion(p)
  <2>1. PICK from \in Dates, recurrence \in Frequency, amount \in Amounts :
          /\ InTheFuture(p, from)
          /\ \E v \in NewVersions(from, recurrence, amount) :
              series' = [series EXCEPT !.versions = WithVersion(series, v)]
    BY <1>4 DEF CreateVersion
  <2>2. PICK last \in Latest(series) :
          series' = [series EXCEPT !.versions = WithVersion(series,
                       [from |-> from, recurrence |-> recurrence, amount |-> amount,
                        day |-> IF last.recurrence = recurrence THEN last.day
                                ELSE Schedule(recurrence, from)])]
    BY <2>1 DEF NewVersions
  <2> DEFINE v == [from |-> from, recurrence |-> recurrence, amount |-> amount,
                   day |-> IF last.recurrence = recurrence THEN last.day
                           ELSE Schedule(recurrence, from)]
  <2>3. v \in Version /\ v.from = from
    <3>1. last.day \in Nat
      BY <1>1 DEF Latest, Series, Version
    <3>2. v.day \in Nat
      BY <3>1, ScheduleIsNatural
    <3> QED
      BY <3>2 DEF Version
  <2>4. series' = [series EXCEPT !.versions = WithVersion(series, v)]
    BY <2>2
  <2> HIDE DEF v
  <2>5. d < v.from
    BY <1>1, <2>1, <2>3, ChangesComeLater
  <2> QED
    BY <1>1, <2>3, <2>4, <2>5, VersionKeepsPast
<1>5. CASE PauseSeries(p)
  <2>1. PICK from \in Dates, to \in Dates \cup {Never} :
          /\ InTheFuture(p, from)
          /\ series' = [series EXCEPT !.pauses = @ \cup {[from |-> from, to |-> to]}]
    BY <1>5 DEF PauseSeries, SetState
  <2> DEFINE pause == [from |-> from, to |-> to]
  <2>2. pause \in Pause /\ pause.from = from
    BY DEF Pause
  <2>3. series' = [series EXCEPT !.pauses = @ \cup {pause}]
    BY <2>1
  <2> HIDE DEF pause
  <2>4. d < pause.from
    BY <1>1, <2>1, <2>2, ChangesComeLater
  <2> QED
    BY <1>1, <2>2, <2>3, <2>4, PauseKeepsPast
<1>6. CASE EndSeries(p)
  <2>1. PICK from \in Dates : InTheFuture(p, from) /\ series' = [series EXCEPT !.ended = from]
    BY <1>6 DEF EndSeries, SetState
  <2> QED
    BY <1>1, <2>1, ChangesComeLater, EndKeepsPast
<1>7. CASE ResumeSeries(p)
  <2>1. PICK open \in series.pauses, from \in Dates :
          /\ open.to = Never
          /\ series' = Resumed(series, open, from)
    BY <1>7 DEF ResumeSeries, SetState, Resumed
  <2> QED
    BY <1>1, <2>1, ResumeKeepsDue
<1>8. CASE UpdateOccurrence(p)
  BY <1>8 DEF UpdateOccurrence
<1> QED
  BY <1>3, <1>4, <1>5, <1>6, <1>7, <1>8 DEF Change

LEMMA StepKeepsPast ==
  ASSUME Ind, OneNight, [Next]_vars, NEW h \in Dates, ledger[h].recorded,
         NEW d \in Dates, d < today
  PROVE  Due(series, d) \subseteq Due(series', d)
<1>1. CASE \E p \in Admins : Change(p)
  BY <1>1, ChangeKeepsPast
<1>2. CASE UNCHANGED series
  BY <1>2
<1> QED
  BY <1>1, <1>2
  DEF Next, Materialize, vars, Begin, Tick, BeginMaterialization, ReadSeries, InsertDue,
      Abort, Midnight

\* What a series with history had due on a past date stays due, whether a late worker
\* has recorded it or not: every change starts after the date its request read, and no
\* request stays open from one midnight to the next (FUTURE_EFFECTIVE_DATE_REQUIRED).
THEOREM PastStays == Spec => PastStaysDue
<1>1. Init => OneNight
  BY DEF Init, OneNight, Idle, Procs
<1>2. Ind /\ OneNight /\ [Next]_vars =>
        [(\E d \in Dates : ledger[d].recorded) =>
            \A d \in Dates : d < today => Due(series, d) \subseteq Due(series', d)]_series
  BY StepKeepsPast
<1> QED
  BY <1>1, <1>2, IndHolds, OneNightStays, PTL DEF Spec, PastStaysDue
=============================================================================
