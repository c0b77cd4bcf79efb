------------------------- MODULE RecurringExpenses -------------------------
(* A recurring expense of one location, the ledger rows recorded for it, the
   administrators who change it and the workers that record what is due
   (server/recurring-expenses.ts, shared/business-expense-recurrence.ts).
   Every operation runs in one transaction under the location's advisory lock;
   only midnight and the locks order them.  A date is its number, counted from
   the first day of a week and of a month. *)
EXTENDS Naturals, FiniteSets

CONSTANTS
    Admins,         \* requests of the expense pages
    Workers,        \* processes that run the materialization worker
    LastDate,       \* bound: the last date the model reaches
    WeekLength,     \* days of a week
    MonthStart,     \* the first date of the month of a date
    MonthLength,    \* the days of the month of a date
    Amounts,        \* what the terms say: amount, category, description, notes
    MaxVersions,    \* bound: dates on which the terms change
    MaxPauses       \* bound: pauses of a series

Dates == 0..LastDate
Never == LastDate + 1    \* a null resumed_on or ended_on

ASSUME CalendarAssumption ==
    /\ LastDate \in Nat /\ WeekLength \in Nat \ {0}
    /\ MonthStart \in [Dates -> Dates] /\ \A d \in Dates : MonthStart[d] <= d
    /\ MonthLength \in [Dates -> Nat \ {0}]

ASSUME InstanceAssumption ==
    /\ Admins \cap Workers = {}
    /\ Amounts # {}
    /\ MaxVersions \in Nat /\ MaxPauses \in Nat

VARIABLES
    today,     \* the date in the location's time zone
    series,    \* the series with its versions and pauses
    ledger,    \* business_expenses of the series, by scheduled_date
    proc,      \* the administrators and workers
    holders    \* who holds the advisory lock (424243, location)

vars == <<today, series, ledger, proc, holders>>

Procs == Admins \cup Workers

-----------------------------------------------------------------------------
(* The calendar and the schedule *)

Weekday(d) == d % WeekLength
MonthDay(d) == d - MonthStart[d] + 1

Frequency == {"weekly", "monthly"}
Version == [from: Dates, recurrence: Frequency, day: Nat, amount: Amounts]
Pause == [from: Dates, to: Dates \cup {Never}]
Row == [recorded: BOOLEAN, recurrence: Frequency, amount: Amounts, override: BOOLEAN]

NoRow == [recorded |-> FALSE, recurrence |-> "weekly",
          amount |-> CHOOSE a \in Amounts : TRUE, override |-> FALSE]
NoSeries == [exists |-> FALSE, anchor |-> 0, ended |-> Never, versions |-> {}, pauses |-> {}]

\* recurrenceSchedule: the weekday or the day of the month of a date.
Schedule(recurrence, d) == IF recurrence = "weekly" THEN Weekday(d) ELSE MonthDay(d)

\* recurringExpenseDates: a month too short for its day has it on its last day.
FallsOn(v, d) ==
    IF v.recurrence = "weekly" THEN Weekday(d) = v.day
    ELSE MonthDay(d) = IF v.day <= MonthLength[d] THEN v.day ELSE MonthLength[d]

IsPaused(s, d) == \E p \in s.pauses : p.from <= d /\ d < p.to

\* The version whose dates a projection takes up to the day before the next one.
InForce(s, d) ==
    {v \in s.versions : v.from <= d /\ \A w \in s.versions : w.from <= d => w.from <= v.from}

Latest(s) == {v \in s.versions : \A w \in s.versions : w.from <= v.from}

\* What projectRecurringExpenseOccurrences gives for a date: at most one version.
Due(s, d) ==
    {v \in InForce(s, d) : s.anchor <= d /\ d < s.ended /\ ~IsPaused(s, d) /\ FallsOn(v, d)}

-----------------------------------------------------------------------------
(* Transactions *)

Idle == [at |-> "idle", now |-> 0, seen |-> NoSeries]

\* lockExpenseLocation
CanLockAtOnce == TRUE
CanLock == holders = {}

Release(p) ==
    /\ proc' = [proc EXCEPT ![p] = Idle]
    /\ holders' = holders \ {p}

\* An administrator's transaction takes the lock, then reads the date.
Begin(p) ==
    /\ p \in Admins /\ proc[p].at = "idle" /\ CanLock
    /\ proc' = [proc EXCEPT ![p] = [Idle EXCEPT !.at = "locked", !.now = today]]
    /\ holders' = holders \cup {p}
    /\ UNCHANGED <<today, series, ledger>>

\* An error code, an exception or a lost connection: the transaction rolls back.
Abort(p) ==
    /\ proc[p].at \in {"locked", "read"}
    /\ Release(p)
    /\ UNCHANGED <<today, series, ledger>>

\* occurrenceCount up to the date the transaction read.
HasOccurrences(p) == \E d \in Dates : d <= proc[p].now /\ ledger[d].recorded

\* FUTURE_EFFECTIVE_DATE_REQUIRED
NotPast(p, d) == d >= proc[p].now
InTheFuture(p, d) == d > proc[p].now

Running(p) == series.exists /\ series.ended > proc[p].now

\* The rows from a date on that are no corrections are deleted.
WithoutRowsFrom(from) ==
    [d \in Dates |-> IF d >= from /\ ~ledger[d].override THEN NoRow ELSE ledger[d]]

NewSeries(start, recurrence, amount) ==
    [exists |-> TRUE, anchor |-> start, ended |-> Never, pauses |-> {},
     versions |-> {[from |-> start, recurrence |-> recurrence,
                    day |-> Schedule(recurrence, start), amount |-> amount]}]

\* createRecurringExpenseSeries; with the key of an existing one it changes nothing.
CreateSeries(p) ==
    /\ proc[p].at = "locked" /\ p \in Admins
    /\ ~series.exists
    /\ \E start \in Dates, recurrence \in Frequency, amount \in Amounts :
        series' = NewSeries(start, recurrence, amount)
    /\ Release(p)
    /\ UNCHANGED <<today, ledger>>

\* updateRecurringExpenseSeries, of a series without history.
UpdateSeries(p) ==
    /\ proc[p].at = "locked" /\ p \in Admins
    /\ series.exists /\ ~HasOccurrences(p)
    /\ \E start \in Dates, recurrence \in Frequency, amount \in Amounts :
        series' = NewSeries(start, recurrence, amount)
    /\ Release(p)
    /\ UNCHANGED <<today, ledger>>

DeleteSeries(p) ==
    /\ proc[p].at = "locked" /\ p \in Admins
    /\ series.exists /\ ~HasOccurrences(p)
    /\ series' = NoSeries
    /\ Release(p)
    /\ UNCHANGED <<today, ledger>>

\* A version on the date of the latest one replaces it.
WithLatestReplaced(s, v) == (s.versions \ Latest(s)) \cup {v}
WithVersion(s, v) == {w \in s.versions : w.from # v.from} \cup {v}

\* The weekday or day of the month stays unless the recurrence changes.
NewVersions(from, recurrence, amount) ==
    {[from |-> from, recurrence |-> recurrence, amount |-> amount,
      day |-> IF last.recurrence = recurrence THEN last.day ELSE Schedule(recurrence, from)]
     : last \in {v \in Latest(series) : v.from <= from}}

CreateVersion(p) ==
    /\ proc[p].at = "locked" /\ p \in Admins
    /\ Running(p) /\ HasOccurrences(p)
    /\ \E from \in Dates, recurrence \in Frequency, amount \in Amounts :
        /\ InTheFuture(p, from) /\ (from < series.ended)
        /\ \E v \in NewVersions(from, recurrence, amount) :
            series' = [series EXCEPT !.versions = WithVersion(series, v)]
        /\ ledger' = WithoutRowsFrom(from)
    /\ Cardinality({v.from : v \in series'.versions}) <= MaxVersions
    /\ Release(p)
    /\ UNCHANGED today

\* FUTURE_OCCURRENCE_OVERRIDE_REQUIRES_REVIEW
NoCorrectionFrom(from) == \A d \in Dates : d >= from => ~ledger[d].override

SetState(p, from, changed) ==
    /\ proc[p].at = "locked" /\ p \in Admins
    /\ HasOccurrences(p) /\ Running(p)
    /\ NoCorrectionFrom(from)
    /\ series' = changed
    /\ ledger' = WithoutRowsFrom(from)
    /\ Release(p)
    /\ UNCHANGED today

\* PAUSE_OVERLAP
Overlaps(q, p) == p.from < q.to /\ q.from < p.to

PauseSeries(p) ==
    \E from \in Dates, to \in Dates \cup {Never} :
        /\ InTheFuture(p, from) /\ from < to
        /\ series.ended # Never => from < series.ended /\ (to = Never \/ to <= series.ended)
        /\ \A q \in series.pauses : ~Overlaps([from |-> from, to |-> to], q)
        /\ Cardinality(series.pauses) < MaxPauses
        /\ SetState(p, from, [series EXCEPT !.pauses = @ \cup {[from |-> from, to |-> to]}])

\* The pause without an end, started by then, ends: today at the earliest.
ResumeSeries(p) ==
    \E open \in series.pauses, from \in Dates :
        /\ NotPast(p, from)
        /\ open.to = Never /\ open.from <= from
        /\ SetState(p, from, [series EXCEPT !.pauses =
                                (@ \ {open}) \cup {[open EXCEPT !.to = from]}])

\* END_DATE_BEFORE_HISTORY
AfterHistory(p, d) == \A e \in Dates : e <= proc[p].now /\ ledger[e].recorded => e < d

EndSeries(p) ==
    \E from \in Dates :
        /\ InTheFuture(p, from) /\ AfterHistory(p, from)
        /\ SetState(p, from, [series EXCEPT !.ended = from])

\* updateRecurringExpenseOccurrence: the correction of one recorded expense.
UpdateOccurrence(p) ==
    /\ proc[p].at = "locked" /\ p \in Admins
    /\ \E d \in Dates, amount \in Amounts :
        /\ ledger[d].recorded
        /\ ledger' = [ledger EXCEPT ![d] = [@ EXCEPT !.amount = amount, !.override = TRUE]]
    /\ Release(p)
    /\ UNCHANGED <<today, series>>

-----------------------------------------------------------------------------
(* The worker *)

\* The date of a tick is read before the transaction waits for the lock.
Tick(w) ==
    /\ w \in Workers /\ proc[w].at = "idle"
    /\ proc' = [proc EXCEPT ![w] = [Idle EXCEPT !.at = "waiting", !.now = today]]
    /\ UNCHANGED <<today, series, ledger, holders>>

BeginMaterialization(w) ==
    /\ proc[w].at = "waiting" /\ CanLock
    /\ proc' = [proc EXCEPT ![w].at = "locked"]
    /\ holders' = holders \cup {w}
    /\ UNCHANGED <<today, series, ledger>>

ReadSeries(w) ==
    /\ w \in Workers /\ proc[w].at = "locked"
    /\ proc' = [proc EXCEPT ![w].at = "read", ![w].seen = series]
    /\ UNCHANGED <<today, series, ledger, holders>>

\* From the anchor to the date of the tick, whatever was missed in between.
ProjectedToday(w, d) == d = proc[w].now
Projected(w, d) == d <= proc[w].now

\* INSERT ... ON CONFLICT DO NOTHING
InsertDue(w) ==
    /\ proc[w].at = "read"
    /\ ledger' = [d \in Dates |->
            IF Projected(w, d) /\ Due(proc[w].seen, d) # {} /\ ~ledger[d].recorded
            THEN LET v == CHOOSE u \in Due(proc[w].seen, d) : TRUE
                 IN  [recorded |-> TRUE, recurrence |-> v.recurrence,
                      amount |-> v.amount, override |-> FALSE]
            ELSE ledger[d]]
    /\ Release(w)
    /\ UNCHANGED <<today, series>>

\* A request does not stay open from one midnight to the next.
Midnight ==
    /\ today < LastDate
    /\ \A p \in Admins : proc[p].at = "idle" \/ proc[p].now = today
    /\ today' = today + 1
    /\ UNCHANGED <<series, ledger, proc, holders>>

-----------------------------------------------------------------------------
Init ==
    /\ today = 0
    /\ series = NoSeries
    /\ ledger = [d \in Dates |-> NoRow]
    /\ proc = [p \in Procs |-> Idle]
    /\ holders = {}

Change(p) ==
    \/ CreateSeries(p) \/ UpdateSeries(p) \/ DeleteSeries(p) \/ CreateVersion(p)
    \/ PauseSeries(p) \/ ResumeSeries(p) \/ EndSeries(p) \/ UpdateOccurrence(p)

Materialize(w) == ReadSeries(w) \/ InsertDue(w)

Next ==
    \/ \E p \in Admins : Begin(p) \/ Change(p)
    \/ \E w \in Workers : Tick(w) \/ BeginMaterialization(w) \/ Materialize(w)
    \/ \E p \in Procs : Abort(p)
    \/ Midnight

Spec == Init /\ [][Next]_vars

\* Transactions end; waiters of the lock are queued; a worker does not fail for ever.
FairSpec ==
    /\ Spec
    /\ \A p \in Admins : WF_vars(Change(p) \/ Abort(p))
    /\ \A w \in Workers :
        /\ WF_vars(Tick(w)) /\ SF_vars(BeginMaterialization(w))
        /\ SF_vars(ReadSeries(w)) /\ SF_vars(InsertDue(w))

-----------------------------------------------------------------------------
Series == [exists: BOOLEAN, anchor: Dates, ended: Dates \cup {Never},
           versions: SUBSET Version, pauses: SUBSET Pause]
Proc == [at: {"idle", "waiting", "locked", "read"}, now: Dates, seen: Series]

\* The unique indexes of the tables: one version for a date, one pause without an end.
UniqueIndexes(s) ==
    /\ \A v, w \in s.versions : v.from = w.from => v = w
    /\ \A p, q \in s.pauses : p.to = Never /\ q.to = Never => p = q

TypeOK ==
    /\ today \in Dates
    /\ series \in Series /\ UniqueIndexes(series)
    /\ ledger \in [Dates -> Row]
    /\ proc \in [Procs -> Proc]
    /\ holders \in SUBSET Procs

\* A recorded expense is one the series gives today: no change of terms, pause or end,
\* however it meets the worker and midnight, leaves behind a row it no longer accounts
\* for, or one for a date still to come.  Only the amount of a correction is its own.
LedgerMatchesSeries ==
    \A d \in Dates : ledger[d].recorded =>
        /\ d <= today
        /\ \E v \in Due(series, d) :
            /\ ledger[d].recurrence = v.recurrence
            /\ ledger[d].override \/ ledger[d].amount = v.amount

\* "past materialized occurrences keep their original values" (README.md:43): a row
\* is never lost, and changes only as a correction.
HistoryIsKept ==
    [][\A d \in Dates : ledger[d].recorded =>
            /\ ledger'[d].recorded
            /\ ledger'[d] = ledger[d] \/ ledger'[d].override]_ledger

\* Of a series with history, what was due on a past date stays due on its terms, whether
\* a late worker has recorded it or not.
PastStaysDue ==
    [][(\E d \in Dates : ledger[d].recorded) =>
            \A d \in Dates : d < today => Due(series, d) \subseteq Due(series', d)]_series

\* Every expense due by today is recorded in the end, however many ticks fail, or the
\* series changes so that it is not due (README.md:39: "at startup and by a periodic
\* worker, always capped at the current calendar date").
DueIsRecorded ==
    \A d \in Dates :
        d <= today /\ Due(series, d) # {} ~> ledger[d].recorded \/ Due(series, d) = {}

=============================================================================
