------------------------- MODULE NotificationOutbox -------------------------
(***************************************************************************)
(* The notification outbox: server/appointment-notifications.ts on the     *)
(* event rows of server/storage.ts, and the delivery receipts of           *)
(* server/meta-webhook.ts.                                                 *)
(*                                                                         *)
(* A process is either a worker that claimed an event (the poller of a     *)
(* server, or the request that wrote the event) or a webhook request from  *)
(* Meta.  Every await is a step boundary: what a process read before it is *)
(* kept in "seen" and may be stale.  A crash forgets the process, never    *)
(* the rows.                                                               *)
(***************************************************************************)
EXTENDS Integers, Sequences, FiniteSets

CONSTANTS
    Events,            \* event ids: the poller takes the lowest
    Procs,             \* workers and webhook requests under way at once
    Roles,             \* which of the two there are
    Customers,         \* what an event and its customer can be
    WhatsAppEnabled, RecurringWhatsApp, DeferWhenDisabled, RemindersEnabled,
    SlowWorkers,       \* a lease can run out before its worker is done
    Reportable,        \* the receipts Meta may send
    MaxReports,        \* bound: receipts of one message
    MaxCrashes         \* bound: processes lost

Customer == [optIn: BOOLEAN, email: BOOLEAN, series: BOOLEAN, reminder: BOOLEAN]
Progress == {"accepted", "sent", "delivered", "read"}
WhatsApp == {"pending", "failed", "unknown", "skipped"} \cup Progress
Email == {"not_needed", "skipped", "sending", "sent", "failed"}

ASSUME OutboxAssumption ==
    /\ Events \subseteq Nat /\ Events # {}
    /\ Roles \subseteq {"worker", "webhook"} /\ Roles # {}
    /\ Customers \subseteq Customer
    /\ {WhatsAppEnabled, RecurringWhatsApp, DeferWhenDisabled,
        RemindersEnabled, SlowWorkers} \subseteq BOOLEAN
    /\ Reportable \subseteq {"sent", "delivered", "read", "failed"}
    /\ MaxReports \in Nat
    /\ MaxCrashes \in Nat

VARIABLES
    ev,         \* table appointment_notification_events
    customer,   \* what each event was written for
    current,    \* isCurrentEvent: the appointment still is as the event says
    phase,      \* a reminder is early, due and late; the others are always due
    receipts,   \* table meta_webhook_receipts: stored receipts of each message
    reports,    \* Meta: the statuses of each message, in the order of their times
    calls,      \* requests made to the two providers
    proc,       \* what each process holds in memory
    crashes

vars == <<ev, customer, current, phase, receipts, reports, calls, proc, crashes>>
world == <<customer, current, phase, reports, crashes>>

-----------------------------------------------------------------------------
\* lease: processing_started_at is null, younger than the lease, or older.
Row == [lease: {"free", "held", "expired"}, done: BOOLEAN, attempted: BOOLEAN,
        wa: WhatsApp, wamid: BOOLEAN, email: Email, fallback: BOOLEAN]
NewRow == [lease |-> "free", done |-> FALSE, attempted |-> FALSE,
           wa |-> "pending", wamid |-> FALSE, email |-> "not_needed", fallback |-> FALSE]

Steps == {"idle", "decide", "recheck", "attempt", "send", "record", "skip",
          "insert", "list", "apply", "write", "late", "email", "mark", "post",
          "file", "complete"}

\* seen: the row as last read; todo: receipts still to apply; outcome: a provider's
\* answer; late: the email is the late fallback's.
Process == [at: Steps, role: Roles, e: Events, seen: Row, todo: SUBSET (1..MaxReports),
            outcome: {"accepted", "failed", "unknown"}, late: BOOLEAN]
Idle == [at |-> "idle", role |-> CHOOSE r \in Roles : TRUE, e |-> CHOOSE e \in Events : TRUE,
         seen |-> NewRow, todo |-> {}, outcome |-> "failed", late |-> FALSE]

At(p, step) == proc[p].at = step
GoTo(p, step) == proc' = [proc EXCEPT ![p].at = step]
Stop(p) == proc' = [proc EXCEPT ![p] = Idle]

Update(e, row) == ev' = [ev EXCEPT ![e] = row]

\* The caller of emailFallback: the late fallback of a receipt, or the worker itself.
Return(p) == IF proc[p].late THEN "apply" ELSE "complete"

Deliverable(e) ==
    customer[e].reminder => RemindersEnabled /\ phase[e] = "due"

SkipBoth(row) == [row EXCEPT !.wa = "skipped", !.email = "skipped"]

-----------------------------------------------------------------------------
(* Claims *)

Claimable(e) ==
    /\ phase[e] # "early"
    /\ customer[e].reminder => RemindersEnabled

Claim(p, e) ==
    LET row == [ev[e] EXCEPT !.lease = "held"]
    IN  /\ Update(e, row)
        /\ proc' = [proc EXCEPT ![p] = [Idle EXCEPT !.at = "decide", !.role = "worker",
                                                   !.e = e, !.seen = row]]
        /\ UNCHANGED <<world, receipts, calls>>

\* claimAppointmentNotificationEvent, by the request that wrote the event
ClaimById(p, e) ==
    /\ At(p, "idle") /\ "worker" \in Roles
    /\ Claimable(e) /\ ev[e].lease = "free"
    /\ Claim(p, e)

\* claimNextAppointmentNotificationEvent, by a poller
NeverReclaimed(e) ==
    /\ Claimable(e) /\ ~ev[e].done /\ ev[e].lease = "free"
    /\ \/ customer[e].series \/ WhatsAppEnabled \/ ~DeferWhenDisabled
       \/ ~customer[e].optIn \/ ev[e].attempted

Pending(e) ==
    /\ Claimable(e) /\ ~ev[e].done /\ ev[e].lease # "held"
    /\ \/ customer[e].series \/ WhatsAppEnabled \/ ~DeferWhenDisabled
       \/ ~customer[e].optIn \/ ev[e].attempted

ClaimNext(p) ==
    /\ At(p, "idle") /\ "worker" \in Roles
    /\ \E e \in Events :
        /\ Pending(e)
        /\ \A f \in Events : f < e => ~Pending(f)
        /\ Claim(p, e)

-----------------------------------------------------------------------------
(* processClaimedCore, processRecurringConfirmation *)

\* What the worker does with the event it claimed: the row it leaves and its next
\* step ("deferred" gives the event back).
Decision(c, row, isCurrent, deliverable) ==
    LET deferred == c.optIn /\ ~WhatsAppEnabled /\ ~row.attempted /\ DeferWhenDisabled
        channel == c.optIn /\ WhatsAppEnabled /\ (c.series => RecurringWhatsApp)
    IN  IF ~isCurrent \/ ~deliverable THEN [set |-> "both", next |-> "complete"]
        ELSE IF deferred /\ ~c.series THEN [set |-> "free", next |-> "idle"]
        ELSE IF deferred THEN [set |-> "none", next |-> "complete"]
        ELSE IF row.wa \in Progress /\ (c.series => channel)
        THEN [set |-> "none", next |-> "complete"]
        ELSE IF row.attempted /\ ~c.series
        THEN [set |-> IF row.wa = "pending" THEN "unknown" ELSE "none", next |-> "email"]
        ELSE IF channel /\ ~row.attempted THEN [set |-> "none", next |-> "recheck"]
        ELSE [set |-> "skipped", next |-> "email"]

Settled(row, set) ==
    IF set = "both" THEN SkipBoth(row)
    ELSE IF set = "free" THEN [row EXCEPT !.lease = "free"]
    ELSE IF set = "none" THEN row
    ELSE [row EXCEPT !.wa = set]

Decide(p) ==
    /\ At(p, "decide")
    /\ LET e == proc[p].e
           d == Decision(customer[e], proc[p].seen, current[e], Deliverable(e))
       IN  /\ Update(e, Settled(ev[e], d.set))
           /\ IF d.next = "idle" THEN Stop(p) ELSE GoTo(p, d.next)
    /\ UNCHANGED <<world, receipts, calls>>

Recheck(p) ==
    /\ At(p, "recheck")
    /\ LET e == proc[p].e
       IN  IF current[e] THEN GoTo(p, "attempt") /\ UNCHANGED ev
           ELSE IF customer[e].series THEN GoTo(p, "skip") /\ UNCHANGED ev
           ELSE GoTo(p, "complete") /\ Update(e, SkipBoth(ev[e]))
    /\ UNCHANGED <<world, receipts, calls>>

\* claimAppointmentNotificationWhatsappAttempt: one attempt for ever.
ClaimAttemptAgain(p) ==
    /\ At(p, "attempt")
    /\ Update(proc[p].e, [ev[proc[p].e] EXCEPT !.attempted = TRUE])
    /\ GoTo(p, "send")
    /\ UNCHANGED <<world, receipts, calls>>

ClaimAttemptAndComplete(p) ==
    /\ At(p, "attempt")
    /\ Update(proc[p].e, [ev[proc[p].e] EXCEPT !.attempted = TRUE])
    /\ GoTo(p, IF ev[proc[p].e].attempted THEN "complete" ELSE "send")
    /\ UNCHANGED <<world, receipts, calls>>

ClaimAttempt(p) ==
    /\ At(p, "attempt")
    /\ LET e == proc[p].e
       IN  IF ~ev[e].attempted
           THEN Update(e, [ev[e] EXCEPT !.attempted = TRUE]) /\ GoTo(p, "send")
           ELSE /\ UNCHANGED ev
                /\ IF customer[e].series THEN GoTo(p, "complete") ELSE Stop(p)
    /\ UNCHANGED <<world, receipts, calls>>

\* sendMetaTemplate.  Meta may have taken a message whose answer is lost: "unknown" after
\* a timeout, "failed" after any other error of the connection.
SendWhatsApp(p) ==
    /\ At(p, "send")
    /\ \E o \in {"accepted", "failed", "unknown"}, taken \in BOOLEAN :
        /\ o = "accepted" => taken
        /\ calls' = [calls EXCEPT ![proc[p].e].wa = @ + 1,
                                  ![proc[p].e].taken = @ \/ taken]
        /\ proc' = [proc EXCEPT ![p].outcome = o, ![p].at = "record"]
    /\ UNCHANGED <<ev, world, receipts>>

RecordWhatsAppAndEmail(p) ==
    /\ At(p, "record")
    /\ Update(proc[p].e, [ev[proc[p].e] EXCEPT !.wa = proc[p].outcome,
                                              !.wamid = (proc[p].outcome = "accepted")])
    /\ GoTo(p, "email")
    /\ UNCHANGED <<world, receipts, calls>>

\* The answer is written whatever the row says by then.
RecordWhatsApp(p) ==
    /\ At(p, "record")
    /\ LET e == proc[p].e
           o == proc[p].outcome
       IN  /\ Update(e, [ev[e] EXCEPT !.wa = o, !.wamid = (o = "accepted")])
           /\ GoTo(p, IF o = "accepted" THEN "list"
                      ELSE IF customer[e].series THEN "skip" ELSE "email")
    /\ UNCHANGED <<world, receipts, calls>>

\* A series without WhatsApp, whatever the attempt said.
SkipWhatsApp(p) ==
    /\ At(p, "skip")
    /\ Update(proc[p].e, [ev[proc[p].e] EXCEPT !.wa = "skipped"])
    /\ GoTo(p, "email")
    /\ UNCHANGED <<world, receipts, calls>>

Complete(p) ==
    /\ At(p, "complete")
    /\ Update(proc[p].e, [ev[proc[p].e] EXCEPT !.done = TRUE])
    /\ Stop(p)
    /\ UNCHANGED <<world, receipts, calls>>

-----------------------------------------------------------------------------
(* emailFallback, recurringEmailFallback *)

CheckEmail(p) ==
    /\ At(p, "email")
    /\ LET e == proc[p].e
           skip == ~customer[e].email \/ ~current[e] \/ ~Deliverable(e)
       IN  IF proc[p].seen.email = "sent" THEN GoTo(p, Return(p)) /\ UNCHANGED ev
           ELSE IF skip
           THEN GoTo(p, Return(p)) /\ Update(e, [ev[e] EXCEPT !.email = "skipped"])
           ELSE GoTo(p, "mark") /\ UNCHANGED ev
    /\ UNCHANGED <<world, receipts, calls>>

MarkEmail(p) ==
    /\ At(p, "mark")
    /\ Update(proc[p].e, [ev[proc[p].e] EXCEPT !.email = "sending"])
    /\ GoTo(p, "post")
    /\ UNCHANGED <<world, receipts, calls>>

\* The idempotency key makes the provider deliver one email of an event.
PostEmail(p) ==
    /\ At(p, "post")
    /\ \E o \in {"accepted", "failed"} :
        /\ proc' = [proc EXCEPT ![p].outcome = o, ![p].at = "file"]
        /\ calls' = [calls EXCEPT ![proc[p].e].email = @ + 1]
    /\ UNCHANGED <<ev, world, receipts>>

FileAnswer(p) ==
    /\ At(p, "file")
    /\ Update(proc[p].e, [ev[proc[p].e] EXCEPT !.email = proc[p].outcome])
    /\ GoTo(p, Return(p))
    /\ UNCHANGED <<world, receipts, calls>>

FileEmail(p) ==
    /\ At(p, "file")
    /\ Update(proc[p].e, [ev[proc[p].e] EXCEPT
                            !.email = IF proc[p].outcome = "accepted" THEN "sent" ELSE "failed"])
    /\ GoTo(p, Return(p))
    /\ UNCHANGED <<world, receipts, calls>>

-----------------------------------------------------------------------------
(* recordMetaWebhookStatuses, reconcileMetaStatusReceipts *)

\* Meta repeats and reorders its calls.  The handler looks for the event first.
Webhook(p, e) ==
    /\ At(p, "idle") /\ "webhook" \in Roles
    /\ \E i \in DOMAIN reports[e] :
        proc' = [proc EXCEPT ![p] = [Idle EXCEPT !.at = "insert", !.role = "webhook", !.e = e,
                                                !.seen = ev[e], !.todo = {i}]]
    /\ UNCHANGED <<ev, world, receipts, calls>>

\* A receipt without an event is kept for later.
InsertReceipt(p) ==
    /\ At(p, "insert")
    /\ receipts' = [receipts EXCEPT ![proc[p].e] = @ \cup proc[p].todo]
    /\ IF proc[p].seen.wamid THEN GoTo(p, "list") ELSE Stop(p)
    /\ UNCHANGED <<ev, world, calls>>

ListReceipts(p) ==
    /\ At(p, "list")
    /\ proc' = [proc EXCEPT ![p].todo = receipts[proc[p].e], ![p].at = "apply"]
    /\ UNCHANGED <<ev, world, receipts, calls>>

Rank(wa) == CASE wa = "accepted" -> 0 [] wa = "sent" -> 1 [] wa = "delivered" -> 2
              [] wa = "read" -> 3 [] OTHER -> -1

\* applyReceipt: a receipt never undoes a later one.
AppliesAboveSent(wa, status) ==
    IF status = "failed" THEN Rank(wa) < 2
    ELSE wa # "failed" /\ Rank(status) >= 2 /\ Rank(status) > Rank(wa)

Applies(wa, status) ==
    IF status = "failed" THEN Rank(wa) < 2
    ELSE wa # "failed" /\ Rank(status) > Rank(wa)

Earliest(s) == {i \in s : \A j \in s : i <= j}

\* The row is read again for each receipt, and written after the decision.
ReadForReceipt(p) ==
    /\ At(p, "apply")
    /\ \E i \in Earliest(proc[p].todo) :
        proc' = IF Applies(ev[proc[p].e].wa, reports[proc[p].e][i])
                THEN [proc EXCEPT ![p].at = "write"]
                ELSE [proc EXCEPT ![p].todo = @ \ {i}]
    /\ UNCHANGED <<ev, world, receipts, calls>>

WriteReceiptQuietly(p) ==
    /\ At(p, "write")
    /\ \E i \in Earliest(proc[p].todo) :
        LET e == proc[p].e
            status == reports[e][i]
        IN  /\ Update(e, [ev[e] EXCEPT !.wa = status])
            /\ proc' = [proc EXCEPT ![p].todo = @ \ {i},
                                    ![p].at = IF status = "failed" /\ proc[p].role = "webhook"
                                              THEN "late" ELSE "apply"]
    /\ UNCHANGED <<world, receipts, calls>>

WriteReceipt(p) ==
    /\ At(p, "write")
    /\ \E i \in Earliest(proc[p].todo) :
        LET e == proc[p].e
            status == reports[e][i]
        IN  /\ Update(e, [ev[e] EXCEPT !.wa = status])
            /\ proc' = [proc EXCEPT ![p].todo = @ \ {i},
                                    ![p].at = IF status = "failed" THEN "late" ELSE "apply"]
    /\ UNCHANGED <<world, receipts, calls>>

EndReceipts(p) ==
    /\ At(p, "apply") /\ proc[p].todo = {}
    /\ IF proc[p].role = "worker" THEN GoTo(p, "complete") ELSE Stop(p)
    /\ UNCHANGED <<ev, world, receipts, calls>>

\* processMetaLateFailureEmailFallback; a worker applies receipts as a webhook does.
LateClaimUnguarded(row) == row.wa = "failed" /\ row.email # "sent"
LateClaim(row) == row.wa = "failed" /\ ~row.fallback /\ row.email # "sent"

ClaimLateFallback(p) ==
    /\ At(p, "late")
    /\ LET e == proc[p].e
           row == [ev[e] EXCEPT !.fallback = TRUE]
       IN  IF LateClaim(ev[e])
           THEN /\ Update(e, row)
                /\ proc' = [proc EXCEPT ![p].seen = row, ![p].late = TRUE, ![p].at = "email"]
           ELSE GoTo(p, "apply") /\ UNCHANGED ev
    /\ UNCHANGED <<world, receipts, calls>>

-----------------------------------------------------------------------------
(* The world *)

\* The appointment moves on; a revision never comes back.
Supersede(e) ==
    /\ current[e]
    /\ current' = [current EXCEPT ![e] = FALSE]
    /\ UNCHANGED <<ev, customer, phase, receipts, reports, calls, proc, crashes>>

Later(e) ==
    /\ customer[e].reminder /\ phase[e] # "late"
    /\ phase' = [phase EXCEPT ![e] = IF @ = "early" THEN "due" ELSE "late"]
    /\ UNCHANGED <<ev, customer, current, receipts, reports, calls, proc, crashes>>

LeaseExpires(e) ==
    /\ ev[e].lease = "held"
    /\ SlowWorkers \/ \A p \in Procs : ~(proc[p].role = "worker" /\ proc[p].at # "idle" /\ proc[p].e = e)
    /\ Update(e, [ev[e] EXCEPT !.lease = "expired"])
    /\ UNCHANGED <<world, receipts, calls, proc>>

\* Meta delivers the message, or fails to; a status later in time ranks higher.
Report(e, status) ==
    /\ calls[e].taken /\ Len(reports[e]) < MaxReports
    /\ \A i \in DOMAIN reports[e] :
        IF status = "failed" THEN reports[e][i] # "failed" ELSE Rank(reports[e][i]) < Rank(status)
    /\ reports' = [reports EXCEPT ![e] = Append(@, status)]
    /\ UNCHANGED <<ev, customer, current, phase, receipts, calls, proc, crashes>>

Crash(p) ==
    /\ proc[p].at # "idle" /\ crashes < MaxCrashes
    /\ crashes' = crashes + 1
    /\ Stop(p)
    /\ UNCHANGED <<ev, customer, current, phase, receipts, reports, calls>>

-----------------------------------------------------------------------------
Init ==
    /\ ev = [e \in Events |-> NewRow]
    /\ customer \in [Events -> Customers]
    /\ current = [e \in Events |-> TRUE]
    /\ phase = [e \in Events |-> IF customer[e].reminder THEN "early" ELSE "due"]
    /\ receipts = [e \in Events |-> {}]
    /\ reports = [e \in Events |-> <<>>]
    /\ calls = [e \in Events |-> [wa |-> 0, email |-> 0, taken |-> FALSE]]
    /\ proc = [p \in Procs |-> Idle]
    /\ crashes = 0

\* The rest of what a process has begun.
Continue(p) ==
    \/ Decide(p) \/ Recheck(p) \/ ClaimAttempt(p) \/ SendWhatsApp(p) \/ RecordWhatsApp(p)
    \/ SkipWhatsApp(p) \/ CheckEmail(p) \/ MarkEmail(p) \/ PostEmail(p) \/ FileEmail(p)
    \/ InsertReceipt(p) \/ ListReceipts(p) \/ ReadForReceipt(p) \/ WriteReceipt(p)
    \/ EndReceipts(p) \/ ClaimLateFallback(p) \/ Complete(p)

Next ==
    \/ \E p \in Procs : Continue(p) \/ ClaimNext(p) \/ Crash(p)
    \/ \E p \in Procs, e \in Events : ClaimById(p, e) \/ Webhook(p, e)
    \/ \E e \in Events : Supersede(e) \/ Later(e) \/ LeaseExpires(e)
    \/ \E e \in Events, status \in Reportable : Report(e, status)

Spec == Init /\ [][Next]_vars

\* A started process goes on, the poller polls, clocks advance.
FairSpec ==
    /\ Spec
    /\ \A p \in Procs : WF_vars(Continue(p)) /\ WF_vars(ClaimNext(p))
    /\ \A e \in Events : WF_vars(LeaseExpires(e)) /\ WF_vars(Later(e))

-----------------------------------------------------------------------------
TypeOK ==
    /\ ev \in [Events -> Row]
    /\ customer \in [Events -> Customers]
    /\ current \in [Events -> BOOLEAN]
    /\ phase \in [Events -> {"early", "due", "late"}]
    /\ receipts \in [Events -> SUBSET (1..MaxReports)]
    /\ reports \in [Events -> Seq(Reportable)]
    /\ calls \in [Events -> [wa: Nat, email: Nat, taken: BOOLEAN]]
    /\ proc \in [Procs -> Process]
    /\ crashes \in 0..MaxCrashes

\* However many workers claim an event, crash on it or outlive their lease, Meta is
\* asked to send its message once (README.md: the worker recovers events after a
\* restart "sem repetir tentativas WhatsApp ambiguas").
WhatsAppIsSentOnce == \A e \in Events : calls[e].wa <= 1

Working(e) == \E p \in Procs : proc[p].at # "idle" /\ proc[p].e = e

\* Once an event is closed and nobody is at work on it, WhatsApp took the message or
\* its email was settled: no customer is dropped between the two channels (README.md:
\* "sem aceitacao/wamid, o backend tenta uma unica vez o email").
Reached(e) == ev[e].done /\ ~Working(e) => calls[e].taken \/ ev[e].email # "not_needed"

\* TLC refutes that nobody is forgotten: a series with two workers and a crash, see README.md.
NobodyIsForgotten == \A e \in Events : Reached(e)

\* The events of one appointment keep that promise whatever crashes or runs late;
\* those of a series, whose confirmation takes another path, do not.
AppointmentsAreNotForgotten == \A e \in Events : ~customer[e].series => Reached(e)

\* While leases outlast their workers, one email is asked for at most, however many
\* times and in whatever order Meta reports the failure.
EmailIsSentOnce == \A e \in Events : calls[e].email <= 1

\* A failure that Meta reported of a message it had taken does not pass unnoticed, whichever
\* of the processes that received it claims the late fallback: once nobody is at work, the
\* email of the event was sent or settled.
FailuresAreFollowedUp ==
    \A e \in Events :
        ev[e].wamid /\ ev[e].wa = "failed" /\ ~Working(e) => ev[e].email # "not_needed"

\* While leases outlast their workers, no email goes out for a message whose acceptance is
\* on record, except after a receipt in which Meta itself says that it failed.  A message
\* whose answer was lost has no acceptance on record: then both channels may reach the
\* customer.
EmailIsAFallback ==
    [][\A e \in Events :
        calls'[e].email > calls[e].email =>
            ~ev[e].wamid \/ \E i \in receipts[e] : reports[e][i] = "failed"]_calls

\* Every event that is due is closed in the end, whatever crashed on it.
EventsAreClosed == \A e \in Events : phase[e] = "due" ~> ev[e].done

\* TLC refutes that a message delivered or read is never reported back as less than that:
\* two requests apply receipts on the row that each of them read, see README.md.
DeliveryIsNotUndone ==
    [][\A e \in Events :
        Rank(ev[e].wa) >= 2 => Rank(ev'[e].wa) >= Rank(ev[e].wa)]_ev

\* Where receipts are handled one request at a time, once nobody is at work what Meta
\* reported of a known message has been applied: the status is the last that counts.
\* Two requests at once lose some of it (DeliveryIsNotUndone).
ReceiptsAreApplied ==
    \A e \in Events :
        ev[e].wamid /\ ~Working(e) =>
            \A i \in receipts[e] :
                \/ ev[e].wa = "failed"
                \/ reports[e][i] = "failed" /\ Rank(ev[e].wa) >= 2
                \/ reports[e][i] # "failed" /\ Rank(ev[e].wa) >= Rank(reports[e][i])

=============================================================================
