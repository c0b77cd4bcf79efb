---------------------- MODULE NotificationOutbox_proofs ----------------------
(***************************************************************************)
(* The outbox, for every set of events, of processes and of customers: it  *)
(* keeps its types; Meta is asked once to send the message of an event,    *)
(* for every number of crashes; one email is asked for while leases        *)
(* outlast their workers, and none for a message that Meta is known to     *)
(* have taken and did not report as failed; nobody who has an appointment  *)
(* is dropped between the two channels, whatever happens to the workers;   *)
(* and a failure that Meta reports is followed up.  At the end, the        *)
(* automatic replies of the same webhook: one to a number in a window.     *)
(***************************************************************************)
EXTENDS NotificationOutbox, InboundReply, TLAPS

\* What a process may hold: the receipts it still has to apply were reported by Meta,
\* and it is about to write a status only while one is left.
Sound(q) ==
    /\ q \in Process
    /\ q.todo \subseteq DOMAIN reports[q.e]

\* The type invariant is inductive only with it: the status that a receipt writes is
\* one that Meta reported.
Safe ==
    /\ TypeOK
    /\ \A e \in Events : receipts[e] \subseteq DOMAIN reports[e] /\ Len(reports[e]) <= MaxReports
    /\ \A p \in Procs : Sound(proc[p])

-----------------------------------------------------------------------------
LEMMA NewRowIsARow == NewRow \in Row
  BY DEF NewRow, Row, WhatsApp, Email, Progress

LEMMA IdleIsSound == Idle \in Process /\ Idle.todo = {} /\ Idle.at = "idle"
<1>1. (CHOOSE r \in Roles : TRUE) \in Roles /\ (CHOOSE e \in Events : TRUE) \in Events
  BY OutboxAssumption
<1> QED
  BY <1>1, NewRowIsARow DEF Idle, Process, Steps

\* What a decision leaves to do, and that the row stays a row whichever it is.
Left == {"both", "free", "none", "unknown", "skipped"}

LEMMA DecisionGoesOn ==
  ASSUME NEW c \in Customer, NEW seen \in Row,
         NEW isCurrent \in BOOLEAN, NEW deliverable \in BOOLEAN
  PROVE  /\ Decision(c, seen, isCurrent, deliverable).set \in Left
         /\ Decision(c, seen, isCurrent, deliverable).next
                \in {"complete", "idle", "email", "recheck"}
  BY DEF Decision, Left

LEMMA SettledIsARow ==
  ASSUME NEW row \in Row, NEW set \in Left
  PROVE  Settled(row, set) \in Row /\ Settled(row, set).attempted = row.attempted
  BY ZenonT(60) DEF Settled, SkipBoth, Row, WhatsApp, Email, Left

Calls == [wa: Nat, email: Nat, taken: BOOLEAN]

\* Asking a provider counts.
LEMMA CallsAreCounted ==
  ASSUME NEW c \in Calls, NEW t \in BOOLEAN
  PROVE  /\ [c EXCEPT !.email = @ + 1] \in Calls
         /\ [c EXCEPT !.wa = @ + 1, !.taken = t] \in Calls
<1>1. c.wa + 1 \in Nat /\ c.email + 1 \in Nat
  BY DEF Calls
<1>2. [c EXCEPT !.email = @ + 1] \in Calls
  BY <1>1, Zenon DEF Calls
<1>3. [c EXCEPT !.wa = @ + 1, !.taken = t] \in Calls
  BY <1>1, Zenon DEF Calls
<1> QED
  BY <1>2, <1>3

\* A step of one process, which may write rows and call the providers.
LEMMA ProcessStep ==
  ASSUME Safe, NEW p \in Procs, NEW q, Sound(q), proc' = [proc EXCEPT ![p] = q],
         ev' \in [Events -> Row],
         calls' \in [Events -> Calls],
         UNCHANGED <<world, receipts>>
  PROVE  Safe'
<1>1. \A r \in Procs : Sound(proc'[r])
  BY DEF Safe, TypeOK
<1>2. \A r \in Procs : Sound(proc[r])'
  BY <1>1 DEF Sound, world
<1> QED
  BY <1>1, <1>2 DEF Safe, TypeOK, Sound, Calls, world

\* The same for a step that only moves on.
LEMMA Moving ==
  ASSUME Safe, NEW p \in Procs, NEW step \in Steps, GoTo(p, step)
  PROVE  \E q : Sound(q) /\ proc' = [proc EXCEPT ![p] = q]
<1> DEFINE q == [proc[p] EXCEPT !.at = step]
<1>1. proc[p] \in Process /\ Sound(proc[p])
  BY DEF Safe, TypeOK
<1>2. Sound(q)
  BY <1>1 DEF Sound, Process
<1>3. proc' = [proc EXCEPT ![p] = q]
  BY DEF GoTo, Safe, TypeOK
<1> QED
  BY <1>2, <1>3

LEMMA Stopping ==
  ASSUME Safe, NEW p \in Procs, Stop(p)
  PROVE  \E q : Sound(q) /\ proc' = [proc EXCEPT ![p] = q]
  BY IdleIsSound DEF Stop, Sound

LEMMA Updating ==
  ASSUME Safe, NEW e \in Events, NEW row \in Row, Update(e, row)
  PROVE  ev' \in [Events -> Row]
  BY DEF Update, Safe, TypeOK

LEMMA HeldIsSound ==
  ASSUME Safe, NEW p \in Procs
  PROVE  /\ proc[p] \in Process /\ proc[p].e \in Events /\ proc[p].seen \in Row
         /\ ev[proc[p].e] \in Row /\ proc[p].todo \subseteq DOMAIN reports[proc[p].e]
         /\ Return(p) \in {"complete", "apply"}
  BY DEF Safe, TypeOK, Sound, Process, Return

-----------------------------------------------------------------------------
(* One lemma for the steps that claim, decide and settle, one for the providers'
   answers, one for the receipts. *)

LEMMA ClaimIsSafe ==
  ASSUME Safe, NEW p \in Procs, NEW e \in Events, "worker" \in Roles, Claim(p, e)
  PROVE  Safe'
<1> DEFINE row == [ev[e] EXCEPT !.lease = "held"]
           q == [Idle EXCEPT !.at = "decide", !.role = "worker", !.e = e, !.seen = row]
<1>1. row \in Row
  <2>1. ev[e] \in Row
    BY DEF Safe, TypeOK
  <2> QED BY <2>1 DEF Row
<1>2. Sound(q)
  BY <1>1, IdleIsSound DEF Sound, Process, Steps
<1>3. ev' \in [Events -> Row]
  BY <1>1, Updating DEF Claim
<1>4. proc' = [proc EXCEPT ![p] = q] /\ UNCHANGED <<world, receipts>>
  BY DEF Claim
<1>5. calls' \in [Events -> Calls]
  BY DEF Claim, Safe, TypeOK, Calls
<1> HIDE DEF q
<1> QED
  BY <1>2, <1>3, <1>4, <1>5, ProcessStep

LEMMA WorkerIsSafe ==
  ASSUME Safe, NEW p \in Procs,
         Decide(p) \/ Recheck(p) \/ ClaimAttempt(p) \/ SkipWhatsApp(p) \/ Complete(p)
  PROVE  Safe'
<1> DEFINE e == proc[p].e
<1>1. proc[p] \in Process /\ e \in Events /\ proc[p].seen \in Row /\ ev[e] \in Row
  BY HeldIsSound
<1>2. calls' \in [Events -> Calls] /\ UNCHANGED <<world, receipts>>
  BY DEF Safe, TypeOK, Calls, Decide, Recheck, ClaimAttempt, SkipWhatsApp, Complete
<1>3. customer[e] \in Customer /\ current[e] \in BOOLEAN /\ Deliverable(e) \in BOOLEAN
  BY <1>1, OutboxAssumption DEF Safe, TypeOK, Deliverable
<1>4. \E row \in Row : ev' = ev \/ Update(e, row)
  <2>1. CASE Decide(p)
    <3> DEFINE d == Decision(customer[e], proc[p].seen, current[e], Deliverable(e))
    <3>1. Update(e, Settled(ev[e], d.set))
      BY <2>1 DEF Decide
    <3>2. d.set \in Left
      BY <1>1, <1>3, DecisionGoesOn
    <3> HIDE DEF d
    <3> QED BY <1>1, <3>1, <3>2, SettledIsARow
  <2>2. CASE Recheck(p)
    <3>1. SkipBoth(ev[e]) \in Row
      BY <1>1 DEF SkipBoth, Row, WhatsApp, Email
    <3> QED BY <2>2, <3>1, <1>1 DEF Recheck
  <2>3. CASE ClaimAttempt(p)
    <3>1. [ev[e] EXCEPT !.attempted = TRUE] \in Row
      BY <1>1 DEF Row
    <3> QED BY <2>3, <3>1, <1>1 DEF ClaimAttempt
  <2>4. CASE SkipWhatsApp(p)
    <3>1. [ev[e] EXCEPT !.wa = "skipped"] \in Row
      BY <1>1 DEF Row, WhatsApp
    <3> QED BY <2>4, <3>1 DEF SkipWhatsApp
  <2>5. CASE Complete(p)
    <3>1. [ev[e] EXCEPT !.done = TRUE] \in Row
      BY <1>1 DEF Row
    <3> QED BY <2>5, <3>1 DEF Complete
  <2> QED BY <2>1, <2>2, <2>3, <2>4, <2>5
<1>5. ev' \in [Events -> Row]
  BY <1>1, <1>4, Updating DEF Safe, TypeOK
<1>6. Stop(p) \/ \E step \in Steps : GoTo(p, step)
  <2>1. CASE Decide(p)
    <3> DEFINE d == Decision(customer[e], proc[p].seen, current[e], Deliverable(e))
    <3>1. d.next \in Steps
      BY <1>1, <1>3, DecisionGoesOn DEF Steps
    <3>2. Stop(p) \/ GoTo(p, d.next)
      BY <2>1 DEF Decide
    <3> QED BY <3>1, <3>2
  <2>2. CASE Recheck(p) \/ ClaimAttempt(p) \/ SkipWhatsApp(p) \/ Complete(p)
    BY <2>2 DEF Recheck, ClaimAttempt, SkipWhatsApp, Complete, Steps
  <2> QED BY <2>1, <2>2
<1>7. \E q : Sound(q) /\ proc' = [proc EXCEPT ![p] = q]
  BY <1>6, Moving, Stopping
<1> QED
  BY <1>2, <1>5, <1>7, ProcessStep

LEMMA ProvidersAreSafe ==
  ASSUME Safe, NEW p \in Procs, SendWhatsApp(p) \/ PostEmail(p)
  PROVE  Safe'
<1> DEFINE e == proc[p].e
<1>1. proc[p] \in Process /\ e \in Events /\ Sound(proc[p])
  BY HeldIsSound DEF Safe
<1>2. ev' \in [Events -> Row] /\ UNCHANGED <<world, receipts>>
  BY DEF Safe, TypeOK, SendWhatsApp, PostEmail
<1>3. calls \in [Events -> Calls] /\ calls[e] \in Calls
  BY <1>1 DEF Safe, TypeOK, Calls
<1>4. CASE SendWhatsApp(p)
  <2>1. PICK o \in {"accepted", "failed", "unknown"}, took \in BOOLEAN :
        /\ o = "accepted" => took
        /\ calls' = [calls EXCEPT ![proc[p].e].wa = @ + 1,
                                  ![proc[p].e].taken = @ \/ took]
        /\ proc' = [proc EXCEPT ![p].outcome = o, ![p].at = "record"]
    BY <1>4 DEF SendWhatsApp
  <2>2. calls' \in [Events -> Calls]
    <3> DEFINE t == calls[e].taken \/ took
               c == [calls[e] EXCEPT !.wa = @ + 1, !.taken = t]
    <3>1. t \in BOOLEAN
      OBVIOUS
    <3>2. c \in Calls
      BY <1>3, <3>1, CallsAreCounted
    <3>3. calls' = [calls EXCEPT ![e] = c]
      BY <2>1, <1>1, <1>3
    <3> QED BY <1>3, <3>2, <3>3
  <2> DEFINE q == [proc[p] EXCEPT !.outcome = o, !.at = "record"]
  <2>3. Sound(q)
    BY <1>1 DEF Sound, Process, Steps
  <2>4. proc' = [proc EXCEPT ![p] = q]
    BY <2>1 DEF Safe, TypeOK
  <2> HIDE DEF q
  <2> QED BY <1>2, <2>2, <2>3, <2>4, ProcessStep
<1>5. CASE PostEmail(p)
  <2>1. PICK o \in {"accepted", "failed"} :
        /\ proc' = [proc EXCEPT ![p].outcome = o, ![p].at = "file"]
        /\ calls' = [calls EXCEPT ![proc[p].e].email = @ + 1]
    BY <1>5 DEF PostEmail
  <2>2. calls' \in [Events -> Calls]
    <3>1. [calls[e] EXCEPT !.email = @ + 1] \in Calls
      BY <1>3, CallsAreCounted
    <3>2. calls' = [calls EXCEPT ![e] = [calls[e] EXCEPT !.email = @ + 1]]
      BY <2>1, <1>1, <1>3
    <3> QED BY <1>3, <3>1, <3>2
  <2> DEFINE q == [proc[p] EXCEPT !.outcome = o, !.at = "file"]
  <2>3. Sound(q)
    BY <1>1 DEF Sound, Process, Steps
  <2>4. proc' = [proc EXCEPT ![p] = q]
    BY <2>1 DEF Safe, TypeOK
  <2> HIDE DEF q
  <2> QED BY <1>2, <2>2, <2>3, <2>4, ProcessStep
<1> QED
  BY <1>4, <1>5

LEMMA AnswersAreSafe ==
  ASSUME Safe, NEW p \in Procs,
         RecordWhatsApp(p) \/ CheckEmail(p) \/ MarkEmail(p) \/ FileEmail(p)
  PROVE  Safe'
<1> DEFINE e == proc[p].e
<1>1. proc[p] \in Process /\ e \in Events /\ ev[e] \in Row /\ Return(p) \in Steps
  BY HeldIsSound DEF Steps
<1>2. calls' \in [Events -> Calls] /\ UNCHANGED <<world, receipts>>
  BY DEF Safe, TypeOK, Calls, RecordWhatsApp, CheckEmail, MarkEmail, FileEmail
<1>3. \A o \in {"accepted", "failed", "unknown"} :
        [ev[e] EXCEPT !.wa = o, !.wamid = (o = "accepted")] \in Row
  BY <1>1 DEF Row, WhatsApp, Progress
<1>4. \A m \in Email : [ev[e] EXCEPT !.email = m] \in Row
  BY <1>1 DEF Row
<1>5. \E row \in Row : ev' = ev \/ Update(e, row)
  <2>1. CASE RecordWhatsApp(p)
    BY <2>1, <1>1, <1>3 DEF RecordWhatsApp, Process
  <2>2. CASE CheckEmail(p) \/ MarkEmail(p) \/ FileEmail(p)
    BY <2>2, <1>1, <1>4 DEF CheckEmail, MarkEmail, FileEmail, Email
  <2> QED BY <2>1, <2>2
<1>6. \E step \in Steps : GoTo(p, step)
  BY <1>1 DEF RecordWhatsApp, CheckEmail, MarkEmail, FileEmail, Steps
<1>7. ev' \in [Events -> Row]
  BY <1>1, <1>5, Updating DEF Safe, TypeOK
<1>8. \E q : Sound(q) /\ proc' = [proc EXCEPT ![p] = q]
  BY <1>6, Moving
<1> QED
  BY <1>2, <1>7, <1>8, ProcessStep

LEMMA ReceiptsAreSafe ==
  ASSUME Safe, NEW p \in Procs,
         ListReceipts(p) \/ ReadForReceipt(p) \/ WriteReceipt(p) \/ EndReceipts(p)
           \/ ClaimLateFallback(p)
  PROVE  Safe'
<1> DEFINE e == proc[p].e
<1>1. proc[p] \in Process /\ e \in Events /\ ev[e] \in Row /\ Sound(proc[p])
  BY HeldIsSound DEF Safe
<1>2. calls' \in [Events -> Calls] /\ UNCHANGED <<world, receipts>>
  BY DEF Safe, TypeOK, Calls, ListReceipts, ReadForReceipt, WriteReceipt, EndReceipts, ClaimLateFallback
<1>3. ev \in [Events -> Row] /\ proc \in [Procs -> Process]
  BY DEF Safe, TypeOK
<1>4. CASE ListReceipts(p)
  <2> DEFINE q == [proc[p] EXCEPT !.todo = receipts[e], !.at = "apply"]
  <2>1. receipts[e] \in SUBSET (1..MaxReports) /\ receipts[e] \subseteq DOMAIN reports[e]
    BY <1>1 DEF Safe, TypeOK
  <2>2. Sound(q)
    BY <1>1, <2>1 DEF Sound, Process, Steps
  <2>3. proc' = [proc EXCEPT ![p] = q] /\ ev' \in [Events -> Row]
    BY <1>3, <1>4 DEF ListReceipts
  <2> HIDE DEF q
  <2> QED BY <1>2, <2>2, <2>3, ProcessStep
<1>5. CASE ReadForReceipt(p)
  <2>1. PICK i \in Earliest(proc[p].todo) :
        proc' = IF Applies(ev[proc[p].e].wa, reports[proc[p].e][i])
                THEN [proc EXCEPT ![p].at = "write"]
                ELSE [proc EXCEPT ![p].todo = @ \ {i}]
    BY <1>5 DEF ReadForReceipt
  <2> DEFINE q == IF Applies(ev[e].wa, reports[e][i])
                  THEN [proc[p] EXCEPT !.at = "write"]
                  ELSE [proc[p] EXCEPT !.todo = @ \ {i}]
  <2>2. Sound(q)
    BY <1>1 DEF Sound, Process, Steps
  <2>3. proc' = [proc EXCEPT ![p] = q] /\ ev' \in [Events -> Row]
    BY <1>3, <1>5, <2>1 DEF ReadForReceipt
  <2> HIDE DEF q
  <2> QED BY <1>2, <2>2, <2>3, ProcessStep
<1>6. CASE WriteReceipt(p)
  <2>1. PICK i \in Earliest(proc[p].todo) :
          /\ Update(e, [ev[e] EXCEPT !.wa = reports[e][i]])
          /\ proc' = [proc EXCEPT ![p].todo = @ \ {i},
                                  ![p].at = IF reports[e][i] = "failed" THEN "late" ELSE "apply"]
    BY <1>6 DEF WriteReceipt
  <2>2. reports[e][i] \in WhatsApp
    <3>1. i \in DOMAIN reports[e] /\ reports[e] \in Seq(Reportable)
      BY <1>1 DEF Earliest, Sound, Safe, TypeOK
    <3>2. reports[e][i] \in Reportable
      BY <3>1
    <3> QED BY <3>2, OutboxAssumption DEF WhatsApp, Progress
  <2>3. [ev[e] EXCEPT !.wa = reports[e][i]] \in Row
    BY <1>1, <2>2 DEF Row
  <2>4. ev' \in [Events -> Row]
    BY <1>1, <2>1, <2>3, Updating
  <2> DEFINE q == [proc[p] EXCEPT !.todo = @ \ {i},
                     !.at = IF reports[e][i] = "failed" THEN "late" ELSE "apply"]
  <2>5. Sound(q)
    BY <1>1 DEF Sound, Process, Steps
  <2>6. proc' = [proc EXCEPT ![p] = q]
    BY <1>3, <2>1
  <2> HIDE DEF q
  <2> QED BY <1>2, <2>4, <2>5, <2>6, ProcessStep
<1>7. CASE EndReceipts(p)
  <2>1. Stop(p) \/ GoTo(p, "complete")
    BY <1>7 DEF EndReceipts
  <2>2. \E q : Sound(q) /\ proc' = [proc EXCEPT ![p] = q]
    BY <2>1, Moving, Stopping DEF Steps
  <2> QED BY <1>2, <1>3, <1>7, <2>2, ProcessStep DEF EndReceipts
<1>8. CASE ClaimLateFallback(p)
  <2> DEFINE row == [ev[e] EXCEPT !.fallback = TRUE]
             q == [proc[p] EXCEPT !.seen = row, !.late = TRUE, !.at = "email"]
  <2>1. row \in Row
    BY <1>1 DEF Row
  <2>2. CASE LateClaim(ev[e])
    <3>1. Sound(q)
      BY <1>1, <2>1 DEF Sound, Process, Steps
    <3>2. proc' = [proc EXCEPT ![p] = q] /\ Update(e, row)
      BY <1>3, <1>8, <2>2 DEF ClaimLateFallback
    <3> HIDE DEF q
    <3> QED BY <1>1, <1>2, <2>1, <3>1, <3>2, Updating, ProcessStep
  <2>3. CASE ~LateClaim(ev[e])
    <3>1. GoTo(p, "apply") /\ ev' \in [Events -> Row]
      BY <1>3, <1>8, <2>3 DEF ClaimLateFallback
    <3>2. \E r : Sound(r) /\ proc' = [proc EXCEPT ![p] = r]
      BY <3>1, Moving DEF Steps
    <3> QED BY <1>2, <3>1, <3>2, ProcessStep
  <2> QED BY <2>2, <2>3
<1> QED
  BY <1>4, <1>5, <1>6, <1>7, <1>8

LEMMA WebhookIsSafe ==
  ASSUME Safe, NEW p \in Procs, NEW e \in Events, Webhook(p, e)
  PROVE  Safe'
<1>1. PICK i \in DOMAIN reports[e] :
        proc' = [proc EXCEPT ![p] = [Idle EXCEPT !.at = "insert", !.role = "webhook", !.e = e,
                                                !.seen = ev[e], !.todo = {i}]]
  BY DEF Webhook
<1>2. i \in 1..MaxReports
  <2>1. reports[e] \in Seq(Reportable) /\ Len(reports[e]) <= MaxReports
    BY DEF Safe, TypeOK
  <2> QED BY <2>1, OutboxAssumption
<1> DEFINE q == [Idle EXCEPT !.at = "insert", !.role = "webhook", !.e = e,
                   !.seen = ev[e], !.todo = {i}]
<1>3. ev[e] \in Row /\ "webhook" \in Roles
  BY DEF Safe, TypeOK, Webhook
<1>4. Sound(q)
  BY <1>1, <1>2, <1>3, IdleIsSound DEF Sound, Process, Steps
<1>5. ev' \in [Events -> Row] /\ calls' \in [Events -> Calls] /\ UNCHANGED <<world, receipts>>
  BY DEF Webhook, Safe, TypeOK, Calls
<1> HIDE DEF q
<1> QED
  BY <1>1, <1>4, <1>5, ProcessStep DEF q

LEMMA InsertIsSafe ==
  ASSUME Safe, NEW p \in Procs, InsertReceipt(p)
  PROVE  Safe'
<1> DEFINE e == proc[p].e
<1>1. proc[p] \in Process /\ e \in Events /\ Sound(proc[p])
  BY HeldIsSound DEF Safe
<1>2. Stop(p) \/ GoTo(p, "list")
  BY DEF InsertReceipt
<1>3. PICK q : Sound(q) /\ proc' = [proc EXCEPT ![p] = q]
  BY <1>2, Moving, Stopping DEF Steps
<1>4. \A r \in Procs : Sound(proc'[r])
  BY <1>3 DEF Safe, TypeOK
<1>5. \A r \in Procs : Sound(proc[r])'
  BY <1>4 DEF Sound, InsertReceipt, world
<1>6. proc[p].todo \in SUBSET (1..MaxReports) /\ proc[p].todo \subseteq DOMAIN reports[e]
  BY <1>1 DEF Sound, Process
<1>7. receipts \in [Events -> SUBSET (1..MaxReports)]
  BY DEF Safe, TypeOK
<1>8. receipts' = [receipts EXCEPT ![e] = receipts[e] \cup proc[p].todo]
  BY <1>1, <1>7 DEF InsertReceipt
<1>9. receipts' \in [Events -> SUBSET (1..MaxReports)]
  BY <1>1, <1>6, <1>7, <1>8
<1>10. \A f \in Events : receipts'[f] \subseteq DOMAIN reports[f]
  BY <1>1, <1>6, <1>7, <1>8 DEF Safe
<1> QED
  BY <1>3, <1>4, <1>5, <1>9, <1>10 DEF Safe, TypeOK, Sound, InsertReceipt, world

LEMMA WorldIsSafe ==
  ASSUME Safe, NEW e \in Events, Supersede(e) \/ Later(e) \/ LeaseExpires(e)
  PROVE  Safe'
<1>1. UNCHANGED <<customer, receipts, reports, calls, proc, crashes>>
  BY DEF Supersede, Later, LeaseExpires, world
<1>2. \A r \in Procs : Sound(proc[r])'
  BY <1>1 DEF Safe, Sound
<1>3. current' \in [Events -> BOOLEAN] /\ phase' \in [Events -> {"early", "due", "late"}]
  BY DEF Safe, TypeOK, Supersede, Later, LeaseExpires, world
<1>4. ev' \in [Events -> Row]
  <2>1. ev[e] \in Row
    BY DEF Safe, TypeOK
  <2>2. [ev[e] EXCEPT !.lease = "expired"] \in Row
    BY <2>1 DEF Row
  <2>3. ev' = ev \/ Update(e, [ev[e] EXCEPT !.lease = "expired"])
    BY DEF Supersede, Later, LeaseExpires
  <2> QED BY <2>2, <2>3, Updating DEF Safe, TypeOK
<1> QED
  BY <1>1, <1>2, <1>3, <1>4 DEF Safe, TypeOK

LEMMA ReportIsSafe ==
  ASSUME Safe, NEW e \in Events, NEW status \in Reportable, Report(e, status)
  PROVE  Safe'
<1>1. reports \in [Events -> Seq(Reportable)] /\ reports[e] \in Seq(Reportable)
  BY DEF Safe, TypeOK
<1>2. UNCHANGED <<ev, customer, current, phase, receipts, calls, proc, crashes>>
  BY DEF Report
<1>3. reports' = [reports EXCEPT ![e] = Append(reports[e], status)] /\ Len(reports[e]) < MaxReports
  BY <1>1 DEF Report
<1>4. /\ Append(reports[e], status) \in Seq(Reportable)
      /\ Len(Append(reports[e], status)) = Len(reports[e]) + 1
      /\ DOMAIN reports[e] \subseteq DOMAIN Append(reports[e], status)
  BY <1>1
<1>5. reports' \in [Events -> Seq(Reportable)]
  BY <1>1, <1>3, <1>4
<1>6. \A f \in Events : DOMAIN reports[f] \subseteq DOMAIN reports'[f] /\ Len(reports'[f]) <= MaxReports
  <2>1. Len(reports[e]) \in Nat
    BY <1>1
  <2>2. ASSUME NEW f \in Events PROVE DOMAIN reports[f] \subseteq DOMAIN reports'[f]
                                    /\ Len(reports'[f]) <= MaxReports
    <3>1. CASE f = e
      BY <1>1, <1>3, <1>4, <2>1, <3>1, OutboxAssumption
    <3>2. CASE f # e
      BY <1>1, <1>3, <3>2 DEF Safe
    <3> QED BY <3>1, <3>2
  <2> QED BY <2>2
<1>7. \A r \in Procs : proc[r].e \in Events /\ Sound(proc[r])
  BY HeldIsSound DEF Safe
<1>8. \A r \in Procs : Sound(proc[r])'
  BY <1>2, <1>6, <1>7 DEF Sound
<1>9. \A f \in Events : receipts'[f] \subseteq DOMAIN reports'[f]
  BY <1>2, <1>6 DEF Safe
<1> QED
  BY <1>2, <1>5, <1>6, <1>8, <1>9 DEF Safe, TypeOK

LEMMA CrashIsSafe ==
  ASSUME Safe, NEW p \in Procs, Crash(p)
  PROVE  Safe'
<1>1. PICK q : Sound(q) /\ proc' = [proc EXCEPT ![p] = q]
  BY Stopping DEF Crash
<1>2. \A r \in Procs : Sound(proc'[r])
  BY <1>1 DEF Safe, TypeOK
<1>3. \A r \in Procs : Sound(proc[r])'
  BY <1>2 DEF Sound, Crash
<1>4. crashes' \in 0..MaxCrashes
  BY OutboxAssumption DEF Crash, Safe, TypeOK
<1> QED
  BY <1>1, <1>2, <1>3, <1>4 DEF Safe, TypeOK, Sound, Crash

LEMMA InitIsSafe == Init => Safe
<1> SUFFICES ASSUME Init PROVE Safe
  OBVIOUS
<1>1. \A e \in Events : receipts[e] = {} /\ reports[e] = <<>> /\ Len(reports[e]) <= MaxReports
  BY OutboxAssumption DEF Init
<1>2. \A p \in Procs : Sound(proc[p])
  BY IdleIsSound DEF Init, Sound
<1>3. reports \in [Events -> Seq(Reportable)]
  BY DEF Init
<1>4. ev \in [Events -> Row]
  BY NewRowIsARow DEF Init
<1>5. crashes \in 0..MaxCrashes
  BY OutboxAssumption DEF Init
<1> QED
  BY <1>1, <1>2, <1>3, <1>4, <1>5, IdleIsSound DEF Init, Safe, TypeOK

LEMMA StepIsSafe == Safe /\ [Next]_vars => Safe'
<1> SUFFICES ASSUME Safe, [Next]_vars PROVE Safe'
  OBVIOUS
<1>1. ASSUME NEW p \in Procs, Continue(p) PROVE Safe'
  BY <1>1, WorkerIsSafe, ProvidersAreSafe, AnswersAreSafe, ReceiptsAreSafe, InsertIsSafe
     DEF Continue
<1>2. ASSUME NEW p \in Procs, ClaimNext(p) \/ Crash(p) PROVE Safe'
  BY <1>2, ClaimIsSafe, CrashIsSafe DEF ClaimNext
<1>3. ASSUME NEW p \in Procs, NEW e \in Events, ClaimById(p, e) \/ Webhook(p, e) PROVE Safe'
  BY <1>3, ClaimIsSafe, WebhookIsSafe DEF ClaimById
<1>4. CASE UNCHANGED vars
  <2>1. \A r \in Procs : Sound(proc[r])'
    BY <1>4 DEF vars, Safe, Sound
  <2> QED BY <1>4, <2>1 DEF vars, Safe, TypeOK
<1> QED
  BY <1>1, <1>2, <1>3, <1>4, WorldIsSafe, ReportIsSafe DEF Next

\* Rows, receipts and what the processes hold keep their types: a status that a
\* receipt writes was reported by Meta.
THEOREM OutboxTypeCorrect == Spec => []TypeOK
<1>1. Safe => TypeOK
  BY DEF Safe
<1> QED
  BY <1>1, InitIsSafe, StepIsSafe, PTL DEF Spec

-----------------------------------------------------------------------------
\* Until the attempt of an event is claimed nobody is about to send, and whoever
\* claimed it sends alone.
OneAttempt(e) ==
    /\ calls[e].wa <= 1
    /\ \A p \in Procs :
        proc[p].at = "send" /\ proc[p].e = e => ev[e].attempted /\ calls[e].wa = 0
    /\ ~ev[e].attempted => calls[e].wa = 0
    /\ \A p, q \in Procs :
        /\ proc[p].at = "send" /\ proc[p].e = e
        /\ proc[q].at = "send" /\ proc[q].e = e
        => p = q

\* A step that makes no request, forgets no attempt and brings nobody to sending.
LEMMA QuietStep ==
  ASSUME NEW e \in Events, OneAttempt(e), calls'[e].wa = calls[e].wa,
         ev[e].attempted => ev'[e].attempted,
         \A p \in Procs : proc'[p].at = "send" => proc'[p] = proc[p]
  PROVE  OneAttempt(e)'
  BY DEF OneAttempt

\* What the steps that only write a row do to the attempt.
LEMMA RowStepIsQuiet ==
  ASSUME Safe, NEW e \in Events, OneAttempt(e), NEW p \in Procs, NEW f \in Events,
         NEW row \in Row, row.attempted = ev[f].attempted,
         ev' = ev \/ Update(f, row), \A g \in Events : calls'[g].wa = calls[g].wa,
         NEW q, q.at # "send", proc' = proc \/ proc' = [proc EXCEPT ![p] = q]
  PROVE  OneAttempt(e)'
<1>1. ev[e].attempted => ev'[e].attempted
  BY DEF Update, Safe, TypeOK
<1>2. \A r \in Procs : proc'[r].at = "send" => proc'[r] = proc[r]
  BY DEF Safe, TypeOK
<1> QED
  BY <1>1, <1>2, QuietStep

LEMMA MovedIsElsewhere ==
  ASSUME Safe, NEW p \in Procs, NEW step \in Steps \ {"send"}, Stop(p) \/ GoTo(p, step)
  PROVE  \E q : q.at # "send" /\ proc' = [proc EXCEPT ![p] = q]
<1>1. CASE Stop(p)
  BY <1>1, IdleIsSound DEF Stop
<1>2. CASE GoTo(p, step)
  <2> DEFINE q == [proc[p] EXCEPT !.at = step]
  <2>1. proc[p] \in Process
    BY HeldIsSound
  <2>2. q.at # "send"
    BY <2>1 DEF Process
  <2>3. proc' = [proc EXCEPT ![p] = q]
    BY <1>2 DEF GoTo, Safe, TypeOK
  <2> QED BY <2>2, <2>3
<1> QED
  BY <1>1, <1>2

LEMMA WorkerAttemptsOnce ==
  ASSUME Safe, NEW e \in Events, OneAttempt(e), NEW p \in Procs,
         Decide(p) \/ Recheck(p) \/ SkipWhatsApp(p) \/ Complete(p) \/ RecordWhatsApp(p)
           \/ CheckEmail(p) \/ MarkEmail(p) \/ FileEmail(p)
  PROVE  OneAttempt(e)'
<1> DEFINE f == proc[p].e
<1>1. /\ proc[p] \in Process /\ f \in Events /\ proc[p].seen \in Row /\ ev[f] \in Row
      /\ Return(p) \in Steps \ {"send"}
  BY HeldIsSound DEF Steps
<1>2. \A g \in Events : calls'[g].wa = calls[g].wa
  BY DEF Decide, Recheck, SkipWhatsApp, Complete, RecordWhatsApp, CheckEmail, MarkEmail, FileEmail
<1>3. customer[f] \in Customer /\ current[f] \in BOOLEAN /\ Deliverable(f) \in BOOLEAN
  BY <1>1, OutboxAssumption DEF Safe, TypeOK, Deliverable
<1>4. PICK row \in Row : row.attempted = ev[f].attempted /\ (ev' = ev \/ Update(f, row))
  <2>1. CASE Decide(p)
    <3> DEFINE d == Decision(customer[f], proc[p].seen, current[f], Deliverable(f))
               row == Settled(ev[f], d.set)
    <3>1. Update(f, row)
      BY <2>1 DEF Decide
    <3>2. d.set \in Left
      BY <1>1, <1>3, DecisionGoesOn
    <3>3. row \in Row /\ row.attempted = ev[f].attempted
      <4> HIDE DEF d
      <4> QED BY <1>1, <3>2, SettledIsARow
    <3> HIDE DEF row
    <3> QED BY <3>1, <3>3
  <2>2. CASE Recheck(p)
    <3>1. SkipBoth(ev[f]) \in Row /\ SkipBoth(ev[f]).attempted = ev[f].attempted
      BY <1>1 DEF SkipBoth, Row, WhatsApp, Email
    <3> QED BY <2>2, <3>1, <1>1 DEF Recheck
  <2>3. CASE SkipWhatsApp(p) \/ Complete(p)
    <3>1. \A r \in Row : /\ [r EXCEPT !.done = TRUE] \in Row
                          /\ [r EXCEPT !.done = TRUE].attempted = r.attempted
                          /\ [r EXCEPT !.wa = "skipped"] \in Row
                          /\ [r EXCEPT !.wa = "skipped"].attempted = r.attempted
      BY DEF Row, WhatsApp
    <3> QED BY <1>1, <2>3, <3>1 DEF SkipWhatsApp, Complete
  <2>4. CASE RecordWhatsApp(p)
    <3>1. \A o \in {"accepted", "failed", "unknown"} :
            LET r == [ev[f] EXCEPT !.wa = o, !.wamid = (o = "accepted")]
            IN  r \in Row /\ r.attempted = ev[f].attempted
      BY <1>1 DEF Row, WhatsApp, Progress
    <3> QED BY <1>1, <2>4, <3>1 DEF RecordWhatsApp, Process
  <2>5. CASE CheckEmail(p) \/ MarkEmail(p) \/ FileEmail(p)
    <3>1. \A m \in Email : LET r == [ev[f] EXCEPT !.email = m]
                           IN  r \in Row /\ r.attempted = ev[f].attempted
      BY <1>1 DEF Row
    <3> QED BY <1>1, <2>5, <3>1 DEF CheckEmail, MarkEmail, FileEmail, Email
  <2> QED BY <2>1, <2>2, <2>3, <2>4, <2>5
<1>5. PICK step \in Steps \ {"send"} : Stop(p) \/ GoTo(p, step)
  <2>1. CASE Decide(p)
    <3> DEFINE d == Decision(customer[f], proc[p].seen, current[f], Deliverable(f))
    <3>1. d.next \in Steps \ {"send"}
      BY <1>1, <1>3, DecisionGoesOn DEF Steps
    <3>2. Stop(p) \/ GoTo(p, d.next)
      BY <2>1 DEF Decide
    <3> QED BY <3>1, <3>2
  <2>2. CASE ~Decide(p)
    BY <1>1, <2>2 DEF Recheck, SkipWhatsApp, Complete, RecordWhatsApp, CheckEmail,
                       MarkEmail, FileEmail, Steps
  <2> QED BY <2>1, <2>2
<1>6. PICK q : q.at # "send" /\ proc' = [proc EXCEPT ![p] = q]
  BY <1>5, MovedIsElsewhere
<1> QED
  BY <1>1, <1>2, <1>4, <1>6, RowStepIsQuiet

LEMMA ReceiptsAttemptNothing ==
  ASSUME Safe, NEW e \in Events, OneAttempt(e), NEW p \in Procs,
         InsertReceipt(p) \/ ListReceipts(p) \/ ReadForReceipt(p) \/ WriteReceipt(p)
           \/ EndReceipts(p) \/ ClaimLateFallback(p) \/ PostEmail(p)
  PROVE  OneAttempt(e)'
<1>1. /\ proc[p] \in Process /\ proc[p].e \in Events /\ ev[proc[p].e] \in Row
      /\ proc \in [Procs -> Process] /\ ev \in [Events -> Row] /\ calls \in [Events -> Calls]
  BY HeldIsSound DEF Safe, TypeOK, Calls
<1>2. calls'[e].wa = calls[e].wa
  BY <1>1 DEF InsertReceipt, ListReceipts, ReadForReceipt, WriteReceipt, EndReceipts,
              ClaimLateFallback, PostEmail, Calls
<1>3. ev[e].attempted => ev'[e].attempted
  <2>1. CASE ev' = ev
    BY <2>1
  <2>2. CASE WriteReceipt(p)
    <3> DEFINE f == proc[p].e
    <3>1. PICK i \in Earliest(proc[p].todo) : Update(f, [ev[f] EXCEPT !.wa = reports[f][i]])
      BY <2>2 DEF WriteReceipt
    <3>2. [ev[f] EXCEPT !.wa = reports[f][i]].attempted = ev[f].attempted
      BY <1>1 DEF Row
    <3> QED BY <1>1, <3>1, <3>2 DEF Update
  <2>3. CASE ClaimLateFallback(p)
    BY <1>1, <2>3 DEF ClaimLateFallback, Update, Row
  <2> QED BY <2>1, <2>2, <2>3 DEF InsertReceipt, ListReceipts, ReadForReceipt, EndReceipts, PostEmail
<1>4. \A r \in Procs : proc'[r].at = "send" => proc'[r] = proc[r]
  <2>1. CASE InsertReceipt(p) \/ EndReceipts(p)
    <3>1. PICK q : q.at # "send" /\ proc' = [proc EXCEPT ![p] = q]
      BY <2>1, MovedIsElsewhere DEF InsertReceipt, EndReceipts, Steps
    <3> QED BY <3>1, <1>1
  <2>2. CASE ListReceipts(p)
    BY <1>1, <2>2 DEF ListReceipts, Process
  <2>3. CASE ReadForReceipt(p)
    BY <1>1, <2>3 DEF ReadForReceipt, At, Process
  <2>4. CASE WriteReceipt(p)
    BY <1>1, <2>4, ZenonT(60) DEF WriteReceipt, Process
  <2>5. CASE ClaimLateFallback(p)
    BY <1>1, <2>5 DEF ClaimLateFallback, GoTo, Process
  <2>6. CASE PostEmail(p)
    BY <1>1, <2>6 DEF PostEmail, Process
  <2> QED BY <2>1, <2>2, <2>3, <2>4, <2>5, <2>6
<1> QED
  BY <1>2, <1>3, <1>4, QuietStep

\* The claim is what lets one process send; sending leaves the event attempted.
LEMMA AttemptIsExclusive ==
  ASSUME Safe, NEW e \in Events, OneAttempt(e), NEW p \in Procs,
         ClaimAttempt(p) \/ SendWhatsApp(p)
  PROVE  OneAttempt(e)'
<1>1. /\ proc[p] \in Process /\ proc[p].e \in Events /\ ev[proc[p].e] \in Row
      /\ proc \in [Procs -> Process] /\ ev \in [Events -> Row] /\ calls \in [Events -> Calls]
  BY HeldIsSound DEF Safe, TypeOK, Calls
<1>2. CASE ClaimAttempt(p) /\ ev[proc[p].e].attempted
  <2>1. ev' = ev /\ calls' = calls
    BY <1>2 DEF ClaimAttempt
  <2>2. PICK q : q.at # "send" /\ proc' = [proc EXCEPT ![p] = q]
    BY <1>2, MovedIsElsewhere DEF ClaimAttempt, Steps
  <2> QED BY <1>1, <2>1, <2>2, QuietStep
<1>3. CASE ClaimAttempt(p) /\ ~ev[proc[p].e].attempted
  <2>1. /\ calls' = calls
        /\ ev' = [ev EXCEPT ![proc[p].e] = [ev[proc[p].e] EXCEPT !.attempted = TRUE]]
        /\ proc' = [proc EXCEPT ![p].at = "send"]
    BY <1>3 DEF ClaimAttempt, Update, GoTo
  <2>2. ev'[proc[p].e].attempted /\ \A g \in Events \ {proc[p].e} : ev'[g] = ev[g]
    BY <1>1, <2>1 DEF Row
  <2>3. proc'[p].e = proc[p].e /\ \A r \in Procs \ {p} : proc'[r] = proc[r]
    BY <1>1, <2>1 DEF Process
  <2>4. CASE e = proc[p].e
    BY <1>3, <2>1, <2>2, <2>3, <2>4 DEF OneAttempt
  <2>5. CASE e # proc[p].e
    BY <2>1, <2>2, <2>3, <2>5 DEF OneAttempt
  <2> QED BY <2>4, <2>5
<1>4. CASE SendWhatsApp(p)
  <2>1. PICK o \in {"accepted", "failed", "unknown"}, took \in BOOLEAN :
        /\ o = "accepted" => took
        /\ calls' = [calls EXCEPT ![proc[p].e].wa = @ + 1,
                                  ![proc[p].e].taken = @ \/ took]
        /\ proc' = [proc EXCEPT ![p].outcome = o, ![p].at = "record"]
    BY <1>4, ZenonT(60) DEF SendWhatsApp
  <2>2. ev' = ev /\ proc[p].at = "send"
    BY <1>4 DEF SendWhatsApp, At
  <2>3. proc'[p].at = "record" /\ \A r \in Procs \ {p} : proc'[r] = proc[r]
    BY <1>1, <2>1 DEF Process
  <2>4. /\ calls'[proc[p].e].wa = calls[proc[p].e].wa + 1
        /\ \A g \in Events \ {proc[p].e} : calls'[g] = calls[g]
    BY <1>1, <2>1 DEF Calls
  <2>5. CASE e = proc[p].e
    BY <2>2, <2>3, <2>4, <2>5 DEF OneAttempt
  <2>6. CASE e # proc[p].e
    BY <2>2, <2>3, <2>4, <2>6 DEF OneAttempt
  <2> QED BY <2>5, <2>6
<1> QED
  BY <1>2, <1>3, <1>4

LEMMA ClaimAttemptsNothing ==
  ASSUME Safe, NEW e \in Events, OneAttempt(e), NEW p \in Procs, NEW f \in Events,
         Claim(p, f) \/ Webhook(p, f)
  PROVE  OneAttempt(e)'
<1>1. proc \in [Procs -> Process] /\ ev \in [Events -> Row] /\ ev[f] \in Row
  BY DEF Safe, TypeOK
<1>2. Idle \in Process
  BY IdleIsSound
<1>3. calls' = calls /\ (ev[e].attempted => ev'[e].attempted)
  BY <1>1, ZenonT(60) DEF Claim, Webhook, Update, Row
<1>4. \A r \in Procs : proc'[r].at = "send" => proc'[r] = proc[r]
  <2> HIDE DEF Idle
  <2>1. CASE Claim(p, f)
    BY <1>1, <1>2, <2>1 DEF Claim, Process
  <2>2. CASE Webhook(p, f)
    BY <1>1, <1>2, <2>2 DEF Webhook, Process
  <2> QED BY <2>1, <2>2
<1> QED
  BY <1>3, <1>4, QuietStep

LEMMA WorldAttemptsNothing ==
  ASSUME Safe, NEW e \in Events, OneAttempt(e), NEW f \in Events,
         \/ Supersede(f) \/ Later(f) \/ LeaseExpires(f)
         \/ \E status \in Reportable : Report(f, status)
         \/ \E p \in Procs : Crash(p)
         \/ UNCHANGED vars
  PROVE  OneAttempt(e)'
<1>1. proc \in [Procs -> Process] /\ ev \in [Events -> Row] /\ ev[f] \in Row
  BY DEF Safe, TypeOK
<1>2. calls' = calls
  BY DEF Supersede, Later, LeaseExpires, Report, Crash, vars
<1>3. ev[e].attempted => ev'[e].attempted
  BY <1>1 DEF Supersede, Later, LeaseExpires, Report, Crash, vars, Update, Row
<1>4. \A r \in Procs : proc'[r].at = "send" => proc'[r] = proc[r]
  BY <1>1, IdleIsSound DEF Supersede, Later, LeaseExpires, Report, Crash, Stop, vars
<1> QED
  BY <1>2, <1>3, <1>4, QuietStep

\* Meta is asked once for the message of an event: for every number of workers,
\* whether their leases outlast them or not, whatever crashes and whatever the
\* receipts say.
THEOREM WhatsAppSentOnce == Spec => []WhatsAppIsSentOnce
<1> DEFINE Inv == \A e \in Events : OneAttempt(e)
<1>1. Init => Inv
  <2> SUFFICES ASSUME Init PROVE Inv
    OBVIOUS
  <2>1. \A p \in Procs : proc[p].at = "idle"
    BY IdleIsSound DEF Init
  <2>2. \A e \in Events : calls[e].wa = 0
    BY DEF Init
  <2> QED BY <2>1, <2>2 DEF OneAttempt
<1>2. Safe /\ Inv /\ [Next]_vars => Inv'
  <2> SUFFICES ASSUME Safe, Inv, [Next]_vars, NEW e \in Events PROVE OneAttempt(e)'
    OBVIOUS
  <2>1. ASSUME NEW p \in Procs, Continue(p) PROVE OneAttempt(e)'
    BY <2>1, WorkerAttemptsOnce, ReceiptsAttemptNothing, AttemptIsExclusive DEF Continue
  <2>2. ASSUME NEW p \in Procs, ClaimNext(p) PROVE OneAttempt(e)'
    BY <2>2, ClaimAttemptsNothing DEF ClaimNext
  <2>3. ASSUME NEW p \in Procs, NEW f \in Events, ClaimById(p, f) \/ Webhook(p, f)
        PROVE OneAttempt(e)'
    BY <2>3, ClaimAttemptsNothing DEF ClaimById
  <2> QED BY <2>1, <2>2, <2>3, WorldAttemptsNothing DEF Next
<1>3. Inv => WhatsAppIsSentOnce
  BY DEF OneAttempt, WhatsAppIsSentOnce
<1> QED
  BY <1>1, <1>2, <1>3, InitIsSafe, StepIsSafe, PTL DEF Spec

-----------------------------------------------------------------------------
(***************************************************************************)
(* One email of each event.                                                *)
(***************************************************************************)
Works(p, e) == proc[p].at # "idle" /\ proc[p].e = e /\ proc[p].role = "worker"
Emails(p, e) == proc[p].at \in {"email", "mark", "post"} /\ proc[p].e = e

\* The steps of a worker before WhatsApp is settled; what it finds until then.
Before == {"decide", "recheck", "attempt", "send", "record", "skip"}
Fresh(e) == ~ev[e].wamid /\ calls[e].email = 0

\* An event has one worker, and nobody comes back to it once it is closed.
OneWorker(e) ==
    /\ \A p, q \in Procs : Works(p, e) /\ Works(q, e) => p = q
    /\ \A p \in Procs : Works(p, e) => ev[e].lease = "held" /\ ~ev[e].done
    /\ ev[e].lease = "free" => ~ev[e].done
    /\ (~ev[e].done /\ \A p \in Procs : ~Works(p, e)) => Fresh(e)

\* Who is about to send the email is alone, and the first.  Before the fallback of a
\* message that Meta took is claimed nobody is.
OneSender(e) ==
    /\ calls[e].email \in {0, 1}
    /\ \A p, q \in Procs : Emails(p, e) /\ Emails(q, e) => p = q
    /\ \A p \in Procs : Emails(p, e) => calls[e].email = 0
    /\ ev[e].wamid /\ ~ev[e].fallback =>
         calls[e].email = 0 /\ \A p \in Procs : ~Emails(p, e)

\* What each step knows of the event: only a worker sends the email of a message that
\* Meta did not take, only the late fallback that of one it did.
StepKnows(q, e) ==
    /\ q.at \in Before \cup {"complete"} => q.role = "worker"
    /\ q.at \in Before => Fresh(e) /\ ~q.late
    /\ q.at \in {"email", "mark", "post", "file"} /\ q.late => ev[e].wamid
    /\ q.at \in {"email", "mark", "post", "file"} /\ ~q.late => q.role = "worker" /\ ~ev[e].wamid
    /\ q.at \in {"list", "apply", "write", "late"} => ev[e].wamid
    /\ q.at = "insert" => q.role = "webhook" /\ (q.seen.wamid => ev[e].wamid)

OneEmail(e) ==
    /\ OneWorker(e)
    /\ OneSender(e)
    /\ \A p \in Procs : proc[p].e = e => StepKnows(proc[p], e)

\* A step on another event, or that only ends what was under way elsewhere.
LEMMA ElsewhereNothingIsSent ==
  ASSUME NEW e \in Events, OneEmail(e), calls'[e].email = calls[e].email, ev'[e] = ev[e],
         \A r \in Procs : \/ proc'[r] = proc[r]
                          \/ /\ proc[r].e # e \/ proc[r].at = "idle"
                             /\ proc'[r].e # e \/ proc'[r].at = "idle"
  PROVE  OneEmail(e)'
<1>1. \A r \in Procs : (Works(r, e) <=> Works(r, e)') /\ (Emails(r, e) <=> Emails(r, e)')
  BY DEF Works, Emails
<1>2. \A r \in Procs : proc'[r].e = e => StepKnows(proc[r], e)'
  BY DEF OneEmail, StepKnows, Fresh, Before
<1> QED
  BY <1>1, <1>2 DEF OneEmail, OneWorker, OneSender, Fresh

\* The process moves on; the row keeps its lease, its end, its message and its fallback.
LEMMA NextStepSendsNothing ==
  ASSUME NEW e \in Events, OneEmail(e), NEW p \in Procs, proc[p].e = e, proc[p].at # "idle",
         NEW q, q.e = e, q.role = proc[p].role, q.late = proc[p].late,
         proc \in [Procs -> Process], proc' = [proc EXCEPT ![p] = q],
         calls'[e].email = calls[e].email, ev'[e].lease = ev[e].lease, ev'[e].done = ev[e].done,
         ev'[e].wamid = ev[e].wamid, ev'[e].fallback = ev[e].fallback,
         q.at \notin {"idle", "insert", "file"},
         q.at \in Before => proc[p].at \in Before,
         q.at = "complete" => proc[p].role = "worker",
         q.at \in {"email", "mark", "post"} => proc[p].at \in Before \cup {"email", "mark", "post"},
         q.at \in {"list", "apply", "write", "late"} => ev[e].wamid
  PROVE  OneEmail(e)'
<1>1. proc'[p] = q /\ \A r \in Procs \ {p} : proc'[r] = proc[r]
  OBVIOUS
<1>2. \A r \in Procs : Works(r, e) <=> Works(r, e)'
  BY <1>1 DEF Works
<1>3. Fresh(e)' <=> Fresh(e)
  BY DEF Fresh
<1>4. OneWorker(e)'
  BY <1>2, <1>3 DEF OneEmail, OneWorker
<1>5. StepKnows(proc[p], e)
  BY DEF OneEmail
<1>6. StepKnows(q, e)'
  <2>1. q.at \in Before => Fresh(e)' /\ ~q.late /\ q.role = "worker"
    BY <1>3, <1>5 DEF StepKnows
  <2>2. q.at \in {"email", "mark", "post"} =>
          IF q.late THEN ev[e].wamid ELSE q.role = "worker" /\ ~ev[e].wamid
    BY <1>5 DEF StepKnows, Fresh
  <2> QED BY <2>1, <2>2 DEF StepKnows
<1>7. \A r \in Procs : proc'[r].e = e => StepKnows(proc[r], e)'
  <2> SUFFICES ASSUME NEW r \in Procs \ {p}, proc[r].e = e PROVE StepKnows(proc[r], e)'
    BY <1>1, <1>6
  <2> QED BY <1>1, <1>3 DEF OneEmail, StepKnows
<1>8. CASE proc[p].at \in {"email", "mark", "post"} \/ q.at \notin {"email", "mark", "post"}
  <2>1. \A r \in Procs : Emails(r, e)' => Emails(r, e)
    BY <1>1, <1>8 DEF Emails
  <2> QED BY <1>4, <1>7, <2>1 DEF OneEmail, OneSender
<1>9. CASE proc[p].at \in Before /\ q.at \in {"email", "mark", "post"}
  <2>1. Fresh(e) /\ Works(p, e)
    BY <1>5, <1>9 DEF StepKnows, Works
  <2>2. \A r \in Procs : ~Emails(r, e)
    <3> SUFFICES ASSUME NEW r \in Procs, Emails(r, e) PROVE FALSE
      OBVIOUS
    <3>1. StepKnows(proc[r], e)
      BY DEF Emails, OneEmail
    <3>2. Works(r, e)
      BY <2>1, <3>1 DEF StepKnows, Emails, Works, Fresh
    <3>3. r = p
      BY <2>1, <3>2 DEF OneEmail, OneWorker
    <3> QED BY <1>9, <3>3 DEF Emails, Before
  <2>3. \A r \in Procs : Emails(r, e)' => r = p
    BY <1>1, <2>2 DEF Emails
  <2> QED BY <1>4, <1>7, <2>1, <2>3 DEF OneEmail, OneSender, Fresh
<1> QED
  BY <1>8, <1>9

\* What a process does with its event touches no other.
LEMMA OthersAreLeftAlone ==
  ASSUME Safe, NEW p \in Procs, Continue(p), NEW e \in Events, e # proc[p].e
  PROVE  /\ ev'[e] = ev[e] /\ calls'[e] = calls[e]
         /\ \A r \in Procs \ {p} : proc'[r] = proc[r]
         /\ proc'[p].e = proc[p].e \/ proc'[p] = Idle
<1>1. /\ proc \in [Procs -> Process] /\ ev \in [Events -> Row] /\ calls \in [Events -> Calls]
      /\ proc[p] \in Process /\ proc[p].e \in Events
  BY HeldIsSound DEF Safe, TypeOK, Calls
<1>2. Idle.at = "idle"
  BY IdleIsSound
<1> HIDE DEF Idle
<1>3. CASE Decide(p) \/ Recheck(p) \/ ClaimAttempt(p)
  BY <1>1, <1>2, <1>3 DEF Decide, Recheck, ClaimAttempt, Update, GoTo, Stop, Process
<1>4. CASE RecordWhatsApp(p)
  BY <1>1, <1>4 DEF RecordWhatsApp, Update, GoTo, Process
<1>9. CASE SkipWhatsApp(p) \/ Complete(p)
  BY <1>1, <1>2, <1>9 DEF SkipWhatsApp, Complete, Update, GoTo, Stop, Process
<1>5. CASE CheckEmail(p) \/ MarkEmail(p) \/ FileEmail(p)
  BY <1>1, <1>5 DEF CheckEmail, MarkEmail, FileEmail, Update, GoTo, Process
<1>6. CASE SendWhatsApp(p)
  <2>1. PICK o \in {"accepted", "failed", "unknown"}, took \in BOOLEAN :
        /\ calls' = [calls EXCEPT ![proc[p].e].wa = @ + 1,
                                  ![proc[p].e].taken = @ \/ took]
        /\ proc' = [proc EXCEPT ![p].outcome = o, ![p].at = "record"]
    BY <1>6 DEF SendWhatsApp
  <2>2. calls'[e] = calls[e] /\ ev' = ev
    BY <1>1, <1>6, <2>1 DEF SendWhatsApp
  <2>3. proc'[p].e = proc[p].e /\ \A r \in Procs \ {p} : proc'[r] = proc[r]
    BY <1>1, <2>1 DEF Process
  <2> QED BY <2>2, <2>3, SMTT(40)
<1>10. CASE PostEmail(p)
  <2>1. PICK o \in {"accepted", "failed"} :
        /\ proc' = [proc EXCEPT ![p].outcome = o, ![p].at = "file"]
        /\ calls' = [calls EXCEPT ![proc[p].e].email = @ + 1]
    BY <1>10 DEF PostEmail
  <2>2. calls'[e] = calls[e] /\ ev' = ev
    BY <1>1, <1>10, <2>1 DEF PostEmail
  <2>3. proc'[p].e = proc[p].e /\ \A r \in Procs \ {p} : proc'[r] = proc[r]
    BY <1>1, <2>1 DEF Process
  <2> QED BY <2>2, <2>3
<1>7. CASE InsertReceipt(p) \/ ListReceipts(p) \/ ReadForReceipt(p) \/ EndReceipts(p)
  BY <1>1, <1>2, <1>7 DEF InsertReceipt, ListReceipts, ReadForReceipt, EndReceipts, GoTo, Stop, Process
<1>8. CASE WriteReceipt(p)
  <2>1. PICK i \in Earliest(proc[p].todo) :
          LET f == proc[p].e IN
          /\ Update(f, [ev[f] EXCEPT !.wa = reports[f][i]])
          /\ proc' = [proc EXCEPT ![p].todo = @ \ {i},
                                  ![p].at = IF reports[f][i] = "failed" THEN "late" ELSE "apply"]
    BY <1>8 DEF WriteReceipt
  <2>2. ev'[e] = ev[e] /\ calls' = calls
    BY <1>1, <1>8, <2>1 DEF WriteReceipt, Update
  <2>3. proc'[p].e = proc[p].e /\ \A r \in Procs \ {p} : proc'[r] = proc[r]
    BY <1>1, <2>1 DEF Process
  <2> QED BY <2>2, <2>3
<1>11. CASE ClaimLateFallback(p)
  BY <1>1, <1>11 DEF ClaimLateFallback, Update, GoTo, Process
<1> QED
  BY <1>3, <1>4, <1>5, <1>6, <1>7, <1>8, <1>9, <1>10, <1>11 DEF Continue

\* The process stops in the middle, or has nothing left to do; the row stays.
LEMMA StoppingSendsNothing ==
  ASSUME Safe, NEW e \in Events, OneEmail(e), NEW p \in Procs, proc[p].e = e,
         proc[p].at \in Before \/ proc[p].role # "worker",
         proc[p].at # "idle", Stop(p), calls' = calls,
         ev'[e] = ev[e] \/ (proc[p].role = "worker" /\ ev'[e] = [ev[e] EXCEPT !.lease = "free"])
  PROVE  OneEmail(e)'
<1>1. proc \in [Procs -> Process] /\ ev[e] \in Row /\ Idle.at = "idle"
  BY IdleIsSound DEF Safe, TypeOK
<1>2. proc'[p] = Idle /\ \A r \in Procs \ {p} : proc'[r] = proc[r]
  BY <1>1 DEF Stop
<1>3. /\ ev'[e].done = ev[e].done /\ ev'[e].wamid = ev[e].wamid
      /\ ev'[e].fallback = ev[e].fallback
      /\ ev'[e].lease = ev[e].lease \/ (proc[p].role = "worker" /\ ev'[e].lease = "free")
  BY <1>1 DEF Row
<1>4. StepKnows(proc[p], e) /\ OneWorker(e) /\ OneSender(e)
  BY DEF OneEmail
<1>5. Works(p, e) => Fresh(e) /\ \A r \in Procs \ {p} : ~Works(r, e)
  BY <1>4 DEF Works, StepKnows, OneWorker
<1>6. Fresh(e)' <=> Fresh(e)
  BY <1>3 DEF Fresh
<1>7. \A r \in Procs : (Works(r, e)' => Works(r, e) /\ r # p) /\ (r # p /\ Works(r, e) => Works(r, e)')
  BY <1>1, <1>2 DEF Works
<1>8. OneWorker(e)'
  <2>1. CASE proc[p].role = "worker"
    <3>1. Works(p, e)
      BY <2>1 DEF Works
    <3> QED BY <1>3, <1>4, <1>5, <1>6, <1>7, <3>1 DEF OneWorker
  <2>2. CASE proc[p].role # "worker"
    <3>1. ~Works(p, e)
      BY <2>2 DEF Works
    <3> QED BY <1>3, <1>4, <1>6, <1>7, <2>2, <3>1 DEF OneWorker
  <2> QED BY <2>1, <2>2
<1>9. OneSender(e)'
  <2>1. \A r \in Procs : Emails(r, e)' => Emails(r, e)
    BY <1>1, <1>2 DEF Emails
  <2> QED BY <1>3, <1>4, <2>1 DEF OneSender
<1>10. ASSUME NEW r \in Procs, proc'[r].e = e PROVE StepKnows(proc[r], e)'
  <2>1. CASE r = p
    BY <1>1, <1>2, <2>1 DEF StepKnows, Before
  <2>2. CASE r # p
    BY <1>2, <1>3, <1>6, <1>10, <2>2 DEF OneEmail, StepKnows
  <2> QED BY <2>1, <2>2
<1> QED
  BY <1>8, <1>9, <1>10 DEF OneEmail

\* GoTo and its like, as NextStepSendsNothing wants them.
LEMMA GoingOnSendsNothing ==
  ASSUME Safe, NEW e \in Events, OneEmail(e), NEW p \in Procs, proc[p].e = e, proc[p].at # "idle",
         NEW step \in Steps \ {"idle", "insert", "file"}, GoTo(p, step),
         NEW row \in Row, ev' = ev \/ Update(e, row),
         row.lease = ev[e].lease, row.done = ev[e].done, row.wamid = ev[e].wamid,
         row.fallback = ev[e].fallback, calls' = calls,
         step \in Before => proc[p].at \in Before,
         step = "complete" => proc[p].role = "worker",
         step \in {"email", "mark", "post"} => proc[p].at \in Before \cup {"email", "mark", "post"},
         step \in {"list", "apply", "write", "late"} => ev[e].wamid
  PROVE  OneEmail(e)'
<1> DEFINE q == [proc[p] EXCEPT !.at = step]
<1>1. proc \in [Procs -> Process] /\ ev \in [Events -> Row] /\ proc[p] \in Process
  BY DEF Safe, TypeOK
<1>2. q.e = e /\ q.role = proc[p].role /\ q.late = proc[p].late /\ q.at = step
  BY <1>1 DEF Process
<1>3. proc' = [proc EXCEPT ![p] = q]
  BY <1>1 DEF GoTo
<1>4. /\ ev'[e].lease = ev[e].lease /\ ev'[e].done = ev[e].done
      /\ ev'[e].wamid = ev[e].wamid /\ ev'[e].fallback = ev[e].fallback
  BY <1>1 DEF Update
<1> HIDE DEF q
<1> QED
  BY <1>1, <1>2, <1>3, <1>4, NextStepSendsNothing

\* A decision gives the lease back if and only if it leaves the event for later.
LEMMA OnlyADeferralFrees ==
  ASSUME NEW c \in Customer, NEW seen \in Row,
         NEW isCurrent \in BOOLEAN, NEW deliverable \in BOOLEAN
  PROVE  Decision(c, seen, isCurrent, deliverable).set = "free"
           <=> Decision(c, seen, isCurrent, deliverable).next = "idle"
  BY DEF Decision

LEMMA SettlingKeepsTheLease ==
  ASSUME NEW row \in Row, NEW set \in Left
  PROVE  /\ Settled(row, set).done = row.done /\ Settled(row, set).wamid = row.wamid
         /\ Settled(row, set).fallback = row.fallback
         /\ IF set = "free" THEN Settled(row, set) = [row EXCEPT !.lease = "free"]
            ELSE Settled(row, set).lease = row.lease
  BY DEF Settled, SkipBoth, Row, Left

LEMMA DecisionSendsNothing ==
  ASSUME Safe, NEW p \in Procs, NEW e \in Events, proc[p].e = e, OneEmail(e), Decide(p)
  PROVE  OneEmail(e)'
<1> DEFINE d == Decision(customer[e], proc[p].seen, current[e], Deliverable(e))
           row == Settled(ev[e], d.set)
<1>1. /\ e \in Events /\ ev[e] \in Row /\ proc[p].seen \in Row /\ ev \in [Events -> Row]
      /\ proc[p] \in Process
  BY HeldIsSound DEF Safe, TypeOK
<1>2. customer[e] \in Customer /\ current[e] \in BOOLEAN /\ Deliverable(e) \in BOOLEAN
  BY <1>1, OutboxAssumption DEF Safe, TypeOK, Deliverable
<1>3. /\ d.set \in Left /\ d.next \in {"complete", "idle", "email", "recheck"}
      /\ d.set = "free" <=> d.next = "idle"
  BY <1>1, <1>2, DecisionGoesOn, OnlyADeferralFrees
<1>4. /\ Update(e, row) /\ calls' = calls /\ proc[p].at = "decide"
      /\ IF d.next = "idle" THEN Stop(p) ELSE GoTo(p, d.next)
  BY DEF Decide, At
<1>5. StepKnows(proc[p], e)
  BY <1>1 DEF OneEmail
<1>6. proc[p].role = "worker"
  BY <1>4, <1>5 DEF StepKnows, Before
<1> HIDE DEF d
<1>7. row \in Row /\ row.done = ev[e].done /\ row.wamid = ev[e].wamid /\ row.fallback = ev[e].fallback
      /\ IF d.set = "free" THEN row = [ev[e] EXCEPT !.lease = "free"] ELSE row.lease = ev[e].lease
  BY <1>1, <1>3, SettlingKeepsTheLease, SettledIsARow
<1>8. ev'[e] = row
  BY <1>1, <1>4, <1>7 DEF Update
<1> HIDE DEF row
<1>10. OneEmail(e)'
  <2>1. CASE d.next = "idle"
    <3>1. ev'[e] = [ev[e] EXCEPT !.lease = "free"] /\ Stop(p)
      BY <1>3, <1>4, <1>7, <1>8, <2>1
    <3>2. OneEmail(e) /\ proc[p].at \in Before /\ proc[p].at # "idle"
      BY <1>4 DEF Before
    <3> QED BY <1>1, <1>4, <1>6, <3>1, <3>2, StoppingSendsNothing
  <2>2. CASE d.next # "idle"
    <3>1. d.next \in Steps \ {"idle", "insert", "file"} /\ GoTo(p, d.next) /\ d.next \in {"complete", "email", "recheck"}
      BY <1>3, <1>4, <2>2 DEF Steps
    <3>2. OneEmail(e) /\ proc[p].at \in Before /\ proc[p].at # "idle" /\ row.lease = ev[e].lease
      BY <1>3, <1>4, <1>7, <2>2 DEF Before
    <3> QED BY <1>1, <1>4, <1>6, <1>7, <3>1, <3>2, GoingOnSendsNothing
  <2> QED BY <2>1, <2>2
<1> QED
  BY <1>10

\* The other steps of a worker up to the provider, and those of the email up to its post.
LEMMA WorkerSendsNothing ==
  ASSUME Safe, NEW p \in Procs, NEW e \in Events, proc[p].e = e, OneEmail(e),
         Recheck(p) \/ ClaimAttempt(p) \/ SkipWhatsApp(p) \/ CheckEmail(p) \/ MarkEmail(p)
  PROVE  OneEmail(e)'
<1>1. e \in Events /\ ev[e] \in Row /\ proc[p] \in Process /\ ev \in [Events -> Row]
      /\ Return(p) \in {"complete", "apply"}
  BY HeldIsSound DEF Safe, TypeOK
<1>2. StepKnows(proc[p], e)
  BY <1>1 DEF OneEmail
<1>3. calls' = calls /\ proc[p].at \in {"recheck", "attempt", "skip", "email", "mark"}
  BY DEF Recheck, ClaimAttempt, SkipWhatsApp, CheckEmail, MarkEmail, At
<1>5. CASE Stop(p) /\ ev' = ev /\ proc[p].at \in Before
  <2>1. /\ proc[p].at # "idle" /\ proc[p].at \in Before
        /\ ev'[e] = ev[e] /\ calls' = calls /\ Stop(p)
    BY <1>3, <1>5
  <2> QED BY <2>1, StoppingSendsNothing
<1>6. ASSUME NEW step \in {"attempt", "skip", "complete", "send", "email", "apply", "mark", "post"},
             GoTo(p, step),
             NEW row \in Row, ev' = ev \/ Update(e, row), row.lease = ev[e].lease,
             row.done = ev[e].done, row.wamid = ev[e].wamid, row.fallback = ev[e].fallback,
             step \in Before => proc[p].at \in Before,
             step = "complete" => proc[p].role = "worker",
             step = "apply" => ev[e].wamid
      PROVE  OneEmail(e)'
  <2>1. step \in Steps \ {"idle", "insert", "file"} /\ step \notin {"list", "write", "late"}
    BY <1>6 DEF Steps
  <2>2. OneEmail(e) /\ proc[p].at \in Before \cup {"email", "mark", "post"} /\ proc[p].at # "idle"
    BY <1>3 DEF Before
  <2>3. OneEmail(e)'
    BY <1>1, <1>3, <1>6, <2>1, <2>2, GoingOnSendsNothing
  <2> QED BY <2>3
<1>7. proc[p].at \in {"recheck", "attempt", "skip"} => proc[p].at \in Before /\ proc[p].role = "worker"
  BY <1>2 DEF StepKnows, Before
<1>8. CASE Recheck(p)
  <2>1. SkipBoth(ev[e]) \in Row
        /\ SkipBoth(ev[e]).lease = ev[e].lease /\ SkipBoth(ev[e]).done = ev[e].done
        /\ SkipBoth(ev[e]).wamid = ev[e].wamid /\ SkipBoth(ev[e]).fallback = ev[e].fallback
    BY <1>1 DEF SkipBoth, Row, WhatsApp, Email
  <2>2. proc[p].at = "recheck"
    BY <1>8 DEF Recheck, At
  <2>3. \E step \in {"attempt", "skip", "complete"} :
          GoTo(p, step) /\ (ev' = ev \/ Update(e, SkipBoth(ev[e])))
    BY <1>8 DEF Recheck
  <2> HIDE DEF SkipBoth
  <2> QED BY <1>6, <1>7, <2>1, <2>2, <2>3
<1>9. CASE ClaimAttempt(p)
  <2> DEFINE row == [ev[e] EXCEPT !.attempted = TRUE]
  <2>1. row \in Row /\ row.lease = ev[e].lease /\ row.done = ev[e].done
        /\ row.wamid = ev[e].wamid /\ row.fallback = ev[e].fallback
    BY <1>1 DEF Row
  <2>2. proc[p].at = "attempt"
    BY <1>9 DEF ClaimAttempt, At
  <2>3. \/ GoTo(p, "send") /\ Update(e, row)
        \/ GoTo(p, "complete") /\ ev' = ev
        \/ Stop(p) /\ ev' = ev
    BY <1>9 DEF ClaimAttempt
  <2> HIDE DEF row
  <2> QED BY <1>5, <1>6, <1>7, <2>1, <2>2, <2>3
<1>10. CASE SkipWhatsApp(p)
  <2> DEFINE row == [ev[e] EXCEPT !.wa = "skipped"]
  <2>1. row \in Row /\ row.lease = ev[e].lease /\ row.done = ev[e].done
        /\ row.wamid = ev[e].wamid /\ row.fallback = ev[e].fallback
    BY <1>1 DEF Row, WhatsApp
  <2>2. GoTo(p, "email") /\ Update(e, row)
    BY <1>10 DEF SkipWhatsApp
  <2>3. "email" \notin Before
    BY DEF Before
  <2> HIDE DEF row
  <2> QED BY <1>6, <2>1, <2>2, <2>3
<1>11. CASE CheckEmail(p) \/ MarkEmail(p)
  <2>1. \A m \in Email : LET r == [ev[e] EXCEPT !.email = m]
                         IN  r \in Row /\ r.lease = ev[e].lease /\ r.done = ev[e].done
                             /\ r.wamid = ev[e].wamid /\ r.fallback = ev[e].fallback
    BY <1>1 DEF Row
  <2>2. \E step \in {Return(p), "mark", "post"}, m \in Email :
          GoTo(p, step) /\ (ev' = ev \/ Update(e, [ev[e] EXCEPT !.email = m]))
    BY <1>11 DEF CheckEmail, MarkEmail, Email
  <2>3. /\ Return(p) = "complete" => proc[p].role = "worker"
        /\ Return(p) = "apply" => ev[e].wamid
    BY <1>2, <1>11 DEF StepKnows, Return, CheckEmail, MarkEmail, At
  <2>4. {"complete", "apply", "mark", "post"} \cap Before = {}
    BY DEF Before
  <2> HIDE DEF Return
  <2> QED BY <1>1, <1>6, <2>1, <2>2, <2>3, <2>4
<1> QED
  BY <1>8, <1>9, <1>10, <1>11

\* What a process may have to know of its own event for each of these steps.
LEMMA OwnEvent ==
  ASSUME Safe, NEW p \in Procs, NEW e \in Events, proc[p].e = e, OneEmail(e)
  PROVE  /\ proc \in [Procs -> Process] /\ ev \in [Events -> Row] /\ calls \in [Events -> Calls]
         /\ proc[p] \in Process /\ ev[e] \in Row /\ StepKnows(proc[p], e)
         /\ OneWorker(e) /\ OneSender(e)
  BY DEF Safe, TypeOK, OneEmail, Calls

LEMMA ProviderSendsNothing ==
  ASSUME Safe, NEW p \in Procs, NEW e \in Events, proc[p].e = e, OneEmail(e), SendWhatsApp(p)
  PROVE  OneEmail(e)'
<1>1. PICK o \in {"accepted", "failed", "unknown"}, took \in BOOLEAN :
        /\ calls' = [calls EXCEPT ![proc[p].e].wa = @ + 1,
                                  ![proc[p].e].taken = @ \/ took]
        /\ proc' = [proc EXCEPT ![p].outcome = o, ![p].at = "record"]
  BY DEF SendWhatsApp
<1> DEFINE q == [proc[p] EXCEPT !.outcome = o, !.at = "record"]
<1>2. proc[p].at = "send" /\ ev' = ev
  BY DEF SendWhatsApp, At
<1>3. proc' = [proc EXCEPT ![p] = q]
  BY <1>1, OwnEvent
<1>4. q.e = e /\ q.role = proc[p].role /\ q.late = proc[p].late /\ q.at = "record"
  BY OwnEvent DEF Process
<1>5. calls'[e].email = calls[e].email
  BY <1>1, OwnEvent DEF Calls
<1> HIDE DEF q
<1>6. proc[p].at \in Before
  BY <1>2 DEF Before
<1> QED
  BY <1>2, <1>3, <1>4, <1>5, <1>6, OwnEvent, NextStepSendsNothing

\* What an answer of Meta writes into a row.
AnsweredRow(row, m) == [row EXCEPT !.wa = m, !.wamid = (m = "accepted")]

LEMMA AnsweredIsARow ==
  ASSUME NEW row \in Row, NEW m \in WhatsApp
  PROVE  /\ AnsweredRow(row, m) \in Row
         /\ AnsweredRow(row, m).lease = row.lease /\ AnsweredRow(row, m).done = row.done
         /\ AnsweredRow(row, m).fallback = row.fallback
         /\ AnsweredRow(row, m).attempted = row.attempted
         /\ AnsweredRow(row, m).wa = m /\ AnsweredRow(row, m).wamid = (m = "accepted")
         /\ AnsweredRow(row, m).email = row.email
  BY DEF AnsweredRow, Row, WhatsApp, Email, Progress

\* Recording that Meta took the message: nobody sends its email, and from now on only
\* its late fallback can.
LEMMA RecordingSendsNothing ==
  ASSUME Safe, NEW p \in Procs, NEW e \in Events, proc[p].e = e, OneEmail(e), RecordWhatsApp(p)
  PROVE  OneEmail(e)'
<1> DEFINE o == proc[p].outcome
           row == AnsweredRow(ev[e], o)
<1>1. proc[p].at = "record" /\ calls' = calls /\ Update(e, row)
  BY DEF RecordWhatsApp, At, AnsweredRow
<1>2. /\ row.lease = ev[e].lease /\ row.done = ev[e].done /\ row.fallback = ev[e].fallback
      /\ row.wamid = (o = "accepted") /\ row.attempted = ev[e].attempted
      /\ row \in Row
  <2>1. ev[e] \in Row /\ o \in WhatsApp
    BY OwnEvent DEF Process, WhatsApp, Progress
  <2> HIDE DEF o
  <2> QED BY <2>1, AnsweredIsARow
<1>3. ev'[e] = row
  BY <1>1, OwnEvent DEF Update
<1>4. Fresh(e) /\ ~proc[p].late /\ proc[p].role = "worker"
  BY <1>1, OwnEvent DEF StepKnows, Before
<1>5. PICK step \in {"list", "skip", "email"} :
        GoTo(p, step) /\ (step = "list" <=> o = "accepted")
  BY DEF RecordWhatsApp
<1>6. CASE o # "accepted"
  <2>1. row.wamid = ev[e].wamid /\ step # "list"
    BY <1>2, <1>4, <1>5, <1>6, OwnEvent DEF Fresh, Row
  <2>2. /\ step \in Steps \ {"idle", "insert", "file"} /\ proc[p].at \in Before
        /\ proc[p].at # "idle" /\ step \notin {"complete", "list", "apply", "write", "late"}
    BY <1>1, <1>5, <2>1 DEF Steps, Before
  <2> HIDE DEF row
  <2> QED BY <1>1, <1>2, <1>5, <2>1, <2>2, GoingOnSendsNothing
<1>7. CASE o = "accepted"
  <2>1. GoTo(p, "list") /\ row.wamid
    BY <1>2, <1>5, <1>7
  <2>2. /\ proc'[p].at = "list" /\ proc'[p].e = e /\ proc'[p].role = proc[p].role
        /\ \A r \in Procs \ {p} : proc'[r] = proc[r]
    BY <2>1, OwnEvent DEF GoTo, Process
  <2>3. Works(p, e) /\ \A r \in Procs : Works(r, e) => r = p
    BY <1>1, <1>4, OwnEvent DEF Works, OneWorker
  <2>4. ASSUME NEW r \in Procs \ {p}, proc[r].e = e
        PROVE  ~Emails(r, e) /\ StepKnows(proc[r], e)'
    <3>1. StepKnows(proc[r], e) /\ ~Works(r, e)
      BY <2>3, <2>4 DEF OneEmail
    <3>2. proc[r].at \notin Before \cup {"complete"}
      BY <2>4, <3>1 DEF StepKnows, Works, Before
    <3>3. proc[r].at \notin {"email", "mark", "post", "file"}
      BY <1>4, <2>4, <3>1 DEF StepKnows, Works, Fresh
    <3> HIDE DEF row
    <3> QED BY <1>3, <2>1, <2>2, <2>4, <3>1, <3>2, <3>3 DEF StepKnows, Emails
  <2> HIDE DEF row
  <2>5. \A r \in Procs : ~Emails(r, e)'
    BY <2>2, <2>4 DEF Emails
  <2>6. OneSender(e)'
    BY <1>1, <1>4, <2>5, OwnEvent DEF OneSender, Fresh
  <2>7. \A r \in Procs : Works(r, e) <=> Works(r, e)'
    BY <1>1, <2>2 DEF Works
  <2>8. OneWorker(e)'
    BY <1>2, <1>3, <2>3, <2>7, OwnEvent DEF OneWorker
  <2>9. StepKnows(proc[p], e)'
    BY <1>3, <2>1, <2>2 DEF StepKnows, Before
  <2>10. \A r \in Procs : proc'[r].e = e => StepKnows(proc[r], e)'
    BY <2>2, <2>4, <2>9
  <2> QED BY <2>6, <2>8, <2>10 DEF OneEmail
<1> QED
  BY <1>6, <1>7

\* Closing the event: nobody comes back.
LEMMA CompletingSendsNothing ==
  ASSUME Safe, NEW p \in Procs, NEW e \in Events, proc[p].e = e, OneEmail(e), Complete(p)
  PROVE  OneEmail(e)'
<1>1. proc[p].at = "complete" /\ calls' = calls /\ Stop(p)
      /\ Update(e, [ev[e] EXCEPT !.done = TRUE])
  BY DEF Complete, At
<1>2. /\ ev'[e].done /\ ev'[e].lease = ev[e].lease /\ ev'[e].wamid = ev[e].wamid
      /\ ev'[e].fallback = ev[e].fallback
  BY <1>1, OwnEvent DEF Update, Row
<1>3. proc'[p] = Idle /\ Idle.at = "idle" /\ \A r \in Procs \ {p} : proc'[r] = proc[r]
  BY <1>1, OwnEvent, IdleIsSound DEF Stop
<1>4. Works(p, e) /\ \A r \in Procs : Works(r, e) => r = p
  BY <1>1, OwnEvent DEF Works, StepKnows, OneWorker
<1> HIDE DEF Idle
<1>5. \A r \in Procs : ~Works(r, e)'
  BY <1>3, <1>4 DEF Works
<1>6. ev[e].lease = "held"
  BY <1>4, OwnEvent DEF OneWorker
<1>7. OneWorker(e)'
  BY <1>2, <1>5, <1>6 DEF OneWorker
<1>8. \A r \in Procs : Emails(r, e)' => Emails(r, e)
  BY <1>3 DEF Emails
<1>9. OneSender(e)'
  BY <1>1, <1>2, <1>8, OwnEvent DEF OneSender
<1>10. ASSUME NEW r \in Procs, proc'[r].e = e PROVE StepKnows(proc[r], e)'
  <2>1. CASE r = p
    BY <1>3, <2>1 DEF StepKnows, Before
  <2>2. CASE r # p
    <3>1. StepKnows(proc[r], e)
      BY <1>3, <1>10, <2>2 DEF OneEmail
    <3> QED BY <1>1, <1>2, <1>3, <2>2, <3>1 DEF StepKnows, Fresh
  <2> QED BY <2>1, <2>2
<1> QED
  BY <1>7, <1>9, <1>10 DEF OneEmail

\* The post itself: whoever is there is alone, and the first.
LEMMA PostingSendsOne ==
  ASSUME Safe, NEW p \in Procs, NEW e \in Events, proc[p].e = e, OneEmail(e), PostEmail(p)
  PROVE  OneEmail(e)'
<1>1. PICK o \in {"accepted", "failed"} :
        /\ proc' = [proc EXCEPT ![p].outcome = o, ![p].at = "file"]
        /\ calls' = [calls EXCEPT ![proc[p].e].email = @ + 1]
  BY DEF PostEmail
<1>2. proc[p].at = "post" /\ ev' = ev
  BY DEF PostEmail, At
<1>3. /\ proc'[p].at = "file" /\ proc'[p].e = e /\ proc'[p].role = proc[p].role
      /\ proc'[p].late = proc[p].late /\ \A r \in Procs \ {p} : proc'[r] = proc[r]
  BY <1>1, OwnEvent DEF Process
<1>4. Emails(p, e) /\ calls[e].email = 0 /\ \A r \in Procs : Emails(r, e) => r = p
  BY <1>2, OwnEvent DEF Emails, OneSender
<1>5. calls'[e].email = 1
  BY <1>1, <1>4, OwnEvent DEF Calls
<1>6. \A r \in Procs : ~Emails(r, e)'
  BY <1>3, <1>4 DEF Emails
<1>7. OneSender(e)'
  BY <1>2, <1>4, <1>5, <1>6, OwnEvent DEF OneSender
<1>8. \A r \in Procs : Works(r, e) <=> Works(r, e)'
  BY <1>2, <1>3 DEF Works
\* A worker that has not come so far would have found the email unsent by anyone.
<1>9. \A r \in Procs \ {p} : proc[r].e = e => proc[r].at \notin Before
  <2> SUFFICES ASSUME NEW r \in Procs \ {p}, proc[r].e = e, proc[r].at \in Before PROVE FALSE
    OBVIOUS
  <2>1. StepKnows(proc[r], e) /\ StepKnows(proc[p], e)
    BY DEF OneEmail
  <2>2. Works(r, e) /\ Works(p, e)
    BY <1>2, <2>1 DEF StepKnows, Works, Before, Fresh
  <2> QED BY <2>2, OwnEvent DEF OneWorker
<1>10. OneWorker(e)'
  <2>1. ASSUME ~ev[e].done, \A r \in Procs : ~Works(r, e) PROVE FALSE
    <3>1. Fresh(e) /\ ~Works(p, e)
      BY <2>1, OwnEvent DEF OneWorker
    <3> QED BY <1>2, <3>1, OwnEvent DEF StepKnows, Works, Fresh
  <2> QED BY <1>2, <1>8, <2>1, OwnEvent DEF OneWorker
<1>11. ASSUME NEW r \in Procs, proc'[r].e = e PROVE StepKnows(proc[r], e)'
  <2>1. CASE r = p
    BY <1>2, <1>3, <2>1, OwnEvent DEF StepKnows, Before
  <2>2. CASE r # p
    <3>1. StepKnows(proc[r], e) /\ proc[r].at \notin Before
      BY <1>3, <1>9, <1>11, <2>2 DEF OneEmail
    <3> QED BY <1>2, <1>3, <2>2, <3>1 DEF StepKnows
  <2> QED BY <2>1, <2>2
<1> QED
  BY <1>7, <1>10, <1>11 DEF OneEmail

\* Filing the provider's answer: the worker is done, the fallback returns to its receipts.
LEMMA FilingSendsNothing ==
  ASSUME Safe, NEW p \in Procs, NEW e \in Events, proc[p].e = e, OneEmail(e), FileEmail(p)
  PROVE  OneEmail(e)'
<1>1. PICK m \in Email : Update(e, [ev[e] EXCEPT !.email = m])
  BY DEF FileEmail, Email
<1> DEFINE row == [ev[e] EXCEPT !.email = m]
<1>2. /\ row \in Row /\ row.lease = ev[e].lease /\ row.done = ev[e].done
      /\ row.wamid = ev[e].wamid /\ row.fallback = ev[e].fallback
  BY OwnEvent DEF Row
<1>3. proc[p].at = "file" /\ calls' = calls /\ GoTo(p, Return(p))
  BY DEF FileEmail, At
<1>4. \/ Return(p) = "complete" /\ proc[p].role = "worker"
      \/ Return(p) = "apply" /\ ev[e].wamid
  BY <1>3, OwnEvent DEF StepKnows, Return
<1>5. /\ Return(p) \in Steps \ {"idle", "insert", "file"}
      /\ Return(p) \notin Before \cup {"email", "mark", "post"}
  BY <1>4 DEF Steps, Before
<1>6. proc[p].at # "idle" /\ Update(e, row)
  BY <1>1, <1>3
<1> HIDE DEF row, Return
<1> QED
  BY <1>2, <1>3, <1>4, <1>5, <1>6, GoingOnSendsNothing

\* Reading and applying receipts.
LEMMA ReceiptsSendNothing ==
  ASSUME Safe, NEW p \in Procs, NEW e \in Events, proc[p].e = e, OneEmail(e),
         InsertReceipt(p) \/ ListReceipts(p) \/ ReadForReceipt(p) \/ WriteReceipt(p)
           \/ EndReceipts(p)
  PROVE  OneEmail(e)'
<1>1. proc[p].at \in {"insert", "list", "apply", "write"} /\ calls' = calls /\ proc[p].at # "idle"
  BY DEF InsertReceipt, ListReceipts, ReadForReceipt, WriteReceipt, EndReceipts, At
<1>2. ev[e].wamid \/ (proc[p].at = "insert" /\ ~proc[p].seen.wamid)
  BY <1>1, OwnEvent DEF StepKnows
<1>3. ASSUME NEW step \in {"list", "apply", "write", "late", "complete"}, ev[e].wamid,
             step = "complete" => proc[p].role = "worker",
             NEW q, proc' = [proc EXCEPT ![p] = q], q.e = e, q.role = proc[p].role,
             q.late = proc[p].late, q.at = step,
             /\ ev'[e].lease = ev[e].lease /\ ev'[e].done = ev[e].done
             /\ ev'[e].wamid = ev[e].wamid /\ ev'[e].fallback = ev[e].fallback
      PROVE  OneEmail(e)'
  <2>1. step \notin Before \cup {"idle", "insert", "file", "email", "mark", "post"}
    BY <1>3 DEF Before
  <2> QED BY <1>1, <1>3, <2>1, OwnEvent, NextStepSendsNothing
<1>4. ASSUME NEW step \in {"list", "apply", "write", "late", "complete"}, ev[e].wamid,
             step = "complete" => proc[p].role = "worker",
             GoTo(p, step), ev' = ev
      PROVE  OneEmail(e)'
  <2> DEFINE q == [proc[p] EXCEPT !.at = step]
  <2>1. proc' = [proc EXCEPT ![p] = q] /\ q.e = e /\ q.role = proc[p].role
        /\ q.late = proc[p].late /\ q.at = step
    BY <1>4, OwnEvent DEF GoTo, Process
  <2> HIDE DEF q
  <2> QED BY <1>3, <1>4, <2>1
<1>5. CASE InsertReceipt(p)
  <2>1. ev' = ev /\ proc[p].at = "insert"
    BY <1>5 DEF InsertReceipt, At
  <2>2. CASE proc[p].seen.wamid
    BY <1>2, <1>4, <1>5, <2>1, <2>2 DEF InsertReceipt
  <2>3. CASE ~proc[p].seen.wamid
    <3>1. Stop(p) /\ proc[p].role # "worker" /\ ev'[e] = ev[e]
      BY <1>5, <2>1, <2>3, OwnEvent DEF InsertReceipt, StepKnows
    <3> QED BY <1>1, <3>1, StoppingSendsNothing
  <2> QED BY <2>2, <2>3
<1>6. CASE ListReceipts(p)
  <2> DEFINE q == [proc[p] EXCEPT !.todo = receipts[proc[p].e], !.at = "apply"]
  <2>1. proc' = [proc EXCEPT ![p] = q] /\ ev' = ev /\ ev[e].wamid
    BY <1>2, <1>6, OwnEvent DEF ListReceipts, At
  <2>2. q.e = e /\ q.role = proc[p].role /\ q.late = proc[p].late /\ q.at = "apply"
    BY OwnEvent DEF Process
  <2> HIDE DEF q
  <2> QED BY <1>3, <2>1, <2>2
<1>7. CASE ReadForReceipt(p)
  <2>1. PICK i \in Earliest(proc[p].todo) :
          proc' = IF Applies(ev[proc[p].e].wa, reports[proc[p].e][i])
                  THEN [proc EXCEPT ![p].at = "write"]
                  ELSE [proc EXCEPT ![p].todo = @ \ {i}]
    BY <1>7 DEF ReadForReceipt
  <2>2. proc[p].at = "apply" /\ ev' = ev /\ ev[e].wamid
    BY <1>2, <1>7 DEF ReadForReceipt, At
  <2>3. CASE GoTo(p, "write")
    BY <1>4, <2>2, <2>3
  <2>4. CASE proc' = [proc EXCEPT ![p].todo = @ \ {i}]
    <3> DEFINE q == [proc[p] EXCEPT !.todo = @ \ {i}]
    <3>1. proc' = [proc EXCEPT ![p] = q]
      BY <2>4, OwnEvent
    <3>2. q.e = e /\ q.role = proc[p].role /\ q.late = proc[p].late /\ q.at = "apply"
      BY <2>2, OwnEvent DEF Process
    <3> HIDE DEF q
    <3> QED BY <1>3, <2>2, <3>1, <3>2
  <2> QED BY <2>1, <2>3, <2>4 DEF GoTo
<1>8. CASE WriteReceipt(p)
  <2>1. PICK i \in Earliest(proc[p].todo) :
          /\ Update(e, [ev[e] EXCEPT !.wa = reports[e][i]])
          /\ proc' = [proc EXCEPT ![p].todo = @ \ {i},
                                  ![p].at = IF reports[e][i] = "failed" THEN "late" ELSE "apply"]
    BY <1>8 DEF WriteReceipt
  <2> DEFINE step == IF reports[e][i] = "failed" THEN "late" ELSE "apply"
             q == [proc[p] EXCEPT !.todo = @ \ {i}, !.at = step]
  <2>2. proc[p].at = "write" /\ ev[e].wamid
    BY <1>2, <1>8 DEF WriteReceipt, At
  <2>3. /\ ev'[e].lease = ev[e].lease /\ ev'[e].done = ev[e].done
        /\ ev'[e].wamid = ev[e].wamid /\ ev'[e].fallback = ev[e].fallback
    BY <2>1, OwnEvent DEF Update, Row
  <2>4. proc' = [proc EXCEPT ![p] = q]
    BY <2>1, OwnEvent
  <2>5. q.e = e /\ q.role = proc[p].role /\ q.late = proc[p].late /\ q.at = step
    BY OwnEvent DEF Process
  <2>6. step \in {"late", "apply"}
    OBVIOUS
  <2> HIDE DEF q, step
  <2> QED BY <1>3, <2>2, <2>3, <2>4, <2>5, <2>6
<1>9. CASE EndReceipts(p)
  <2>1. proc[p].at = "apply" /\ ev' = ev /\ ev[e].wamid
    BY <1>2, <1>9 DEF EndReceipts, At
  <2>2. CASE proc[p].role = "worker"
    BY <1>4, <1>9, <2>1, <2>2 DEF EndReceipts
  <2>3. CASE proc[p].role # "worker"
    BY <1>1, <1>9, <2>1, <2>3, StoppingSendsNothing DEF EndReceipts
  <2> QED BY <2>2, <2>3
<1> QED
  BY <1>5, <1>6, <1>7, <1>8, <1>9

\* The late fallback is claimed once, when nobody can be sending the email.
LEMMA LateFallbackIsClaimedOnce ==
  ASSUME Safe, NEW p \in Procs, NEW e \in Events, proc[p].e = e, OneEmail(e),
         ClaimLateFallback(p)
  PROVE  OneEmail(e)'
<1>1. proc[p].at = "late" /\ calls' = calls /\ ev[e].wamid
  BY OwnEvent DEF ClaimLateFallback, At, StepKnows
<1>2. CASE ~LateClaim(ev[e])
  <2>1. GoTo(p, "apply") /\ ev' = ev
    BY <1>2 DEF ClaimLateFallback
  <2>2. "apply" \in Steps \ {"idle", "insert", "file"} /\ "apply" \notin Before
    BY DEF Steps, Before
  <2> QED BY <1>1, <2>1, <2>2, OwnEvent, GoingOnSendsNothing
<1>3. CASE LateClaim(ev[e])
  <2> DEFINE row == [ev[e] EXCEPT !.fallback = TRUE]
  <2>1. Update(e, row) /\ proc' = [proc EXCEPT ![p].seen = row, ![p].late = TRUE, ![p].at = "email"]
    BY <1>3 DEF ClaimLateFallback
  <2>2. /\ ev'[e].lease = ev[e].lease /\ ev'[e].done = ev[e].done
        /\ ev'[e].wamid = ev[e].wamid /\ ev'[e].fallback
    BY <2>1, OwnEvent DEF Update, Row
  <2>3. /\ proc'[p].at = "email" /\ proc'[p].e = e /\ proc'[p].role = proc[p].role /\ proc'[p].late
        /\ \A r \in Procs \ {p} : proc'[r] = proc[r]
    BY <2>1, OwnEvent DEF Process
  <2> HIDE DEF row
  <2>4. calls[e].email = 0 /\ \A r \in Procs : ~Emails(r, e)
    BY <1>1, <1>3, OwnEvent DEF LateClaim, OneSender
  <2>5. \A r \in Procs : Emails(r, e)' => r = p
    BY <2>3, <2>4 DEF Emails
  <2>6. OneSender(e)'
    BY <1>1, <2>2, <2>4, <2>5 DEF OneSender
  <2>7. \A r \in Procs : Works(r, e) <=> Works(r, e)'
    BY <1>1, <2>3 DEF Works
  <2>8. OneWorker(e)'
    BY <1>1, <2>2, <2>7, OwnEvent DEF OneWorker, Fresh
  <2>9. ASSUME NEW r \in Procs, proc'[r].e = e PROVE StepKnows(proc[r], e)'
    <3>1. CASE r = p
      BY <1>1, <2>2, <2>3, <3>1 DEF StepKnows, Before
    <3>2. CASE r # p
      BY <1>1, <2>2, <2>3, <2>9, <3>2 DEF OneEmail, StepKnows, Fresh
    <3> QED BY <3>1, <3>2
  <2> QED BY <2>6, <2>8, <2>9 DEF OneEmail
<1> QED
  BY <1>2, <1>3

\* A claim finds the event as a worker that sent nothing left it, or as it was written.
LEMMA ClaimSendsNothing ==
  ASSUME Safe, NEW p \in Procs, NEW e \in Events, OneEmail(e), proc[p].at = "idle", Claim(p, e),
         ev[e].lease = "free" \/ (ev[e].lease # "held" /\ ~ev[e].done)
  PROVE  OneEmail(e)'
<1> DEFINE row == [ev[e] EXCEPT !.lease = "held"]
<1>1. /\ proc \in [Procs -> Process] /\ ev \in [Events -> Row] /\ ev[e] \in Row /\ Idle \in Process
      /\ Idle.late = FALSE
  BY IdleIsSound DEF Safe, TypeOK, Idle
<1>2. /\ Update(e, row) /\ calls' = calls
      /\ proc' = [proc EXCEPT ![p] = [Idle EXCEPT !.at = "decide", !.role = "worker",
                                                  !.e = e, !.seen = row]]
  BY DEF Claim
<1>3. /\ ev'[e].lease = "held" /\ ev'[e].done = ev[e].done
      /\ ev'[e].wamid = ev[e].wamid /\ ev'[e].fallback = ev[e].fallback
  BY <1>1, <1>2 DEF Update, Row
<1> HIDE DEF row, Idle
<1>4. /\ proc'[p].at = "decide" /\ proc'[p].e = e /\ proc'[p].role = "worker" /\ ~proc'[p].late
      /\ \A r \in Procs \ {p} : proc'[r] = proc[r]
  BY <1>1, <1>2 DEF Process
<1>5. OneWorker(e) /\ OneSender(e)
  BY DEF OneEmail
<1>6. ~ev[e].done /\ Fresh(e) /\ \A r \in Procs : ~Works(r, e)
  BY <1>5 DEF OneWorker
<1>7. \A r \in Procs : Works(r, e)' <=> r = p
  BY <1>4, <1>6 DEF Works
<1>8. OneWorker(e)'
  BY <1>3, <1>6, <1>7 DEF OneWorker
<1>9. \A r \in Procs : Emails(r, e)' => Emails(r, e)
  BY <1>4 DEF Emails
<1>10. OneSender(e)'
  BY <1>2, <1>3, <1>5, <1>9 DEF OneSender
<1>11. ASSUME NEW r \in Procs, proc'[r].e = e PROVE StepKnows(proc[r], e)'
  <2>1. CASE r = p
    BY <1>2, <1>3, <1>4, <1>6, <2>1 DEF StepKnows, Fresh, Before
  <2>2. CASE r # p
    BY <1>2, <1>3, <1>4, <1>11, <2>2 DEF OneEmail, StepKnows, Fresh
  <2> QED BY <2>1, <2>2
<1> QED
  BY <1>8, <1>10, <1>11 DEF OneEmail

\* A webhook request that begins.
LEMMA WebhookSendsNothing ==
  ASSUME Safe, NEW p \in Procs, NEW e \in Events, OneEmail(e), Webhook(p, e)
  PROVE  OneEmail(e)'
<1>1. proc \in [Procs -> Process] /\ Idle \in Process /\ ev[e] \in Row
  BY IdleIsSound DEF Safe, TypeOK
<1>2. PICK i \in DOMAIN reports[e] :
        proc' = [proc EXCEPT ![p] = [Idle EXCEPT !.at = "insert", !.role = "webhook", !.e = e,
                                                !.seen = ev[e], !.todo = {i}]]
  BY DEF Webhook
<1>3. ev' = ev /\ calls' = calls /\ proc[p].at = "idle"
  BY DEF Webhook, At
<1> HIDE DEF Idle
<1>4. /\ proc'[p].at = "insert" /\ proc'[p].role = "webhook" /\ proc'[p].e = e
      /\ proc'[p].seen = ev[e] /\ \A r \in Procs \ {p} : proc'[r] = proc[r]
  BY <1>1, <1>2 DEF Process
<1>5. \A r \in Procs : (Works(r, e) <=> Works(r, e)') /\ (Emails(r, e) <=> Emails(r, e)')
  BY <1>3, <1>4 DEF Works, Emails
<1>6. OneWorker(e)' /\ OneSender(e)'
  BY <1>3, <1>5 DEF OneEmail, OneWorker, OneSender, Fresh
<1>7. ASSUME NEW r \in Procs, proc'[r].e = e PROVE StepKnows(proc[r], e)'
  <2>1. CASE r = p
    BY <1>3, <1>4, <2>1 DEF StepKnows, Before
  <2>2. CASE r # p
    BY <1>3, <1>4, <1>7, <2>2 DEF OneEmail, StepKnows, Fresh
  <2> QED BY <2>1, <2>2
<1> QED
  BY <1>6, <1>7 DEF OneEmail

\* A lease that runs out has no worker any more.
LEMMA ExpirySendsNothing ==
  ASSUME Safe, NEW e \in Events, OneEmail(e), LeaseExpires(e), ~SlowWorkers
  PROVE  OneEmail(e)'
<1>1. ev \in [Events -> Row] /\ ev[e] \in Row
  BY DEF Safe, TypeOK
<1>2. /\ Update(e, [ev[e] EXCEPT !.lease = "expired"]) /\ calls' = calls /\ proc' = proc
      /\ \A r \in Procs : ~Works(r, e)
  BY DEF LeaseExpires, Works
<1>3. /\ ev'[e].lease = "expired" /\ ev'[e].done = ev[e].done
      /\ ev'[e].wamid = ev[e].wamid /\ ev'[e].fallback = ev[e].fallback
  BY <1>1, <1>2 DEF Update, Row
<1>4. \A r \in Procs : (Works(r, e) <=> Works(r, e)') /\ (Emails(r, e) <=> Emails(r, e)')
  BY <1>2 DEF Works, Emails
<1>5. OneWorker(e)' /\ OneSender(e)'
  BY <1>2, <1>3, <1>4 DEF OneEmail, OneWorker, OneSender, Fresh
<1>6. \A r \in Procs : proc'[r].e = e => StepKnows(proc[r], e)'
  BY <1>2, <1>3 DEF OneEmail, StepKnows, Fresh
<1> QED
  BY <1>5, <1>6 DEF OneEmail

\* While no process is lost and no lease runs out before its worker is done.
LEMMA StepSendsOne ==
  ASSUME Safe, \A e \in Events : OneEmail(e), [Next]_vars, ~SlowWorkers, MaxCrashes = 0
  PROVE  \A e \in Events : OneEmail(e)'
<1> SUFFICES ASSUME NEW e \in Events PROVE OneEmail(e)'
  OBVIOUS
<1>1. /\ proc \in [Procs -> Process] /\ ev \in [Events -> Row] /\ Idle.at = "idle"
      /\ Idle \in Process
  BY IdleIsSound DEF Safe, TypeOK
<1>2. ASSUME NEW p \in Procs, Continue(p) PROVE OneEmail(e)'
  <2>1. CASE proc[p].e = e
    BY <1>2, <2>1, DecisionSendsNothing, WorkerSendsNothing, ProviderSendsNothing,
       RecordingSendsNothing, CompletingSendsNothing, PostingSendsOne, FilingSendsNothing,
       ReceiptsSendNothing, LateFallbackIsClaimedOnce DEF Continue
  <2>2. CASE proc[p].e # e
    <3>1. /\ ev'[e] = ev[e] /\ calls'[e] = calls[e]
          /\ \A r \in Procs \ {p} : proc'[r] = proc[r]
          /\ proc'[p].e = proc[p].e \/ proc'[p].at = "idle"
      BY <1>1, <1>2, <2>2, OthersAreLeftAlone
    <3> QED BY <2>2, <3>1, ElsewhereNothingIsSent
  <2> QED BY <2>1, <2>2
<1>3. ASSUME NEW p \in Procs, NEW f \in Events, Claim(p, f), proc[p].at = "idle",
             ev[f].lease = "free" \/ (ev[f].lease # "held" /\ ~ev[f].done)
      PROVE  OneEmail(e)'
  <2>1. CASE f = e
    BY <1>3, <2>1, ClaimSendsNothing
  <2>2. CASE f # e
    <3> HIDE DEF Idle
    <3>1. ev'[e] = ev[e] /\ calls' = calls
      BY <1>1, <1>3, <2>2 DEF Claim, Update
    <3>2. proc'[p].e = f /\ \A r \in Procs \ {p} : proc'[r] = proc[r]
      BY <1>1, <1>3 DEF Claim, Process
    <3> QED BY <1>3, <2>2, <3>1, <3>2, ElsewhereNothingIsSent
  <2> QED BY <2>1, <2>2
<1>4. ASSUME NEW p \in Procs, ClaimNext(p) PROVE OneEmail(e)'
  BY <1>3, <1>4 DEF ClaimNext, Pending, At
<1>5. ASSUME NEW p \in Procs, NEW f \in Events, ClaimById(p, f) PROVE OneEmail(e)'
  BY <1>3, <1>5 DEF ClaimById, At
<1>6. ASSUME NEW p \in Procs, NEW f \in Events, Webhook(p, f) PROVE OneEmail(e)'
  <2>1. CASE f = e
    BY <1>6, <2>1, WebhookSendsNothing
  <2>2. CASE f # e
    <3> HIDE DEF Idle
    <3>1. proc'[p].e = f /\ \A r \in Procs \ {p} : proc'[r] = proc[r]
      BY <1>1, <1>6 DEF Webhook, Process
    <3> QED BY <1>6, <2>2, <3>1, ElsewhereNothingIsSent DEF Webhook, At
  <2> QED BY <2>1, <2>2
<1>7. ASSUME NEW f \in Events, LeaseExpires(f) PROVE OneEmail(e)'
  <2>1. CASE f = e
    BY <1>7, <2>1, ExpirySendsNothing
  <2>2. CASE f # e
    <3>1. ev'[e] = ev[e] /\ calls' = calls /\ proc' = proc
      BY <1>1, <1>7, <2>2 DEF LeaseExpires, Update
    <3> QED BY <3>1, ElsewhereNothingIsSent
  <2> QED BY <2>1, <2>2
<1>8. ASSUME ev' = ev, calls' = calls, proc' = proc PROVE OneEmail(e)'
  BY <1>8, ElsewhereNothingIsSent
<1>9. ASSUME NEW p \in Procs, Crash(p) PROVE FALSE
  BY <1>9 DEF Crash, Safe, TypeOK
<1> QED
  BY <1>2, <1>4, <1>5, <1>6, <1>7, <1>8, <1>9
     DEF Next, Supersede, Later, Report, vars

\* While leases outlast their workers and none is lost, one email is asked for at most,
\* for any number of workers and webhook requests, in whatever order Meta repeats and
\* reorders its reports.  A worker that is lost after the post asks again: the
\* provider's idempotency key makes that one email too.
THEOREM EmailSentOnce ==
  ASSUME ~SlowWorkers, MaxCrashes = 0
  PROVE  Spec => []EmailIsSentOnce
<1> DEFINE Inv == \A e \in Events : OneEmail(e)
<1>1. Init => Inv
  <2> SUFFICES ASSUME Init, NEW e \in Events PROVE OneEmail(e)
    OBVIOUS
  <2>1. \A p \in Procs : proc[p] = Idle /\ proc[p].at = "idle"
    BY IdleIsSound DEF Init
  <2>2. ~ev[e].wamid /\ ~ev[e].done /\ calls[e].email = 0
    BY DEF Init, NewRow
  <2> HIDE DEF Idle
  <2> QED
    BY <2>1, <2>2 DEF OneEmail, OneWorker, OneSender, StepKnows, Fresh, Works, Emails, Before
<1>2. Safe /\ Inv /\ [Next]_vars => Inv'
  BY StepSendsOne
<1>3. Inv => EmailIsSentOnce
  BY DEF OneEmail, OneSender, EmailIsSentOnce
<1> QED
  BY <1>1, <1>2, <1>3, InitIsSafe, StepIsSafe, PTL DEF Spec

-----------------------------------------------------------------------------
(***************************************************************************)
(* No customer of an appointment is dropped between the two channels.      *)
(***************************************************************************)
\* Meta took the message; the email was decided on, sent or not.
Taken(e) == calls[e].taken
Answered(e) == ev[e].email # "not_needed"

\* What the row of an event of an appointment says is so.
RowIsTrue(e) ==
    /\ ev[e].wa \in Progress => Taken(e)
    /\ ev[e].wamid => Taken(e)
    /\ reports[e] # <<>> => Taken(e)
    /\ ev[e].done => Taken(e) \/ Answered(e)

\* What a process read was so, and it closes the event only after one of the two.
ProcessIsTrue(q, e) ==
    /\ q.seen.wa \in Progress \/ q.seen.wamid => Taken(e)
    /\ q.seen.email # "not_needed" => Answered(e)
    /\ q.at = "record" /\ q.outcome = "accepted" => Taken(e)
    /\ q.at \in {"list", "apply", "write", "late"} => Taken(e)
    /\ q.late => Taken(e)
    /\ q.at \in {"post", "file"} => Answered(e)
    /\ q.at = "complete" => Taken(e) \/ Answered(e)

NobodyIsDropped(e) ==
    /\ RowIsTrue(e)
    /\ \A p \in Procs : proc[p].e = e => ProcessIsTrue(proc[p], e)


\* Nothing of the event changes but for what one process does, which has it right.
LEMMA OneStepDropsNobody ==
  ASSUME NEW e \in Events, NobodyIsDropped(e), Taken(e) => Taken(e)', Answered(e) => Answered(e)',
         RowIsTrue(e)', NEW p \in Procs,
         \A r \in Procs \ {p} : proc'[r] = proc[r],
         proc'[p].e = e => ProcessIsTrue(proc[p], e)'
  PROVE  NobodyIsDropped(e)'
<1>1. ASSUME NEW r \in Procs \ {p}, proc'[r].e = e PROVE ProcessIsTrue(proc[r], e)'
  BY <1>1 DEF NobodyIsDropped, ProcessIsTrue
<1> QED
  BY <1>1 DEF NobodyIsDropped

\* A process that is idle has read nothing.
LEMMA IdleIsTrue ==
  ASSUME NEW e \in Events, NEW p \in Procs, proc'[p] = Idle
  PROVE  ProcessIsTrue(proc[p], e)'
<1>1. Idle.at = "idle" /\ Idle.seen = NewRow /\ ~Idle.late
  BY DEF Idle
<1>2. NewRow.wa = "pending" /\ ~NewRow.wamid /\ NewRow.email = "not_needed"
  BY DEF NewRow
<1> HIDE DEF Idle, NewRow
<1> QED
  BY <1>1, <1>2 DEF ProcessIsTrue, Progress

\* What is so of the row and the process after a step that only writes the row.
LEMMA WritingDropsNobody ==
  ASSUME NEW e \in Events, NobodyIsDropped(e), NEW p \in Procs, NEW row, ev'[e] = row,
         calls' = calls, reports' = reports,
         row.wa \in Progress => Taken(e), row.wamid => Taken(e),
         Answered(e) => row.email # "not_needed",
         row.done => Taken(e) \/ row.email # "not_needed",
         \A r \in Procs \ {p} : proc'[r] = proc[r],
         proc'[p].e = e => ProcessIsTrue(proc[p], e)'
  PROVE  NobodyIsDropped(e)'
<1>1. Taken(e)' <=> Taken(e)
  BY DEF Taken
<1>2. Answered(e)' <=> row.email # "not_needed"
  BY DEF Answered
<1>3. RowIsTrue(e)'
  BY <1>1, <1>2 DEF NobodyIsDropped, RowIsTrue
<1> QED
  BY <1>1, <1>2, <1>3, OneStepDropsNobody

LEMMA MovingDropsNobody ==
  ASSUME Safe, NEW e \in Events, NobodyIsDropped(e), NEW p \in Procs, proc[p].e = e,
         NEW step \in Steps \ {"record"}, GoTo(p, step), NEW row, ev'[e] = row,
         calls' = calls, reports' = reports,
         row.wa \in Progress => Taken(e), row.wamid => Taken(e),
         Answered(e) => row.email # "not_needed",
         row.done => Taken(e) \/ row.email # "not_needed",
         step \in {"list", "apply", "write", "late"} => Taken(e),
         step \in {"post", "file"} => row.email # "not_needed",
         step = "complete" => Taken(e) \/ row.email # "not_needed"
  PROVE  NobodyIsDropped(e)'
<1>1. proc \in [Procs -> Process] /\ proc[p] \in Process
  BY DEF Safe, TypeOK
<1>2. /\ proc'[p].at = step /\ proc'[p].seen = proc[p].seen /\ proc'[p].late = proc[p].late
      /\ \A r \in Procs \ {p} : proc'[r] = proc[r]
  BY <1>1 DEF GoTo, Process
<1>3. (Taken(e)' <=> Taken(e)) /\ (Answered(e)' <=> row.email # "not_needed")
  BY DEF Taken, Answered
<1>4. ProcessIsTrue(proc[p], e)
  BY DEF NobodyIsDropped
<1>5. ProcessIsTrue(proc[p], e)'
  BY <1>2, <1>3, <1>4 DEF ProcessIsTrue
<1> QED
  BY <1>2, <1>5, WritingDropsNobody

\* What the decision leaves to the customer of an appointment.
LEMMA ADecisionSettles ==
  ASSUME NEW c \in Customer, ~c.series, NEW seen \in Row,
         NEW isCurrent \in BOOLEAN, NEW deliverable \in BOOLEAN,
         Decision(c, seen, isCurrent, deliverable).next = "complete"
  PROVE  \/ Decision(c, seen, isCurrent, deliverable).set = "both"
         \/ seen.wa \in Progress
  BY DEF Decision

LEMMA SettlingForgetsNothing ==
  ASSUME NEW row \in Row, NEW set \in Left
  PROVE  /\ Settled(row, set).wa \in Progress => row.wa \in Progress
         /\ Settled(row, set).wamid = row.wamid /\ Settled(row, set).done = row.done
         /\ Settled(row, set).email \in {row.email, "skipped"}
         /\ set = "both" => Settled(row, set).email = "skipped"
  BY DEF Settled, SkipBoth, Row, Left, Progress

LEMMA DecisionDropsNobody ==
  ASSUME Safe, NEW p \in Procs, NEW e \in Events, proc[p].e = e, NobodyIsDropped(e),
         ~customer[e].series, Decide(p)
  PROVE  NobodyIsDropped(e)'
<1> DEFINE d == Decision(customer[e], proc[p].seen, current[e], Deliverable(e))
           row == Settled(ev[e], d.set)
<1>1. /\ ev[e] \in Row /\ proc[p].seen \in Row /\ ev \in [Events -> Row] /\ proc[p] \in Process
      /\ proc \in [Procs -> Process]
  BY HeldIsSound DEF Safe, TypeOK
<1>2. customer[e] \in Customer /\ current[e] \in BOOLEAN /\ Deliverable(e) \in BOOLEAN
  BY <1>1, OutboxAssumption DEF Safe, TypeOK, Deliverable
<1>3. /\ d.set \in Left /\ d.next \in {"complete", "idle", "email", "recheck"}
      /\ d.next = "complete" => d.set = "both" \/ proc[p].seen.wa \in Progress
  BY <1>1, <1>2, DecisionGoesOn, ADecisionSettles
<1>4. /\ Update(e, row) /\ calls' = calls /\ reports' = reports
      /\ IF d.next = "idle" THEN Stop(p) ELSE GoTo(p, d.next)
  BY DEF Decide, world
<1>5. ProcessIsTrue(proc[p], e) /\ RowIsTrue(e)
  BY DEF NobodyIsDropped
<1> HIDE DEF d
<1>6. /\ row.wa \in Progress => ev[e].wa \in Progress
      /\ row.wamid = ev[e].wamid /\ row.done = ev[e].done /\ row.email \in {ev[e].email, "skipped"}
      /\ d.set = "both" => row.email = "skipped"
  BY <1>1, <1>3, SettlingForgetsNothing
<1>7. ev'[e] = row
  BY <1>1, <1>4 DEF Update
<1> HIDE DEF row
<1>8. /\ row.wa \in Progress => Taken(e)
      /\ row.wamid => Taken(e)
      /\ Answered(e) => row.email # "not_needed"
      /\ row.done => Taken(e) \/ row.email # "not_needed"
  BY <1>5, <1>6 DEF RowIsTrue, Answered
<1>9. CASE d.next = "idle"
  <2>1. proc'[p] = Idle /\ \A r \in Procs \ {p} : proc'[r] = proc[r]
    BY <1>1, <1>4, <1>9 DEF Stop
  <2> QED BY <1>4, <1>7, <1>8, <2>1, IdleIsTrue, WritingDropsNobody
<1>10. CASE d.next # "idle"
  <2>1. d.next \in Steps \ {"record"} /\ d.next \notin {"list", "apply", "write", "late", "post", "file"}
    BY <1>3, <1>10 DEF Steps
  <2>2. d.next = "complete" => Taken(e) \/ row.email # "not_needed"
    BY <1>3, <1>5, <1>6 DEF ProcessIsTrue
  <2> QED BY <1>4, <1>7, <1>8, <1>10, <2>1, <2>2, MovingDropsNobody
<1> QED
  BY <1>9, <1>10

\* The other steps of a worker, and those of the email.
LEMMA WorkerDropsNobody ==
  ASSUME Safe, NEW p \in Procs, NEW e \in Events, proc[p].e = e, NobodyIsDropped(e),
         ~customer[e].series,
         Recheck(p) \/ ClaimAttempt(p) \/ RecordWhatsApp(p) \/ SkipWhatsApp(p)
           \/ CheckEmail(p) \/ MarkEmail(p) \/ FileEmail(p)
  PROVE  NobodyIsDropped(e)'
<1>1. /\ ev[e] \in Row /\ ev \in [Events -> Row] /\ proc[p] \in Process
      /\ proc \in [Procs -> Process]
  BY HeldIsSound DEF Safe, TypeOK
<1>2. calls' = calls /\ reports' = reports
  BY DEF Recheck, ClaimAttempt, RecordWhatsApp, SkipWhatsApp, CheckEmail, MarkEmail, FileEmail, world
<1>3. ProcessIsTrue(proc[p], e) /\ RowIsTrue(e)
  BY DEF NobodyIsDropped
<1>4. ASSUME NEW step \in Steps \ {"record"}, GoTo(p, step), NEW new \in Row, ev'[e] = new,
             new.wa \in Progress => Taken(e), new.wamid => Taken(e), new.done = ev[e].done,
             new.email = ev[e].email \/ new.email # "not_needed",
             step \in {"list", "apply", "write", "late"} => Taken(e),
             step \in {"post", "file"} => new.email # "not_needed",
             step = "complete" => Taken(e) \/ new.email # "not_needed"
      PROVE  NobodyIsDropped(e)'
  <2>1. /\ Answered(e) => new.email # "not_needed"
        /\ new.done => Taken(e) \/ new.email # "not_needed"
    BY <1>3, <1>4 DEF RowIsTrue, Answered
  <2> QED BY <1>2, <1>4, <2>1, MovingDropsNobody
<1>5. \A m \in WhatsApp \ Progress :
        LET r == [ev[e] EXCEPT !.wa = m]
        IN  r \in Row /\ r.wa = m /\ r.wamid = ev[e].wamid /\ r.done = ev[e].done /\ r.email = ev[e].email
  BY <1>1 DEF Row, WhatsApp
<1>6. \A m \in Email :
        LET r == [ev[e] EXCEPT !.email = m]
        IN  r \in Row /\ r.wa = ev[e].wa /\ r.wamid = ev[e].wamid /\ r.done = ev[e].done /\ r.email = m
  BY <1>1 DEF Row
<1>7. (ev[e].wa \in Progress \/ ev[e].wamid) => Taken(e)
  BY <1>3 DEF RowIsTrue
<1>8. CASE Recheck(p)
  <2> DEFINE row == SkipBoth(ev[e])
  <2>1. row \in Row /\ row.wa = "skipped" /\ row.email = "skipped"
        /\ row.wamid = ev[e].wamid /\ row.done = ev[e].done
    BY <1>1 DEF SkipBoth, Row, WhatsApp, Email
  <2>2. \/ ev' = ev /\ \E step \in {"attempt", "skip"} : GoTo(p, step)
        \/ Update(e, row) /\ GoTo(p, "complete")
    BY <1>8 DEF Recheck
  <2> HIDE DEF row
  <2>3. CASE ev' = ev /\ \E step \in {"attempt", "skip"} : GoTo(p, step)
    <3>1. PICK step \in {"attempt", "skip"} : GoTo(p, step)
      BY <2>3
    <3>2. step \in Steps \ {"record"}
      BY DEF Steps
    <3> QED BY <1>1, <1>4, <1>7, <2>3, <3>1, <3>2
  <2>4. CASE Update(e, row) /\ GoTo(p, "complete")
    <3>1. ev'[e] = row /\ "complete" \in Steps \ {"record"} /\ row.wa \notin Progress
      BY <1>1, <2>1, <2>4 DEF Update, Steps, Progress
    <3> QED BY <1>4, <1>7, <2>1, <2>4, <3>1
  <2> QED BY <2>2, <2>3, <2>4
<1>9. CASE ClaimAttempt(p)
  <2> DEFINE row == [ev[e] EXCEPT !.attempted = TRUE]
  <2>1. row \in Row /\ row.wa = ev[e].wa /\ row.email = ev[e].email
        /\ row.wamid = ev[e].wamid /\ row.done = ev[e].done
    BY <1>1 DEF Row
  <2>2. (Update(e, row) /\ GoTo(p, "send")) \/ (ev' = ev /\ Stop(p))
    BY <1>9 DEF ClaimAttempt
  <2> HIDE DEF row
  <2>3. CASE Update(e, row) /\ GoTo(p, "send")
    <3>1. ev'[e] = row /\ "send" \in Steps \ {"record"}
      BY <1>1, <2>3 DEF Update, Steps
    <3> QED BY <1>4, <1>7, <2>1, <2>3, <3>1
  <2>4. CASE ev' = ev /\ Stop(p)
    <3>1. proc'[p] = Idle /\ \A r \in Procs \ {p} : proc'[r] = proc[r]
      BY <1>1, <2>4 DEF Stop
    <3> QED BY <1>2, <1>3, <2>4, <3>1, IdleIsTrue, WritingDropsNobody DEF RowIsTrue, Answered
  <2> QED BY <2>2, <2>3, <2>4
<1>10. CASE RecordWhatsApp(p)
  <2> DEFINE o == proc[p].outcome
             row == AnsweredRow(ev[e], o)
  <2>1. o \in {"accepted", "failed", "unknown"} /\ (o = "accepted" => Taken(e))
    BY <1>1, <1>3, <1>10 DEF RecordWhatsApp, At, Process, ProcessIsTrue
  <2>2. ev[e] \in Row /\ o \in WhatsApp
    BY <1>1, <2>1 DEF WhatsApp, Progress
  <2>3. Update(e, row)
    BY <1>10 DEF RecordWhatsApp, AnsweredRow
  <2>4. PICK step \in {"list", "skip", "email"} : GoTo(p, step) /\ (step = "list" => o = "accepted")
    BY <1>10 DEF RecordWhatsApp
  <2> HIDE DEF o
  <2>5. row \in Row /\ row.wa = o /\ row.wamid = (o = "accepted") /\ row.email = ev[e].email
        /\ row.done = ev[e].done
    BY <2>2, AnsweredIsARow
  <2> HIDE DEF row
  <2>6. /\ ev'[e] = row /\ step \in Steps \ {"record"}
        /\ row.wa \in Progress => Taken(e)
        /\ row.wamid => Taken(e)
    BY <1>1, <2>1, <2>3, <2>5 DEF Update, Steps, Progress
  <2> QED BY <1>4, <2>1, <2>4, <2>5, <2>6
<1>11. CASE SkipWhatsApp(p)
  <2> DEFINE row == [ev[e] EXCEPT !.wa = "skipped"]
  <2>1. "skipped" \in WhatsApp \ Progress /\ "email" \in Steps \ {"record"}
    BY DEF WhatsApp, Progress, Steps
  <2>2. row \in Row /\ row.wa = "skipped" /\ row.wamid = ev[e].wamid /\ row.done = ev[e].done
        /\ row.email = ev[e].email
    BY <1>5, <2>1
  <2>3. Update(e, row) /\ GoTo(p, "email")
    BY <1>11 DEF SkipWhatsApp
  <2> HIDE DEF row
  <2>4. ev'[e] = row
    BY <1>1, <2>2, <2>3 DEF Update
  <2> QED BY <1>4, <1>7, <2>1, <2>2, <2>3, <2>4
<1>12. CASE CheckEmail(p) \/ MarkEmail(p) \/ FileEmail(p)
  <2>1. \/ \E m \in Email \ {"not_needed"}, step \in {Return(p), "post"} :
             Update(e, [ev[e] EXCEPT !.email = m]) /\ GoTo(p, step)
        \/ ev' = ev /\ GoTo(p, "mark")
        \/ ev' = ev /\ GoTo(p, Return(p)) /\ proc[p].seen.email = "sent"
    BY <1>12 DEF CheckEmail, MarkEmail, FileEmail, Email
  <2>2. /\ Return(p) \in {"apply", "complete"}
        /\ Return(p) = "apply" => Taken(e)
    BY <1>3 DEF Return, ProcessIsTrue
  <2>3. "mark" \in Steps \ {"record"} /\ "post" \in Steps \ {"record"} /\ "apply" \in Steps \ {"record"}
        /\ "complete" \in Steps \ {"record"}
    BY DEF Steps
  <2> HIDE DEF Return
  <2>4. ASSUME NEW m \in Email \ {"not_needed"}, NEW step \in {Return(p), "post"},
               Update(e, [ev[e] EXCEPT !.email = m]), GoTo(p, step)
        PROVE  NobodyIsDropped(e)'
    <3> DEFINE row == [ev[e] EXCEPT !.email = m]
    <3>1. row \in Row /\ row.wa = ev[e].wa /\ row.wamid = ev[e].wamid /\ row.done = ev[e].done
          /\ row.email # "not_needed"
      BY <1>6
    <3>2. Update(e, row)
      BY <2>4
    <3> HIDE DEF row
    <3>3. ev'[e] = row /\ step \in Steps \ {"record"} /\ (step \in {"list", "apply", "write", "late"} => Taken(e))
      BY <1>1, <2>2, <2>3, <3>1, <3>2 DEF Update
    <3> QED BY <1>4, <1>7, <2>4, <3>1, <3>3
  <2>5. CASE ev' = ev /\ GoTo(p, "mark")
    BY <1>1, <1>4, <1>7, <2>3, <2>5
  <2>6. CASE ev' = ev /\ GoTo(p, Return(p)) /\ proc[p].seen.email = "sent"
    <3>1. Answered(e)
      BY <1>3, <2>6 DEF ProcessIsTrue
    <3> QED BY <1>1, <1>4, <1>7, <2>2, <2>3, <2>6, <3>1 DEF Answered
  <2> QED BY <2>1, <2>4, <2>5, <2>6
<1> QED
  BY <1>8, <1>9, <1>10, <1>11, <1>12

\* The calls of the providers: Meta says that it took a message only if it did.
LEMMA ProvidersDropNobody ==
  ASSUME Safe, NEW p \in Procs, NEW e \in Events, proc[p].e = e, NobodyIsDropped(e),
         SendWhatsApp(p) \/ PostEmail(p)
  PROVE  NobodyIsDropped(e)'
<1>1. /\ proc[p] \in Process /\ proc \in [Procs -> Process] /\ calls \in [Events -> Calls]
      /\ ProcessIsTrue(proc[p], e) /\ RowIsTrue(e)
  BY DEF Safe, TypeOK, Calls, NobodyIsDropped
<1>2. ev' = ev /\ reports' = reports
  BY DEF SendWhatsApp, PostEmail, world
<1>3. CASE SendWhatsApp(p)
  <2>1. PICK o \in {"accepted", "failed", "unknown"}, took \in BOOLEAN :
        /\ o = "accepted" => took
        /\ calls' = [calls EXCEPT ![proc[p].e].wa = @ + 1,
                                  ![proc[p].e].taken = @ \/ took]
        /\ proc' = [proc EXCEPT ![p].outcome = o, ![p].at = "record"]
    BY <1>3 DEF SendWhatsApp
  <2>2. calls'[e].taken = (calls[e].taken \/ took)
    BY <1>1, <2>1 DEF Calls
  <2>3. (Taken(e) => Taken(e)') /\ (took => Taken(e)')
    BY <2>2 DEF Taken
  <2>4. /\ proc'[p].at = "record" /\ proc'[p].outcome = o /\ proc'[p].seen = proc[p].seen
        /\ proc'[p].late = proc[p].late /\ \A r \in Procs \ {p} : proc'[r] = proc[r]
    BY <1>1, <2>1 DEF Process
  <2>5. ProcessIsTrue(proc[p], e)' /\ RowIsTrue(e)'
    BY <1>1, <1>2, <2>1, <2>3, <2>4 DEF ProcessIsTrue, RowIsTrue, Answered
  <2> QED BY <1>2, <2>3, <2>4, <2>5, OneStepDropsNobody DEF Answered
<1>4. CASE PostEmail(p)
  <2>1. PICK o \in {"accepted", "failed"} :
        /\ proc' = [proc EXCEPT ![p].outcome = o, ![p].at = "file"]
        /\ calls' = [calls EXCEPT ![proc[p].e].email = @ + 1]
    BY <1>4 DEF PostEmail
  <2>2. calls'[e].taken = calls[e].taken /\ proc[p].at = "post"
    BY <1>1, <1>4, <2>1 DEF Calls, PostEmail, At
  <2>3. Taken(e)' <=> Taken(e)
    BY <2>2 DEF Taken
  <2>4. /\ proc'[p].at = "file" /\ proc'[p].seen = proc[p].seen
        /\ proc'[p].late = proc[p].late /\ \A r \in Procs \ {p} : proc'[r] = proc[r]
    BY <1>1, <2>1 DEF Process
  <2>5. ProcessIsTrue(proc[p], e)' /\ RowIsTrue(e)'
    BY <1>1, <1>2, <2>2, <2>3, <2>4 DEF ProcessIsTrue, RowIsTrue, Answered
  <2> QED BY <1>2, <2>3, <2>4, <2>5, OneStepDropsNobody DEF Answered
<1> QED
  BY <1>3, <1>4

\* Applying receipts: there are some only of a message that Meta took.
LEMMA ReceiptsDropNobody ==
  ASSUME Safe, NEW p \in Procs, NEW e \in Events, proc[p].e = e, NobodyIsDropped(e),
         InsertReceipt(p) \/ ListReceipts(p) \/ ReadForReceipt(p) \/ WriteReceipt(p)
           \/ EndReceipts(p) \/ ClaimLateFallback(p)
  PROVE  NobodyIsDropped(e)'
<1>1. /\ proc[p] \in Process /\ proc \in [Procs -> Process] /\ ev \in [Events -> Row] /\ ev[e] \in Row
      /\ ProcessIsTrue(proc[p], e) /\ RowIsTrue(e) /\ proc[p].todo \subseteq DOMAIN reports[e]
      /\ reports[e] \in Seq(Reportable)
  BY HeldIsSound DEF Safe, TypeOK, NobodyIsDropped
<1>2. calls' = calls /\ reports' = reports
  BY DEF InsertReceipt, ListReceipts, ReadForReceipt, WriteReceipt, EndReceipts, ClaimLateFallback, world
<1>3. Taken(e)' <=> Taken(e)
  BY <1>2 DEF Taken
<1>4. Taken(e) \/ (InsertReceipt(p) /\ ~proc[p].seen.wamid)
  BY <1>1 DEF InsertReceipt, ListReceipts, ReadForReceipt, WriteReceipt, EndReceipts,
              ClaimLateFallback, At, ProcessIsTrue
\* Whatever the row and the process are next, as long as the email is not forgotten.
<1>5. ASSUME Taken(e), \A r \in Procs \ {p} : proc'[r] = proc[r],
             ev'[e].email = ev[e].email,
             \/ proc'[p] = Idle
             \/ /\ proc'[p].seen = proc[p].seen \/ proc'[p].seen.email = ev[e].email
                /\ proc'[p].at \notin {"post", "file"}
      PROVE  NobodyIsDropped(e)'
  <2>1. Answered(e)' <=> Answered(e)
    BY <1>5 DEF Answered
  <2>2. RowIsTrue(e)'
    BY <1>3, <1>5 DEF RowIsTrue
  <2>3. proc'[p] # Idle => ProcessIsTrue(proc[p], e)'
    BY <1>1, <1>3, <1>5, <2>1 DEF ProcessIsTrue, Answered
  <2>4. ProcessIsTrue(proc[p], e)'
    BY <2>3, IdleIsTrue
  <2> QED BY <1>3, <1>5, <2>1, <2>2, <2>4, OneStepDropsNobody
<1>6. CASE InsertReceipt(p)
  <2>1. ev' = ev /\ \A r \in Procs \ {p} : proc'[r] = proc[r]
    BY <1>1, <1>6 DEF InsertReceipt, GoTo, Stop
  <2>2. CASE proc[p].seen.wamid
    <3>1. proc'[p].seen = proc[p].seen /\ proc'[p].at = "list"
      BY <1>1, <1>6, <2>2 DEF InsertReceipt, GoTo, Process
    <3> QED BY <1>4, <1>5, <2>1, <2>2, <3>1
  <2>3. CASE ~proc[p].seen.wamid
    <3>1. proc'[p] = Idle
      BY <1>1, <1>6, <2>3 DEF InsertReceipt, Stop
    <3> QED BY <1>1, <1>2, <2>1, <3>1, IdleIsTrue, WritingDropsNobody DEF RowIsTrue, Answered
  <2> QED BY <2>2, <2>3
<1>7. CASE ListReceipts(p) \/ ReadForReceipt(p)
  <2>1. ev' = ev /\ Taken(e)
    BY <1>4, <1>7 DEF ListReceipts, ReadForReceipt, InsertReceipt, At
  <2>2. /\ \A r \in Procs \ {p} : proc'[r] = proc[r]
        /\ proc'[p].seen = proc[p].seen /\ proc'[p].at \in {"apply", "write"}
    BY <1>1, <1>7 DEF ListReceipts, ReadForReceipt, Process, At
  <2> QED BY <1>5, <2>1, <2>2
<1>8. CASE WriteReceipt(p)
  <2>1. PICK i \in Earliest(proc[p].todo) :
          /\ Update(e, [ev[e] EXCEPT !.wa = reports[e][i]])
          /\ proc' = [proc EXCEPT ![p].todo = @ \ {i},
                                  ![p].at = IF reports[e][i] = "failed" THEN "late" ELSE "apply"]
    BY <1>8 DEF WriteReceipt
  <2>2. Taken(e) /\ ev'[e].email = ev[e].email
    BY <1>1, <1>4, <1>8, <2>1 DEF WriteReceipt, InsertReceipt, At, Update, Row
  <2>3. /\ \A r \in Procs \ {p} : proc'[r] = proc[r]
        /\ proc'[p].seen = proc[p].seen /\ proc'[p].at \in {"apply", "late"}
    BY <1>1, <2>1 DEF Process
  <2> QED BY <1>5, <2>2, <2>3
<1>9. CASE EndReceipts(p)
  <2>1. ev' = ev /\ Taken(e) /\ \A r \in Procs \ {p} : proc'[r] = proc[r]
    BY <1>1, <1>4, <1>9 DEF EndReceipts, InsertReceipt, At, GoTo, Stop
  <2>2. proc'[p] = Idle \/ (proc'[p].seen = proc[p].seen /\ proc'[p].at = "complete")
    BY <1>1, <1>9 DEF EndReceipts, GoTo, Stop, Process
  <2> QED BY <1>5, <2>1, <2>2
<1>10. CASE ClaimLateFallback(p)
  <2>1. Taken(e) /\ ev'[e].email = ev[e].email
    BY <1>1, <1>4, <1>10 DEF ClaimLateFallback, InsertReceipt, At, Update, Row
  <2>2. /\ \A r \in Procs \ {p} : proc'[r] = proc[r]
        /\ proc'[p].seen = proc[p].seen \/ proc'[p].seen.email = ev[e].email
        /\ proc'[p].at \in {"email", "apply"}
    BY <1>1, <1>10 DEF ClaimLateFallback, GoTo, Process, Row
  <2> QED BY <1>5, <2>1, <2>2
<1> QED
  BY <1>6, <1>7, <1>8, <1>9, <1>10

LEMMA CompletingDropsNobody ==
  ASSUME Safe, NEW p \in Procs, NEW e \in Events, proc[p].e = e, NobodyIsDropped(e), Complete(p)
  PROVE  NobodyIsDropped(e)'
<1> DEFINE row == [ev[e] EXCEPT !.done = TRUE]
<1>1. /\ ev \in [Events -> Row] /\ proc \in [Procs -> Process] /\ ev[e] \in Row
      /\ ProcessIsTrue(proc[p], e) /\ RowIsTrue(e)
  BY DEF Safe, TypeOK, NobodyIsDropped
<1>2. row.wa = ev[e].wa /\ row.wamid = ev[e].wamid /\ row.email = ev[e].email
  BY <1>1 DEF Row
<1>3. /\ proc[p].at = "complete" /\ ev'[e] = row /\ calls' = calls /\ reports' = reports
      /\ proc'[p] = Idle /\ \A r \in Procs \ {p} : proc'[r] = proc[r]
  BY <1>1 DEF Complete, At, Update, Stop, world
<1> HIDE DEF row, Idle
<1>4. Taken(e) \/ Answered(e)
  BY <1>1, <1>3 DEF ProcessIsTrue
<1>5. /\ row.wa \in Progress => Taken(e)
      /\ row.wamid => Taken(e)
      /\ Answered(e) => row.email # "not_needed"
      /\ row.done => Taken(e) \/ row.email # "not_needed"
  BY <1>1, <1>2, <1>4 DEF RowIsTrue, Answered
<1> QED
  BY <1>3, <1>5, IdleIsTrue, WritingDropsNobody

\* Only the lease changes when an event is claimed or its lease runs out.
LEMMA LeasesAreNoNews ==
  ASSUME Safe, NEW e \in Events, NEW f \in Events,
         ev' = ev \/ \E l \in {"held", "expired"} : Update(f, [ev[f] EXCEPT !.lease = l])
  PROVE  /\ ev'[e].wa = ev[e].wa /\ ev'[e].wamid = ev[e].wamid
         /\ ev'[e].email = ev[e].email /\ ev'[e].done = ev[e].done
<1>1. ev \in [Events -> Row] /\ ev[f] \in Row
  BY DEF Safe, TypeOK
<1>2. ASSUME NEW l \in {"held", "expired"}, Update(f, [ev[f] EXCEPT !.lease = l])
      PROVE  /\ ev'[e].wa = ev[e].wa /\ ev'[e].wamid = ev[e].wamid
             /\ ev'[e].email = ev[e].email /\ ev'[e].done = ev[e].done
  BY <1>1, <1>2 DEF Update, Row
<1> QED
  BY <1>2

\* Claims, calls of the webhook, lost processes and the world.
LEMMA BeginningDropsNobody ==
  ASSUME Safe, NEW e \in Events, NobodyIsDropped(e), NEW p \in Procs, NEW f \in Events,
         Claim(p, f) \/ Webhook(p, f) \/ Crash(p)
  PROVE  NobodyIsDropped(e)'
<1>1. /\ ev \in [Events -> Row] /\ proc \in [Procs -> Process] /\ ev[f] \in Row /\ RowIsTrue(e)
      /\ Idle \in Process /\ ~Idle.late
  BY IdleIsSound DEF Safe, TypeOK, NobodyIsDropped, Idle
<1>2. calls' = calls /\ reports' = reports
  BY DEF Claim, Webhook, Crash, world
<1> HIDE DEF Idle
<1>3. /\ ev'[e].wa = ev[e].wa /\ ev'[e].wamid = ev[e].wamid /\ ev'[e].email = ev[e].email
      /\ ev'[e].done = ev[e].done
  <2>1. ev' = ev \/ Update(f, [ev[f] EXCEPT !.lease = "held"])
    BY DEF Claim, Webhook, Crash
  <2> QED BY <2>1, LeasesAreNoNews
<1>4. \A r \in Procs \ {p} : proc'[r] = proc[r]
  BY <1>1 DEF Claim, Webhook, Crash, Stop
<1>5. proc'[p].e = e => ProcessIsTrue(proc[p], e)'
  <2>1. CASE Crash(p)
    BY <1>1, <2>1, IdleIsTrue DEF Crash, Stop
  <2>2. ASSUME ~Crash(p), proc'[p].e = e
        PROVE  /\ f = e /\ proc'[p].at \in {"decide", "insert"} /\ ~proc'[p].late
               /\ proc'[p].seen.wa = ev[e].wa /\ proc'[p].seen.wamid = ev[e].wamid
               /\ proc'[p].seen.email = ev[e].email
    <3>1. CASE Claim(p, f)
      <4> DEFINE row == [ev[f] EXCEPT !.lease = "held"]
      <4>1. proc' = [proc EXCEPT ![p] = [Idle EXCEPT !.at = "decide", !.role = "worker",
                                                    !.e = f, !.seen = row]]
        BY <3>1 DEF Claim
      <4>2. row.wa = ev[f].wa /\ row.wamid = ev[f].wamid /\ row.email = ev[f].email
        BY <1>1 DEF Row
      <4> HIDE DEF row
      <4>3. proc'[p].e = f /\ proc'[p].at = "decide" /\ proc'[p].seen = row /\ ~proc'[p].late
        BY <1>1, <4>1 DEF Process
      <4> QED BY <2>2, <4>2, <4>3
    <3>2. CASE Webhook(p, f)
      <4>1. PICK i \in DOMAIN reports[f] :
              proc' = [proc EXCEPT ![p] = [Idle EXCEPT !.at = "insert", !.role = "webhook",
                                                      !.e = f, !.seen = ev[f], !.todo = {i}]]
        BY <3>2 DEF Webhook
      <4>2. proc'[p].e = f /\ proc'[p].at = "insert" /\ proc'[p].seen = ev[f] /\ ~proc'[p].late
        BY <1>1, <4>1 DEF Process
      <4> QED BY <2>2, <4>2
    <3> QED BY <2>2, <3>1, <3>2
  <2> QED BY <1>1, <1>2, <1>3, <2>1, <2>2 DEF ProcessIsTrue, RowIsTrue, Taken, Answered
<1>6. RowIsTrue(e)'
  BY <1>1, <1>2, <1>3 DEF RowIsTrue, Taken, Answered
<1> QED
  BY <1>2, <1>3, <1>4, <1>5, <1>6, OneStepDropsNobody DEF Taken, Answered

LEMMA WorldDropsNobody ==
  ASSUME Safe, NEW e \in Events, NobodyIsDropped(e), NEW f \in Events,
         \/ Supersede(f) \/ Later(f) \/ LeaseExpires(f)
         \/ \E status \in Reportable : Report(f, status)
         \/ UNCHANGED vars
  PROVE  NobodyIsDropped(e)'
<1>1. /\ ev \in [Events -> Row] /\ ev[f] \in Row /\ reports \in [Events -> Seq(Reportable)]
      /\ RowIsTrue(e)
  BY DEF Safe, TypeOK, NobodyIsDropped
<1>2. calls' = calls /\ proc' = proc
  BY DEF Supersede, Later, LeaseExpires, Report, vars
<1>3. /\ ev'[e].wa = ev[e].wa /\ ev'[e].wamid = ev[e].wamid /\ ev'[e].email = ev[e].email
      /\ ev'[e].done = ev[e].done
  <2>1. ev' = ev \/ Update(f, [ev[f] EXCEPT !.lease = "expired"])
    BY DEF Supersede, Later, LeaseExpires, Report, vars
  <2> QED BY <2>1, LeasesAreNoNews
<1>4. reports'[e] # <<>> => Taken(e)
  <2>1. CASE reports'[e] = reports[e]
    BY <1>1, <2>1 DEF RowIsTrue
  <2>2. CASE reports'[e] # reports[e]
    <3>1. calls[e].taken
      BY <1>1, <2>2 DEF Supersede, Later, LeaseExpires, Report, vars, world
    <3> QED BY <3>1 DEF Taken
  <2> QED BY <2>1, <2>2
<1>5. RowIsTrue(e)'
  BY <1>1, <1>2, <1>3, <1>4 DEF RowIsTrue, Taken, Answered
<1>6. \A p \in Procs : proc'[p].e = e => ProcessIsTrue(proc[p], e)'
  BY <1>2, <1>3 DEF NobodyIsDropped, ProcessIsTrue, Taken, Answered
<1> QED
  BY <1>5, <1>6 DEF NobodyIsDropped

LEMMA StepDropsNobody ==
  ASSUME Safe, [Next]_vars, NEW e \in Events, NobodyIsDropped(e), ~customer[e].series
  PROVE  NobodyIsDropped(e)'
<1>1. ASSUME NEW p \in Procs, Continue(p) PROVE NobodyIsDropped(e)'
  <2>1. CASE proc[p].e = e
    BY <1>1, <2>1, DecisionDropsNobody, WorkerDropsNobody, ProvidersDropNobody,
       ReceiptsDropNobody, CompletingDropsNobody DEF Continue
  <2>2. CASE proc[p].e # e
    <3>1. /\ ev'[e] = ev[e] /\ calls'[e] = calls[e]
          /\ \A r \in Procs \ {p} : proc'[r] = proc[r]
          /\ proc'[p].e = proc[p].e \/ proc'[p] = Idle
      BY <1>1, <2>2, OthersAreLeftAlone
    <3>2. proc'[p].e = e => proc'[p] = Idle
      BY <2>2, <3>1, SMTT(40)
    <3>3. reports' = reports
      BY <1>1 DEF Continue, Decide, Recheck, ClaimAttempt, SendWhatsApp, RecordWhatsApp,
         SkipWhatsApp, CheckEmail, MarkEmail, PostEmail, FileEmail, InsertReceipt, ListReceipts,
         ReadForReceipt, WriteReceipt, EndReceipts, ClaimLateFallback, Complete, world
    <3>4. RowIsTrue(e)' /\ (Taken(e) => Taken(e)') /\ (Answered(e) => Answered(e)')
      BY <3>1, <3>3 DEF NobodyIsDropped, RowIsTrue, Taken, Answered
    <3> QED BY <3>1, <3>2, <3>4, IdleIsTrue, OneStepDropsNobody
  <2> QED BY <2>1, <2>2
<1>2. ASSUME NEW p \in Procs, ClaimNext(p) PROVE NobodyIsDropped(e)'
  BY <1>2, BeginningDropsNobody DEF ClaimNext
<1>3. ASSUME NEW p \in Procs, NEW f \in Events, ClaimById(p, f) \/ Webhook(p, f)
      PROVE  NobodyIsDropped(e)'
  BY <1>3, BeginningDropsNobody DEF ClaimById
<1>4. ASSUME NEW p \in Procs, Crash(p) PROVE NobodyIsDropped(e)'
  BY <1>4, BeginningDropsNobody
<1> QED
  BY <1>1, <1>2, <1>3, <1>4, WorldDropsNobody DEF Next

\* Nobody who has an appointment is dropped between the two channels: for any number of
\* workers, with any number of them lost, whether their leases outlast them or not.  An
\* event is closed by whoever knows that Meta took its message or has settled its email;
\* that its worker is alone is not needed.
THEOREM NoAppointmentIsForgotten == Spec => []AppointmentsAreNotForgotten
<1> DEFINE Inv == \A e \in Events : ~customer[e].series => NobodyIsDropped(e)
<1>1. Init => Inv
  <2> SUFFICES ASSUME Init, NEW e \in Events PROVE NobodyIsDropped(e)
    OBVIOUS
  <2>1. \A p \in Procs : /\ proc[p].at = "idle" /\ ~proc[p].late /\ proc[p].seen.wa = "pending"
                         /\ ~proc[p].seen.wamid /\ proc[p].seen.email = "not_needed"
    BY DEF Init, Idle, NewRow
  <2>2. ev[e].wa = "pending" /\ ~ev[e].wamid /\ ~ev[e].done /\ reports[e] = <<>>
    BY DEF Init, NewRow
  <2> QED BY <2>1, <2>2 DEF NobodyIsDropped, RowIsTrue, ProcessIsTrue, Progress
<1>2. Safe /\ Inv /\ [Next]_vars => Inv'
  <2> SUFFICES ASSUME Safe, Inv, [Next]_vars, NEW e \in Events, ~customer'[e].series
               PROVE  NobodyIsDropped(e)'
    BY SMTT(40)
  <2>1. customer' = customer
    BY ZenonT(60) DEF Next, Continue, Decide, Recheck, ClaimAttempt, SendWhatsApp, RecordWhatsApp,
       SkipWhatsApp, CheckEmail, MarkEmail, PostEmail, FileEmail, InsertReceipt, ListReceipts,
       ReadForReceipt, WriteReceipt, EndReceipts, ClaimLateFallback, Complete, world, ClaimNext,
       ClaimById, Claim, Webhook, Crash, Supersede, Later, LeaseExpires, Report, vars
  <2> QED BY <2>1, StepDropsNobody
<1>3. Inv => AppointmentsAreNotForgotten
  BY DEF NobodyIsDropped, RowIsTrue, Taken, Answered, AppointmentsAreNotForgotten, Reached
<1> QED
  BY <1>1, <1>2, <1>3, InitIsSafe, StepIsSafe, PTL DEF Spec

-----------------------------------------------------------------------------
(***************************************************************************)
(* A failure that Meta reported is followed up.                            *)
(***************************************************************************)
\* A process that is about to claim the late fallback of e, and one that claimed it and
\* has not decided on the email yet.
Claiming(p, e) == proc[p].e = e /\ proc[p].at = "late"
Falling(p, e) == proc[p].e = e /\ proc[p].late /\ proc[p].at \in {"email", "mark"}

\* Between the failure and the email there is always somebody.
IsFollowedUp(e) ==
    /\ ev[e].fallback => Answered(e) \/ \E p \in Procs : Falling(p, e)
    /\ ev[e].wamid /\ ev[e].wa = "failed" =>
         Answered(e) \/ ev[e].fallback \/ \E p \in Procs : Claiming(p, e)
    /\ \A p \in Procs : Falling(p, e) /\ proc[p].at = "email" => proc[p].seen.email # "sent"
    /\ \A p \in Procs : proc[p].e = e /\ proc[p].at \in Before => ~proc[p].late

\* A step of a process that neither reports a failure nor ends a follow-up.
LEMMA OtherStepsFollowUp ==
  ASSUME NEW e \in Events, IsFollowedUp(e), NEW p \in Procs,
         \A r \in Procs \ {p} : proc'[r] = proc[r],
         ~Claiming(p, e), ~Falling(p, e) \/ ev'[e].email # "not_needed",
         proc'[p].e = e /\ proc'[p].at \in Before \cup {"email"} => ~proc'[p].late,
         ev'[e].email = ev[e].email \/ ev'[e].email # "not_needed",
         ev'[e].fallback = ev[e].fallback,
         ev'[e].wamid /\ ev'[e].wa = "failed" => ev[e].wamid /\ ev[e].wa = "failed"
  PROVE  IsFollowedUp(e)'
<1>1. Answered(e) => Answered(e)'
  BY DEF Answered
<1>2. \A r \in Procs : Claiming(r, e) => Claiming(r, e)'
  BY DEF Claiming
<1>3. \A r \in Procs : Falling(r, e) => Answered(e)' \/ Falling(r, e)'
  BY DEF Falling, Answered
<1>4. \A r \in Procs : Falling(r, e)' /\ proc'[r].at = "email" => proc'[r].seen.email # "sent"
  BY DEF IsFollowedUp, Falling
<1>5. \A r \in Procs : proc'[r].e = e /\ proc'[r].at \in Before => ~proc'[r].late
  BY DEF IsFollowedUp
<1> QED
  BY <1>1, <1>2, <1>3, <1>4, <1>5 DEF IsFollowedUp

\* The steps of a worker that decides and sends.
LEMMA WorkersFollowUp ==
  ASSUME Safe, NEW p \in Procs, NEW e \in Events, proc[p].e = e, IsFollowedUp(e),
         Decide(p) \/ Recheck(p) \/ ClaimAttempt(p) \/ SendWhatsApp(p) \/ RecordWhatsApp(p)
           \/ SkipWhatsApp(p) \/ Complete(p)
  PROVE  IsFollowedUp(e)'
<1>1. /\ ev[e] \in Row /\ ev \in [Events -> Row] /\ proc[p] \in Process
      /\ proc \in [Procs -> Process] /\ proc[p].seen \in Row
      /\ Idle.at = "idle"
  BY HeldIsSound, IdleIsSound DEF Safe, TypeOK
<1>2. /\ proc[p].at \in {"decide", "recheck", "attempt", "send", "record", "skip", "complete"}
      /\ \A r \in Procs \ {p} : proc'[r] = proc[r]
  BY <1>1 DEF Decide, Recheck, ClaimAttempt, SendWhatsApp, RecordWhatsApp, SkipWhatsApp, Complete,
     At, GoTo, Stop
<1>3. ~Claiming(p, e) /\ ~Falling(p, e)
  BY <1>2 DEF Claiming, Falling
<1>4. \/ /\ ev'[e].email = ev[e].email \/ ev'[e].email # "not_needed"
         /\ ev'[e].fallback = ev[e].fallback
         /\ ev'[e].wamid /\ ev'[e].wa = "failed" => ev[e].wamid /\ ev[e].wa = "failed"
  <2>1. CASE Decide(p)
    <3> DEFINE d == Decision(customer[e], proc[p].seen, current[e], Deliverable(e))
               row == Settled(ev[e], d.set)
    <3>1. customer[e] \in Customer /\ current[e] \in BOOLEAN /\ Deliverable(e) \in BOOLEAN
      BY <1>1, OutboxAssumption DEF Safe, TypeOK, Deliverable
    <3>2. d.set \in Left
      BY <1>1, <3>1, DecisionGoesOn
    <3>3. Update(e, row)
      BY <2>1 DEF Decide
    <3> HIDE DEF d
    <3>4. /\ row.email \in {ev[e].email, "skipped"} /\ row.fallback = ev[e].fallback
          /\ row.wamid = ev[e].wamid /\ (row.wa = "failed" => ev[e].wa = "failed")
      BY <1>1, <3>2 DEF Settled, SkipBoth, Row, Left
    <3>5. ev'[e] = row
      BY <1>1, <3>3 DEF Update
    <3> HIDE DEF row
    <3> QED BY <3>4, <3>5
  <2>2. CASE SendWhatsApp(p)
    BY <2>2 DEF SendWhatsApp
  <2>3. CASE Recheck(p)
    <3>1. ev' = ev \/ ev'[e] = SkipBoth(ev[e])
      BY <1>1, <2>3 DEF Recheck, Update
    <3> QED BY <1>1, <3>1 DEF SkipBoth, Row
  <2>6. CASE ClaimAttempt(p)
    <3>1. ev' = ev \/ ev'[e] = [ev[e] EXCEPT !.attempted = TRUE]
      BY <1>1, <2>6 DEF ClaimAttempt, Update
    <3> QED BY <1>1, <3>1 DEF Row
  <2>5. CASE SkipWhatsApp(p) \/ Complete(p)
    BY <1>1, <2>5 DEF SkipWhatsApp, Complete, Update, Row
  <2>4. CASE RecordWhatsApp(p)
    BY <1>1, <2>4 DEF RecordWhatsApp, Update, Row
  <2> QED BY <2>1, <2>2, <2>3, <2>4, <2>5, <2>6
<1>5. proc'[p].at \in Before \cup {"email"} => ~proc'[p].late
  <2>1. proc'[p] = Idle \/ proc'[p].late = proc[p].late
    BY <1>1 DEF Decide, Recheck, ClaimAttempt, SendWhatsApp, RecordWhatsApp, SkipWhatsApp, Complete,
       GoTo, Stop, Process
  <2>2. proc[p].at \in Before => ~proc[p].late
    BY DEF IsFollowedUp
  <2>3. proc[p].at = "complete" => proc'[p].at = "idle"
    BY <1>1 DEF Decide, Recheck, ClaimAttempt, SendWhatsApp, RecordWhatsApp, SkipWhatsApp, Complete,
       At, Stop
  <2> HIDE DEF Idle
  <2> QED BY <1>1, <1>2, <2>1, <2>2, <2>3 DEF Before
<1> QED
  BY <1>2, <1>3, <1>4, <1>5, OtherStepsFollowUp

\* The steps of the email, which is what a follow-up is.
LEMMA TheEmailFollowsUp ==
  ASSUME Safe, NEW p \in Procs, NEW e \in Events, proc[p].e = e, IsFollowedUp(e),
         CheckEmail(p) \/ MarkEmail(p) \/ PostEmail(p) \/ FileEmail(p)
  PROVE  IsFollowedUp(e)'
<1>1. /\ ev[e] \in Row /\ ev \in [Events -> Row] /\ proc[p] \in Process
      /\ proc \in [Procs -> Process]
  BY HeldIsSound DEF Safe, TypeOK
<1>2. /\ proc[p].at \in {"email", "mark", "post", "file"}
      /\ \A r \in Procs \ {p} : proc'[r] = proc[r]
      /\ proc'[p].late = proc[p].late /\ proc'[p].e = e
  BY <1>1 DEF CheckEmail, MarkEmail, PostEmail, FileEmail, At, GoTo, Process
<1>3. /\ ev'[e].wa = ev[e].wa /\ ev'[e].wamid = ev[e].wamid /\ ev'[e].fallback = ev[e].fallback
      /\ ev'[e].email = ev[e].email \/ ev'[e].email # "not_needed"
  BY <1>1 DEF CheckEmail, MarkEmail, PostEmail, FileEmail, Update, Row
<1>4. proc'[p].at \in {"apply", "complete", "mark", "post", "file"}
  BY <1>1 DEF CheckEmail, MarkEmail, PostEmail, FileEmail, GoTo, Return, Process
<1>5. CASE proc'[p].at = "mark"
  <2>1. /\ Answered(e) <=> Answered(e)'
        /\ \A r \in Procs : (Claiming(r, e) <=> Claiming(r, e)')
        /\ \A r \in Procs : (Falling(r, e) => Falling(r, e)')
    <3>1. ev' = ev /\ proc[p].at = "email"
      BY <1>1, <1>2, <1>5 DEF CheckEmail, MarkEmail, PostEmail, FileEmail, GoTo, Return, Process, At
    <3> QED BY <1>2, <1>5, <3>1 DEF Answered, Claiming, Falling
  <2>2. \A r \in Procs : Falling(r, e)' /\ proc'[r].at = "email" => proc'[r].seen.email # "sent"
    BY <1>2, <1>5 DEF IsFollowedUp, Falling
  <2>3. \A r \in Procs : proc'[r].e = e /\ proc'[r].at \in Before => ~proc'[r].late
    BY <1>2, <1>5 DEF IsFollowedUp, Before
  <2> QED BY <1>3, <2>1, <2>2, <2>3 DEF IsFollowedUp
<1>6. CASE proc'[p].at # "mark"
  <2>1. ~Falling(p, e) \/ ev'[e].email # "not_needed"
    BY <1>1, <1>6 DEF CheckEmail, MarkEmail, PostEmail, FileEmail, At, GoTo, Update, Falling,
       IsFollowedUp, Row, Process
  <2>2. ~Claiming(p, e) /\ proc'[p].at \notin Before \cup {"email"}
    BY <1>2, <1>4 DEF Claiming, Before
  <2> QED BY <1>2, <1>3, <2>1, <2>2, OtherStepsFollowUp
<1> QED
  BY <1>5, <1>6

\* Receipts: a failure is written by a process that goes on to claim the follow-up.
LEMMA ReceiptsFollowUp ==
  ASSUME Safe, NEW p \in Procs, NEW e \in Events, proc[p].e = e, IsFollowedUp(e),
         InsertReceipt(p) \/ ListReceipts(p) \/ ReadForReceipt(p) \/ WriteReceipt(p)
           \/ EndReceipts(p)
  PROVE  IsFollowedUp(e)'
<1>1. /\ ev[e] \in Row /\ ev \in [Events -> Row] /\ proc[p] \in Process
      /\ proc \in [Procs -> Process] /\ Idle.at = "idle"
  BY HeldIsSound, IdleIsSound DEF Safe, TypeOK
<1>2. CASE WriteReceipt(p)
  <2>1. PICK i \in Earliest(proc[p].todo) :
          /\ Update(e, [ev[e] EXCEPT !.wa = reports[e][i]])
          /\ proc' = [proc EXCEPT ![p].todo = @ \ {i},
                                  ![p].at = IF reports[e][i] = "failed" THEN "late" ELSE "apply"]
    BY <1>2 DEF WriteReceipt
  <2>2. /\ ev'[e].wa = reports[e][i] /\ ev'[e].wamid = ev[e].wamid
        /\ ev'[e].fallback = ev[e].fallback /\ ev'[e].email = ev[e].email
    BY <1>1, <2>1 DEF Update, Row
  <2>3. /\ proc'[p].at = IF reports[e][i] = "failed" THEN "late" ELSE "apply"
        /\ proc'[p].e = e /\ proc[p].at = "write" /\ \A r \in Procs \ {p} : proc'[r] = proc[r]
    BY <1>1, <1>2, <2>1 DEF Process, WriteReceipt, At
  <2>4. CASE reports[e][i] # "failed"
    <3>1. ~Claiming(p, e) /\ ~Falling(p, e) /\ proc'[p].at \notin Before \cup {"email"}
      BY <2>3, <2>4 DEF Claiming, Falling, Before
    <3> QED BY <2>2, <2>3, <2>4, <3>1, OtherStepsFollowUp
  <2>5. CASE reports[e][i] = "failed"
    <3>1. Claiming(p, e)' /\ ~Falling(p, e)
      BY <2>3, <2>5 DEF Claiming, Falling
    <3>2. \A r \in Procs : Falling(r, e)' => r # p /\ proc'[r] = proc[r] /\ Falling(r, e)
      BY <2>3, <2>5 DEF Falling
    <3>3. \A r \in Procs : Falling(r, e) => Falling(r, e)'
      BY <2>3, <3>1 DEF Falling
    <3>4. \A r \in Procs : proc'[r].e = e /\ proc'[r].at \in Before => ~proc'[r].late
      BY <2>3, <2>5 DEF IsFollowedUp, Before
    <3>5. Answered(e) <=> Answered(e)'
      BY <2>2 DEF Answered
    <3> QED BY <2>2, <3>1, <3>2, <3>3, <3>4, <3>5 DEF IsFollowedUp
  <2> QED BY <2>4, <2>5
<1>3. CASE InsertReceipt(p) \/ ListReceipts(p) \/ ReadForReceipt(p) \/ EndReceipts(p)
  <2>1. ev' = ev /\ proc[p].at \in {"insert", "list", "apply"} /\ \A r \in Procs \ {p} : proc'[r] = proc[r]
    BY <1>1, <1>3 DEF InsertReceipt, ListReceipts, ReadForReceipt, EndReceipts, At, GoTo, Stop
  <2>2. proc'[p].at \in {"idle", "list", "apply", "write", "complete"}
    BY <1>1, <1>3 DEF InsertReceipt, ListReceipts, ReadForReceipt, EndReceipts, At, GoTo, Stop, Process
  <2>3. ~Claiming(p, e) /\ ~Falling(p, e) /\ proc'[p].at \notin Before \cup {"email"}
    BY <2>1, <2>2 DEF Claiming, Falling, Before
  <2> QED BY <2>1, <2>3, OtherStepsFollowUp
<1> QED
  BY <1>2, <1>3

\* The claim itself, which fails only if there is nothing to follow up any more.
LEMMA ClaimingFollowsUp ==
  ASSUME Safe, NEW p \in Procs, NEW e \in Events, proc[p].e = e, IsFollowedUp(e),
         ClaimLateFallback(p)
  PROVE  IsFollowedUp(e)'
<1>1. /\ ev[e] \in Row /\ ev \in [Events -> Row] /\ proc[p] \in Process
      /\ proc \in [Procs -> Process] /\ proc[p].at = "late"
  BY HeldIsSound DEF Safe, TypeOK, ClaimLateFallback, At
<1>2. ~Falling(p, e)
  BY <1>1 DEF Falling
<1>3. CASE LateClaim(ev[e])
  <2> DEFINE row == [ev[e] EXCEPT !.fallback = TRUE]
  <2>1. Update(e, row) /\ proc' = [proc EXCEPT ![p].seen = row, ![p].late = TRUE, ![p].at = "email"]
    BY <1>3 DEF ClaimLateFallback
  <2>2. row.fallback /\ row.email = ev[e].email /\ row.email # "sent"
    BY <1>1, <1>3 DEF LateClaim, Row
  <2>3. ev'[e] = row
    BY <1>1, <2>1 DEF Update
  <2> HIDE DEF row
  <2>4. /\ proc'[p].at = "email" /\ proc'[p].e = e /\ proc'[p].late /\ proc'[p].seen = row
        /\ \A r \in Procs \ {p} : proc'[r] = proc[r]
    BY <1>1, <2>1 DEF Process
  <2>5. Falling(p, e)' /\ ev'[e].fallback
    BY <2>2, <2>3, <2>4 DEF Falling
  <2>6. \A r \in Procs : Falling(r, e)' /\ proc'[r].at = "email" => proc'[r].seen.email # "sent"
    BY <2>2, <2>4 DEF IsFollowedUp, Falling
  <2>7. \A r \in Procs : proc'[r].e = e /\ proc'[r].at \in Before => ~proc'[r].late
    BY <2>4 DEF IsFollowedUp, Before
  <2> QED BY <2>5, <2>6, <2>7 DEF IsFollowedUp
<1>4. CASE ~LateClaim(ev[e])
  <2>1. ev' = ev /\ GoTo(p, "apply")
    BY <1>4 DEF ClaimLateFallback
  <2>2. proc'[p].at = "apply" /\ \A r \in Procs \ {p} : proc'[r] = proc[r]
    BY <1>1, <2>1 DEF GoTo, Process
  <2>3. /\ \A r \in Procs : Falling(r, e) <=> Falling(r, e)'
        /\ Answered(e) <=> Answered(e)'
    BY <1>2, <2>1, <2>2 DEF Falling, Answered
  <2>4. ev[e].wamid /\ ev[e].wa = "failed" => Answered(e) \/ ev[e].fallback
    BY <1>4 DEF LateClaim, Answered
  <2>5. \A r \in Procs : Falling(r, e)' /\ proc'[r].at = "email" => proc'[r].seen.email # "sent"
    BY <2>2 DEF IsFollowedUp, Falling
  <2>6. \A r \in Procs : proc'[r].e = e /\ proc'[r].at \in Before => ~proc'[r].late
    BY <2>2 DEF IsFollowedUp, Before
  <2> QED BY <2>1, <2>3, <2>4, <2>5, <2>6 DEF IsFollowedUp
<1> QED
  BY <1>3, <1>4

\* Who begins has nothing to follow up, and time follows nothing up.
LEMMA BeginningFollowsUp ==
  ASSUME Safe, NEW p \in Procs, NEW f \in Events, NEW e \in Events, IsFollowedUp(e),
         proc[p].at = "idle", Claim(p, f) \/ Webhook(p, f)
  PROVE  IsFollowedUp(e)'
<1>1. /\ ev \in [Events -> Row] /\ proc \in [Procs -> Process] /\ ev[f] \in Row
      /\ Idle \in Process /\ ~Idle.late
  BY IdleIsSound DEF Safe, TypeOK, Idle
<1>2. /\ ev'[e].wa = ev[e].wa /\ ev'[e].wamid = ev[e].wamid /\ ev'[e].email = ev[e].email
      /\ ev'[e].fallback = ev[e].fallback
  <2>1. ev' = ev \/ Update(f, [ev[f] EXCEPT !.lease = "held"])
    BY DEF Claim, Webhook
  <2> QED BY <1>1, <2>1 DEF Update, Row
<1> HIDE DEF Idle
<1>3. /\ \A r \in Procs \ {p} : proc'[r] = proc[r]
      /\ ~proc'[p].late
  <2>1. CASE Claim(p, f)
    <3> DEFINE row == [ev[f] EXCEPT !.lease = "held"]
    <3>1. proc' = [proc EXCEPT ![p] = [Idle EXCEPT !.at = "decide", !.role = "worker",
                                                  !.e = f, !.seen = row]]
      BY <2>1 DEF Claim
    <3> HIDE DEF row
    <3> QED BY <1>1, <3>1 DEF Process
  <2>2. CASE Webhook(p, f)
    <3>1. PICK i \in DOMAIN reports[f] :
            proc' = [proc EXCEPT ![p] = [Idle EXCEPT !.at = "insert", !.role = "webhook",
                                                    !.e = f, !.seen = ev[f], !.todo = {i}]]
      BY <2>2 DEF Webhook
    <3> QED BY <1>1, <3>1 DEF Process
  <2> QED BY <2>1, <2>2
<1>4. ~Claiming(p, e) /\ ~Falling(p, e)
  BY DEF Claiming, Falling
<1> QED
  BY <1>2, <1>3, <1>4, OtherStepsFollowUp

\* A step that leaves the event and who is at work on it as they are.
LEMMA ElsewhereFollowsUp ==
  ASSUME NEW e \in Events, IsFollowedUp(e),
         ev'[e].wa = ev[e].wa, ev'[e].wamid = ev[e].wamid, ev'[e].email = ev[e].email,
         ev'[e].fallback = ev[e].fallback,
         \A r \in Procs : \/ proc'[r] = proc[r]
                          \/ /\ proc[r].e # e
                             /\ proc'[r].e # e \/ proc'[r].at = "idle"
  PROVE  IsFollowedUp(e)'
<1>1. \A r \in Procs : /\ Claiming(r, e) => Claiming(r, e)'
                       /\ Falling(r, e) <=> Falling(r, e)'
  BY DEF Claiming, Falling
<1>2. Answered(e) <=> Answered(e)'
  BY DEF Answered
<1>3. \A r \in Procs : Falling(r, e)' /\ proc'[r].at = "email" => proc'[r].seen.email # "sent"
  BY DEF IsFollowedUp, Falling
<1>4. \A r \in Procs : proc'[r].e = e /\ proc'[r].at \in Before => ~proc'[r].late
  BY DEF IsFollowedUp, Before
<1> QED
  BY <1>1, <1>2, <1>3, <1>4 DEF IsFollowedUp

LEMMA StepFollowsUp ==
  ASSUME Safe, [Next]_vars, NEW e \in Events, IsFollowedUp(e), MaxCrashes = 0
  PROVE  IsFollowedUp(e)'
<1>1. ASSUME NEW p \in Procs, Continue(p) PROVE IsFollowedUp(e)'
  <2>1. CASE proc[p].e = e
    BY <1>1, <2>1, WorkersFollowUp, TheEmailFollowsUp, ReceiptsFollowUp, ClaimingFollowsUp
       DEF Continue
  <2>2. CASE proc[p].e # e
    <3>1. /\ ev'[e] = ev[e]
          /\ \A r \in Procs \ {p} : proc'[r] = proc[r]
          /\ proc'[p].e = proc[p].e \/ proc'[p].at = "idle"
      BY <1>1, <2>2, OthersAreLeftAlone, IdleIsSound
    <3> QED BY <2>2, <3>1, ElsewhereFollowsUp
  <2> QED BY <2>1, <2>2
<1>2. ASSUME NEW p \in Procs, ClaimNext(p) PROVE IsFollowedUp(e)'
  BY <1>2, BeginningFollowsUp DEF ClaimNext, At
<1>3. ASSUME NEW p \in Procs, NEW f \in Events, ClaimById(p, f) \/ Webhook(p, f)
      PROVE  IsFollowedUp(e)'
  BY <1>3, BeginningFollowsUp DEF ClaimById, Webhook, At
<1>4. ASSUME NEW p \in Procs, Crash(p) PROVE FALSE
  BY <1>4 DEF Crash, Safe, TypeOK
<1>5. ASSUME NEW f \in Events, LeaseExpires(f) PROVE IsFollowedUp(e)'
  <2>1. ev \in [Events -> Row] /\ ev[f] \in Row
    BY DEF Safe, TypeOK
  <2>2. /\ ev'[e].wa = ev[e].wa /\ ev'[e].wamid = ev[e].wamid /\ ev'[e].email = ev[e].email
        /\ ev'[e].fallback = ev[e].fallback /\ proc' = proc
    BY <1>5, <2>1 DEF LeaseExpires, Update, Row
  <2> QED BY <2>2, ElsewhereFollowsUp
<1>6. ASSUME ev' = ev, proc' = proc PROVE IsFollowedUp(e)'
  BY <1>6, ElsewhereFollowsUp
<1> QED
  BY <1>1, <1>2, <1>3, <1>4, <1>5, <1>6 DEF Next, Supersede, Later, Report, vars

\* While no process is lost, a failure that Meta reported of a message it had taken is
\* followed up: for any number of workers and webhook requests that apply the receipts at
\* once, repeated and in any order, and whether leases outlast the workers or not.
THEOREM FailuresFollowedUp ==
  ASSUME MaxCrashes = 0
  PROVE  Spec => []FailuresAreFollowedUp
<1> DEFINE Inv == \A e \in Events : IsFollowedUp(e)
<1>1. Init => Inv
  BY DEF Init, NewRow, Idle, IsFollowedUp, Falling, Before
<1>2. Safe /\ Inv /\ [Next]_vars => Inv'
  BY StepFollowsUp
<1>3. Inv => FailuresAreFollowedUp
  <2> SUFFICES ASSUME Inv, NEW e \in Events, ev[e].wamid, ev[e].wa = "failed", ~Working(e)
               PROVE  ev[e].email # "not_needed"
    BY DEF FailuresAreFollowedUp
  <2>1. \A p \in Procs : ~Claiming(p, e) /\ ~Falling(p, e)
    BY DEF Working, Claiming, Falling
  <2> QED BY <2>1 DEF IsFollowedUp, Answered
<1> QED
  BY <1>1, <1>2, <1>3, InitIsSafe, StepIsSafe, PTL DEF Spec

-----------------------------------------------------------------------------
(***************************************************************************)
(* The email stays a fallback.                                             *)
(***************************************************************************)
\* A receipt says that the message failed; the event is about something that is over;
\* its customer is to be told by WhatsApp.  The first two stay so.
Told(e) == \E i \in receipts[e] : reports[e][i] = "failed"
Gone(e) == ~current[e] \/ (customer[e].reminder /\ (~RemindersEnabled \/ phase[e] = "late"))
Channel(e) == /\ customer[e].optIn /\ WhatsAppEnabled
              /\ customer[e].series => RecurringWhatsApp

\* A row that no longer counts as under way although Meta took the message says so with
\* a reason.
RowHasReason(row, e) ==
    /\ row.wamid => row.attempted /\ (row.wa \in Progress \/ Told(e) \/ Gone(e))
    /\ row.attempted => Channel(e)

\* An event has one worker, also after others were lost.
Alone(e) ==
    /\ \A p, q \in Procs : Works(p, e) /\ Works(q, e) => p = q
    /\ \A p \in Procs : Works(p, e) => ev[e].lease = "held" /\ ~ev[e].done
    /\ ev[e].lease = "free" => ~ev[e].done

\* What each step on the way to the email knows.
HasReason(q, e) ==
    /\ q.at \in Before \cup {"complete"} => q.role = "worker"
    /\ q.at = "decide" => /\ q.seen.attempted = ev[e].attempted /\ q.seen.wamid = ev[e].wamid
                          /\ RowHasReason(q.seen, e) /\ phase[e] # "early"
    /\ q.at \in {"recheck", "attempt"} => Channel(e)
    /\ q.at \in Before \ {"decide"} => ~ev[e].wamid
    /\ q.at \in {"send", "record"} => ev[e].attempted
    /\ q.at \in {"email", "mark", "post", "file"} => (q.late /\ Told(e)) \/ q.role = "worker"
    /\ q.at = "email" => ~ev[e].wamid \/ Told(e) \/ Gone(e)
    /\ q.at \in {"mark", "post"} => ~ev[e].wamid \/ Told(e)
    /\ q.at = "late" => Told(e)
    /\ q.at \notin {"idle", "insert"} => q.todo \subseteq receipts[e]

EmailHasReason(e) ==
    /\ RowHasReason(ev[e], e)
    /\ Alone(e)
    /\ \A p \in Procs : proc[p].e = e => HasReason(proc[p], e)

\* What no step takes back.
Onward(e) ==
    /\ Told(e) => Told(e)'
    /\ Gone(e) => Gone(e)'
    /\ customer'[e] = customer[e]
    /\ phase[e] # "early" => phase'[e] # "early"
    /\ receipts[e] \subseteq receipts'[e]

LEMMA ReasonsStay ==
  ASSUME Safe, [Next]_vars, NEW e \in Events
  PROVE  Onward(e)
<1>1. /\ current \in [Events -> BOOLEAN] /\ phase \in [Events -> {"early", "due", "late"}]
      /\ receipts[e] \subseteq DOMAIN reports[e] /\ reports \in [Events -> Seq(Reportable)]
      /\ receipts \in [Events -> SUBSET (1..MaxReports)] /\ reports[e] \in Seq(Reportable)
  BY DEF Safe, TypeOK
<1>2. ASSUME UNCHANGED <<customer, current, phase, reports>>, receipts[e] \subseteq receipts'[e]
      PROVE  Onward(e)
  BY <1>2 DEF Onward, Told, Gone
<1>3. ASSUME NEW p \in Procs, Continue(p) PROVE Onward(e)
  <2>1. UNCHANGED <<customer, current, phase, reports>>
    BY <1>3, ZenonT(60) DEF Continue, Decide, Recheck, ClaimAttempt, SendWhatsApp, RecordWhatsApp,
       SkipWhatsApp, CheckEmail, MarkEmail, PostEmail, FileEmail, InsertReceipt, ListReceipts,
       ReadForReceipt, WriteReceipt, EndReceipts, ClaimLateFallback, Complete, world
  <2>2. receipts[e] \subseteq receipts'[e]
    <3>1. CASE InsertReceipt(p)
      BY <1>1, <3>1 DEF InsertReceipt
    <3>2. CASE ~InsertReceipt(p)
      <4>1. receipts' = receipts
        BY <1>3, <3>2, ZenonT(60) DEF Continue, Decide, Recheck, ClaimAttempt, SendWhatsApp,
           RecordWhatsApp, SkipWhatsApp, CheckEmail, MarkEmail, PostEmail, FileEmail, ListReceipts,
           ReadForReceipt, WriteReceipt, EndReceipts, ClaimLateFallback, Complete
      <4> QED BY <4>1
    <3> QED BY <3>1, <3>2
  <2> QED BY <1>2, <2>1, <2>2
<1>4. ASSUME NEW p \in Procs, ClaimNext(p) \/ Crash(p) PROVE Onward(e)
  BY <1>2, <1>4 DEF ClaimNext, Claim, Crash, world
<1>5. ASSUME NEW p \in Procs, NEW f \in Events, ClaimById(p, f) \/ Webhook(p, f) PROVE Onward(e)
  BY <1>2, <1>5 DEF ClaimById, Claim, Webhook, world
<1>6. ASSUME NEW f \in Events, Supersede(f) \/ Later(f) PROVE Onward(e)
  <2>1. /\ customer' = customer /\ receipts' = receipts /\ reports' = reports
        /\ current[e] = FALSE => current'[e] = FALSE
        /\ phase[e] = "late" => phase'[e] = "late"
        /\ phase[e] # "early" => phase'[e] # "early"
    BY <1>1, <1>6 DEF Supersede, Later
  <2> QED BY <1>1, <2>1 DEF Onward, Told, Gone
<1>7. ASSUME NEW f \in Events, LeaseExpires(f) PROVE Onward(e)
  BY <1>2, <1>7 DEF LeaseExpires, world
<1>8. ASSUME NEW f \in Events, NEW status \in Reportable, Report(f, status) PROVE Onward(e)
  <2>1. \A i \in receipts[e] : reports'[e][i] = reports[e][i]
    <3>1. CASE f = e
      <4>1. reports'[e] = Append(reports[e], status)
        BY <1>1, <1>8, <3>1 DEF Report
      <4> QED BY <1>1, <4>1
    <3>2. CASE f # e
      BY <1>1, <1>8, <3>2 DEF Report
    <3> QED BY <3>1, <3>2
  <2> QED BY <1>8, <2>1 DEF Onward, Told, Gone, Report
<1> QED
  BY <1>2, <1>3, <1>4, <1>5, <1>6, <1>7, <1>8 DEF Next, vars

\* What a process knows stays known while another one leaves the message as it is.
LEMMA OthersKeepTheirReason ==
  ASSUME NEW e \in Events, Onward(e), NEW r \in Procs, HasReason(proc[r], e), proc'[r] = proc[r],
         \/ ev'[e].wamid = ev[e].wamid /\ ev'[e].attempted = ev[e].attempted
         \/ proc[r].role # "worker"
  PROVE  HasReason(proc[r], e)'
<1>1. /\ Told(e) => Told(e)'
      /\ Gone(e) => Gone(e)'
      /\ Channel(e) <=> Channel(e)'
      /\ phase[e] # "early" => phase'[e] # "early"
      /\ receipts[e] \subseteq receipts'[e]
  BY DEF Onward, Channel
<1>2. RowHasReason(proc[r].seen, e) => RowHasReason(proc[r].seen, e)'
  BY <1>1 DEF RowHasReason
<1> QED
  BY <1>1, <1>2 DEF HasReason, Before

\* One process takes a step on the event: it had its reason, and has the next.
LEMMA OneStepHasReason ==
  ASSUME NEW e \in Events, EmailHasReason(e), Onward(e), NEW p \in Procs,
         \A r \in Procs \ {p} : proc'[r] = proc[r],
         Works(p, e)' => Works(p, e) /\ ev'[e].lease = ev[e].lease /\ ev'[e].done = ev[e].done,
         \/ Works(p, e)
         \/ /\ ev'[e].lease = ev[e].lease /\ ev'[e].done = ev[e].done
            /\ ev'[e].wamid = ev[e].wamid /\ ev'[e].attempted = ev[e].attempted,
         ev'[e].lease = "free" => ~ev'[e].done,
         RowHasReason(ev[e], e)',
         proc'[p].e = e => HasReason(proc[p], e)'
  PROVE  EmailHasReason(e)'
<1>1. \A r \in Procs \ {p} : Works(r, e)' <=> Works(r, e)
  BY DEF Works
<1>2. Works(p, e) => \A r \in Procs \ {p} : ~Works(r, e)
  BY DEF EmailHasReason, Alone
<1>3. Alone(e)'
  BY <1>1, <1>2 DEF EmailHasReason, Alone
<1>4. ASSUME NEW r \in Procs \ {p}, proc'[r].e = e PROVE HasReason(proc[r], e)'
  <2>1. HasReason(proc[r], e)
    BY <1>4 DEF EmailHasReason
  <2>2. Works(p, e) => proc[r].role # "worker" \/ proc[r].at = "idle"
    BY <1>2, <1>4 DEF Works
  <2>3. CASE proc[r].at = "idle"
    BY <1>4, <2>3 DEF HasReason, Before
  <2>4. CASE proc[r].at # "idle"
    BY <1>4, <2>1, <2>2, <2>4, OthersKeepTheirReason
  <2> QED BY <2>3, <2>4
<1>5. \A r \in Procs : proc'[r].e = e => HasReason(proc[r], e)'
  BY <1>4
<1> QED
  BY <1>3, <1>5 DEF EmailHasReason

\* A row whose message a step leaves alone keeps its reason, whatever else is written.
LEMMA TheRowKeepsItsReason ==
  ASSUME NEW e \in Events, EmailHasReason(e), Onward(e),
         ev'[e].wamid = ev[e].wamid, ev'[e].attempted = ev[e].attempted,
         \/ ev'[e].wa = ev[e].wa
         \/ ev'[e].wa \in Progress
         \/ ~ev[e].wamid \/ Told(e) \/ Gone(e)
  PROVE  RowHasReason(ev[e], e)'
<1>1. /\ Told(e) => Told(e)'
      /\ Gone(e) => Gone(e)'
      /\ Channel(e) <=> Channel(e)'
  BY DEF Onward, Channel
<1> QED
  BY <1>1 DEF EmailHasReason, RowHasReason

\* The steps on the receipts and the email: the row keeps its message, lease and end.
LEMMA QuietStepHasReason ==
  ASSUME NEW e \in Events, EmailHasReason(e), Onward(e), NEW p \in Procs,
         proc[p].e = e, proc[p].at # "idle",
         \A r \in Procs \ {p} : proc'[r] = proc[r],
         proc'[p].at = "idle" \/ (proc'[p].e = e /\ proc'[p].role = proc[p].role),
         ev'[e].lease = ev[e].lease, ev'[e].done = ev[e].done,
         ev'[e].wamid = ev[e].wamid, ev'[e].attempted = ev[e].attempted,
         \/ ev'[e].wa = ev[e].wa
         \/ ev'[e].wa \in Progress
         \/ ~ev[e].wamid \/ Told(e) \/ Gone(e),
         proc'[p].at # "idle" => HasReason(proc[p], e)'
  PROVE  EmailHasReason(e)'
<1>1. RowHasReason(ev[e], e)'
  BY TheRowKeepsItsReason
<1>2. Works(p, e)' => Works(p, e)
  BY DEF Works
<1>3. proc'[p].at = "idle" => HasReason(proc[p], e)'
  BY DEF HasReason, Before
<1>4. ev'[e].lease = "free" => ~ev'[e].done
  BY DEF EmailHasReason, Alone
<1> QED
  BY <1>1, <1>2, <1>3, <1>4, OneStepHasReason

\* What a decision rests on.
LEMMA DecisionHasReason ==
  ASSUME NEW c \in Customer, NEW seen \in Row,
         NEW isCurrent \in BOOLEAN, NEW deliverable \in BOOLEAN, NEW channel,
         channel = (c.optIn /\ WhatsAppEnabled /\ (c.series => RecurringWhatsApp))
  PROVE  LET d == Decision(c, seen, isCurrent, deliverable)
         IN  /\ d.set = "both" => ~isCurrent \/ ~deliverable
             /\ d.set = "unknown" => seen.wa = "pending"
             /\ d.set = "skipped" => seen.wa \notin Progress \/ ~channel
             /\ d.next = "recheck" => ~seen.attempted /\ channel
             /\ d.next = "email" => seen.wa \notin Progress \/ ~channel
  BY DEF Decision

LEMMA DecidingHasReason ==
  ASSUME Safe, NEW p \in Procs, NEW e \in Events, proc[p].e = e, EmailHasReason(e), Onward(e),
         Decide(p)
  PROVE  EmailHasReason(e)'
<1> DEFINE c == customer[e]
           seen == proc[p].seen
           d == Decision(c, seen, current[e], Deliverable(e))
           row == Settled(ev[e], d.set)
<1>1. /\ ev[e] \in Row /\ seen \in Row /\ ev \in [Events -> Row] /\ proc[p] \in Process
      /\ proc \in [Procs -> Process] /\ Idle.at = "idle" /\ phase[e] \in {"early", "due", "late"}
  BY HeldIsSound, IdleIsSound DEF Safe, TypeOK
<1>2. /\ c \in Customer /\ current[e] \in BOOLEAN /\ Deliverable(e) \in BOOLEAN
  BY <1>1, OutboxAssumption DEF Safe, TypeOK, Deliverable
<1>3. /\ d.set \in Left /\ d.next \in {"complete", "idle", "email", "recheck"}
      /\ d.set = "free" <=> d.next = "idle"
  BY <1>1, <1>2, DecisionGoesOn, OnlyADeferralFrees
<1>4. /\ d.set = "both" => ~current[e] \/ ~Deliverable(e)
      /\ d.set = "unknown" => seen.wa = "pending"
      /\ d.set = "skipped" => seen.wa \notin Progress \/ ~Channel(e)
      /\ d.next = "recheck" => ~seen.attempted /\ Channel(e)
      /\ d.next = "email" => seen.wa \notin Progress \/ ~Channel(e)
  BY <1>1, <1>2, DecisionHasReason DEF Channel
<1>5. /\ Update(e, row) /\ proc[p].at = "decide"
      /\ IF d.next = "idle" THEN Stop(p) ELSE GoTo(p, d.next)
  BY DEF Decide, At
<1>6. HasReason(proc[p], e)
  BY DEF EmailHasReason
<1>7. /\ proc[p].role = "worker" /\ seen.attempted = ev[e].attempted /\ seen.wamid = ev[e].wamid
      /\ RowHasReason(seen, e) /\ phase[e] # "early"
  BY <1>5, <1>6 DEF HasReason, Before
<1>8. ~current[e] \/ ~Deliverable(e) => Gone(e)
  BY <1>1, <1>7 DEF Deliverable, Gone
<1> HIDE DEF d
<1>9. /\ row.done = ev[e].done /\ row.wamid = ev[e].wamid /\ row.attempted = ev[e].attempted
      /\ IF d.set = "free" THEN row.lease = "free" ELSE row.lease = ev[e].lease
      /\ d.set \in {"free", "none"} => row.wa = ev[e].wa
  BY <1>1, <1>3 DEF Settled, SkipBoth, Row, Left
<1>10. ev'[e] = row
  BY <1>1, <1>5 DEF Update
<1>11. d.set \in {"free", "none"} \/ ~ev[e].wamid \/ Told(e) \/ Gone(e)
  BY <1>3, <1>4, <1>7, <1>8 DEF RowHasReason, Left, Progress
<1> HIDE DEF row, Idle
<1>12. RowHasReason(ev[e], e)'
  BY <1>9, <1>10, <1>11, TheRowKeepsItsReason
<1>13. Works(p, e) /\ Alone(e)
  BY <1>5, <1>7 DEF Works, EmailHasReason
<1>14. CASE d.next = "idle"
  <2>1. proc'[p] = Idle /\ \A r \in Procs \ {p} : proc'[r] = proc[r]
    BY <1>1, <1>5, <1>14 DEF Stop
  <2>2. ~Works(p, e)' /\ HasReason(proc[p], e)'
    BY <1>1, <2>1 DEF Works, HasReason, Before
  <2>3. ~ev'[e].done
    BY <1>9, <1>10, <1>13 DEF Alone
  <2> QED BY <1>12, <1>13, <2>1, <2>2, <2>3, OneStepHasReason
<1>15. CASE d.next # "idle"
  <2>1. /\ proc'[p].at = d.next /\ proc'[p].e = e /\ proc'[p].role = "worker"
        /\ proc'[p].todo = proc[p].todo /\ proc[p].todo \subseteq receipts'[e]
        /\ \A r \in Procs \ {p} : proc'[r] = proc[r]
    BY <1>1, <1>5, <1>6, <1>7, <1>15 DEF GoTo, Process, HasReason, Onward
  <2>2. d.next = "recheck" => Channel(e)' /\ ~ev'[e].wamid
    BY <1>4, <1>7, <1>9, <1>10 DEF RowHasReason, Channel, Onward
  <2>3. d.next = "email" => ~ev[e].wamid \/ Told(e) \/ Gone(e)
    BY <1>4, <1>7 DEF RowHasReason
  <2>4. HasReason(proc[p], e)'
    BY <1>3, <1>9, <1>10, <1>15, <2>1, <2>2, <2>3 DEF HasReason, Onward, Before
  <2>5. ev'[e].lease = ev[e].lease /\ ev'[e].done = ev[e].done
    BY <1>3, <1>9, <1>10, <1>15
  <2> QED BY <1>12, <1>13, <2>1, <2>4, <2>5, OneStepHasReason DEF Alone
<1> QED
  BY <1>14, <1>15

\* The other steps of a worker up to the answer of Meta.
LEMMA WorkingHasReason ==
  ASSUME Safe, NEW p \in Procs, NEW e \in Events, proc[p].e = e, EmailHasReason(e), Onward(e),
         Recheck(p) \/ ClaimAttempt(p) \/ SendWhatsApp(p) \/ RecordWhatsApp(p) \/ SkipWhatsApp(p)
  PROVE  EmailHasReason(e)'
<1>1. /\ ev[e] \in Row /\ ev \in [Events -> Row] /\ proc[p] \in Process
      /\ proc \in [Procs -> Process] /\ Idle.at = "idle"
  BY HeldIsSound, IdleIsSound DEF Safe, TypeOK
<1>2. proc[p].at \in {"recheck", "attempt", "send", "record", "skip"}
  BY DEF Recheck, ClaimAttempt, SendWhatsApp, RecordWhatsApp, SkipWhatsApp, At
<1>3. HasReason(proc[p], e)
  BY DEF EmailHasReason
<1>4. /\ Works(p, e) /\ ~ev[e].wamid /\ proc[p].role = "worker"
      /\ proc[p].at \in {"send", "record"} => ev[e].attempted
      /\ proc[p].at \in {"recheck", "attempt"} => Channel(e)
  BY <1>2, <1>3 DEF HasReason, Works, Before
<1>5. (Channel(e) => Channel(e)') /\ proc[p].todo \subseteq receipts'[e]
  BY <1>2, <1>3 DEF Onward, Channel, HasReason
\* Whatever of these the process and the row are next.
<1>6. ASSUME \A r \in Procs \ {p} : proc'[r] = proc[r],
             ev'[e].lease = ev[e].lease, ev'[e].done = ev[e].done,
             \/ ev'[e].attempted = ev[e].attempted
             \/ ev'[e].attempted /\ Channel(e),
             ev'[e].wamid => ev'[e].attempted /\ ev'[e].wa \in Progress,
             \/ proc'[p].at = "idle"
             \/ proc'[p].e = e /\ proc'[p].role = "worker" /\ HasReason(proc[p], e)'
      PROVE  EmailHasReason(e)'
  <2>1. RowHasReason(ev[e], e)'
    BY <1>5, <1>6 DEF RowHasReason, EmailHasReason
  <2>2. proc'[p].at = "idle" => HasReason(proc[p], e)' /\ ~Works(p, e)'
    BY DEF HasReason, Before, Works
  <2>3. ev'[e].lease = "free" => ~ev'[e].done
    BY <1>6 DEF EmailHasReason, Alone
  <2> QED BY <1>4, <1>6, <2>1, <2>2, <2>3, OneStepHasReason
<1>7. CASE Recheck(p)
  <2>1. /\ proc'[p].at \in {"attempt", "skip", "complete"} /\ proc'[p].e = e
        /\ proc'[p].role = proc[p].role /\ proc'[p].todo = proc[p].todo
        /\ \A r \in Procs \ {p} : proc'[r] = proc[r]
        /\ proc[p].at = "recheck"
    BY <1>1, <1>7 DEF Recheck, GoTo, Process, At
  <2>2. ev' = ev \/ ev'[e] = SkipBoth(ev[e])
    BY <1>1, <1>7 DEF Recheck, Update
  <2>3. /\ ev'[e].lease = ev[e].lease /\ ev'[e].done = ev[e].done
        /\ ev'[e].wamid = ev[e].wamid /\ ev'[e].attempted = ev[e].attempted
    BY <1>1, <2>2 DEF SkipBoth, Row
  <2>4. HasReason(proc[p], e)'
    BY <1>4, <1>5, <2>1, <2>3 DEF HasReason, Before
  <2> QED BY <1>4, <1>6, <2>1, <2>3, <2>4
<1>8. CASE ClaimAttempt(p)
  <2>1. /\ proc'[p].at = "idle" \/ (proc'[p].at \in {"send", "complete"} /\ proc'[p].e = e
                                    /\ proc'[p].role = proc[p].role /\ proc'[p].todo = proc[p].todo)
        /\ \A r \in Procs \ {p} : proc'[r] = proc[r]
        /\ proc[p].at = "attempt"
    <3> HIDE DEF Idle
    <3> QED BY <1>1, <1>8 DEF ClaimAttempt, GoTo, Stop, Process, At
  <2>2. \/ ev' = ev /\ proc'[p].at # "send"
        \/ ev'[e] = [ev[e] EXCEPT !.attempted = TRUE]
    <3> HIDE DEF Idle
    <3> QED BY <1>1, <1>8 DEF ClaimAttempt, Update, GoTo, Stop, Process
  <2>3. /\ ev'[e].lease = ev[e].lease /\ ev'[e].done = ev[e].done
        /\ ev'[e].wamid = ev[e].wamid
        /\ ev'[e].attempted = ev[e].attempted \/ ev'[e].attempted
        /\ proc'[p].at = "send" => ev'[e].attempted
    BY <1>1, <2>2 DEF Row
  <2>4. proc'[p].at # "idle" => HasReason(proc[p], e)'
    BY <1>4, <1>5, <2>1, <2>3 DEF HasReason, Before
  <2> QED BY <1>4, <1>6, <2>1, <2>3, <2>4
<1>9. CASE SendWhatsApp(p)
  <2>1. PICK o \in {"accepted", "failed", "unknown"}, took \in BOOLEAN :
        proc' = [proc EXCEPT ![p].outcome = o, ![p].at = "record"]
    BY <1>9 DEF SendWhatsApp
  <2>2. /\ proc'[p].at = "record" /\ proc'[p].e = e /\ proc'[p].role = proc[p].role
        /\ proc'[p].todo = proc[p].todo
        /\ ev' = ev /\ proc[p].at = "send" /\ \A r \in Procs \ {p} : proc'[r] = proc[r]
    BY <1>1, <1>9, <2>1 DEF Process, SendWhatsApp, At
  <2>3. HasReason(proc[p], e)'
    BY <1>1, <1>4, <1>5, <2>2 DEF HasReason, Before
  <2> QED BY <1>4, <1>6, <2>2, <2>3
<1>10. CASE RecordWhatsApp(p)
  <2> DEFINE o == proc[p].outcome
             row == AnsweredRow(ev[e], o)
  <2>1. o \in WhatsApp /\ proc[p].at = "record"
    BY <1>1, <1>10 DEF Process, WhatsApp, Progress, RecordWhatsApp, At
  <2>2. Update(e, row)
    BY <1>10 DEF RecordWhatsApp, AnsweredRow
  <2>3. PICK step \in {"list", "skip", "email"} : GoTo(p, step) /\ (step = "list" <=> o = "accepted")
    BY <1>10 DEF RecordWhatsApp
  <2> HIDE DEF o
  <2>4. /\ row.lease = ev[e].lease /\ row.done = ev[e].done /\ row.attempted = ev[e].attempted
        /\ row.wa = o /\ row.wamid = (o = "accepted")
    BY <1>1, <2>1, AnsweredIsARow
  <2>5. ev'[e] = row
    BY <1>1, <2>2 DEF Update
  <2> HIDE DEF row
  <2>6. /\ proc'[p].at = step /\ proc'[p].e = e /\ proc'[p].role = proc[p].role
        /\ proc'[p].todo = proc[p].todo
        /\ \A r \in Procs \ {p} : proc'[r] = proc[r]
    BY <1>1, <2>3 DEF GoTo, Process
  <2>7. ev'[e].wamid => ev'[e].attempted /\ ev'[e].wa \in Progress
    BY <1>4, <2>1, <2>4, <2>5 DEF Progress
  <2>8. HasReason(proc[p], e)'
    BY <1>4, <1>5, <2>3, <2>4, <2>5, <2>6 DEF HasReason, Before
  <2> QED BY <1>4, <1>6, <2>4, <2>5, <2>6, <2>7, <2>8
<1>11. CASE SkipWhatsApp(p)
  <2>1. /\ proc'[p].at = "email" /\ proc'[p].e = e /\ proc'[p].role = proc[p].role
        /\ proc'[p].todo = proc[p].todo
        /\ \A r \in Procs \ {p} : proc'[r] = proc[r]
    BY <1>1, <1>11 DEF SkipWhatsApp, GoTo, Process
  <2>2. /\ ev'[e].lease = ev[e].lease /\ ev'[e].done = ev[e].done
        /\ ev'[e].wamid = ev[e].wamid /\ ev'[e].attempted = ev[e].attempted
    BY <1>1, <1>11 DEF SkipWhatsApp, Update, Row
  <2>3. HasReason(proc[p], e)'
    BY <1>4, <1>5, <2>1, <2>2 DEF HasReason, Before
  <2> QED BY <1>4, <1>6, <2>1, <2>2, <2>3
<1> QED
  BY <1>7, <1>8, <1>9, <1>10, <1>11

\* The email: it goes on only for an event that is not over.
LEMMA EmailingHasReason ==
  ASSUME Safe, NEW p \in Procs, NEW e \in Events, proc[p].e = e, EmailHasReason(e), Onward(e),
         CheckEmail(p) \/ MarkEmail(p) \/ PostEmail(p) \/ FileEmail(p)
  PROVE  EmailHasReason(e)'
<1>1. /\ ev[e] \in Row /\ ev \in [Events -> Row] /\ proc[p] \in Process
      /\ proc \in [Procs -> Process]
  BY HeldIsSound DEF Safe, TypeOK
<1>2. /\ proc[p].at \in {"email", "mark", "post", "file"}
      /\ \A r \in Procs \ {p} : proc'[r] = proc[r]
      /\ proc'[p].late = proc[p].late /\ proc'[p].e = e /\ proc'[p].role = proc[p].role
        /\ proc'[p].todo = proc[p].todo
  BY <1>1 DEF CheckEmail, MarkEmail, PostEmail, FileEmail, At, GoTo, Process
<1>3. /\ ev'[e].wa = ev[e].wa /\ ev'[e].wamid = ev[e].wamid
      /\ ev'[e].lease = ev[e].lease /\ ev'[e].done = ev[e].done
      /\ ev'[e].attempted = ev[e].attempted
  BY <1>1 DEF CheckEmail, MarkEmail, PostEmail, FileEmail, Update, Row
<1>4. /\ proc'[p].at \in {"apply", "complete", "mark", "post", "file"}
      /\ proc'[p].at = "apply" => proc[p].late
      /\ proc'[p].at = "complete" => ~proc[p].late
      /\ proc'[p].at = "mark" => proc[p].at = "email" /\ current[e] /\ Deliverable(e)
      /\ proc'[p].at = "post" => proc[p].at = "mark"
  BY <1>1 DEF CheckEmail, MarkEmail, PostEmail, FileEmail, At, GoTo, Return, Process
<1>5. HasReason(proc[p], e)
  BY DEF EmailHasReason
<1>6. current[e] /\ Deliverable(e) => ~Gone(e)
  BY DEF Deliverable, Gone
<1>7. proc'[p].at \in {"mark", "post"} => ~ev[e].wamid \/ Told(e)
  BY <1>4, <1>5, <1>6 DEF HasReason
<1>8. HasReason(proc[p], e)'
  BY <1>2, <1>3, <1>4, <1>5, <1>7 DEF HasReason, Onward, Before
<1> QED
  BY <1>2, <1>3, <1>8, QuietStepHasReason

\* What Meta reported of a receipt that is to be applied.
LEMMA ReportedStatus ==
  ASSUME Safe, NEW e \in Events, NEW i \in receipts[e]
  PROVE  reports[e][i] \in Progress \cup {"failed"}
<1>1. /\ reports[e] \in Seq(Reportable) /\ receipts[e] \subseteq DOMAIN reports[e]
  BY DEF Safe, TypeOK
<1>2. Reportable \subseteq Progress \cup {"failed"}
  BY OutboxAssumption DEF Progress
<1> QED
  BY <1>1, <1>2

\* Receipts: only one that says so makes the message fail.
LEMMA ReceiptsHaveReason ==
  ASSUME Safe, NEW p \in Procs, NEW e \in Events, proc[p].e = e, EmailHasReason(e), Onward(e),
         InsertReceipt(p) \/ ListReceipts(p) \/ ReadForReceipt(p) \/ WriteReceipt(p)
           \/ EndReceipts(p) \/ ClaimLateFallback(p)
  PROVE  EmailHasReason(e)'
<1>1. /\ ev[e] \in Row /\ ev \in [Events -> Row] /\ proc[p] \in Process
      /\ proc \in [Procs -> Process] /\ Idle.at = "idle"
      /\ receipts \in [Events -> SUBSET (1..MaxReports)]
  BY HeldIsSound, IdleIsSound DEF Safe, TypeOK
<1>2. proc[p].at \in {"insert", "list", "apply", "write", "late"}
  BY DEF InsertReceipt, ListReceipts, ReadForReceipt, WriteReceipt, EndReceipts, ClaimLateFallback, At
<1>3. HasReason(proc[p], e)
  BY DEF EmailHasReason
<1>4. proc[p].at # "insert" => proc[p].todo \subseteq receipts'[e]
  BY <1>2, <1>3 DEF HasReason, Onward
\* Whatever of these the process is next.
<1>5. ASSUME \A r \in Procs \ {p} : proc'[r] = proc[r],
             \/ proc'[p].at = "idle"
             \/ /\ proc'[p].e = e /\ proc'[p].role = proc[p].role
                /\ proc'[p].at \in {"list", "apply", "write", "complete", "late", "email"}
                /\ proc'[p].todo \subseteq receipts'[e]
                /\ proc'[p].at = "complete" => proc[p].role = "worker"
                /\ proc'[p].at \in {"late", "email"} => Told(e)
                /\ proc'[p].at = "email" => proc'[p].late,
             ev'[e].lease = ev[e].lease, ev'[e].done = ev[e].done,
             ev'[e].wamid = ev[e].wamid, ev'[e].attempted = ev[e].attempted,
             ev'[e].wa = ev[e].wa \/ ev'[e].wa \in Progress \/ Told(e)
      PROVE  EmailHasReason(e)'
  <2>1. proc'[p].at # "idle" => HasReason(proc[p], e)'
    BY <1>5 DEF HasReason, Onward, Before
  <2> QED BY <1>2, <1>5, <2>1, QuietStepHasReason
<1>6. CASE InsertReceipt(p)
  <2>1. /\ receipts'[e] = receipts[e] \cup proc[p].todo
        /\ ev' = ev /\ \A r \in Procs \ {p} : proc'[r] = proc[r]
        /\ \/ proc'[p].at = "idle"
           \/ /\ proc'[p].at = "list" /\ proc'[p].e = e /\ proc'[p].role = proc[p].role
              /\ proc'[p].todo = proc[p].todo
    <3> HIDE DEF Idle
    <3> QED BY <1>1, <1>6 DEF InsertReceipt, GoTo, Stop, Process
  <2> QED BY <1>5, <2>1
<1>7. CASE ListReceipts(p)
  <2>1. /\ proc'[p].at = "apply" /\ proc'[p].todo = receipts[e] /\ proc'[p].e = e
        /\ proc'[p].role = proc[p].role
        /\ ev' = ev /\ \A r \in Procs \ {p} : proc'[r] = proc[r]
    BY <1>1, <1>7 DEF ListReceipts, Process
  <2> QED BY <1>5, <2>1 DEF Onward
<1>8. CASE ReadForReceipt(p)
  <2>1. PICK i \in Earliest(proc[p].todo) :
          proc' = IF Applies(ev[e].wa, reports[e][i])
                  THEN [proc EXCEPT ![p].at = "write"]
                  ELSE [proc EXCEPT ![p].todo = @ \ {i}]
    BY <1>8 DEF ReadForReceipt
  <2>2. /\ proc'[p].at \in {"apply", "write"} /\ proc'[p].todo \subseteq proc[p].todo
        /\ proc'[p].e = e /\ proc'[p].role = proc[p].role /\ proc[p].at = "apply"
        /\ ev' = ev /\ \A r \in Procs \ {p} : proc'[r] = proc[r]
    BY <1>1, <1>8, <2>1 DEF ReadForReceipt, At, Process
  <2> QED BY <1>4, <1>5, <2>2
<1>9. CASE WriteReceipt(p)
  <2>1. PICK i \in Earliest(proc[p].todo) :
          /\ Update(e, [ev[e] EXCEPT !.wa = reports[e][i]])
          /\ proc' = [proc EXCEPT ![p].todo = @ \ {i},
                                  ![p].at = IF reports[e][i] = "failed" THEN "late" ELSE "apply"]
    BY <1>9 DEF WriteReceipt
  <2>2. /\ ev'[e].lease = ev[e].lease /\ ev'[e].done = ev[e].done
        /\ ev'[e].wamid = ev[e].wamid /\ ev'[e].attempted = ev[e].attempted
        /\ ev'[e].wa = reports[e][i]
    BY <1>1, <2>1 DEF Update, Row
  <2>3. /\ proc'[p].at = IF reports[e][i] = "failed" THEN "late" ELSE "apply"
        /\ proc'[p].todo \subseteq proc[p].todo /\ proc[p].at = "write"
        /\ proc'[p].e = e /\ proc'[p].role = proc[p].role
        /\ \A r \in Procs \ {p} : proc'[r] = proc[r]
    BY <1>1, <1>9, <2>1 DEF WriteReceipt, At, Process
  <2>4. i \in receipts[e]
    BY <1>3, <2>3 DEF HasReason, Earliest
  <2>5. reports[e][i] \in Progress \/ Told(e)
    BY <2>4, ReportedStatus DEF Told
  <2>6. reports[e][i] = "failed" => Told(e)
    BY <2>4 DEF Told
  <2> QED BY <1>4, <1>5, <2>2, <2>3, <2>5, <2>6
<1>10. CASE EndReceipts(p)
  <2>1. /\ ev' = ev /\ proc[p].at = "apply" /\ \A r \in Procs \ {p} : proc'[r] = proc[r]
        /\ \/ proc'[p].at = "idle"
           \/ /\ proc'[p].at = "complete" /\ proc'[p].e = e /\ proc'[p].role = proc[p].role
              /\ proc'[p].todo = proc[p].todo /\ proc[p].role = "worker"
    <3> HIDE DEF Idle
    <3> QED BY <1>1, <1>10 DEF EndReceipts, At, GoTo, Stop, Process
  <2> QED BY <1>4, <1>5, <2>1
<1>11. CASE ClaimLateFallback(p)
  <2>1. proc[p].at = "late" /\ Told(e)
    BY <1>3, <1>11 DEF ClaimLateFallback, At, HasReason
  <2>2. /\ proc'[p].at \in {"apply", "email"} /\ proc'[p].e = e /\ proc'[p].role = proc[p].role
        /\ proc'[p].todo = proc[p].todo /\ (proc'[p].at = "email" => proc'[p].late)
        /\ \A r \in Procs \ {p} : proc'[r] = proc[r]
    BY <1>1, <1>11 DEF ClaimLateFallback, GoTo, Process
  <2>3. /\ ev'[e].lease = ev[e].lease /\ ev'[e].done = ev[e].done /\ ev'[e].wa = ev[e].wa
        /\ ev'[e].wamid = ev[e].wamid /\ ev'[e].attempted = ev[e].attempted
    BY <1>1, <1>11 DEF ClaimLateFallback, Update, Row
  <2> QED BY <1>4, <1>5, <2>1, <2>2, <2>3
<1> QED
  BY <1>6, <1>7, <1>8, <1>9, <1>10, <1>11

\* A worker that closes its event, and a process that is lost.
LEMMA EndingHasReason ==
  ASSUME Safe, NEW p \in Procs, NEW e \in Events, proc[p].e = e, EmailHasReason(e), Onward(e),
         Complete(p) \/ Crash(p)
  PROVE  EmailHasReason(e)'
<1>1. /\ ev[e] \in Row /\ ev \in [Events -> Row] /\ proc \in [Procs -> Process]
      /\ Idle.at = "idle"
  BY IdleIsSound DEF Safe, TypeOK
<1>2. /\ proc'[p].at = "idle" /\ \A r \in Procs \ {p} : proc'[r] = proc[r]
  BY <1>1 DEF Complete, Crash, Stop
<1>3. CASE Crash(p)
  BY <1>2, <1>3, QuietStepHasReason DEF Crash
<1>4. CASE Complete(p)
  <2>1. /\ ev'[e].lease = ev[e].lease /\ ev'[e].wa = ev[e].wa
        /\ ev'[e].wamid = ev[e].wamid /\ ev'[e].attempted = ev[e].attempted
    BY <1>1, <1>4 DEF Complete, Update, Row
  <2>2. Works(p, e)
    BY <1>4 DEF Complete, At, Works, EmailHasReason, HasReason
  <2>3. ev[e].lease = "held"
    BY <2>2 DEF EmailHasReason, Alone
  <2>4. HasReason(proc[p], e)' /\ ~Works(p, e)'
    BY <1>2 DEF HasReason, Before, Works
  <2>5. RowHasReason(ev[e], e)'
    BY <2>1, TheRowKeepsItsReason
  <2> QED BY <1>2, <2>1, <2>2, <2>3, <2>4, <2>5, OneStepHasReason
<1> QED
  BY <1>3, <1>4

\* A claim finds an event on which nobody works, and reads what its row says.
LEMMA ClaimHasReason ==
  ASSUME Safe, NEW p \in Procs, NEW e \in Events, EmailHasReason(e), Onward(e),
         proc[p].at = "idle", Claim(p, e), Claimable(e),
         ev[e].lease = "free" \/ (ev[e].lease # "held" /\ ~ev[e].done)
  PROVE  EmailHasReason(e)'
<1> DEFINE row == [ev[e] EXCEPT !.lease = "held"]
<1>1. /\ proc \in [Procs -> Process] /\ ev \in [Events -> Row] /\ ev[e] \in Row
      /\ Idle \in Process /\ Idle.todo = {}
  BY IdleIsSound DEF Safe, TypeOK
<1>2. /\ Update(e, row)
      /\ proc' = [proc EXCEPT ![p] = [Idle EXCEPT !.at = "decide", !.role = "worker",
                                                  !.e = e, !.seen = row]]
  BY DEF Claim
<1>3. /\ row.lease = "held" /\ row.done = ev[e].done /\ row.wa = ev[e].wa
      /\ row.wamid = ev[e].wamid /\ row.attempted = ev[e].attempted
  BY <1>1 DEF Row
<1>4. ev'[e] = row
  BY <1>1, <1>2 DEF Update
<1> HIDE DEF row, Idle
<1>5. /\ proc'[p].at = "decide" /\ proc'[p].e = e /\ proc'[p].role = "worker"
      /\ proc'[p].seen = row /\ proc'[p].todo = {}
      /\ \A r \in Procs \ {p} : proc'[r] = proc[r]
  BY <1>1, <1>2 DEF Process
<1>6. ~ev[e].done /\ \A r \in Procs : ~Works(r, e)
  BY DEF EmailHasReason, Alone
<1>7. \A r \in Procs : Works(r, e)' <=> r = p
  BY <1>5, <1>6 DEF Works
<1>8. Alone(e)'
  BY <1>3, <1>4, <1>6, <1>7 DEF Alone
<1>9. RowHasReason(ev[e], e)'
  BY <1>3, <1>4, TheRowKeepsItsReason
<1>10. HasReason(proc[p], e)'
  <2>1. phase'[e] # "early"
    BY DEF Claimable, Onward
  <2>2. RowHasReason(proc[p].seen, e)'
    BY <1>4, <1>5, <1>9
  <2> QED BY <1>3, <1>4, <1>5, <2>1, <2>2 DEF HasReason, Before
<1>11. ASSUME NEW r \in Procs \ {p}, proc'[r].e = e PROVE HasReason(proc[r], e)'
  <2>1. HasReason(proc[r], e) /\ proc'[r] = proc[r]
    BY <1>5, <1>11 DEF EmailHasReason
  <2> QED BY <1>3, <1>4, <2>1, OthersKeepTheirReason
<1>12. \A r \in Procs : proc'[r].e = e => HasReason(proc[r], e)'
  BY <1>10, <1>11
<1> QED
  BY <1>8, <1>9, <1>12 DEF EmailHasReason

\* Steps of other events, calls of the webhook, and the world.
LEMMA ElsewhereHasReason ==
  ASSUME NEW e \in Events, EmailHasReason(e), Onward(e),
         ev'[e].done = ev[e].done, ev'[e].wa = ev[e].wa,
         ev'[e].wamid = ev[e].wamid, ev'[e].attempted = ev[e].attempted,
         \/ ev'[e].lease = ev[e].lease
         \/ ev'[e].lease = "expired" /\ \A r \in Procs : ~Works(r, e),
         \A r \in Procs : \/ proc'[r] = proc[r]
                          \/ /\ proc[r].e # e \/ proc[r].at = "idle"
                             /\ \/ proc'[r].e # e \/ proc'[r].at = "idle"
                                \/ proc'[r].at = "insert" /\ proc'[r].role = "webhook"
  PROVE  EmailHasReason(e)'
<1>1. \A r \in Procs : Works(r, e)' <=> Works(r, e)
  BY DEF Works
<1>2. Alone(e)'
  BY <1>1 DEF EmailHasReason, Alone
<1>3. RowHasReason(ev[e], e)'
  BY TheRowKeepsItsReason
<1>4. ASSUME NEW r \in Procs, proc'[r].e = e PROVE HasReason(proc[r], e)'
  <2>1. CASE proc'[r] = proc[r]
    <3>1. HasReason(proc[r], e)
      BY <1>4, <2>1 DEF EmailHasReason
    <3> QED BY <2>1, <3>1, OthersKeepTheirReason
  <2>2. CASE proc'[r] # proc[r]
    BY <1>4, <2>2 DEF HasReason, Before
  <2> QED BY <2>1, <2>2
<1> QED
  BY <1>2, <1>3, <1>4 DEF EmailHasReason

\* Leases outlast their workers, but workers may be lost.
LEMMA StepHasReason ==
  ASSUME Safe, [Next]_vars, NEW e \in Events, EmailHasReason(e), ~SlowWorkers
  PROVE  EmailHasReason(e)'
<1>1. /\ proc \in [Procs -> Process] /\ ev \in [Events -> Row] /\ Idle.at = "idle"
      /\ Idle \in Process /\ Onward(e)
  BY IdleIsSound, ReasonsStay DEF Safe, TypeOK
<1>2. ASSUME NEW p \in Procs, Continue(p) \/ Crash(p) PROVE EmailHasReason(e)'
  <2>1. CASE proc[p].e = e
    BY <1>1, <1>2, <2>1, DecidingHasReason, WorkingHasReason, EmailingHasReason,
       ReceiptsHaveReason, EndingHasReason DEF Continue
  <2>2. CASE proc[p].e # e
    <3>1. /\ ev'[e] = ev[e]
          /\ \A r \in Procs \ {p} : proc'[r] = proc[r]
          /\ proc'[p].e = proc[p].e \/ proc'[p].at = "idle"
      <4>1. CASE Continue(p)
        BY <1>1, <2>2, <4>1, OthersAreLeftAlone
      <4>2. CASE Crash(p)
        BY <1>1, <4>2 DEF Crash, Stop
      <4> QED BY <1>2, <4>1, <4>2
    <3> QED BY <1>1, <2>2, <3>1, ElsewhereHasReason
  <2> QED BY <2>1, <2>2
<1>3. ASSUME NEW p \in Procs, NEW f \in Events, Claim(p, f), proc[p].at = "idle", Claimable(f),
             ev[f].lease = "free" \/ (ev[f].lease # "held" /\ ~ev[f].done)
      PROVE  EmailHasReason(e)'
  <2>1. CASE f = e
    BY <1>1, <1>3, <2>1, ClaimHasReason
  <2>2. CASE f # e
    <3> HIDE DEF Idle
    <3>1. ev'[e] = ev[e]
      BY <1>1, <1>3, <2>2 DEF Claim, Update
    <3>2. proc'[p].e = f /\ \A r \in Procs \ {p} : proc'[r] = proc[r]
      BY <1>1, <1>3 DEF Claim, Process
    <3> QED BY <1>1, <1>3, <2>2, <3>1, <3>2, ElsewhereHasReason
  <2> QED BY <2>1, <2>2
<1>4. ASSUME NEW p \in Procs, ClaimNext(p) PROVE EmailHasReason(e)'
  BY <1>3, <1>4 DEF ClaimNext, Pending, At
<1>5. ASSUME NEW p \in Procs, NEW f \in Events, ClaimById(p, f) PROVE EmailHasReason(e)'
  BY <1>3, <1>5 DEF ClaimById, At
<1>6. ASSUME NEW p \in Procs, NEW f \in Events, Webhook(p, f) PROVE EmailHasReason(e)'
  <2>1. PICK i \in DOMAIN reports[f] :
          proc' = [proc EXCEPT ![p] = [Idle EXCEPT !.at = "insert", !.role = "webhook",
                                                  !.e = f, !.seen = ev[f], !.todo = {i}]]
    BY <1>6 DEF Webhook
  <2> HIDE DEF Idle
  <2>2. /\ proc'[p].at = "insert" /\ proc'[p].role = "webhook"
        /\ \A r \in Procs \ {p} : proc'[r] = proc[r]
    BY <1>1, <2>1 DEF Process
  <2> QED BY <1>1, <1>6, <2>2, ElsewhereHasReason DEF Webhook, At
<1>7. ASSUME NEW f \in Events, LeaseExpires(f) PROVE EmailHasReason(e)'
  <2>1. CASE f = e
    <3>1. /\ ev'[e].lease = "expired" /\ ev'[e].done = ev[e].done /\ ev'[e].wa = ev[e].wa
          /\ ev'[e].wamid = ev[e].wamid /\ ev'[e].attempted = ev[e].attempted
      BY <1>1, <1>7, <2>1 DEF LeaseExpires, Update, Row
    <3>2. proc' = proc /\ \A r \in Procs : ~Works(r, e)
      BY <1>7, <2>1 DEF LeaseExpires, Works
    <3> QED BY <1>1, <3>1, <3>2, ElsewhereHasReason
  <2>2. CASE f # e
    <3>1. ev'[e] = ev[e] /\ proc' = proc
      BY <1>1, <1>7, <2>2 DEF LeaseExpires, Update
    <3> QED BY <1>1, <3>1, ElsewhereHasReason
  <2> QED BY <2>1, <2>2
<1>8. ASSUME ev' = ev, proc' = proc PROVE EmailHasReason(e)'
  BY <1>1, <1>8, ElsewhereHasReason
<1> QED
  BY <1>2, <1>4, <1>5, <1>6, <1>7, <1>8 DEF Next, Supersede, Later, Report, vars

\* Only a post asks for an email.
LEMMA OnlyPostsAskForEmail ==
  ASSUME Safe, [Next]_vars, NEW e \in Events, calls'[e].email > calls[e].email
  PROVE  \E p \in Procs : proc[p].e = e /\ PostEmail(p)
<1>1. calls \in [Events -> Calls] /\ calls[e].email \in Nat
  BY DEF Safe, TypeOK, Calls
<1>2. ~(calls' = calls)
  BY <1>1
<1>3. PICK p \in Procs : SendWhatsApp(p) \/ PostEmail(p)
  BY <1>2, ZenonT(60) DEF Next, Continue, Decide, Recheck, ClaimAttempt, RecordWhatsApp,
     SkipWhatsApp, CheckEmail, MarkEmail, FileEmail, InsertReceipt, ListReceipts,
     ReadForReceipt, WriteReceipt, EndReceipts, ClaimLateFallback, Complete, ClaimNext,
     ClaimById, Claim, Webhook, Crash, Supersede, Later, LeaseExpires, Report, vars
<1>4. ~SendWhatsApp(p)
  <2> SUFFICES ASSUME SendWhatsApp(p) PROVE FALSE
    OBVIOUS
  <2>1. PICK o \in {"accepted", "failed", "unknown"}, took \in BOOLEAN :
        calls' = [calls EXCEPT ![proc[p].e].wa = @ + 1, ![proc[p].e].taken = @ \/ took]
    BY DEF SendWhatsApp
  <2>2. calls'[e].email = calls[e].email
    BY <1>1, <2>1 DEF Calls
  <2> QED BY <1>1, <2>2
<1>5. PostEmail(p) /\ proc[p].e = e
  <2>1. PostEmail(p)
    BY <1>3, <1>4
  <2>2. calls' = [calls EXCEPT ![proc[p].e].email = @ + 1]
    BY <2>1 DEF PostEmail
  <2>3. proc[p].e # e => calls'[e] = calls[e]
    BY <1>1, <2>2
  <2> QED BY <1>1, <2>1, <2>3
<1> QED
  BY <1>5

\* While leases outlast their workers, no email goes out for a message whose acceptance is on
\* record unless a receipt says that it failed: for any number of workers, webhook requests
\* and crashes, and receipts repeated in any order (server/appointment-notifications.ts,
\* processClaimedCore and processMetaLateFailureEmailFallback).
THEOREM EmailStaysAFallback ==
  ASSUME ~SlowWorkers
  PROVE  Spec => EmailIsAFallback
<1> DEFINE Inv == \A e \in Events : EmailHasReason(e)
<1>1. Init => Inv
  <2> SUFFICES ASSUME Init, NEW e \in Events PROVE EmailHasReason(e)
    OBVIOUS
  <2>1. \A p \in Procs : proc[p].at = "idle"
    BY IdleIsSound DEF Init
  <2>2. ~ev[e].wamid /\ ~ev[e].attempted /\ ~ev[e].done
    BY DEF Init, NewRow
  <2> QED BY <2>1, <2>2 DEF EmailHasReason, RowHasReason, Alone, Works, HasReason, Before
<1>2. Safe /\ Inv /\ [Next]_vars => Inv'
  BY StepHasReason
<1>3. Safe /\ Inv /\ [Next]_vars =>
        [\A e \in Events : calls'[e].email > calls[e].email =>
            ~ev[e].wamid \/ \E i \in receipts[e] : reports[e][i] = "failed"]_calls
  <2> SUFFICES ASSUME Safe, Inv, [Next]_vars, NEW e \in Events,
                      calls'[e].email > calls[e].email
               PROVE  ~ev[e].wamid \/ Told(e)
    BY DEF Told
  <2>1. PICK p \in Procs : proc[p].e = e /\ PostEmail(p)
    BY OnlyPostsAskForEmail
  <2> QED BY <2>1 DEF EmailHasReason, HasReason, PostEmail, At
<1> QED
  BY <1>1, <1>2, <1>3, InitIsSafe, StepIsSafe, PTL DEF Spec, EmailIsAFallback

-----------------------------------------------------------------------------
(***************************************************************************)
(* The other half of the webhook: a number is not answered twice in a      *)
(* window, for any number of messages, senders, calls under way and        *)
(* failures, and any length of the window.  First the invariant.           *)
(***************************************************************************)

\* Who is between the lock and the commit has the lock of the sender.
LockOK == \A h \in Handlers : CallAt(h, "insert") => lock[SenderOf[Message(h)]] = h

\* A call asks for a window that ended before the transaction of its message began.
TimeOK == \A h \in Handlers : handlers[h].now <= clock /\ handlers[h].begun <= clock
                              /\ (handlers[h].at \in {"lock", "insert"} =>
                                    handlers[h].now <= handlers[h].begun)

\* Until the commit, what the sender already has stays older than that window.
ClearOK == \A h \in Handlers, n \in Messages :
    CallAt(h, "insert") /\ SenderOf[n] = SenderOf[Message(h)] /\ rows[n].status \in Counted =>
        rows[n].createdAt < handlers[h].now - Window

Answering(h) == handlers[h].at \in {"send", "complete", "amend"}

\* Each claimed receipt has one call at most that will complete it.
ClaimOK ==
    /\ \A h \in Handlers : Answering(h) => rows[Message(h)].status = "claimed"
    /\ \A g, h \in Handlers : Answering(g) /\ Answering(h) /\ Message(g) = Message(h) => g = h

TakenOK == \A m \in taken : rows[m].status # "none"

RationOK == \A m, n \in Messages :
    /\ m # n /\ SenderOf[m] = SenderOf[n]
    /\ rows[m].status \in Counted /\ rows[n].status \in Counted
    => Apart(m, n)

Ind == InboundTypeOK /\ LockOK /\ TimeOK /\ ClearOK /\ ClaimOK /\ TakenOK /\ RationOK

LEMMA IdleTyped == NoCall \in Handler
<1>1. (CHOOSE m \in Messages : TRUE) \in Messages
  BY InboundAssumption
<1> QED
  BY <1>1, InboundAssumption DEF NoCall, Handler, Instants, Outcomes

(* Each step keeps the types. *)
LEMMA TypeStep ==
  ASSUME InboundTypeOK, [InboundNext]_inboundVars
  PROVE  InboundTypeOK'
<1> USE IdleTyped, InboundAssumption
<1>1. CASE Tick
  BY <1>1 DEF Tick, InboundTypeOK, Instants
<1>2. ASSUME NEW h \in Handlers, Receive(h)
      PROVE  InboundTypeOK'
  <2>1. PICK batch \in (SUBSET Messages) \ {{}} :
          handlers' = [handlers EXCEPT ![h].at = "next", ![h].todo = batch, ![h].now = clock]
    BY <1>2 DEF Receive
  <2>2. [handlers[h] EXCEPT !.at = "next", !.todo = batch, !.now = clock] \in Handler
    BY DEF InboundTypeOK, Handler
  <2>3. handlers' \in [Handlers -> Handler]
    BY <2>1, <2>2 DEF InboundTypeOK
  <2> QED
    BY <1>2, <2>3 DEF Receive, InboundTypeOK
<1>3. ASSUME NEW h \in Handlers, Finish(h)
      PROVE  InboundTypeOK'
  BY <1>3 DEF Finish, EndCall, InboundTypeOK
<1>4. ASSUME NEW h \in Handlers, BeginClaim(h)
      PROVE  InboundTypeOK'
  BY <1>4 DEF BeginClaim, InboundTypeOK, Handler
<1>p. ASSUME NEW h \in Handlers
      PROVE  NextMessage(h) \in Handler
  BY DEF NextMessage, InboundTypeOK, Handler
<1>5. ASSUME NEW h \in Handlers, Look(h)
      PROVE  InboundTypeOK'
  <2>1. lock' \in [Senders -> Handlers \cup {Nobody}]
    BY <1>5 DEF Look, InboundTypeOK
  <2>2. [handlers[h] EXCEPT !.at = "insert"] \in Handler
    BY DEF InboundTypeOK, Handler
  <2>3. Proceed(h) \/ CallTo(h, "insert")
    BY <1>5 DEF Look
  <2>4. handlers' \in [Handlers -> Handler]
    BY <1>p, <2>2, <2>3 DEF Proceed, CallTo, InboundTypeOK
  <2> QED
    BY <1>5, <2>1, <2>4 DEF Look, InboundTypeOK
<1>6. ASSUME NEW h \in Handlers, Insert(h)
      PROVE  InboundTypeOK'
  <2>1. lock' \in [Senders -> Handlers \cup {Nobody}]
    BY <1>6 DEF Insert, InboundTypeOK
  <2>2. handlers' \in [Handlers -> Handler]
    <3>1. [handlers[h] EXCEPT !.at = "send"] \in Handler
      BY DEF InboundTypeOK, Handler
    <3> QED
      BY <1>6, <1>p, <3>1 DEF Insert, Proceed, CallTo, InboundTypeOK
  <2>3. rows' \in [Messages -> Receipt]
    BY <1>6 DEF Insert, InboundTypeOK, Handler, Receipt
  <2> QED
    BY <1>6, <2>1, <2>2, <2>3 DEF Insert, InboundTypeOK
<1>7. ASSUME NEW h \in Handlers, SendReply(h)
      PROVE  InboundTypeOK'
  <2>1. PICK o \in Outcomes, take \in BOOLEAN :
          /\ taken' = IF take THEN taken \cup {Message(h)} ELSE taken
          /\ handlers' = [handlers EXCEPT ![h].outcome = o, ![h].at = "complete"]
    BY <1>7 DEF SendReply
  <2>2. [handlers[h] EXCEPT !.outcome = o, !.at = "complete"] \in Handler /\ Message(h) \in Messages
    BY DEF InboundTypeOK, Handler, Message
  <2>3. handlers' \in [Handlers -> Handler]
    BY <2>1, <2>2 DEF InboundTypeOK
  <2> QED
    BY <1>7, <2>1, <2>2, <2>3 DEF SendReply, InboundTypeOK
<1>8. ASSUME NEW h \in Handlers, CompleteReceipt(h)
      PROVE  InboundTypeOK'
  <2>1. handlers' \in [Handlers -> Handler]
    BY <1>8, <1>p DEF CompleteReceipt, Proceed, InboundTypeOK
  <2>2. rows' \in [Messages -> Receipt]
    <3>1. handlers[h].outcome \in Outcomes /\ Message(h) \in Messages
      BY DEF InboundTypeOK, Handler, Message
    <3> QED
      BY <1>8, <3>1 DEF CompleteReceipt, SetStatus, InboundTypeOK, Receipt, Outcomes
  <2> QED
    BY <1>8, <2>1, <2>2 DEF CompleteReceipt, InboundTypeOK
<1>9. ASSUME NEW h \in Handlers, CompleteThrows(h)
      PROVE  InboundTypeOK'
  BY <1>9 DEF CompleteThrows, CallTo, InboundTypeOK, Handler
<1>10. ASSUME NEW h \in Handlers, Amend(h)
       PROVE  InboundTypeOK'
  <2>1. handlers' \in [Handlers -> Handler]
    BY <1>10, <1>p DEF Amend, Proceed, InboundTypeOK
  <2>2. rows' \in [Messages -> Receipt]
    BY <1>10, ZenonT(60) DEF Amend, SetStatus, InboundTypeOK, Handler, Receipt
  <2> QED
    BY <1>10, <2>1, <2>2 DEF Amend, InboundTypeOK
<1>11. ASSUME NEW h \in Handlers, Abandon(h)
       PROVE  InboundTypeOK'
  BY <1>11 DEF Abandon, EndCall, InboundTypeOK
<1>12. CASE UNCHANGED inboundVars
  BY <1>12 DEF inboundVars, InboundTypeOK
<1> QED
  BY <1>1, <1>2, <1>3, <1>4, <1>5, <1>6, <1>7, <1>8, <1>9, <1>10, <1>11, <1>12 DEF InboundNext

Rationing == LockOK /\ TimeOK /\ ClearOK /\ ClaimOK /\ TakenOK /\ RationOK

(* A step of one call that writes no receipt, and after which the call is not
   between the lock and the commit, and answers no other message than before. *)
LEMMA QuietCall ==
  ASSUME Ind, InboundTypeOK', UNCHANGED <<rows, clock, taken>>, NEW h \in Handlers,
         \A s \in Senders : lock'[s] = lock[s] \/ lock[s] = h,
         \A g \in Handlers : g # h => handlers'[g] = handlers[g],
         ~CallAt(h, "insert")',
         Answering(h)' => Answering(h) /\ Message(h)' = Message(h),
         handlers[h]'.now <= clock /\ handlers[h]'.begun <= clock,
         CallAt(h, "lock")' => handlers[h]'.now <= handlers[h]'.begun
  PROVE  Rationing'
<1>1. LockOK'
  <2> SUFFICES ASSUME NEW g \in Handlers, CallAt(g, "insert")'
               PROVE  lock'[SenderOf[Message(g)']] = g
    BY DEF LockOK
  <2>1. g # h /\ handlers'[g] = handlers[g]
    OBVIOUS
  <2>2. SenderOf[Message(g)] \in Senders /\ lock[SenderOf[Message(g)]] = g
    BY <2>1, InboundAssumption DEF Ind, LockOK, CallAt, Message, InboundTypeOK, Handler
  <2> QED
    BY <2>1, <2>2 DEF Message
<1>2. TimeOK'
  BY DEF Ind, TimeOK, CallAt
<1>3. ClearOK'
  BY DEF Ind, ClearOK, CallAt, Message
<1>4. ClaimOK'
  BY DEF Ind, ClaimOK, Answering, Message
<1>5. TakenOK' /\ RationOK'
  BY DEF Ind, TakenOK, RationOK, Apart
<1> QED
  BY <1>1, <1>2, <1>3, <1>4, <1>5 DEF Rationing

(* Looking under the lock makes the window clear of what is there. *)
LEMMA LookStep ==
  ASSUME Ind, InboundTypeOK', NEW h \in Handlers, Look(h)
  PROVE  Rationing'
<1> DEFINE m == Message(h)
           refused == rows[m].status # "none" \/ Recent(SenderOf[m], handlers[h].now - Window)
<1>t. m \in Messages /\ SenderOf[m] \in Senders
  BY InboundAssumption DEF Ind, InboundTypeOK, Handler, Message
<1>1. CASE refused
  <2>1. handlers' = [handlers EXCEPT ![h] = NextMessage(h)] /\ UNCHANGED <<rows, lock, clock, taken>>
    BY <1>1 DEF Look, Proceed
  <2>2. handlers'[h].at = "next" /\ handlers'[h].now = handlers[h].now /\ handlers'[h].begun = 0
    BY <2>1 DEF NextMessage, NoCall, Ind, InboundTypeOK
  <2>3. 0 <= clock /\ handlers[h].now <= clock
    BY DEF Ind, InboundTypeOK, TimeOK, Instants
  <2> QED
    BY <2>1, <2>2, <2>3, QuietCall DEF Ind, InboundTypeOK, CallAt, Answering
<1>2. CASE ~refused
  <2>1. /\ lock[SenderOf[m]] = Nobody /\ lock' = [lock EXCEPT ![SenderOf[m]] = h]
        /\ handlers' = [handlers EXCEPT ![h].at = "insert"]
        /\ UNCHANGED <<rows, clock, taken>> /\ handlers[h].at = "lock"
    BY <1>2 DEF Look, CallTo, CallAt
  <2>2. /\ handlers'[h] = [handlers[h] EXCEPT !.at = "insert"]
        /\ \A g \in Handlers : g # h => handlers'[g] = handlers[g]
    BY <2>1 DEF Ind, InboundTypeOK
  <2>3. /\ handlers'[h].at = "insert" /\ handlers'[h].now = handlers[h].now
        /\ handlers'[h].begun = handlers[h].begun /\ handlers'[h].message = m
    BY <2>2 DEF Ind, InboundTypeOK, Handler, Message
  <2>4. LockOK'
    BY <1>t, <2>1, <2>2, <2>3, InboundAssumption DEF Ind, LockOK, CallAt, Message, InboundTypeOK
  <2>5. TimeOK'
    BY <2>1, <2>2, <2>3 DEF Ind, TimeOK
  <2>6. ClearOK'
    <3>1. \A n \in Messages : SenderOf[n] = SenderOf[m] /\ rows[n].status \in Counted
            => ~(rows[n].createdAt >= handlers[h].now - Window)
      BY <1>2 DEF Recent
    <3>2. \A n \in Messages : rows[n].createdAt \in Int
      BY InboundAssumption DEF Ind, InboundTypeOK, Receipt, Instants
    <3>3. handlers[h].now \in Int /\ Window \in Int
      BY InboundAssumption DEF Ind, InboundTypeOK, Handler, Instants
    <3>4. \A n \in Messages : SenderOf[n] = SenderOf[m] /\ rows[n].status \in Counted
            => rows[n].createdAt < handlers[h].now - Window
      BY <3>1, <3>2, <3>3
    <3> QED
      BY <2>1, <2>2, <2>3, <3>4 DEF Ind, ClearOK, CallAt, Message
  <2>7. ClaimOK'
    BY <2>1, <2>2, <2>3 DEF Ind, ClaimOK, Answering, Message
  <2>8. TakenOK' /\ RationOK'
    BY <2>1 DEF Ind, TakenOK, RationOK, Apart
  <2> QED
    BY <2>4, <2>5, <2>6, <2>7, <2>8 DEF Rationing
<1> QED
  BY <1>1, <1>2

(* A claimed receipt is later than the window of every other one that counts,
   and the lock keeps other calls from claiming meanwhile. *)
LEMMA InsertStep ==
  ASSUME Ind, InboundTypeOK', NEW h \in Handlers, Insert(h)
  PROVE  Rationing'
<1> DEFINE m == Message(h)
<1>t. m \in Messages /\ SenderOf[m] \in Senders /\ handlers[h].at = "insert"
      /\ lock[SenderOf[m]] = h
  BY InboundAssumption DEF Ind, InboundTypeOK, Handler, Message, Insert, LockOK, CallAt
<1>1. CASE rows[m].status # "none"
  <2>1. handlers' = [handlers EXCEPT ![h] = NextMessage(h)] /\ UNCHANGED <<rows, clock, taken>>
        /\ lock' = [lock EXCEPT ![SenderOf[m]] = Nobody]
    BY <1>1, <1>t DEF Insert, Proceed
  <2>2. handlers'[h].at = "next" /\ handlers'[h].now = handlers[h].now /\ handlers'[h].begun = 0
    BY <2>1 DEF NextMessage, NoCall, Ind, InboundTypeOK
  <2>3. 0 <= clock /\ handlers[h].now <= clock
    BY DEF Ind, InboundTypeOK, TimeOK, Instants
  <2> QED
    BY <1>t, <2>1, <2>2, <2>3, QuietCall DEF Ind, InboundTypeOK, CallAt, Answering
<1>2. CASE rows[m].status = "none"
  <2>1. /\ handlers' = [handlers EXCEPT ![h].at = "send"] /\ UNCHANGED <<clock, taken>>
        /\ lock' = [lock EXCEPT ![SenderOf[m]] = Nobody]
        /\ rows' = [rows EXCEPT ![m] = [status |-> "claimed", createdAt |-> handlers[h].begun]]
    BY <1>2, <1>t DEF Insert, CallTo
  <2>2. /\ handlers'[h] = [handlers[h] EXCEPT !.at = "send"]
        /\ \A g \in Handlers : g # h => handlers'[g] = handlers[g]
    BY <2>1 DEF Ind, InboundTypeOK
  <2>3. /\ handlers'[h].at = "send" /\ handlers'[h].now = handlers[h].now
        /\ handlers'[h].begun = handlers[h].begun /\ handlers'[h].message = m
    BY <2>2 DEF Ind, InboundTypeOK, Handler, Message
  <2>4. /\ rows'[m].status = "claimed" /\ rows'[m].createdAt = handlers[h].begun
        /\ \A n \in Messages : n # m => rows'[n] = rows[n]
    BY <1>t, <2>1 DEF Ind, InboundTypeOK
  <2>5. \A g \in Handlers : g # h /\ CallAt(g, "insert") =>
            SenderOf[Message(g)] # SenderOf[m] /\ lock'[SenderOf[Message(g)]] = g
    <3> TAKE g \in Handlers
    <3>1. SenderOf[Message(g)] \in Senders
      BY InboundAssumption DEF Ind, InboundTypeOK, Handler, Message
    <3> QED
      BY <1>t, <2>1, <3>1 DEF Ind, LockOK, InboundTypeOK
  <2>6. LockOK'
    BY <2>2, <2>3, <2>5 DEF LockOK, CallAt, Message
  <2>7. TimeOK'
    BY <2>1, <2>2, <2>3 DEF Ind, TimeOK
  <2>8. ClearOK'
    BY <2>2, <2>3, <2>4, <2>5, ZenonT(60) DEF Ind, ClearOK, CallAt, Message
  <2>9. ClaimOK'
    <3>1. \A g \in Handlers : g # h /\ Answering(g) => Message(g) # m /\ Message(g) \in Messages
      BY <1>2 DEF Ind, ClaimOK, InboundTypeOK, Handler, Message
    <3>2. \A g \in Handlers : g # h => Answering(g)' = Answering(g) /\ Message(g)' = Message(g)
      BY <2>2 DEF Answering, Message
    <3>3. Message(h)' = m
      BY <2>3 DEF Message
    <3> QED
      BY <2>4, <3>1, <3>2, <3>3 DEF Ind, ClaimOK
  <2>10. TakenOK'
    BY <2>1, <2>4 DEF Ind, TakenOK, InboundTypeOK
  <2>11. RationOK'
    <3>1. \A n \in Messages : n # m /\ SenderOf[n] = SenderOf[m] /\ rows[n].status \in Counted
            => handlers[h].begun - rows[n].createdAt > Window
      <4> TAKE n \in Messages
      <4>1. rows[n].createdAt \in Int /\ handlers[h].now \in Int /\ handlers[h].begun \in Int
            /\ Window \in Int
        BY InboundAssumption DEF Ind, InboundTypeOK, Receipt, Handler, Instants
      <4>2. handlers[h].now <= handlers[h].begun
        BY <1>t DEF Ind, TimeOK
      <4> QED
        BY <1>t, <4>1, <4>2 DEF Ind, ClearOK, CallAt
    <3> QED
      BY <2>4, <3>1 DEF Ind, RationOK, Apart
  <2> QED
    BY <2>6, <2>7, <2>8, <2>9, <2>10, <2>11 DEF Rationing
<1> QED
  BY <1>1, <1>2

(* A completed receipt counts no more than it did as a claimed one. *)
LEMMA CompleteStep ==
  ASSUME Ind, InboundTypeOK', NEW h \in Handlers, CompleteReceipt(h) \/ Amend(h)
  PROVE  Rationing'
<1> DEFINE m == Message(h)
<1>t. m \in Messages /\ Answering(h) /\ rows[m].status = "claimed"
  BY DEF Ind, InboundTypeOK, Handler, Message, CompleteReceipt, Amend, ClaimOK, CallAt, Answering
<1>1. PICK status \in {"sent", "unknown", "failed"} :
        /\ rows' = [rows EXCEPT ![m].status = status]
        /\ handlers' = [handlers EXCEPT ![h] = NextMessage(h)] /\ UNCHANGED <<lock, clock, taken>>
  BY DEF CompleteReceipt, Amend, SetStatus, Proceed, Ind, InboundTypeOK, Handler, Outcomes
<1>2. handlers'[h].at = "next" /\ handlers'[h].now = handlers[h].now /\ handlers'[h].begun = 0
      /\ \A g \in Handlers : g # h => handlers'[g] = handlers[g]
  BY <1>1 DEF NextMessage, NoCall, Ind, InboundTypeOK
<1>3. 0 <= clock /\ handlers[h].now <= clock
  BY DEF Ind, InboundTypeOK, TimeOK, Instants
<1>4. /\ rows'[m].status = status /\ rows'[m].createdAt = rows[m].createdAt
      /\ \A n \in Messages : n # m => rows'[n] = rows[n]
  BY <1>t, <1>1 DEF Ind, InboundTypeOK, Receipt
<1>5. \A n \in Messages : /\ rows'[n].createdAt = rows[n].createdAt
                          /\ rows'[n].status \in Counted => rows[n].status \in Counted
  BY <1>t, <1>4 DEF Counted
<1>6. LockOK' /\ TimeOK'
  BY <1>1, <1>2, <1>3 DEF Ind, LockOK, TimeOK, CallAt, Message
<1>7. ClearOK'
  BY <1>2, <1>5 DEF Ind, ClearOK, CallAt, Message
<1>8. ClaimOK'
  <2>1. \A g \in Handlers : Answering(g)' => g # h /\ Answering(g) /\ Message(g)' = Message(g)
    BY <1>2 DEF Answering, Message
  <2>2. \A g \in Handlers : g # h /\ Answering(g) => Message(g) # m /\ Message(g) \in Messages
    BY <1>t DEF Ind, ClaimOK, InboundTypeOK, Handler, Message
  <2> QED
    BY <1>4, <2>1, <2>2 DEF Ind, ClaimOK
<1>9. TakenOK'
  BY <1>1, <1>4 DEF Ind, TakenOK, InboundTypeOK
<1>10. RationOK'
  BY <1>5 DEF Ind, RationOK, Apart
<1> QED
  BY <1>6, <1>7, <1>8, <1>9, <1>10 DEF Rationing

(* The invariant is inductive. *)
LEMMA Step ==
  ASSUME Ind, [InboundNext]_inboundVars
  PROVE  Ind'
<1>t. InboundTypeOK'
  BY TypeStep DEF Ind
<1>n. 0 <= clock /\ \A h \in Handlers : handlers[h].now <= clock /\ handlers[h].begun <= clock
  BY DEF Ind, InboundTypeOK, TimeOK, Instants
<1>1. CASE Tick
  <2>1. TimeOK'
    <3>1. \A h \in Handlers : handlers[h].now \in Int /\ handlers[h].begun \in Int
      BY InboundAssumption DEF Ind, InboundTypeOK, Handler, Instants
    <3>2. clock \in Int /\ clock' = clock + 1 /\ UNCHANGED handlers
      BY <1>1, InboundAssumption DEF Tick, Ind, InboundTypeOK, Instants
    <3> QED
      BY <1>n, <3>1, <3>2 DEF Ind, TimeOK
  <2>2. LockOK' /\ ClearOK' /\ ClaimOK'
    BY <1>1 DEF Tick, Ind, LockOK, ClearOK, ClaimOK, CallAt, Message, Answering
  <2>3. TakenOK' /\ RationOK'
    BY <1>1 DEF Tick, Ind, TakenOK, RationOK, Apart
  <2> QED
    BY <1>t, <2>1, <2>2, <2>3 DEF Ind
<1>2. ASSUME NEW h \in Handlers, Receive(h)
      PROVE  Rationing'
  <2>1. /\ handlers'[h].at = "next" /\ handlers'[h].now = clock /\ handlers'[h].begun = handlers[h].begun
        /\ \A g \in Handlers : g # h => handlers'[g] = handlers[g]
    BY <1>2 DEF Receive, Ind, InboundTypeOK, Handler
  <2> QED
    BY <1>2, <1>t, <1>n, <2>1, QuietCall DEF Receive, CallAt, Answering, Ind, InboundTypeOK, Instants
<1>3. ASSUME NEW h \in Handlers, Finish(h) \/ Abandon(h)
      PROVE  Rationing'
  <2>1. /\ handlers'[h] = NoCall
        /\ \A g \in Handlers : g # h => handlers'[g] = handlers[g]
    BY <1>3 DEF Finish, Abandon, EndCall, Ind, InboundTypeOK
  <2>2. \A s \in Senders : lock'[s] = lock[s] \/ lock[s] = h
    BY <1>3 DEF Finish, Abandon
  <2>3. handlers'[h].at = "idle" /\ handlers'[h].now = 0 /\ handlers'[h].begun = 0
    BY <2>1 DEF NoCall
  <2>4. UNCHANGED <<rows, clock, taken>>
    BY <1>3 DEF Finish, Abandon
  <2> QED
    BY <1>t, <1>n, <2>1, <2>2, <2>3, <2>4, QuietCall DEF CallAt, Answering
<1>4. ASSUME NEW h \in Handlers, BeginClaim(h)
      PROVE  Rationing'
  <2>1. /\ handlers'[h].at = "lock" /\ handlers'[h].now = handlers[h].now /\ handlers'[h].begun = clock
        /\ \A g \in Handlers : g # h => handlers'[g] = handlers[g]
    BY <1>4 DEF BeginClaim, Ind, InboundTypeOK, Handler
  <2>2. clock <= clock
    BY InboundAssumption DEF Ind, InboundTypeOK, Instants
  <2>3. UNCHANGED <<rows, clock, taken, lock>>
    BY <1>4 DEF BeginClaim
  <2> QED
    BY <1>t, <1>n, <2>1, <2>2, <2>3, QuietCall DEF CallAt, Answering
<1>5. ASSUME NEW h \in Handlers, CompleteThrows(h)
      PROVE  Rationing'
  <2>1. /\ handlers'[h] = [handlers[h] EXCEPT !.at = "amend"] /\ handlers[h].at = "complete"
        /\ \A g \in Handlers : g # h => handlers'[g] = handlers[g]
    BY <1>5 DEF CompleteThrows, CallTo, CallAt, Ind, InboundTypeOK
  <2>2. /\ handlers'[h].at = "amend" /\ handlers'[h].now = handlers[h].now
        /\ handlers'[h].begun = handlers[h].begun /\ handlers'[h].message = handlers[h].message
    BY <2>1 DEF Ind, InboundTypeOK, Handler
  <2>3. UNCHANGED <<rows, clock, taken, lock>>
    BY <1>5 DEF CompleteThrows
  <2> QED
    BY <1>t, <1>n, <2>1, <2>2, <2>3, QuietCall DEF CallAt, Answering, Message
<1>6. ASSUME NEW h \in Handlers, SendReply(h)
      PROVE  Rationing'
  <2>1. PICK o \in Outcomes, take \in BOOLEAN :
          /\ taken' = IF take THEN taken \cup {Message(h)} ELSE taken
          /\ handlers' = [handlers EXCEPT ![h].outcome = o, ![h].at = "complete"]
    BY <1>6 DEF SendReply
  <2>2. /\ handlers'[h] = [handlers[h] EXCEPT !.outcome = o, !.at = "complete"]
        /\ \A g \in Handlers : g # h => handlers'[g] = handlers[g]
    BY <2>1 DEF Ind, InboundTypeOK
  <2>3. /\ handlers'[h].at = "complete" /\ handlers'[h].now = handlers[h].now
        /\ handlers'[h].begun = handlers[h].begun /\ handlers'[h].message = handlers[h].message
    BY <2>2 DEF Ind, InboundTypeOK, Handler
  <2>4. UNCHANGED <<rows, clock, lock>> /\ handlers[h].at = "send"
    BY <1>6 DEF SendReply, CallAt
  <2>5. LockOK' /\ TimeOK'
    BY <2>2, <2>3, <2>4 DEF Ind, LockOK, TimeOK, CallAt, Message
  <2>8. ClearOK'
    BY <2>2, <2>3, <2>4 DEF Ind, ClearOK, CallAt, Message
  <2>9. RationOK'
    BY <2>4 DEF Ind, RationOK, Apart
  <2>6. ClaimOK'
    <3>1. \A g \in Handlers : (Answering(g)' <=> Answering(g)) /\ Message(g)' = Message(g)
      BY <2>2, <2>3, <2>4 DEF Answering, Message
    <3> QED
      BY <2>4, <3>1 DEF Ind, ClaimOK
  <2>7. TakenOK'
    <3>1. rows[Message(h)].status # "none"
      BY <2>4 DEF Ind, ClaimOK, Answering
    <3> QED
      BY <2>1, <2>4, <3>1 DEF Ind, TakenOK
  <2> QED
    BY <2>5, <2>6, <2>7, <2>8, <2>9 DEF Rationing
<1>7. CASE UNCHANGED inboundVars
  <2>1. LockOK' /\ TimeOK' /\ ClearOK' /\ ClaimOK'
    BY <1>7 DEF inboundVars, Ind, LockOK, TimeOK, ClearOK, ClaimOK, CallAt, Message, Answering
  <2>2. TakenOK' /\ RationOK'
    BY <1>7 DEF inboundVars, Ind, TakenOK, RationOK, Apart
  <2> QED
    BY <1>t, <2>1, <2>2 DEF Ind
<1>8. ASSUME Rationing'
      PROVE  Ind'
  BY <1>t, <1>8 DEF Ind, Rationing
<1> QED
  BY <1>t, <1>1, <1>2, <1>3, <1>4, <1>5, <1>6, <1>7, <1>8, LookStep, InsertStep, CompleteStep DEF InboundNext

LEMMA Initially == InboundInit => Ind
<1> SUFFICES ASSUME InboundInit PROVE Ind
  OBVIOUS
<1>1. InboundTypeOK
  BY IdleTyped, InboundAssumption DEF InboundInit, InboundTypeOK, Receipt, Instants
<1>2. \A h \in Handlers : handlers[h].at = "idle" /\ handlers[h].now = 0 /\ handlers[h].begun = 0
  BY DEF InboundInit, NoCall
<1>3. LockOK /\ TimeOK /\ ClearOK /\ ClaimOK
  BY <1>2 DEF InboundInit, LockOK, TimeOK, ClearOK, ClaimOK, CallAt, Answering
<1>4. TakenOK /\ RationOK
  BY DEF InboundInit, TakenOK, RationOK, Counted
<1> QED
  BY <1>1, <1>3, <1>4 DEF Ind

(* Whatever is taken and has no failed receipt counts. *)
LEMMA Rationed == Ind => RepliesAreRationed
<1> SUFFICES ASSUME Ind, NEW m \in taken, NEW n \in taken, m # n,
                    SenderOf[m] = SenderOf[n], ~Apart(m, n)
             PROVE  \E k \in {m, n} : rows[k].status = "failed"
  BY DEF RepliesAreRationed
<1>1. m \in Messages /\ n \in Messages
  BY DEF Ind, InboundTypeOK
<1>2. ~(rows[m].status \in Counted /\ rows[n].status \in Counted)
  BY <1>1 DEF Ind, RationOK
<1>3. rows[m].status \in Counted \cup {"failed"} /\ rows[n].status \in Counted \cup {"failed"}
  BY <1>1 DEF Ind, TakenOK, InboundTypeOK, Receipt, Counted
<1> QED
  BY <1>2, <1>3

-----------------------------------------------------------------------------
(* A number gets one automatic answer in a window, whatever Meta repeats,
   bundles and brings at once and whatever fails, except after an answer whose
   receipt was completed as failed (claimMetaInboundAutoReply). *)
THEOREM AutoRepliesAreRationed == InboundSpec => []RepliesAreRationed
<1>1. InboundSpec => []Ind
  BY Initially, Step, PTL DEF InboundSpec
<1> QED
  BY <1>1, Rationed, PTL
=============================================================================
