---------------------------- MODULE InboundReply ----------------------------
(* The automatic answer to the messages customers write: the inbound half of *)
(* server/meta-webhook.ts, and the receipts it claims in server/storage.ts.  *)
(* A number gets one answer in a window of 24 hours.  Meta may bring a       *)
(* message several times, to several processes at once; a handler asks for   *)
(* the window that ends when its call arrived, and a receipt has the time    *)
(* at which its transaction began, before it waited for the sender's lock.   *)
EXTENDS Integers, FiniteSets

CONSTANTS
    Messages,          \* eligible messages, one receipt key each
    Senders,
    SenderOf,          \* who wrote each message
    Nobody,            \* who holds a free lock
    Handlers,          \* calls of the webhook under way at once
    Window,            \* INBOUND_AUTO_REPLY_WINDOW_MS
    MaxTime,           \* bound: the last instant
    MaxFailures        \* bound: statements that throw, processes lost

ASSUME InboundAssumption ==
    /\ Messages # {} /\ SenderOf \in [Messages -> Senders]
    /\ Nobody \notin Handlers
    /\ Window \in Nat /\ MaxTime \in Nat /\ MaxFailures \in Nat

VARIABLES
    rows,              \* table meta_webhook_receipts: the receipt of each message
    handlers,          \* what each call holds in memory
    lock,              \* the advisory lock of each sender
    clock,
    taken,             \* the messages whose answer Meta took
    failures

inboundVars == <<rows, handlers, lock, clock, taken, failures>>

-----------------------------------------------------------------------------
Instants == 0..MaxTime
Receipt == [status: {"none", "claimed", "sent", "unknown", "failed"}, createdAt: Instants]
Outcomes == {"accepted", "unknown", "failed"}

\* now: when the call arrived; begun: when the transaction of its message did.
Handler == [at: {"idle", "next", "lock", "insert", "send", "complete", "amend"},
            todo: SUBSET Messages, message: Messages, now: Instants, begun: Instants,
            outcome: Outcomes]
NoCall == [at |-> "idle", todo |-> {}, message |-> CHOOSE m \in Messages : TRUE,
           now |-> 0, begun |-> 0, outcome |-> "failed"]

CallAt(h, step) == handlers[h].at = step
CallTo(h, step) == handlers' = [handlers EXCEPT ![h].at = step]
NextMessage(h) == [NoCall EXCEPT !.at = "next", !.todo = handlers[h].todo, !.now = handlers[h].now]
Proceed(h) == handlers' = [handlers EXCEPT ![h] = NextMessage(h)]
EndCall(h) == handlers' = [handlers EXCEPT ![h] = NoCall]
Message(h) == handlers[h].message
SetStatus(m, status) == rows' = [rows EXCEPT ![m].status = status]

\* A call brings messages; they are handled one by one.
Receive(h) ==
    /\ CallAt(h, "idle")
    /\ \E batch \in (SUBSET Messages) \ {{}} :
        handlers' = [handlers EXCEPT ![h].at = "next", ![h].todo = batch, ![h].now = clock]
    /\ UNCHANGED <<rows, lock, clock, taken, failures>>

Finish(h) ==
    /\ CallAt(h, "next") /\ handlers[h].todo = {}
    /\ EndCall(h)
    /\ UNCHANGED <<rows, lock, clock, taken, failures>>

BeginClaim(h) ==
    /\ CallAt(h, "next")
    /\ \E m \in handlers[h].todo :
        handlers' = [handlers EXCEPT ![h].at = "lock", ![h].todo = @ \ {m},
                                     ![h].message = m, ![h].begun = clock]
    /\ UNCHANGED <<rows, lock, clock, taken, failures>>

\* What keeps a sender from another answer: one that was sent, may have been, or may still be.
CountedWhenSent == {"sent", "unknown"}
Counted == {"claimed", "sent", "unknown"}

RecentlySent(sender, windowStart) ==
    \E m \in Messages : /\ SenderOf[m] = sender
                        /\ rows[m].status \in CountedWhenSent
                        /\ rows[m].createdAt >= windowStart

Recent(sender, windowStart) ==
    \E m \in Messages : /\ SenderOf[m] = sender
                        /\ rows[m].status \in Counted
                        /\ rows[m].createdAt >= windowStart

\* Two transactions of a sender that look at the same time.
LookUnlocked(h) ==
    /\ CallAt(h, "lock")
    /\ IF rows[Message(h)].status # "none" \/ Recent(SenderOf[Message(h)], handlers[h].now - Window)
       THEN Proceed(h) ELSE CallTo(h, "insert")
    /\ UNCHANGED <<rows, lock, clock, taken, failures>>

\* The lock, and the two queries under it; a refusal commits at once and frees it.
Look(h) ==
    LET m == Message(h)
        s == SenderOf[m]
        refused == rows[m].status # "none" \/ Recent(s, handlers[h].now - Window)
    IN  /\ CallAt(h, "lock") /\ lock[s] = Nobody
        /\ lock' = IF refused THEN lock ELSE [lock EXCEPT ![s] = h]
        /\ IF refused THEN Proceed(h) ELSE CallTo(h, "insert")
        /\ UNCHANGED <<rows, clock, taken, failures>>

\* The insert does nothing on a receipt key that is there, and the commit frees the lock.
Insert(h) ==
    LET m == Message(h)
        new == rows[m].status = "none"
    IN  /\ CallAt(h, "insert")
        /\ rows' = IF new THEN [rows EXCEPT ![m] = [status |-> "claimed",
                                                    createdAt |-> handlers[h].begun]]
                   ELSE rows
        /\ lock' = [lock EXCEPT ![SenderOf[m]] = IF @ = h THEN Nobody ELSE @]
        /\ IF new THEN CallTo(h, "send") ELSE Proceed(h)
        /\ UNCHANGED <<clock, taken, failures>>

\* sendMetaInboundAutoReply.  An answer that is lost, or a body that breaks off while it
\* is read, is "unknown" or "failed" of a message that Meta may have taken.
SendReply(h) ==
    /\ CallAt(h, "send")
    /\ \E o \in Outcomes, take \in BOOLEAN :
        /\ o = "accepted" => take
        /\ taken' = IF take THEN taken \cup {Message(h)} ELSE taken
        /\ handlers' = [handlers EXCEPT ![h].outcome = o, ![h].at = "complete"]
    /\ UNCHANGED <<rows, lock, clock, failures>>

CompleteReceipt(h) ==
    /\ CallAt(h, "complete")
    /\ SetStatus(Message(h), IF handlers[h].outcome = "accepted" THEN "sent"
                             ELSE handlers[h].outcome)
    /\ Proceed(h)
    /\ UNCHANGED <<lock, clock, taken, failures>>

\* The statement that completes a receipt is inside the try: if it throws, the receipt
\* is completed as failed, even one whose answer was accepted.
CompleteThrows(h) ==
    /\ CallAt(h, "complete") /\ failures < MaxFailures
    /\ failures' = failures + 1
    /\ CallTo(h, "amend")
    /\ UNCHANGED <<rows, lock, clock, taken>>

Amend(h) ==
    /\ CallAt(h, "amend")
    /\ SetStatus(Message(h), "failed")
    /\ Proceed(h)
    /\ UNCHANGED <<lock, clock, taken, failures>>

\* A process is lost, or a statement throws outside the try: the rest of the call is
\* given up, and its transaction rolled back.
Abandon(h) ==
    /\ ~CallAt(h, "idle") /\ failures < MaxFailures
    /\ failures' = failures + 1
    /\ lock' = [s \in Senders |-> IF lock[s] = h THEN Nobody ELSE lock[s]]
    /\ EndCall(h)
    /\ UNCHANGED <<rows, clock, taken>>

Tick ==
    /\ clock < MaxTime
    /\ clock' = clock + 1
    /\ UNCHANGED <<rows, handlers, lock, taken, failures>>

-----------------------------------------------------------------------------
InboundInit ==
    /\ rows = [m \in Messages |-> [status |-> "none", createdAt |-> 0]]
    /\ handlers = [h \in Handlers |-> NoCall]
    /\ lock = [s \in Senders |-> Nobody]
    /\ clock = 0
    /\ taken = {}
    /\ failures = 0

InboundNext ==
    \/ Tick
    \/ \E h \in Handlers :
        \/ Receive(h) \/ Finish(h) \/ BeginClaim(h) \/ Look(h) \/ Insert(h)
        \/ SendReply(h) \/ CompleteReceipt(h) \/ CompleteThrows(h) \/ Amend(h) \/ Abandon(h)

InboundSpec == InboundInit /\ [][InboundNext]_inboundVars

-----------------------------------------------------------------------------
InboundTypeOK ==
    /\ rows \in [Messages -> Receipt]
    /\ handlers \in [Handlers -> Handler]
    /\ lock \in [Senders -> Handlers \cup {Nobody}]
    /\ clock \in Instants
    /\ taken \subseteq Messages
    /\ failures \in 0..MaxFailures

Apart(m, n) ==
    \/ rows[m].createdAt - rows[n].createdAt > Window
    \/ rows[n].createdAt - rows[m].createdAt > Window

\* However the calls of Meta are repeated, bundled and handled at once, and whichever of
\* them is lost, a number is not answered twice in a window unless the receipt of one of
\* the answers says that it failed (storage.ts:2317, README.md:283).
RepliesAreRationed ==
    \A m, n \in taken :
        m # n /\ SenderOf[m] = SenderOf[n] /\ ~Apart(m, n) =>
            \E k \in {m, n} : rows[k].status = "failed"

\* TLC refutes this without the exception: "failed" is also written of an answer that
\* Meta took, and does not count (meta-webhook.ts:138).
OneReplyInAWindow ==
    \A m, n \in taken : m # n /\ SenderOf[m] = SenderOf[n] => Apart(m, n)

=============================================================================
