--------------------------- MODULE MCMetaWebhook ---------------------------
(* The two halves of the webhook.  What a call carries is chosen at first:   *)
(* delivery statuses, which NotificationOutbox applies to its events, or     *)
(* messages of customers.  They share the table of receipts and no row.      *)
EXTENDS NotificationOutbox, InboundReply, TLC

CONSTANTS p1, h1, h2, m1, m2, s1

VARIABLE payload

\* A customer of one appointment with both channels.
Reachable == [optIn: {TRUE}, email: {TRUE}, series: {FALSE}, reminder: {FALSE}]
OneSender == [m \in Messages |-> CHOOSE s \in Senders : TRUE]
Interchangeable == Permutations(Handlers)

WebhookInit == payload \in {"statuses", "messages"} /\ Init /\ InboundInit
WebhookNext ==
    /\ UNCHANGED payload
    /\ \/ payload = "statuses" /\ Next /\ UNCHANGED inboundVars
       \/ payload = "messages" /\ InboundNext /\ UNCHANGED vars
MetaWebhook == WebhookInit /\ [][WebhookNext]_<<payload, vars, inboundVars>>
=============================================================================
