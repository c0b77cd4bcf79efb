----------------------- MODULE MCNotificationOutbox -----------------------
(* Instances of NotificationOutbox for TLC. *)
EXTENDS NotificationOutbox, TLC

CONSTANTS p1, p2

\* Customers of a series, of one appointment with both channels, and all of them.
Series == {c \in Customer : c.series /\ ~c.reminder}
Reachable == {c \in Customer : c.optIn /\ c.email /\ ~c.series /\ ~c.reminder}
Everyone == {c \in Customer : c.series => ~c.reminder}

Interchangeable == Permutations({p1, p2})
===========================================================================
