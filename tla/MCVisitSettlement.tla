------------------------- MODULE MCVisitSettlement -------------------------
(* Instances of VisitSettlement for TLC. *)
EXTENDS VisitSettlement, TLC

CONSTANTS c1, c2

Interchangeable == Permutations({c1, c2})

Instants == [day |-> 1, week |-> 2, month |-> 3]

LegacyVisits ==
    1 :> [status |-> "completed", barber |-> 1, start |-> 0, price |-> 5, extras |-> {},
          operational |-> TRUE, snapshot |-> None, payment |-> "cash"]

Tip == [id |-> 1, amount |-> 1, rule |-> "barber"]
Plain == [extras |-> {}, operational |-> TRUE]
Block == [extras |-> {}, operational |-> FALSE]
WithTip == [extras |-> {Tip}, operational |-> TRUE]
SmallOrders == {Block, WithTip}

Pay(m, pc, ct, pd) == [model |-> m, percent |-> pc, cents |-> ct, period |-> pd]
MigratedRules ==
    {[id |-> 1, barber |-> 1, from |-> 0,
      terms |-> [model |-> "chair_rent", percent |-> 0, cents |-> 3, period |-> "week"]]}

SmallInputs == {Pay("commission", 50, None, None), Pay("chair_rent", None, None, "day")}

SmallPatches == {[barber |-> 2]}
============================================================================
