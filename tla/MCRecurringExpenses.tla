----------------------- MODULE MCRecurringExpenses -----------------------
(* Instances of RecurringExpenses for TLC: weeks of two days, months of two
   and one, so that a day of the month may be missing. *)
EXTENDS RecurringExpenses

CONSTANTS a1, w1

FirstOfMonth == [d \in Dates |-> IF d < 2 THEN 0 ELSE d]
DaysOfMonth == [d \in Dates |-> IF d < 2 THEN 2 ELSE 1]
===========================================================================
