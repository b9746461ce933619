---------------------------- MODULE MCSchedules ----------------------------
(* Schedules on a small instance: recurrences are "every n units" (a next  *)
(* occurrence that depends on when it is computed) and "at multiples of n" *)
(* (one that does not, like a time of day).                                *)
EXTENDS Schedules, TLC

CONSTANTS a, b, t1, t2

Every(n) == <<"every", n>>
AtMultiplesOf(n) == <<"at", n>>

MCNextDue(r, t) == IF r[1] = "every" THEN t + r[2] ELSE (t \div r[2] + 1) * r[2]

TaskSymmetry == Permutations(Task)
IdSymmetry == Permutations(Id)

OneRec == {Every(1)}
TwoRecs == {Every(1), AtMultiplesOf(3)}
=============================================================================
