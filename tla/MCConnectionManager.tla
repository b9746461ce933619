------------------------ MODULE MCConnectionManager ------------------------
(* ConnectionManager on a small instance: two handles, so that a close of  *)
(* one races commands on it while the other is opened, and two commands in *)
(* flight at once beside the exit hook.                                    *)
EXTENDS ConnectionManager, TLC

CONSTANTS h1, h2, t1, t2

\* Sound for the run without a liveness property: nothing in the model tells handles or tasks apart.
Symmetry == Permutations({h1, h2}) \cup Permutations(Task)
=============================================================================
