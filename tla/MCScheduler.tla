---------------------------- MODULE MCScheduler ----------------------------
(* Two processors, booted by threads b0 and b1, and threads forked later.  *)
EXTENDS Scheduler

CONSTANTS b0, b1, x, y

MCBootThread == (0 :> b0) @@ (1 :> b1)

Symmetry == Permutations({x, y})
=============================================================================
