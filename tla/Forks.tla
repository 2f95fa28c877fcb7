------------------------------- MODULE Forks -------------------------------
(***************************************************************************)
(* What take_forks and put_forks promise ("mutually exclusive access to    *)
(* the two forks associated with the philosopher"): philosopher p is given *)
(* forks p and p + 1 in one step, when nobody has either, and gives them   *)
(* back in one step.                                                       *)
(***************************************************************************)
EXTENDS Naturals

CONSTANT NUM_PHILOSOPHERS

Philosopher == 0 .. NUM_PHILOSOPHERS - 1

VARIABLE user       \* fork -> the philosophers who have it

ForksOf(p) == {p, (p + 1) % NUM_PHILOSOPHERS}

Init == user = [f \in Philosopher |-> {}]

Take(p) ==
    /\ \A f \in ForksOf(p) : user[f] = {}
    /\ user' = [f \in Philosopher |-> IF f \in ForksOf(p) THEN {p} ELSE user[f]]

Put(p) ==
    /\ \A f \in ForksOf(p) : user[f] = {p}
    /\ user' = [f \in Philosopher |-> IF f \in ForksOf(p) THEN {} ELSE user[f]]

Spec == Init /\ [][\E p \in Philosopher : Take(p) \/ Put(p)]_user
=============================================================================
