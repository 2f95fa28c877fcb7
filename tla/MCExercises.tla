----------------------------- MODULE MCExercises -----------------------------
(* Small instances of the four exercises.                                  *)
EXTENDS Exercises

CONSTANTS p, q, x, y, main, null

(* Only the buffer's own command looks at the slot that it starts with.    *)
MCInit == Init /\ (command # "1c" => head = 0)
MCSpec == MCInit /\ [][Next]_vars /\ Fairness
=============================================================================
