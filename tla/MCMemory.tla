------------------------------ MODULE MCMemory ------------------------------
(* Virtual memory of small machines.                                       *)
EXTENDS AddressSpaces, TLC

CONSTANTS p, q, c, zero, one

Text == <<0, 0>>
Data == <<1, 0>>
Top == <<1, 1>>
TextSegment == [pages |-> {Text}, filled |-> {}, write |-> FALSE]
DataSegment == [pages |-> {Data}, filled |-> {Data}, write |-> TRUE]
TwoSegments == <<TextSegment, DataSegment>>
TheStack == {Top}
TheImage == [pg \in Page |-> IF pg = Data THEN one ELSE zero]

(* What overlaps.  Among the first two address spaces, without a block of  *)
(* the rest of the kernel: every fault with every call, and calls with     *)
(* each other unless one of them loads a program.  Else one call or block  *)
(* at a time, or a block and a fork.  A state beyond that is checked and   *)
(* not followed further.                                                   *)
Calls == {x \in Proc : pc[x] \notin {"none", "user"}}
Loads == {x \in Proc : pc[x] \in {"new", "load", "unload", "argv"}}
Faults == {x \in Proc : pc[x] = "addpte"}
Forks == {x \in Proc : pc[x] = "copy"}
Overlap ==
    \/ Cardinality(Calls \ Forks) + Cardinality(blocks) <= 1 /\ Cardinality(Calls) <= 1
    \/ blocks = {} /\ made <= 2 /\ (Loads = {} \/ Faults # {})

Alike == Permutations(Proc)
=============================================================================
