---------------------------- MODULE SharedFiles ----------------------------
(***************************************************************************)
(* What open files are to user programs: descriptors name open files,      *)
(* which have a seek position each; dup2 and fork make more descriptors    *)
(* for the same open file ("the seek position is shared among file handles *)
(* inherited across forks"), and an open file is gone with the last one.   *)
(***************************************************************************)
EXTENDS Naturals

CONSTANTS Proc, File, Fd, Pos, NULL

VARIABLES
    desc,       \* process -> descriptor -> open file or NULL
    position    \* open file -> its seek position, NULL if it is not open

Init ==
    /\ desc = [p \in Proc |-> [d \in Fd |-> NULL]]
    /\ position = [f \in File |-> NULL]

(* The open files that no descriptor names are gone.                       *)
Kept(pos) == [f \in File |->
    IF \E p \in Proc, d \in Fd : desc'[p][d] = f THEN pos[f] ELSE NULL]

Open(p, d, f) ==
    /\ position[f] = NULL
    /\ desc[p][d] = NULL
    /\ \A e \in Fd : e < d => desc[p][e] # NULL
    /\ desc' = [desc EXCEPT ![p][d] = f]
    /\ position' = [position EXCEPT ![f] = 0]

Close(p, d) ==
    /\ desc[p][d] # NULL
    /\ desc' = [desc EXCEPT ![p][d] = NULL]
    /\ position' = Kept(position)

Dup(p, old, new) ==
    /\ desc[p][old] # NULL
    /\ desc' = [desc EXCEPT ![p][new] = desc[p][old]]
    /\ position' = Kept(position)

(* read, write, lseek                                                      *)
Move(p, d) ==
    /\ desc[p][d] # NULL
    /\ \E new \in Pos : position' = [position EXCEPT ![desc[p][d]] = new]
    /\ UNCHANGED desc

Fork(p, child) ==
    /\ \A d \in Fd : desc[child][d] = NULL
    /\ desc' = [desc EXCEPT ![child] = desc[p]]
    /\ UNCHANGED position

Next ==
    \E p \in Proc :
        \/ \E d \in Fd : Close(p, d) \/ Move(p, d)
        \/ \E d \in Fd, f \in File : Open(p, d, f)
        \/ \E old, new \in Fd : Dup(p, old, new)
        \/ \E child \in Proc : Fork(p, child)

Spec == Init /\ [][Next]_<<desc, position>>
=============================================================================
