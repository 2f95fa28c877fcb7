----------------------------- MODULE FrameTable -----------------------------
(***************************************************************************)
(* The allocator of physical frames (kern/arch/mips/vm/unsw.c): one entry  *)
(* per frame of RAM, in which a block of several frames is marked by its   *)
(* not_last flags alone.  Every call runs under frame_table_spinlock, so   *)
(* the operators say what one call finds and what table it leaves.         *)
(***************************************************************************)
EXTENDS Integers

CONSTANTS
    first_frame,    \* the first frame that is not the kernel's own
    last_frame,     \* one past the last frame of RAM
    BootFlags       \* what not_last may be in RAM that nobody has written

ASSUME FrameAssumption ==
    /\ first_frame \in Nat \ {0}
    /\ last_frame \in Nat /\ first_frame < last_frame
    /\ BootFlags \subseteq BOOLEAN /\ BootFlags # {}

VARIABLE frame_table

Frame == 0 .. last_frame - 1
Ram == first_frame .. last_frame - 1
NoFrame == 0        \* the answer of an allocation that fails

(* ram_bootstrap sets both fields of the kernel's frames, and one of the   *)
(* others.                                                                 *)
ram_bootstrap ==
    frame_table \in {[f \in Frame |->
        IF f \in Ram THEN [allocated |-> FALSE, not_last |-> b[f]]
                     ELSE [allocated |-> TRUE, not_last |-> FALSE]] :
        b \in [Ram -> BootFlags]}

IsFree(f) == ~frame_table[f].allocated

Lowest(S) == CHOOSE f \in S : \A g \in S : f <= g

alloc_one_frame ==
    LET free == {f \in Ram : IsFree(f)}
    IN  IF free = {} THEN NoFrame ELSE Lowest(free)

(* The search for npages free frames stops short of the last position: a   *)
(* run that ends with RAM itself is not found.  (npages <= last_frame, or  *)
(* the unsigned bound would wrap.)                                         *)
Starts(npages) == first_frame .. last_frame - npages - 1
FreeRun(i, npages) == \A f \in i .. i + npages - 1 : IsFree(f)

alloc_multiple_frames(npages) ==
    LET fits == {i \in Starts(npages) : FreeRun(i, npages)}
    IN  IF fits = {} THEN NoFrame ELSE Lowest(fits)

alloc_kpages(npages) ==
    IF npages > 1 THEN alloc_multiple_frames(npages) ELSE alloc_one_frame

(* The frames of an allocation: only the last one's not_last is FALSE.     *)
Mark_AllLast(f, npages) ==
    [g \in Frame |-> IF g \in f .. f + npages - 1
                     THEN [allocated |-> TRUE, not_last |-> FALSE]
                     ELSE frame_table[g]]
Mark(f, npages) ==
    [g \in Frame |-> IF g \in f .. f + npages - 1
                     THEN [allocated |-> TRUE, not_last |-> g # f + npages - 1]
                     ELSE frame_table[g]]

(* free_frames goes from f to the first frame that is the last of a block, *)
(* or is free.                                                             *)
Block(f) ==
    {g \in f .. last_frame - 1 :
        /\ ~IsFree(g)
        /\ \A h \in f .. g - 1 : ~IsFree(h) /\ frame_table[h].not_last}

(* Several calls in a row, for the blocks that start at the frames of S.   *)
(* What is no longer allocated when its turn comes: Double free error!!    *)
Unmark(S) ==
    [g \in Frame |-> IF \E f \in S : g \in Block(f)
                     THEN [frame_table[g] EXCEPT !.allocated = FALSE]
                     ELSE frame_table[g]]

(***************************************************************************)
(* The loop of alloc_multiple_frames step by step: the pair i, j that it   *)
(* ends with, from a pair that it meets.                                   *)
(***************************************************************************)
Rescan_KeepsCount(i, j) == <<i + j + 1, j>>
Rescan(i, j) == <<i + j + 1, 0>>     \* after the allocated frame
Scan(npages) ==
    LET f[x \in (0 .. last_frame) \X (0 .. npages)] ==
            IF x[1] < last_frame - npages /\ x[2] < npages
            THEN IF IsFree(x[1] + x[2])
                 THEN f[<<x[1], x[2] + 1>>]
                 ELSE f[Rescan(x[1], x[2])]
            ELSE x
    IN  f[<<first_frame, 0>>]
=============================================================================
