----------------------------- MODULE OpenFiles -----------------------------
(***************************************************************************)
(* Open files and file tables (kern/syscall/openfile.c, filetable.c and    *)
(* file_syscalls.c, with their uses in proc.c and runprogram.c).           *)
(*                                                                         *)
(* A process has one thread, so its file table is private; the openfile    *)
(* objects are shared by dup2 and by fork.  Steps end where another        *)
(* process can see or change an openfile: at the critical sections of      *)
(* of_reflock and of of_offsetlock, and at the VOP call.  A call that      *)
(* fails before it has changed anything is no step.                        *)
(***************************************************************************)
EXTENDS Integers, FiniteSets

CONSTANTS
    Proc,       \* the struct proc objects that can exist at once
    File,       \* the struct openfile objects that can exist at once
    Vnode,      \* what can be opened
    Seekable,   \* the vnodes for which VOP_ISSEEKABLE
    AccMode,    \* the access modes that open is called with
    OPEN_MAX,   \* descriptors in a table
    MaxPos,     \* bound on seek positions
    NULL

Fd == 0 .. OPEN_MAX - 1
Pos == 0 .. MaxPos

ASSUME ConstantsAssumption ==
    /\ IsFiniteSet(Proc) /\ NULL \notin Proc
    /\ Seekable \subseteq Vnode
    /\ AccMode \subseteq {"O_RDONLY", "O_WRONLY", "O_RDWR"}
    /\ OPEN_MAX \in Nat \ {0} /\ MaxPos \in Nat

Openfile == [vnode : Vnode, accmode : AccMode, offset : Pos, refcount : Nat,
             offsetlock : Proc \cup {NULL}]

ASSUME NullAssumption == NULL \notin File /\ NULL \notin Openfile

VARIABLES
    of,         \* openfile -> what is in it, NULL if it is not allocated
    ft,         \* process -> its table: descriptor -> openfile or NULL
    pc,         \* process -> where it is
    hand,       \* process -> the openfile it has a reference to in hand
    arg         \* process -> the locals of its call

vars == <<of, ft, pc, hand, arg>>

(***************************************************************************)
(* Control points.  "none": no such process; "embryo": made by fork, no    *)
(* thread yet; "user": outside these calls; "place": openfile_open has     *)
(* returned; "dup": dup2 has its new reference; "decref", "destroy": in    *)
(* openfile_decref; "lock", "transfer", "update": in sys_readwrite;        *)
(* "seek_lock", "seek": in sys_lseek; "copy": in filetable_copy, or done   *)
(* with it; "drop", "drop_destroy": in filetable_destroy.                  *)
(***************************************************************************)
Place == {"none", "embryo", "user", "place", "dup", "decref", "destroy",
          "lock", "transfer", "update", "seek_lock", "seek", "copy",
          "drop", "drop_destroy"}

(* fd: the descriptor the call is about; rw: what sys_readwrite is to do;  *)
(* pos, moved: uio_offset before VOP, and the bytes moved; whose: the      *)
(* process whose table is filled or destroyed.                             *)
Locals == [fd : 0 .. OPEN_MAX, rw : {"UIO_READ", "UIO_WRITE"},
           pos : Pos, moved : Pos, whose : Proc]
NoArg(p) == [fd |-> 0, rw |-> "UIO_READ", pos |-> 0, moved |-> 0, whose |-> p]

Init ==
    /\ of = [f \in File |-> NULL]
    /\ ft = [p \in Proc |-> [d \in Fd |-> NULL]]
    /\ pc = [p \in Proc |-> "none"]
    /\ hand = [p \in Proc |-> NULL]
    /\ arg = [p \in Proc |-> NoArg(p)]

Go(p, from, to) == pc[p] = from /\ pc' = [pc EXCEPT ![p] = to]
Return(p, from) == Go(p, from, "user") /\ arg' = [arg EXCEPT ![p] = NoArg(p)]

Live == {f \in File : of[f] # NULL}
Got(p) == ft[p][arg[p].fd]      \* what filetable_get returned

(* runprogram, for a process the menu has created: an empty table.  The    *)
(* placed_open's that follow are calls of Open and PlaceFile.              *)
RunProgram(p) ==
    /\ Go(p, "none", "user")
    /\ UNCHANGED <<of, ft, hand, arg>>

-----------------------------------------------------------------------------
(* sys_open: openfile_open's object has one reference, the caller's...     *)
Open(p) ==
    /\ Go(p, "user", "place")
    /\ \E f \in File \ Live, v \in Vnode, m \in AccMode :
         /\ of' = [of EXCEPT ![f] = [vnode |-> v, accmode |-> m, offset |-> 0,
                                     refcount |-> 1, offsetlock |-> NULL]]
         /\ hand' = [hand EXCEPT ![p] = f]
    /\ UNCHANGED <<ft, arg>>

(* ...which filetable_place puts at the smallest free descriptor...        *)
FreeFd(p) == {d \in Fd : ft[p][d] = NULL}

Chosen_Any(p) == FreeFd(p)
Chosen(p) == {d \in FreeFd(p) : \A e \in FreeFd(p) : d <= e}

PlaceFile(p) ==
    /\ Go(p, "place", "user")
    /\ \E d \in Chosen(p) : ft' = [ft EXCEPT ![p][d] = hand[p]]
    /\ hand' = [hand EXCEPT ![p] = NULL]
    /\ UNCHANGED <<of, arg>>

(* ...or, EMFILE, is dropped.                                              *)
PlaceFails(p) ==
    /\ Go(p, "place", "decref")
    /\ FreeFd(p) = {}
    /\ UNCHANGED <<of, ft, hand, arg>>

-----------------------------------------------------------------------------
(* openfile_decref lets go of of_reflock before it destroys the object     *)
(* (vfs_close, lock_destroy, kfree).                                       *)
Last_Early(f) == of[f].refcount <= 2
Last(f) == of[f].refcount = 1
Lower(f) == of' = [of EXCEPT ![f].refcount = @ - 1]
Incref(f) == of' = [of EXCEPT ![f].refcount = @ + 1]

Decref(p) ==
    /\ Return(p, "decref")
    /\ ~Last(hand[p])
    /\ Lower(hand[p])
    /\ hand' = [hand EXCEPT ![p] = NULL]
    /\ UNCHANGED <<ft>>

DecrefLast(p) ==
    /\ Go(p, "decref", "destroy")
    /\ Last(hand[p])
    /\ UNCHANGED <<of, ft, hand, arg>>

Destroy(p) ==
    /\ Return(p, "destroy")
    /\ of' = [of EXCEPT ![hand[p]] = NULL]
    /\ hand' = [hand EXCEPT ![p] = NULL]
    /\ UNCHANGED <<ft>>

(* sys_close                                                               *)
Close(p) ==
    /\ Go(p, "user", "decref")
    /\ \E d \in Fd :
         /\ ft[p][d] # NULL
         /\ hand' = [hand EXCEPT ![p] = ft[p][d]]
         /\ ft' = [ft EXCEPT ![p][d] = NULL]
    /\ UNCHANGED <<of, arg>>

(* sys_dup2: a new reference first, then the exchange.                     *)
Dup2(p) ==
    /\ Go(p, "user", "dup")
    /\ \E oldfd, newfd \in Fd :
         /\ oldfd # newfd /\ ft[p][oldfd] # NULL
         /\ Incref(ft[p][oldfd])
         /\ hand' = [hand EXCEPT ![p] = ft[p][oldfd]]
         /\ arg' = [arg EXCEPT ![p].fd = newfd]
    /\ UNCHANGED <<ft>>

DupPlace(p) ==
    /\ Return(p, "dup")
    /\ Got(p) = NULL
    /\ ft' = [ft EXCEPT ![p][arg[p].fd] = hand[p]]
    /\ hand' = [hand EXCEPT ![p] = NULL]
    /\ UNCHANGED of

DupReplace(p) ==
    /\ Go(p, "dup", "decref")
    /\ Got(p) # NULL
    /\ ft' = [ft EXCEPT ![p][arg[p].fd] = hand[p]]
    /\ hand' = [hand EXCEPT ![p] = Got(p)]
    /\ UNCHANGED <<of, arg>>

-----------------------------------------------------------------------------
(* sys_readwrite.  Only a seekable object's position is locked and used.   *)
Locks(f) == of[f].vnode \in Seekable

ReadWrite(p) ==
    /\ pc[p] = "user"
    /\ \E d \in Fd, how \in {"UIO_READ", "UIO_WRITE"} :
         /\ ft[p][d] # NULL
         /\ Go(p, "user", IF Locks(ft[p][d]) THEN "lock" ELSE "transfer")
         /\ arg' = [arg EXCEPT ![p].fd = d, ![p].rw = how]
    /\ UNCHANGED <<of, ft, hand>>

Acquire_Open(p) == of' = [of EXCEPT ![Got(p)].offsetlock = p]
Acquire(p) ==
    /\ of[Got(p)].offsetlock = NULL
    /\ of' = [of EXCEPT ![Got(p)].offsetlock = p]

Lock(p) ==
    /\ Go(p, "lock", "transfer")
    /\ Acquire(p)
    /\ arg' = [arg EXCEPT ![p].pos = of[Got(p)].offset]
    /\ UNCHANGED <<ft, hand>>

Badaccmode(p) == IF arg[p].rw = "UIO_READ" THEN "O_WRONLY" ELSE "O_RDONLY"

(* VOP_READ or VOP_WRITE moves some bytes and uio_offset with them.        *)
Transfer(p) ==
    /\ Go(p, "transfer", "update")
    /\ Locks(Got(p))
    /\ of[Got(p)].accmode # Badaccmode(p)
    /\ \E n \in 0 .. MaxPos - arg[p].pos : arg' = [arg EXCEPT ![p].moved = n]
    /\ UNCHANGED <<of, ft, hand>>

(* The new offset, and lock_release.                                       *)
Update(p) ==
    /\ Return(p, "update")
    /\ of' = [of EXCEPT ![Got(p)].offset = arg[p].pos + arg[p].moved,
                        ![Got(p)].offsetlock = NULL]
    /\ UNCHANGED <<ft, hand>>

Release(p) == of' = [of EXCEPT ![Got(p)].offsetlock = NULL]

(* A wrong access mode, an error from VOP, or nothing to lock.             *)
ReadWriteEnds(p) ==
    /\ Return(p, "transfer")
    /\ IF Locks(Got(p)) THEN Release(p) ELSE UNCHANGED of
    /\ UNCHANGED <<ft, hand>>

-----------------------------------------------------------------------------
(* sys_lseek                                                               *)
Lseek(p) ==
    /\ Go(p, "user", "seek_lock")
    /\ \E d \in Fd :
         /\ ft[p][d] # NULL /\ Locks(ft[p][d])
         /\ arg' = [arg EXCEPT ![p].fd = d]
    /\ UNCHANGED <<of, ft, hand>>

SeekLock(p) ==
    /\ Go(p, "seek_lock", "seek")
    /\ Acquire(p)
    /\ UNCHANGED <<ft, hand, arg>>

(* SEEK_SET, SEEK_CUR and SEEK_END with some offset give any result.       *)
Accepts(result) == result >= 0

Seek(p) ==
    /\ Return(p, "seek")
    /\ \E result \in -1 .. MaxPos :
         /\ Accepts(result)
         /\ of' = [of EXCEPT ![Got(p)].offset = result,
                             ![Got(p)].offsetlock = NULL]
    /\ UNCHANGED <<ft, hand>>

(* A negative result, an unknown whence, or an error from VOP_STAT.        *)
SeekFails(p) ==
    /\ Return(p, "seek")
    /\ Release(p)
    /\ UNCHANGED <<ft, hand>>

-----------------------------------------------------------------------------
(* proc_fork: filetable_copy takes a reference for each descriptor.        *)
Fork(p) ==
    /\ pc[p] = "user"
    /\ \E q \in Proc :
         /\ pc[q] = "none"
         /\ pc' = [pc EXCEPT ![p] = "copy", ![q] = "embryo"]
         /\ arg' = [arg EXCEPT ![p].fd = 0, ![p].whose = q]
    /\ UNCHANGED <<of, ft, hand>>

Increfs_Never(f) == FALSE
Increfs(f) == f # NULL

Copy(p) ==
    /\ pc[p] = "copy" /\ arg[p].fd < OPEN_MAX
    /\ IF Increfs(Got(p)) THEN Incref(Got(p)) ELSE UNCHANGED of
    /\ ft' = [ft EXCEPT ![arg[p].whose][arg[p].fd] = Got(p)]
    /\ arg' = [arg EXCEPT ![p].fd = @ + 1]
    /\ UNCHANGED <<pc, hand>>

(* thread_fork starts the child...                                         *)
ForkDone(p) ==
    /\ pc[p] = "copy" /\ arg[p].fd = OPEN_MAX
    /\ pc' = [pc EXCEPT ![p] = "user", ![arg[p].whose] = "user"]
    /\ arg' = [arg EXCEPT ![p] = NoArg(p)]
    /\ UNCHANGED <<of, ft, hand>>

(* ...or fails, and proc_unfork destroys it.                               *)
ForkFails(p) ==
    /\ Go(p, "copy", "drop")
    /\ arg[p].fd = OPEN_MAX
    /\ arg' = [arg EXCEPT ![p].fd = 0]
    /\ UNCHANGED <<of, ft, hand>>

(* proc_exit destroys the process's own table.                             *)
Exit(p) ==
    /\ Go(p, "user", "drop")
    /\ arg' = [arg EXCEPT ![p].fd = 0]
    /\ UNCHANGED <<of, ft, hand>>

(* filetable_destroy: openfile_decref for each descriptor that is open.    *)
(* It is cleared after that, but nobody else sees this table.              *)
Doomed(p) == ft[arg[p].whose][arg[p].fd]
Dropping(p) == pc[p] = "drop" /\ arg[p].fd < OPEN_MAX
DropNext(p) ==
    /\ ft' = [ft EXCEPT ![arg[p].whose][arg[p].fd] = NULL]
    /\ arg' = [arg EXCEPT ![p].fd = @ + 1]

Drop(p) ==
    /\ Dropping(p)
    /\ IF Doomed(p) = NULL THEN UNCHANGED of
       ELSE ~Last(Doomed(p)) /\ Lower(Doomed(p))
    /\ DropNext(p)
    /\ UNCHANGED <<pc, hand>>

DropLast(p) ==
    /\ Dropping(p)
    /\ Doomed(p) # NULL /\ Last(Doomed(p))
    /\ DropNext(p)
    /\ Go(p, "drop", "drop_destroy")
    /\ hand' = [hand EXCEPT ![p] = Doomed(p)]
    /\ UNCHANGED of

DropDestroy(p) ==
    /\ Go(p, "drop_destroy", "drop")
    /\ of' = [of EXCEPT ![hand[p]] = NULL]
    /\ hand' = [hand EXCEPT ![p] = NULL]
    /\ UNCHANGED <<ft, arg>>

DropDone(p) ==
    /\ pc[p] = "drop" /\ arg[p].fd = OPEN_MAX
    /\ pc' = [pc EXCEPT ![p] = "user", ![arg[p].whose] = "none"]
    /\ arg' = [arg EXCEPT ![p] = NoArg(p)]
    /\ UNCHANGED <<of, ft, hand>>

Next ==
    \E p \in Proc :
        \/ RunProgram(p) \/ Open(p) \/ PlaceFile(p) \/ PlaceFails(p)
        \/ Decref(p) \/ DecrefLast(p) \/ Destroy(p)
        \/ Close(p) \/ Dup2(p) \/ DupPlace(p) \/ DupReplace(p)
        \/ ReadWrite(p) \/ Lock(p) \/ Transfer(p) \/ Update(p)
        \/ ReadWriteEnds(p)
        \/ Lseek(p) \/ SeekLock(p) \/ Seek(p) \/ SeekFails(p)
        \/ Fork(p) \/ Copy(p) \/ ForkDone(p) \/ ForkFails(p)
        \/ Exit(p) \/ Drop(p) \/ DropLast(p) \/ DropDestroy(p) \/ DropDone(p)

Spec == Init /\ [][Next]_vars

-----------------------------------------------------------------------------
TypeOK ==
    /\ of \in [File -> Openfile \cup {NULL}]
    /\ ft \in [Proc -> [Fd -> File \cup {NULL}]]
    /\ pc \in [Proc -> Place]
    /\ hand \in [Proc -> File \cup {NULL}]
    /\ arg \in [Proc -> Locals]

(***************************************************************************)
(* The reference count of an openfile is the number of references to it:   *)
(* descriptors, those of a table half copied or half destroyed included,   *)
(* and calls that have one in hand (as if it were one descriptor more).    *)
(* So none is freed that can still be reached, and none is left when no    *)
(* reference is.                                                           *)
(***************************************************************************)
Held(p, d) == IF d = OPEN_MAX THEN hand[p] ELSE ft[p][d]
Refs(f) == {r \in Proc \X (0 .. OPEN_MAX) : Held(r[1], r[2]) = f}
RefcountExact ==
    \A f \in File :
        Cardinality(Refs(f)) = IF of[f] = NULL THEN 0 ELSE of[f].refcount

(***************************************************************************)
(* While openfile_decref destroys an object, with no lock held, the call   *)
(* that does so has the only reference, and nobody holds its offset lock   *)
(* or waits for it, as lock_destroy asserts.                               *)
(***************************************************************************)
DestroyAlone ==
    \A p \in Proc : pc[p] \in {"destroy", "drop_destroy"} =>
        /\ of[hand[p]].refcount = 1
        /\ of[hand[p]].offsetlock = NULL
        /\ \A q \in Proc : pc[q] \in {"lock", "seek_lock"} => Got(q) # hand[p]

(***************************************************************************)
(* Processes that share a seek position use it one at a time: from the     *)
(* time read or write has taken the position to the time it stores the new *)
(* one, the position stays; and nobody keeps the lock after the call.      *)
(***************************************************************************)
Transferring(p) == pc[p] \in {"transfer", "update"} /\ Locks(Got(p))
Using(p) == pc[p] = "seek" \/ Transferring(p)
TransfersAtomic ==
    /\ \A p \in Proc : Transferring(p) =>
           of[Got(p)].offset = arg[p].pos
    /\ \A p \in Proc : Using(p) => of[Got(p)].offsetlock = p
    /\ \A f \in Live : of[f].offsetlock # NULL =>
           /\ Using(of[f].offsetlock)
           /\ Got(of[f].offsetlock) = f

(***************************************************************************)
(* What keeps the count exact and the position safe.  A call has an        *)
(* openfile in hand at the control points that need one, and one that      *)
(* destroys has the last reference.  A call that waits for a position or   *)
(* uses it has an open descriptor.                                         *)
(***************************************************************************)
Destroying(p) == pc[p] \in {"destroy", "drop_destroy"}
Holding(p) == pc[p] \in {"place", "dup", "decref"} \/ Destroying(p)
HandInv ==
    \A p \in Proc :
        /\ hand[p] # NULL <=> Holding(p)
        /\ Destroying(p) => of[hand[p]].refcount = 1

Moving(p) == pc[p] \in {"lock", "update", "seek_lock", "seek"}
CallInv ==
    \A p \in Proc :
        /\ Moving(p) \/ pc[p] = "transfer" => Got(p) # NULL
        /\ Moving(p) => Locks(Got(p))
        /\ pc[p] = "update" => arg[p].pos + arg[p].moved \in Pos

(***************************************************************************)
(* The table of a process is changed by that process, or by the one that   *)
(* forks it while it is an embryo; of a table being copied the rest is     *)
(* still empty, of one being destroyed what has been passed, and the table *)
(* of no process is empty.                                                 *)
(***************************************************************************)
OnTable(p) == pc[p] \in {"copy", "drop", "drop_destroy"}
TableInv ==
    \A p \in Proc :
        /\ ~OnTable(p) => arg[p].whose = p /\ arg[p].fd \in Fd
        /\ pc[p] = "copy" => arg[p].whose # p
        /\ arg[p].whose # p =>
               /\ pc[arg[p].whose] = "embryo"
               /\ \A q \in Proc \ {p, arg[p].whose} : arg[q].whose # arg[p].whose

Cleared(p, d) == IF pc[p] = "copy" THEN d >= arg[p].fd ELSE d < arg[p].fd
EmptyInv ==
    \A p \in Proc, d \in Fd :
        /\ pc[p] = "none" => ft[p][d] = NULL
        /\ OnTable(p) /\ Cleared(p, d) => ft[arg[p].whose][d] = NULL

OpenFilesInv == TypeOK /\ HandInv /\ CallInv /\ TableInv /\ EmptyInv

(***************************************************************************)
(* What user programs see (module SharedFiles).  The table of a child that *)
(* fork is still making is not yet there.                                  *)
(***************************************************************************)
Visible(p) == IF pc[p] = "embryo" THEN [d \in Fd |-> NULL] ELSE ft[p]
Reached(f) == \E p \in Proc, d \in Fd : Visible(p)[d] = f
Desc == [p \in Proc |-> Visible(p)]
Position == [f \in File |-> IF Reached(f) THEN of[f].offset ELSE NULL]
Shared == INSTANCE SharedFiles WITH desc <- Desc, position <- Position
ImplementsSharedFiles == Shared!Spec
=============================================================================
