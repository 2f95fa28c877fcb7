----------------------------- MODULE SfsVnodes -----------------------------
(***************************************************************************)
(* Vnode reference counts and the life of SFS inodes (kern/vfs/vnode.c,    *)
(* kern/fs/sfs/sfs_inode.c, sfs_vnops.c, sfs_balloc.c, sfs_fsops.c).       *)
(*                                                                         *)
(* SFS runs under one lock, vfs_biglock, which it takes again and again;   *)
(* but a reference is dropped (VOP_DECREF) without it, and decided upon    *)
(* before sfs_reclaim takes it.  So what is done with vfs_biglock held is  *)
(* one step, up to the VOP_DECREF it ends with; the decision of            *)
(* vnode_decref is one, and so are the two halves of sfs_reclaim.  Data    *)
(* blocks and the vnode of the root directory are left out, the directory  *)
(* is written through to the disk.  A call that fails before it has        *)
(* changed anything is no step.                                            *)
(***************************************************************************)
EXTENDS Integers, FiniteSets

CONSTANTS
    Thread,
    Name,       \* the names in the root directory
    NInodes,    \* blocks of the disk for inodes
    NVnodes,    \* bound on the vnodes in memory at once
    MaxSize,    \* bound on the size of files
    NULL

Ino == 1 .. NInodes
Vnode == 1 .. NVnodes

ASSUME ConstantsAssumption ==
    /\ IsFiniteSet(Thread) /\ IsFiniteSet(Name)
    /\ NULL \notin Thread \cup Ino \cup Vnode
    /\ NInodes \in Nat /\ NVnodes \in Nat /\ MaxSize \in Nat

Inode == [links : Int, size : 0 .. MaxSize]
Blank == [links |-> 0, size |-> 0]

SfsVnode == [ino : Ino, ref : Nat, inode : Inode, dirty : BOOLEAN]

ASSUME NullAssumption == NULL \notin SfsVnode

VARIABLES
    mounted,
    dir,        \* name -> inode number or NULL, on disk
    disk,       \* inode number -> what its block holds
    diskmap,    \* the inode blocks in use, as unmount wrote them
    freemap,    \* the same in memory, while it is mounted
    vn,         \* the vnode table: vnode -> what is in it, NULL if not there
    file,       \* thread -> the vnode it has open
    hand,       \* thread -> the vnode whose reference it is dropping
    pc,         \* thread -> where it is
    biglock,    \* who has vfs_biglock
    lost        \* the vnodes whose last reference sfs_reclaim has dropped

vars == <<mounted, dir, disk, diskmap, freemap, vn, file, hand, pc, biglock,
          lost>>

(* "out": between calls; "drop": about to VOP_DECREF, with vfs_biglock;    *)
(* "reclaim": in sfs_reclaim, about to look at the count again; "erase":   *)
(* after that.                                                             *)
Place == {"out", "drop", "reclaim", "erase"}

Init ==
    /\ mounted = TRUE
    /\ dir = [n \in Name |-> NULL]
    /\ disk = [i \in Ino |-> Blank]
    /\ diskmap = {} /\ freemap = {}
    /\ vn = [v \in Vnode |-> NULL]
    /\ file = [t \in Thread |-> NULL]
    /\ hand = [t \in Thread |-> NULL]
    /\ pc = [t \in Thread |-> "out"]
    /\ biglock = NULL
    /\ lost = {}

(* A thread that may start a call that takes vfs_biglock.                  *)
Enters(t) == mounted /\ pc[t] = "out" /\ biglock = NULL

(* Leave the section with a reference to v to drop.                        *)
GoDrop(t, v) ==
    /\ pc' = [pc EXCEPT ![t] = "drop"]
    /\ hand' = [hand EXCEPT ![t] = v]
    /\ biglock' = t

Lowest(s) == {x \in s : \A y \in s : x <= y}

-----------------------------------------------------------------------------
(* sfs_loadvnode: the vnode of inode i, from the table if it is there, with *)
(* one reference more.                                                     *)
Resident(i) == {v \in Vnode : vn[v] # NULL /\ vn[v].ino = i}
Spare == Lowest({v \in Vnode : vn[v] = NULL})
Found(i) == IF Resident(i) # {} THEN Resident(i) ELSE Spare

Loaded(i, v) ==
    IF vn[v] # NULL
    THEN [vn[v] EXCEPT !.ref = @ + 1]
    ELSE [ino |-> i, ref |-> 1, inode |-> disk[i], dirty |-> FALSE]

(* sfs_lookup for vfs_open, and sfs_creat of a name that exists.           *)
Lookup(t, n) ==
    /\ Enters(t)
    /\ file[t] = NULL
    /\ dir[n] # NULL
    /\ \E v \in Found(dir[n]) :
         /\ vn' = [vn EXCEPT ![v] = Loaded(dir[n], v)]
         /\ file' = [file EXCEPT ![t] = v]
    /\ UNCHANGED <<mounted, dir, disk, diskmap, freemap, hand, pc, biglock, lost>>

(* sfs_creat of a new name: sfs_balloc takes and clears the first free     *)
(* block, sfs_loadvnode reads it...                                        *)
Balloc(i) ==
    /\ i \in Lowest(Ino \ freemap)
    /\ disk' = [disk EXCEPT ![i] = Blank]

NewVnode(i, links) ==
    [ino |-> i, ref |-> 1, inode |-> [links |-> links, size |-> 0], dirty |-> TRUE]

Creat(t, n) ==
    /\ Enters(t)
    /\ file[t] = NULL
    /\ dir[n] = NULL
    /\ \E i \in Ino, v \in Spare :
         /\ Balloc(i)
         /\ freemap' = freemap \cup {i}
         /\ vn' = [vn EXCEPT ![v] = NewVnode(i, 1)]
         /\ dir' = [dir EXCEPT ![n] = i]
         /\ file' = [file EXCEPT ![t] = v]
    /\ UNCHANGED <<mounted, diskmap, hand, pc, biglock, lost>>

(* ...but the directory entry may not be written, and the vnode is dropped *)
(* with no link...                                                         *)
CreatUnlinked(t) ==
    /\ Enters(t)
    /\ file[t] = NULL
    /\ \E i \in Ino, v \in Spare :
         /\ Balloc(i)
         /\ freemap' = freemap \cup {i}
         /\ vn' = [vn EXCEPT ![v] = NewVnode(i, 0)]
         /\ GoDrop(t, v)
    /\ UNCHANGED <<mounted, dir, diskmap, file, lost>>

(* ...or there is no vnode, and sfs_makeobj gives the block back.          *)
CreatNoVnode(t) ==
    /\ Enters(t)
    /\ file[t] = NULL
    /\ \E i \in Ino : Balloc(i)
    /\ UNCHANGED <<mounted, dir, diskmap, freemap, vn, file, hand, pc, biglock, lost>>

-----------------------------------------------------------------------------
(* The calls on a file that is open: sfs_link...                           *)
Changed(w, links, size) ==
    [ino |-> w.ino, ref |-> w.ref, inode |-> [links |-> links, size |-> size],
     dirty |-> TRUE]
Linked(w) == Changed(w, w.inode.links + 1, w.inode.size)

Link(t, n) ==
    /\ Enters(t)
    /\ file[t] # NULL
    /\ dir[n] = NULL
    /\ dir' = [dir EXCEPT ![n] = vn[file[t]].ino]
    /\ vn' = [vn EXCEPT ![file[t]] = Linked(@)]
    /\ UNCHANGED <<mounted, disk, diskmap, freemap, file, hand, pc, biglock, lost>>

(* ...sfs_write past the end, and sfs_truncate.                            *)
Resized_Clean(v, s) == [vn[v] EXCEPT !.inode.size = s]
Resized(v, s) == Changed(vn[v], vn[v].inode.links, s)

Write(t) ==
    /\ Enters(t)
    /\ file[t] # NULL
    /\ \E s \in 0 .. MaxSize :
         /\ s > vn[file[t]].inode.size
         /\ vn' = [vn EXCEPT ![file[t]] = Resized(file[t], s)]
    /\ UNCHANGED <<mounted, dir, disk, diskmap, freemap, file, hand, pc, biglock, lost>>

Truncate(t) ==
    /\ Enters(t)
    /\ file[t] # NULL
    /\ vn' = [vn EXCEPT ![file[t]] = Resized(file[t], 0)]
    /\ UNCHANGED <<mounted, dir, disk, diskmap, freemap, file, hand, pc, biglock, lost>>

-----------------------------------------------------------------------------
(* sfs_remove; the entry may not be written.                               *)
Unlinked(w) == Changed(w, w.inode.links - 1, w.inode.size)

Remove(t, n) ==
    /\ Enters(t)
    /\ dir[n] # NULL
    /\ \E v \in Found(dir[n]) :
         /\ GoDrop(t, v)
         /\ \/ /\ dir' = [dir EXCEPT ![n] = NULL]
               /\ vn' = [vn EXCEPT ![v] = Unlinked(Loaded(dir[n], v))]
            \/ /\ UNCHANGED dir
               /\ vn' = [vn EXCEPT ![v] = Loaded(dir[n], v)]
    /\ UNCHANGED <<mounted, disk, diskmap, freemap, file, lost>>

(* sfs_rename: the link count goes up and down again, and the inode is     *)
(* dirty.  If the new entry cannot be made nothing is changed, if the old  *)
(* one cannot be erased the new one is; if that fails too it panics.       *)
Rename(t, old, new) ==
    /\ Enters(t)
    /\ dir[old] # NULL
    /\ \E v \in Found(dir[old]) :
         /\ GoDrop(t, v)
         /\ \/ /\ dir[new] = NULL
               /\ \/ dir' = [dir EXCEPT ![old] = NULL, ![new] = dir[old]]
                  \/ UNCHANGED dir
               /\ vn' = [vn EXCEPT ![v] = Unlinked(Linked(Loaded(dir[old], v)))]
            \/ /\ UNCHANGED dir
               /\ vn' = [vn EXCEPT ![v] = Loaded(dir[old], v)]
    /\ UNCHANGED <<mounted, disk, diskmap, freemap, file, lost>>

-----------------------------------------------------------------------------
(* vnode_decref: the last reference is not counted down, it is passed to   *)
(* sfs_reclaim.                                                            *)
Last(v) == vn[v].ref = 1
Lowered(v) == [vn EXCEPT ![v].ref = @ - 1]

(* vfs_close calls it without vfs_biglock...                               *)
Close(t) ==
    /\ pc[t] = "out"
    /\ file[t] # NULL
    /\ ~Last(file[t])
    /\ vn' = Lowered(file[t])
    /\ file' = [file EXCEPT ![t] = NULL]
    /\ UNCHANGED <<mounted, dir, disk, diskmap, freemap, hand, pc, biglock, lost>>

CloseLast(t) ==
    /\ pc[t] = "out"
    /\ file[t] # NULL
    /\ Last(file[t])
    /\ hand' = [hand EXCEPT ![t] = file[t]]
    /\ file' = [file EXCEPT ![t] = NULL]
    /\ pc' = [pc EXCEPT ![t] = "reclaim"]
    /\ UNCHANGED <<mounted, dir, disk, diskmap, freemap, vn, biglock, lost>>

Return(t) ==
    /\ pc' = [pc EXCEPT ![t] = "out"]
    /\ hand' = [hand EXCEPT ![t] = NULL]
    /\ biglock' = NULL

(* ...creat, remove and rename with it.                                    *)
Drop(t) ==
    /\ pc[t] = "drop"
    /\ ~Last(hand[t])
    /\ vn' = Lowered(hand[t])
    /\ Return(t)
    /\ UNCHANGED <<mounted, dir, disk, diskmap, freemap, file, lost>>

DropLast(t) ==
    /\ pc[t] = "drop"
    /\ Last(hand[t])
    /\ pc' = [pc EXCEPT ![t] = "reclaim"]
    /\ UNCHANGED <<mounted, dir, disk, diskmap, freemap, vn, file, hand, biglock, lost>>

-----------------------------------------------------------------------------
(* sfs_reclaim: somebody has picked the vnode up...                        *)
Consumed_Not(v) == vn
Consumed(v) == Lowered(v)

ReclaimBusy(t) ==
    /\ pc[t] = "reclaim"
    /\ biglock \in {NULL, t}
    /\ ~Last(hand[t])
    /\ vn' = Consumed(hand[t])
    /\ Return(t)
    /\ UNCHANGED <<mounted, dir, disk, diskmap, freemap, file, lost>>

(* ...or not.                                                              *)
MayErase_Always(t) == pc[t] = "reclaim"
MayErase(t) == pc[t] = "reclaim" /\ Last(hand[t])

Reclaim(t) ==
    /\ MayErase(t)
    /\ biglock \in {NULL, t}
    /\ biglock' = t
    /\ pc' = [pc EXCEPT ![t] = "erase"]
    /\ UNCHANGED <<mounted, dir, disk, diskmap, freemap, vn, file, hand, lost>>

(* The inode is written back; if there is no link it is truncated first,   *)
(* and its block is free.                                                  *)
Unused(v) == vn[v].inode.links = 0

Freed_Never(v) == {}
Freed(v) == IF Unused(v) THEN {vn[v].ino} ELSE {}

WrittenBack(v) ==
    IF Unused(v) THEN Blank
    ELSE IF vn[v].dirty THEN vn[v].inode ELSE disk[vn[v].ino]

Erase(t) ==
    /\ pc[t] = "erase"
    /\ disk' = [disk EXCEPT ![vn[hand[t]].ino] = WrittenBack(hand[t])]
    /\ freemap' = freemap \ Freed(hand[t])
    /\ vn' = [vn EXCEPT ![hand[t]] = NULL]
    /\ Return(t)
    /\ UNCHANGED <<mounted, dir, diskmap, file, lost>>

(* An I/O error: sfs_reclaim returns it to vnode_decref, which prints it,  *)
(* and the vnode stays with a reference that nobody has.  sfs_itrunc may   *)
(* have failed after it has freed blocks and before it sets the size.      *)
EraseFails(t) ==
    /\ pc[t] = "erase"
    /\ \/ /\ Unused(hand[t])
          /\ \E size \in {0, vn[hand[t]].inode.size} :
                vn' = [vn EXCEPT ![hand[t]] = Resized(hand[t], size)]
       \/ /\ Unused(hand[t]) \/ vn[hand[t]].dirty
          /\ UNCHANGED vn
    /\ lost' = lost \cup {hand[t]}
    /\ Return(t)
    /\ UNCHANGED <<mounted, dir, disk, diskmap, freemap, file>>

-----------------------------------------------------------------------------
(* sfs_sync, which does not look at what VOP_FSYNC returns; fsync of one   *)
(* file is the same with one vnode.  The free map, which it writes too, is *)
(* read by nobody before the next mount.                                   *)
Cleaned(w) == [ino |-> w.ino, ref |-> w.ref, inode |-> w.inode, dirty |-> FALSE]
Dirty == {v \in Vnode : vn[v] # NULL /\ vn[v].dirty}
Written(w) == [i \in Ino |->
    IF Resident(i) \cap w = {} THEN disk[i]
    ELSE vn[CHOOSE v \in Resident(i) \cap w : TRUE].inode]

Sync ==
    /\ mounted /\ biglock = NULL
    /\ \E w \in SUBSET Dirty :
         /\ disk' = Written(w)
         /\ vn' = [v \in Vnode |-> IF v \in w THEN Cleaned(vn[v]) ELSE vn[v]]
    /\ UNCHANGED <<mounted, dir, diskmap, freemap, file, hand, pc, biglock, lost>>

(* vfs_unmount syncs and refuses, EBUSY, while a vnode is in the table.    *)
Unmount ==
    /\ mounted /\ biglock = NULL
    /\ \A v \in Vnode : vn[v] = NULL
    /\ mounted' = FALSE
    /\ diskmap' = freemap
    /\ freemap' = {}
    /\ UNCHANGED <<dir, disk, vn, file, hand, pc, biglock, lost>>

Mount ==
    /\ ~mounted
    /\ mounted' = TRUE
    /\ freemap' = diskmap
    /\ diskmap' = {}
    /\ UNCHANGED <<dir, disk, vn, file, hand, pc, biglock, lost>>

Next ==
    \/ \E t \in Thread, n \in Name :
         Lookup(t, n) \/ Creat(t, n) \/ Link(t, n) \/ Remove(t, n)
    \/ \E t \in Thread, old, new \in Name : Rename(t, old, new)
    \/ \E t \in Thread : CreatUnlinked(t) \/ CreatNoVnode(t)
    \/ \E t \in Thread : Write(t) \/ Truncate(t)
    \/ \E t \in Thread : Close(t) \/ CloseLast(t) \/ Drop(t) \/ DropLast(t)
    \/ \E t \in Thread :
         ReclaimBusy(t) \/ Reclaim(t) \/ Erase(t) \/ EraseFails(t)
    \/ Sync
    \/ Unmount
    \/ Mount

Spec == Init /\ [][Next]_vars

-----------------------------------------------------------------------------
TypeOK ==
    /\ mounted \in BOOLEAN
    /\ dir \in [Name -> Ino \cup {NULL}]
    /\ disk \in [Ino -> Inode]
    /\ diskmap \subseteq Ino /\ freemap \subseteq Ino
    /\ vn \in [Vnode -> SfsVnode \cup {NULL}]
    /\ file \in [Thread -> Vnode \cup {NULL}]
    /\ hand \in [Thread -> Vnode \cup {NULL}]
    /\ pc \in [Thread -> Place]
    /\ biglock \in Thread \cup {NULL}
    /\ lost \subseteq Vnode

(* No inode has two vnodes, and there are none while it is not mounted.    *)
OneVnode == \A v \in Vnode : vn[v] # NULL =>
    /\ mounted
    /\ \A w \in Vnode : vn[w] # NULL /\ vn[v].ino = vn[w].ino => v = w

(* What a thread has in hand, and vfs_biglock, go with where it is.        *)
HandInPlace == \A t \in Thread :
    /\ pc[t] = "out" <=> hand[t] = NULL
    /\ pc[t] \in {"drop", "erase"} => biglock = t

Users(v) == {t \in Thread : file[t] = v}
Droppers(v) == {t \in Thread : hand[t] = v}

(* A vnode is counted once for everyone who has it open or is about to     *)
(* drop it, and once more if an I/O error has lost it; nobody has one that *)
(* is not in the table (vnode_incref, vnode_decref, sfs_reclaim).          *)
RefsExact == \A v \in Vnode :
    IF vn[v] = NULL
    THEN Users(v) \cup Droppers(v) = {} /\ v \notin lost
    ELSE vn[v].ref = Cardinality(Users(v)) + Cardinality(Droppers(v))
                     + Cardinality(lost \cap {v})

(* vnode_cleanup's assertion: between the second look at the count and the *)
(* freeing of the vnode nobody takes a reference to it or drops one.       *)
CleanupAlone == \A t \in Thread : pc[t] = "erase" => Last(hand[t])

(* The reference counts are right, one vnode stands for an inode, and a    *)
(* vnode that is being freed belongs to one thread; with the types, the    *)
(* inductive invariant.                                                    *)
VnodesInv == TypeOK /\ OneVnode /\ HandInPlace /\ RefsExact /\ CleanupAlone

-----------------------------------------------------------------------------
Map == IF mounted THEN freemap ELSE diskmap
Names(i) == {n \in Name : dir[n] = i}

(* A block is in use while its inode has a name or is in memory; the link  *)
(* count of an inode, in its vnode or else on disk, is the number of its   *)
(* names; a vnode that is not dirty is as on disk.  So sfs_loadvnode and   *)
(* sfs_lookonce never panic over an inode in a free block or a name with   *)
(* no link, nothing leaks but what an I/O error has lost, and a disk that  *)
(* was unmounted is in order.                                              *)
LinksExact ==
    /\ \A i \in Ino : i \in Map <=> Names(i) # {} \/ Resident(i) # {}
    /\ \A i \in Ino : Names(i) # {} /\ Resident(i) = {}
         => disk[i].links = Cardinality(Names(i))
    /\ \A v \in Vnode : vn[v] # NULL =>
         /\ vn[v].inode.links = Cardinality(Names(vn[v].ino))
         /\ ~vn[v].dirty => disk[vn[v].ino] = vn[v].inode

-----------------------------------------------------------------------------
(* The files that the directory names or somebody has open.                *)
(* An inode as it is now: in its vnode, or on disk.                        *)
Current(i) == IF Resident(i) = {} THEN disk[i]
              ELSE vn[CHOOSE v \in Resident(i) : TRUE].inode
InodeOf(v) == IF v = NULL THEN NULL ELSE vn[v].ino
Opened == [t \in Thread |-> InodeOf(file[t])]
Exists == {dir[n] : n \in Name} \cup {Opened[t] : t \in Thread}
Size == [i \in Ino |-> IF i \in Exists THEN Current(i).size ELSE NULL]

Files == INSTANCE UnixFiles
    WITH File <- Ino, named <- dir, opened <- Opened, size <- Size

(* SFS implements files: what is written to a file is found in it by       *)
(* everyone who opens it, after its vnode was reclaimed and after an       *)
(* unmount too; a removed file is there as long as it is open; a new file  *)
(* is empty, whatever its inode was before.                                *)
ImplementsFiles == Files!Spec
=============================================================================
