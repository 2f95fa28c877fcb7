-------------------------- MODULE SfsVnodesProofs --------------------------
(***************************************************************************)
(* The reference counts of vnodes and the link counts of inodes are exact, *)
(* for any number of threads, names, inodes and vnodes.                    *)
(***************************************************************************)
EXTENDS SfsVnodes, TLAPS, FiniteSetTheorems

(* Both together are inductive: an inode that is freed has no name because *)
(* the link count is right, and one that has a name is not freed because   *)
(* the reference count is right.                                           *)
IInv == VnodesInv /\ LinksExact

(* The references to v that thread t has, and the lost one.                *)
One(w, v) == IF w = v THEN 1 ELSE 0
Lost(v) == IF v \in lost THEN 1 ELSE 0
Mine(t, v) == One(file[t], v) + One(hand[t], v) + Lost(v)

(* How many references to v there are, and how many are counted.           *)
Refs(v) == Cardinality(Users(v)) + Cardinality(Droppers(v))
           + Cardinality(lost \cap {v})
Counted(v) == IF vn[v] = NULL THEN 0 ELSE vn[v].ref

(* What S has of v.                                                        *)
LEMMA OneOf ==
    ASSUME NEW S, NEW v
    PROVE  Cardinality(S \cap {v}) = IF v \in S THEN 1 ELSE 0
<1>1. CASE v \in S
  <2>1. S \cap {v} = {v}
    BY <1>1
  <2> QED
    BY <1>1, <2>1, FS_Singleton
<1>2. CASE v \notin S
  <2>1. S \cap {v} = {}
    BY <1>2
  <2> QED
    BY <1>2, <2>1, FS_EmptySet
<1> QED
  BY <1>1, <1>2

(* All the sets that are counted are finite.                               *)
LEMMA Finite ==
    ASSUME NEW v
    PROVE  /\ IsFiniteSet(Users(v)) /\ Cardinality(Users(v)) \in Nat
           /\ IsFiniteSet(Droppers(v)) /\ Cardinality(Droppers(v)) \in Nat
           /\ IsFiniteSet(Names(v)) /\ Cardinality(Names(v)) \in Nat
<1>1. Users(v) \subseteq Thread /\ Droppers(v) \subseteq Thread
      /\ Names(v) \subseteq Name
  BY DEF Users, Droppers, Names
<1>2. IsFiniteSet(Users(v)) /\ IsFiniteSet(Droppers(v)) /\ IsFiniteSet(Names(v))
  BY <1>1, FS_Subset, ConstantsAssumption
<1> QED
  BY <1>2, FS_CardinalityType

(* RefsExact says that the counts are right, also of what is not there.    *)
AllCounted == \A v \in Vnode : Counted(v) = Refs(v)
LEMMA RefsCounted == RefsExact <=> AllCounted
<1>1. SUFFICES ASSUME NEW v \in Vnode
               PROVE  Users(v) \cup Droppers(v) = {} /\ v \notin lost <=> Refs(v) = 0
  BY DEF RefsExact, AllCounted, Counted, Refs
<1>2. Users(v) = {} <=> Cardinality(Users(v)) = 0
  BY Finite, FS_EmptySet
<1>3. Droppers(v) = {} <=> Cardinality(Droppers(v)) = 0
  BY Finite, FS_EmptySet
<1> QED
  BY <1>2, <1>3, Finite, OneOf DEF Refs

(* A set that may get x or lose it.                                        *)
LEMMA Change ==
    ASSUME NEW S, IsFiniteSet(S), NEW T, NEW x, NEW b \in BOOLEAN,
           T = IF b THEN S \cup {x} ELSE S \ {x}
    PROVE  Cardinality(T) = Cardinality(S) + (IF b THEN 1 ELSE 0)
                                           - (IF x \in S THEN 1 ELSE 0)
<1>1. Cardinality(S) \in Nat
  BY FS_CardinalityType
<1>2. CASE b /\ x \notin S
  BY <1>1, <1>2, FS_AddElement
<1>3. CASE ~b /\ x \in S
  BY <1>1, <1>3, FS_RemoveElement
<1>4. CASE b <=> x \in S
  <2>1. T = S
    BY <1>4
  <2> QED
    BY <1>1, <1>4, <2>1
<1> QED
  BY <1>2, <1>3, <1>4

(* A thread goes in or out of the users of v...                            *)
LEMMA UsersChange ==
    ASSUME NEW t \in Thread, \A u \in Thread \ {t} : file'[u] = file[u], NEW v
    PROVE  Cardinality(Users(v))' =
             Cardinality(Users(v)) + One(file'[t], v) - One(file[t], v)
<1>1. IsFiniteSet(Users(v))
  BY Finite
<1>2. Users(v)' = IF file'[t] = v THEN Users(v) \cup {t} ELSE Users(v) \ {t}
  BY DEF Users
<1>3. t \in Users(v) <=> file[t] = v
  BY DEF Users
<1>4. Cardinality(Users(v)') = Cardinality(Users(v))
        + (IF file'[t] = v THEN 1 ELSE 0) - (IF t \in Users(v) THEN 1 ELSE 0)
  BY <1>1, <1>2, Change
<1> QED
  BY <1>3, <1>4 DEF One

(* ...or of those that drop it.                                            *)
LEMMA DroppersChange ==
    ASSUME NEW t \in Thread, \A u \in Thread \ {t} : hand'[u] = hand[u], NEW v
    PROVE  Cardinality(Droppers(v))' =
             Cardinality(Droppers(v)) + One(hand'[t], v) - One(hand[t], v)
<1>1. IsFiniteSet(Droppers(v))
  BY Finite
<1>2. Droppers(v)' = IF hand'[t] = v THEN Droppers(v) \cup {t} ELSE Droppers(v) \ {t}
  BY DEF Droppers
<1>3. t \in Droppers(v) <=> hand[t] = v
  BY DEF Droppers
<1>4. Cardinality(Droppers(v)') = Cardinality(Droppers(v))
        + (IF hand'[t] = v THEN 1 ELSE 0) - (IF t \in Droppers(v) THEN 1 ELSE 0)
  BY <1>1, <1>2, Change
<1> QED
  BY <1>3, <1>4 DEF One

(* A step of one thread keeps the counts exact if it changes each of them  *)
(* by the references that the thread gets or gives up.                     *)
LEMMA RefsStep ==
    ASSUME RefsExact, NEW t \in Thread,
           \A u \in Thread \ {t} : file'[u] = file[u] /\ hand'[u] = hand[u],
           \A v \in Vnode : Counted(v)' = Counted(v) + Mine(t, v)' - Mine(t, v)
    PROVE  RefsExact'
<1>1. ASSUME NEW v \in Vnode
      PROVE  Counted(v)' = Refs(v)'
  <2>1. Counted(v) = Refs(v)
    BY RefsCounted DEF AllCounted
  <2>2. Cardinality(lost \cap {v}) = Lost(v)
    BY OneOf DEF Lost
  <2>3. Cardinality(lost' \cap {v}) = Lost(v)'
    BY OneOf DEF Lost
  <2>4. Cardinality(Users(v))' =
          Cardinality(Users(v)) + One(file'[t], v) - One(file[t], v)
    BY UsersChange
  <2>5. Cardinality(Droppers(v))' =
          Cardinality(Droppers(v)) + One(hand'[t], v) - One(hand[t], v)
    BY DroppersChange
  <2>6. Counted(v)' = Counted(v) + Mine(t, v)' - Mine(t, v)
    OBVIOUS
  <2>7. Cardinality(Users(v)) \in Nat /\ Cardinality(Droppers(v)) \in Nat
    BY Finite
  <2> QED
    BY <2>1, <2>2, <2>3, <2>4, <2>5, <2>6, <2>7 DEF Refs, Mine, One, Lost
<1>2. AllCounted'
  BY <1>1 DEF AllCounted
<1> QED
  BY <1>2, RefsCounted, PTL

(* Who has a vnode open or in hand has one that is there and counted.      *)
LEMMA There ==
    ASSUME TypeOK, RefsExact, NEW t \in Thread, NEW v, v # NULL,
           v = file[t] \/ v = hand[t]
    PROVE  v \in Vnode /\ vn[v] # NULL /\ vn[v] \in SfsVnode /\ vn[v].ref \in Nat \ {0}
<1>1. v \in Vnode
  BY DEF TypeOK
<1>2. t \in Users(v) \/ t \in Droppers(v)
  BY DEF Users, Droppers
<1>3. vn[v] # NULL
  BY <1>1, <1>2 DEF RefsExact
<1>4. vn[v] \in SfsVnode
  BY <1>1, <1>3 DEF TypeOK
<1>5. vn[v].ref = Cardinality(Users(v)) + Cardinality(Droppers(v))
                  + Cardinality(lost \cap {v})
  BY <1>1, <1>3 DEF RefsExact
<1>6. Cardinality(Users(v)) # 0 \/ Cardinality(Droppers(v)) # 0
  BY <1>2, Finite, FS_EmptySet
<1>7. /\ Cardinality(Users(v)) \in Nat /\ Cardinality(Droppers(v)) \in Nat
      /\ Cardinality(lost \cap {v}) \in Nat
  BY Finite, OneOf
<1> QED
  BY <1>1, <1>3, <1>4, <1>5, <1>6, <1>7

-----------------------------------------------------------------------------
(* What LinksExact says of a vnode.                                        *)
Right(v) == /\ vn[v].inode.links = Cardinality(Names(vn[v].ino))
            /\ ~vn[v].dirty => disk[vn[v].ino] = vn[v].inode

(* A vnode that is not dirty is as b, its block on disk.                   *)
AsOnDisk(x, b) == x.dirty = TRUE \/ b = x.inode

(* Vnode v of inode i becomes x: nothing else changes but the directory    *)
(* entries of i, and i is in use.                                          *)
LEMMA Install ==
    ASSUME IInv, mounted = TRUE, mounted' = mounted,
           NEW v \in Vnode, NEW i \in Ino, NEW x \in SfsVnode, x.ino = i,
           vn' = [vn EXCEPT ![v] = x],
           freemap' = freemap \cup {i},
           \A w \in Vnode \ {v} : vn[w] # NULL => vn[w].ino # i,
           vn[v] # NULL => vn[v].ino = i,
           \A j \in Ino \ {i} : disk'[j] = disk[j] /\ Names(j)' = Names(j),
           x.inode.links = Cardinality(Names(i)'),
           AsOnDisk(x, disk'[i])
    PROVE  OneVnode' /\ LinksExact'
<1>1. \A w \in Vnode : /\ vn'[w] = IF w = v THEN x ELSE vn[w]
                       /\ vn[w] # NULL => vn[w].ino \in Ino
  BY DEF IInv, VnodesInv, TypeOK, SfsVnode
<1>2. x # NULL
  BY NullAssumption
<1>3. OneVnode'
  BY <1>1, <1>2 DEF IInv, VnodesInv, OneVnode
<1>4. \A j \in Ino : Resident(j)' = IF j = i THEN {v} ELSE Resident(j)
  BY <1>1, <1>2 DEF Resident
<1>5. \A j \in Ino : j \in Map' <=> Names(j)' # {} \/ Resident(j)' # {}
  <2>1. \A j \in Ino : j \in freemap <=> Names(j) # {} \/ Resident(j) # {}
    BY DEF IInv, LinksExact, Map
  <2> QED
    BY <1>4, <2>1 DEF Map
<1>6. \A j \in Ino : Names(j)' # {} /\ Resident(j)' = {}
        => disk'[j].links = Cardinality(Names(j)')
  BY <1>4 DEF IInv, LinksExact
<1>7. ASSUME NEW w \in Vnode, vn'[w] # NULL
      PROVE  Right(w)'
  <2>1. CASE w = v
    <3>1. vn'[w] = x
      BY <1>1, <2>1
    <3> QED
      BY <3>1 DEF Right, AsOnDisk
  <2>2. CASE w # v
    <3>1. vn'[w] = vn[w] /\ vn[w].ino \in Ino \ {i}
      BY <1>1, <1>7, <2>2
    <3>2. Right(w)
      BY <1>7, <3>1 DEF IInv, LinksExact, Right
    <3> QED
      BY <3>1, <3>2 DEF Right
  <2> QED
    BY <2>1, <2>2
<1> QED
  BY <1>3, <1>5, <1>6, <1>7 DEF LinksExact, Right

(* The vnodes keep their inodes and link counts, and are no cleaner.       *)
LEMMA SameLinks ==
    ASSUME IInv, UNCHANGED <<mounted, dir, disk, diskmap, freemap>>,
           \A w \in Vnode :
             /\ vn'[w] = NULL <=> vn[w] = NULL
             /\ vn[w] # NULL =>
                  /\ vn'[w].ino = vn[w].ino
                  /\ vn'[w].inode.links = vn[w].inode.links
                  /\ ~vn'[w].dirty => ~vn[w].dirty /\ vn'[w].inode = vn[w].inode
    PROVE  OneVnode' /\ LinksExact'
<1>1. OneVnode'
  BY DEF IInv, VnodesInv, OneVnode
<1>2. \A j \in Ino : Resident(j)' = Resident(j) /\ Names(j)' = Names(j)
  BY DEF Resident, Names
<1>3. Map' = Map
  BY DEF Map
<1>4. \A w \in Vnode : vn[w] # NULL => Names(vn[w].ino)' = Names(vn[w].ino)
  BY DEF Names
<1> QED
  BY <1>1, <1>2, <1>3, <1>4 DEF IInv, LinksExact

(* sfs_loadvnode of an inode that has a name: its only vnode, with one     *)
(* reference more.                                                         *)
LEMMA Loads ==
    ASSUME IInv, mounted = TRUE, NEW n \in Name, dir[n] # NULL,
           NEW v, v \in Found(dir[n])
    PROVE  /\ v \in Vnode /\ dir[n] \in Ino \cap freemap
           /\ Loaded(dir[n], v) \in SfsVnode /\ Loaded(dir[n], v).ino = dir[n]
           /\ Loaded(dir[n], v).ref = Counted(v) + 1
           /\ Loaded(dir[n], v).inode.links = Cardinality(Names(dir[n]))
           /\ AsOnDisk(Loaded(dir[n], v), disk[dir[n]])
           /\ vn[v] # NULL => vn[v].ino = dir[n]
           /\ \A w \in Vnode \ {v} : vn[w] # NULL => vn[w].ino # dir[n]
<1> DEFINE i == dir[n]
<1>1. i \in Ino /\ n \in Names(i)
  BY DEF IInv, VnodesInv, TypeOK, Names
<1>2. i \in freemap
  BY <1>1 DEF IInv, LinksExact, Map
<1>3. CASE Resident(i) # {}
  <2>1. v \in Vnode /\ vn[v] # NULL /\ vn[v].ino = i
    BY <1>3 DEF Found, Resident
  <2>2. vn[v] \in SfsVnode
    BY <2>1 DEF IInv, VnodesInv, TypeOK
  <2>3. Loaded(i, v) = [vn[v] EXCEPT !.ref = vn[v].ref + 1]
    BY <2>1 DEF Loaded
  <2>4. \A w \in Vnode \ {v} : vn[w] # NULL => vn[w].ino # i
    BY <2>1 DEF IInv, VnodesInv, OneVnode
  <2>5. /\ vn[v].inode.links = Cardinality(Names(i))
        /\ ~vn[v].dirty => disk[i] = vn[v].inode
    BY <2>1 DEF IInv, LinksExact
  <2> HIDE DEF i
  <2> QED
    BY <1>1, <1>2, <2>1, <2>2, <2>3, <2>4, <2>5 DEF SfsVnode, Counted, AsOnDisk, i
<1>4. CASE Resident(i) = {}
  <2>1. v \in Vnode /\ vn[v] = NULL
    BY <1>4 DEF Found, Spare, Lowest
  <2>2. Loaded(i, v) = [ino |-> i, ref |-> 1, inode |-> disk[i], dirty |-> FALSE]
    BY <2>1 DEF Loaded
  <2>3. \A w \in Vnode : vn[w] # NULL => vn[w].ino # i
    BY <1>4 DEF Resident
  <2>4. disk[i].links = Cardinality(Names(i))
    BY <1>1, <1>4 DEF IInv, LinksExact
  <2>5. disk[i] \in Inode
    BY <1>1 DEF IInv, VnodesInv, TypeOK
  <2> HIDE DEF i
  <2> QED
    BY <1>1, <1>2, <2>1, <2>2, <2>3, <2>4, <2>5 DEF SfsVnode, Counted, AsOnDisk, i
<1> QED
  BY <1>3, <1>4

-----------------------------------------------------------------------------
(* While vfs_biglock is free nobody is where it is held, and what t does   *)
(* up to its VOP_DECREF disturbs nobody.                                   *)
LEMMA Section ==
    ASSUME IInv, NEW t \in Thread, Enters(t),
           \/ UNCHANGED <<pc, hand, biglock>>
           \/ \E v \in Vnode : GoDrop(t, v)
    PROVE  HandInPlace' /\ CleanupAlone'
<1>1. \A u \in Thread : pc[u] \notin {"drop", "erase"}
  BY ConstantsAssumption DEF IInv, VnodesInv, HandInPlace, Enters
<1>2. CASE UNCHANGED <<pc, hand, biglock>>
  BY <1>1, <1>2 DEF IInv, VnodesInv, HandInPlace, CleanupAlone
<1>3. ASSUME NEW v \in Vnode, GoDrop(t, v)
      PROVE  HandInPlace' /\ CleanupAlone'
  <2>1. \A u \in Thread : /\ pc'[u] = IF u = t THEN "drop" ELSE pc[u]
                          /\ hand'[u] = IF u = t THEN v ELSE hand[u]
    BY <1>3 DEF GoDrop, IInv, VnodesInv, TypeOK
  <2>2. biglock' = t /\ v # NULL
    BY <1>3, ConstantsAssumption DEF GoDrop
  <2> QED
    BY <1>1, <2>1, <2>2 DEF IInv, VnodesInv, HandInPlace, CleanupAlone
<1> QED
  BY <1>2, <1>3

(* t gets a reference to v, open or in hand.                               *)
LEMMA Gets ==
    ASSUME TypeOK, RefsExact, NEW t \in Thread, NEW v \in Vnode, NEW x \in SfsVnode,
           vn' = [vn EXCEPT ![v] = x], x.ref = Counted(v) + 1, lost' = lost,
           \/ file[t] = NULL /\ file' = [file EXCEPT ![t] = v] /\ hand' = hand
           \/ hand[t] = NULL /\ hand' = [hand EXCEPT ![t] = v] /\ file' = file
    PROVE  RefsExact'
<1>1. \A w \in Vnode : vn'[w] = IF w = v THEN x ELSE vn[w]
  BY DEF TypeOK
<1>2. x # NULL /\ v # NULL
  BY NullAssumption, ConstantsAssumption
<1>3. \A w \in Vnode : Counted(w) \in Int
  BY DEF TypeOK, Counted, SfsVnode
<1>4. \A w \in Vnode : Counted(w)' = Counted(w) + (IF w = v THEN 1 ELSE 0)
  BY <1>1, <1>2, <1>3 DEF Counted
<1>5. \A u \in Thread \ {t} : file'[u] = file[u] /\ hand'[u] = hand[u]
  BY DEF TypeOK
<1>6. \A w \in Vnode : Mine(t, w)' = Mine(t, w) + (IF w = v THEN 1 ELSE 0)
  <2>1. CASE file[t] = NULL /\ file' = [file EXCEPT ![t] = v] /\ hand' = hand
    <3>1. file'[t] = v
      BY <2>1 DEF TypeOK
    <3>2. \A w \in Vnode : file[t] # w
      BY <2>1, ConstantsAssumption
    <3> QED
      BY <2>1, <3>1, <3>2 DEF Mine, One, Lost
  <2>2. CASE hand[t] = NULL /\ hand' = [hand EXCEPT ![t] = v] /\ file' = file
    <3>1. hand'[t] = v
      BY <2>2 DEF TypeOK
    <3>2. \A w \in Vnode : hand[t] # w
      BY <2>2, ConstantsAssumption
    <3> QED
      BY <2>2, <3>1, <3>2 DEF Mine, One, Lost
  <2> QED
    BY <2>1, <2>2
<1>7. \A w \in Vnode : Mine(t, w) \in Int
  BY DEF Mine, One, Lost
<1>8. \A w \in Vnode : Counted(w)' = Counted(w) + Mine(t, w)' - Mine(t, w)
  BY <1>3, <1>4, <1>6, <1>7
<1> QED
  BY <1>5, <1>8, RefsStep

(* vnode_decref takes one from the count, and changes nothing else.        *)
LEMMA LoweredVnode ==
    ASSUME TypeOK, NEW v \in Vnode, vn[v] \in SfsVnode, vn[v].ref \in Nat \ {0},
           vn' = Lowered(v)
    PROVE  \E x \in SfsVnode :
             /\ vn' = [vn EXCEPT ![v] = x] /\ x.ref = vn[v].ref - 1
             /\ x.ino = vn[v].ino /\ x.inode = vn[v].inode /\ x.dirty = vn[v].dirty
<1>1. PICK y \in SfsVnode : y = vn[v] /\ y.ref \in Nat \ {0}
  OBVIOUS
<1>2. PICK x : x = [ino |-> y.ino, ref |-> y.ref - 1, inode |-> y.inode,
                    dirty |-> y.dirty]
  OBVIOUS
<1>3. x \in SfsVnode
  BY <1>1, <1>2 DEF SfsVnode
<1>4. [y EXCEPT !.ref = y.ref - 1] = x
  BY <1>2 DEF SfsVnode
<1>5. vn' = [vn EXCEPT ![v] = [y EXCEPT !.ref = y.ref - 1]]
  BY <1>1 DEF Lowered
<1>6. vn' = [vn EXCEPT ![v] = x]
  BY <1>4, <1>5
<1> QED
  BY <1>1, <1>2, <1>3, <1>6

(* t drops the reference to v that it had open or in hand, and somebody    *)
(* else has one.                                                           *)
LEMMA Drops ==
    ASSUME TypeOK, RefsExact, NEW t \in Thread, NEW v \in Vnode, vn[v] # NULL,
           vn' = Lowered(v), lost' = lost,
           \/ file[t] = v /\ file' = [file EXCEPT ![t] = NULL] /\ hand' = hand
           \/ hand[t] = v /\ hand' = [hand EXCEPT ![t] = NULL] /\ file' = file
    PROVE  RefsExact'
<1>1. vn[v] \in SfsVnode /\ vn[v].ref \in Nat \ {0}
  BY There, ConstantsAssumption
<1>2. PICK x \in SfsVnode : vn' = [vn EXCEPT ![v] = x] /\ x.ref = vn[v].ref - 1
  BY <1>1, LoweredVnode
<1>3. \A w \in Vnode : Counted(w) \in Int
  BY DEF TypeOK, Counted, SfsVnode
<1>4. \A w \in Vnode : vn'[w] = IF w = v THEN x ELSE vn[w]
  BY <1>2 DEF TypeOK
<1>5. \A w \in Vnode : Counted(w)' = Counted(w) - (IF w = v THEN 1 ELSE 0)
  <2>1. x # NULL /\ x.ref = vn[v].ref - 1
    BY <1>2, NullAssumption
  <2> QED
    BY <2>1, <1>3, <1>4 DEF Counted
<1>6. \A u \in Thread \ {t} : file'[u] = file[u] /\ hand'[u] = hand[u]
  BY DEF TypeOK
<1>7. \A w \in Vnode : Mine(t, w)' = Mine(t, w) - (IF w = v THEN 1 ELSE 0)
  <2>1. CASE file[t] = v /\ file' = [file EXCEPT ![t] = NULL] /\ hand' = hand
    <3>1. file'[t] = NULL
      BY <2>1 DEF TypeOK
    <3> QED
      BY <2>1, <3>1, ConstantsAssumption DEF Mine, One, Lost
  <2>2. CASE hand[t] = v /\ hand' = [hand EXCEPT ![t] = NULL] /\ file' = file
    <3>1. hand'[t] = NULL
      BY <2>2 DEF TypeOK
    <3> QED
      BY <2>2, <3>1, ConstantsAssumption DEF Mine, One, Lost
  <2> QED
    BY <2>1, <2>2
<1>8. \A w \in Vnode : Mine(t, w) \in Int
  BY DEF Mine, One, Lost
<1>9. \A w \in Vnode : Counted(w)' = Counted(w) + Mine(t, w)' - Mine(t, w)
  BY <1>3, <1>5, <1>7, <1>8
<1> QED
  BY <1>6, <1>9, RefsStep

-----------------------------------------------------------------------------
LEMMA InitInv == Init => IInv
<1> SUFFICES ASSUME Init PROVE IInv
  OBVIOUS
<1>1. Blank \in Inode /\ Blank.links = 0
  BY ConstantsAssumption DEF Blank, Inode
<1>2. TypeOK
  BY <1>1 DEF Init, TypeOK, Place
<1>3. OneVnode /\ HandInPlace /\ CleanupAlone
  BY DEF Init, OneVnode, HandInPlace, CleanupAlone
<1>4. RefsExact
  <2>1. \A v \in Vnode : Users(v) = {} /\ Droppers(v) = {}
    BY ConstantsAssumption DEF Init, Users, Droppers
  <2> QED
    BY <2>1 DEF Init, RefsExact
<1>5. LinksExact
  <2>1. \A i \in Ino : Names(i) = {} /\ Resident(i) = {}
    BY ConstantsAssumption DEF Init, Names, Resident
  <2> QED
    BY <2>1 DEF Init, LinksExact, Map
<1> QED
  BY <1>2, <1>3, <1>4, <1>5 DEF IInv, VnodesInv

LEMMA LookupInv ==
    ASSUME IInv, NEW t \in Thread, NEW n \in Name, Lookup(t, n)
    PROVE  IInv'
<1>1. PICK v \in Found(dir[n]) :
       /\ vn' = [vn EXCEPT ![v] = Loaded(dir[n], v)]
       /\ file' = [file EXCEPT ![t] = v]
  BY DEF Lookup
<1>2. /\ mounted = TRUE /\ file[t] = NULL /\ dir[n] # NULL
      /\ UNCHANGED <<mounted, dir, disk, diskmap, freemap, hand, pc, biglock, lost>>
  BY DEF Lookup, Enters, IInv, VnodesInv, TypeOK
<1>3. /\ v \in Vnode /\ dir[n] \in Ino \cap freemap
      /\ Loaded(dir[n], v) \in SfsVnode /\ Loaded(dir[n], v).ino = dir[n]
      /\ Loaded(dir[n], v).ref = Counted(v) + 1
      /\ Loaded(dir[n], v).inode.links = Cardinality(Names(dir[n]))
      /\ AsOnDisk(Loaded(dir[n], v), disk[dir[n]])
      /\ vn[v] # NULL => vn[v].ino = dir[n]
      /\ \A w \in Vnode \ {v} : vn[w] # NULL => vn[w].ino # dir[n]
  BY <1>1, <1>2, Loads
<1>4. PICK i \in Ino, x \in SfsVnode : i = dir[n] /\ x = Loaded(dir[n], v)
  BY <1>3
<1>5. /\ vn' = [vn EXCEPT ![v] = x] /\ x.ino = i
      /\ x.inode.links = Cardinality(Names(i)) /\ AsOnDisk(x, disk'[i])
      /\ vn[v] # NULL => vn[v].ino = i
      /\ \A w \in Vnode \ {v} : vn[w] # NULL => vn[w].ino # i
      /\ freemap' = freemap \cup {i}
  BY <1>1, <1>2, <1>3, <1>4
<1>6. /\ v \in Vnode /\ \A j \in Ino \ {i} : disk'[j] = disk[j] /\ Names(j)' = Names(j)
      /\ x.inode.links = Cardinality(Names(i)')
      /\ mounted = TRUE /\ mounted' = mounted
  BY <1>2, <1>3, <1>5 DEF Names
<1>7. OneVnode' /\ LinksExact'
  BY <1>5, <1>6, Install
<1>8. RefsExact'
  BY <1>1, <1>2, <1>3, <1>4, Gets DEF IInv, VnodesInv
<1>9. HandInPlace' /\ CleanupAlone'
  BY <1>2, Section DEF Lookup
<1>10. TypeOK'
  BY <1>1, <1>2, <1>3 DEF IInv, VnodesInv, TypeOK
<1> QED
  BY <1>7, <1>8, <1>9, <1>10 DEF IInv, VnodesInv

(* A block that sfs_balloc takes and a place in the vnode table are free.  *)
LEMMA Fresh ==
    ASSUME IInv, mounted = TRUE, NEW i \in Lowest(Ino \ freemap), NEW v \in Spare
    PROVE  /\ i \in Ino /\ i \notin freemap /\ Names(i) = {}
           /\ \A w \in Vnode : vn[w] # NULL => vn[w].ino # i
           /\ v \in Vnode /\ vn[v] = NULL
<1>1. i \in Ino /\ i \notin freemap
  BY DEF Lowest
<1>2. Names(i) = {} /\ Resident(i) = {}
  BY <1>1 DEF IInv, LinksExact, Map
<1>3. v \in Vnode /\ vn[v] = NULL
  BY DEF Spare, Lowest
<1> QED
  BY <1>1, <1>2, <1>3 DEF Resident

(* The new vnode of a new inode.                                           *)
LEMMA New ==
    ASSUME NEW i \in Ino, NEW links \in Nat
    PROVE  /\ NewVnode(i, links) \in SfsVnode /\ NewVnode(i, links).ino = i
           /\ NewVnode(i, links).inode.links = links
           /\ NewVnode(i, links).ref = 1 /\ NewVnode(i, links).dirty
BY ConstantsAssumption DEF NewVnode, SfsVnode, Inode

LEMMA BlankIsInode == Blank \in Inode /\ Blank.links = 0
BY ConstantsAssumption DEF Blank, Inode

LEMMA CreatInv ==
    ASSUME IInv, NEW t \in Thread, NEW n \in Name, Creat(t, n)
    PROVE  IInv'
<1>1. PICK i \in Ino, v \in Spare :
        /\ Balloc(i)
        /\ freemap' = freemap \cup {i}
        /\ vn' = [vn EXCEPT ![v] = NewVnode(i, 1)]
        /\ dir' = [dir EXCEPT ![n] = i]
        /\ file' = [file EXCEPT ![t] = v]
  BY DEF Creat
<1>2. /\ mounted = TRUE /\ file[t] = NULL /\ dir[n] = NULL
      /\ UNCHANGED <<mounted, diskmap, hand, pc, biglock, lost>>
  BY DEF Creat, Enters, IInv, VnodesInv, TypeOK
<1>3. /\ i \in Ino /\ i \notin freemap /\ Names(i) = {}
      /\ \A w \in Vnode : vn[w] # NULL => vn[w].ino # i
      /\ v \in Vnode /\ vn[v] = NULL
  BY <1>1, <1>2, Fresh DEF Balloc
<1>4. PICK x \in SfsVnode : /\ vn' = [vn EXCEPT ![v] = x] /\ x.ino = i /\ x.ref = 1
                            /\ x.inode.links = 1 /\ x.dirty
  BY <1>1, New
<1>5. \A m \in Name : dir'[m] = IF m = n THEN i ELSE dir[m]
  BY <1>1 DEF IInv, VnodesInv, TypeOK
<1>6. /\ \A j \in Ino \ {i} : disk'[j] = disk[j] /\ Names(j)' = Names(j)
      /\ x.inode.links = Cardinality(Names(i)')
  <2>1. \A j \in Ino \ {i} : disk'[j] = disk[j]
    BY <1>1 DEF Balloc, IInv, VnodesInv, TypeOK
  <2>2. \A j \in Ino \ {i} : Names(j)' = Names(j)
    BY <1>2, <1>5, ConstantsAssumption DEF Names
  <2>3. Names(i)' = {n}
    BY <1>3, <1>5 DEF Names
  <2> QED
    BY <1>4, <2>1, <2>2, <2>3, FS_Singleton
<1>7. OneVnode' /\ LinksExact'
  <2>1. /\ mounted = TRUE /\ mounted' = mounted /\ freemap' = freemap \cup {i}
        /\ vn[v] # NULL => vn[v].ino = i
        /\ \A w \in Vnode \ {v} : vn[w] # NULL => vn[w].ino # i
    BY <1>1, <1>2, <1>3
  <2>2. AsOnDisk(x, disk'[i])
    BY <1>4 DEF AsOnDisk
  <2> QED
    BY <1>3, <1>4, <1>6, <2>1, <2>2, Install
<1>8. RefsExact'
  <2>1. x.ref = Counted(v) + 1
    BY <1>3, <1>4 DEF Counted
  <2>2. /\ lost' = lost /\ hand' = hand /\ file' = [file EXCEPT ![t] = v]
        /\ TypeOK /\ RefsExact /\ file[t] = NULL
    BY <1>1, <1>2 DEF IInv, VnodesInv
  <2> QED
    BY <1>3, <1>4, <2>1, <2>2, Gets
<1>9. HandInPlace' /\ CleanupAlone'
  BY <1>2, Section DEF Creat
<1>10. TypeOK'
  <2>1. disk' \in [Ino -> Inode]
    BY <1>1, BlankIsInode DEF Balloc, IInv, VnodesInv, TypeOK
  <2> QED
    BY <1>1, <1>2, <1>3, <1>4, <2>1 DEF IInv, VnodesInv, TypeOK
<1> QED
  BY <1>7, <1>8, <1>9, <1>10 DEF IInv, VnodesInv

LEMMA CreatUnlinkedInv ==
    ASSUME IInv, NEW t \in Thread, CreatUnlinked(t)
    PROVE  IInv'
<1>1. PICK i \in Ino, v \in Spare :
        /\ Balloc(i)
        /\ freemap' = freemap \cup {i}
        /\ vn' = [vn EXCEPT ![v] = NewVnode(i, 0)]
        /\ GoDrop(t, v)
  BY DEF CreatUnlinked
<1>2. /\ mounted = TRUE /\ hand[t] = NULL
      /\ UNCHANGED <<mounted, dir, diskmap, file, lost>>
  BY DEF CreatUnlinked, Enters, IInv, VnodesInv, TypeOK, HandInPlace
<1>3. /\ i \in Ino /\ i \notin freemap /\ Names(i) = {}
      /\ \A w \in Vnode : vn[w] # NULL => vn[w].ino # i
      /\ v \in Vnode /\ vn[v] = NULL
  BY <1>1, <1>2, Fresh DEF Balloc
<1>4. PICK x \in SfsVnode : /\ vn' = [vn EXCEPT ![v] = x] /\ x.ino = i /\ x.ref = 1
                            /\ x.inode.links = 0 /\ x.dirty
  BY <1>1, New
<1>5. /\ \A j \in Ino \ {i} : disk'[j] = disk[j] /\ Names(j)' = Names(j)
      /\ x.inode.links = Cardinality(Names(i)')
  <2>1. \A j \in Ino \ {i} : disk'[j] = disk[j]
    BY <1>1 DEF Balloc, IInv, VnodesInv, TypeOK
  <2>2. \A j \in Ino : Names(j)' = Names(j)
    BY <1>2 DEF Names
  <2> QED
    BY <1>3, <1>4, <2>1, <2>2, FS_EmptySet
<1>6. OneVnode' /\ LinksExact'
  <2>1. /\ mounted = TRUE /\ mounted' = mounted /\ freemap' = freemap \cup {i}
        /\ vn[v] # NULL => vn[v].ino = i
        /\ \A w \in Vnode \ {v} : vn[w] # NULL => vn[w].ino # i
    BY <1>1, <1>2, <1>3
  <2>2. AsOnDisk(x, disk'[i])
    BY <1>4 DEF AsOnDisk
  <2> QED
    BY <1>3, <1>4, <1>5, <2>1, <2>2, Install
<1>7. RefsExact'
  <2>1. x.ref = Counted(v) + 1
    BY <1>3, <1>4 DEF Counted
  <2>2. /\ lost' = lost /\ file' = file /\ hand' = [hand EXCEPT ![t] = v]
        /\ TypeOK /\ RefsExact
    BY <1>1, <1>2 DEF GoDrop, IInv, VnodesInv
  <2> QED
    BY <1>2, <1>3, <1>4, <2>1, <2>2, Gets
<1>8. HandInPlace' /\ CleanupAlone'
  BY <1>1, <1>3, Section DEF CreatUnlinked
<1>9. TypeOK'
  <2>1. disk' \in [Ino -> Inode]
    BY <1>1, BlankIsInode DEF Balloc, IInv, VnodesInv, TypeOK
  <2> QED
    BY <1>1, <1>2, <1>3, <1>4, <2>1 DEF IInv, VnodesInv, TypeOK, GoDrop, Place
<1> QED
  BY <1>6, <1>7, <1>8, <1>9 DEF IInv, VnodesInv

LEMMA CreatNoVnodeInv ==
    ASSUME IInv, NEW t \in Thread, CreatNoVnode(t)
    PROVE  IInv'
<1>1. PICK i \in Ino : Balloc(i)
  BY DEF CreatNoVnode
<1>2. /\ mounted = TRUE
      /\ UNCHANGED <<mounted, dir, diskmap, freemap, vn, file, hand, pc, biglock, lost>>
  BY DEF CreatNoVnode, Enters, IInv, VnodesInv, TypeOK
<1>3. i \in Ino /\ i \notin freemap
  BY <1>1 DEF Balloc, Lowest
<1>4. Names(i) = {} /\ Resident(i) = {}
  BY <1>2, <1>3 DEF IInv, LinksExact, Map
<1>5. \A j \in Ino : disk'[j] = IF j = i THEN Blank ELSE disk[j]
  BY <1>1 DEF Balloc, IInv, VnodesInv, TypeOK
<1>6. \A j \in Ino : Names(j)' = Names(j) /\ Resident(j)' = Resident(j)
  BY <1>2 DEF Names, Resident
<1>7. LinksExact'
  <2>1. \A j \in Ino : j \in Map' <=> Names(j)' # {} \/ Resident(j)' # {}
    BY <1>2, <1>6 DEF IInv, LinksExact, Map
  <2>2. \A j \in Ino : Names(j)' # {} /\ Resident(j)' = {}
          => disk'[j].links = Cardinality(Names(j)')
    BY <1>4, <1>5, <1>6 DEF IInv, LinksExact
  <2>3. ASSUME NEW v \in Vnode, vn'[v] # NULL
        PROVE  Right(v)'
    <3>1. vn'[v] = vn[v] /\ vn[v].ino \in Ino /\ Right(v)
      BY <1>2, <2>3 DEF IInv, VnodesInv, TypeOK, SfsVnode, LinksExact, Right
    <3>2. vn[v].ino # i
      BY <1>4, <2>3, <3>1 DEF Resident
    <3> QED
      BY <1>5, <1>6, <3>1, <3>2 DEF Right
  <2> QED
    BY <2>1, <2>2, <2>3 DEF LinksExact, Right
<1>8. OneVnode' /\ HandInPlace' /\ CleanupAlone'
  BY <1>2 DEF IInv, VnodesInv, OneVnode, HandInPlace, CleanupAlone, Last
<1>9. RefsExact'
  BY <1>2 DEF IInv, VnodesInv, RefsExact, Users, Droppers
<1>10. TypeOK'
  BY <1>1, <1>2, BlankIsInode DEF Balloc, IInv, VnodesInv, TypeOK
<1> QED
  BY <1>7, <1>8, <1>9, <1>10 DEF IInv, VnodesInv

(* What the calls make of a vnode.                                         *)
LEMMA ChangedVnode ==
    ASSUME NEW w \in SfsVnode, NEW links \in Int, NEW size \in 0 .. MaxSize
    PROVE  /\ Changed(w, links, size) \in SfsVnode
           /\ Changed(w, links, size).ino = w.ino
           /\ Changed(w, links, size).ref = w.ref
           /\ Changed(w, links, size).inode.links = links
           /\ Changed(w, links, size).dirty = TRUE
BY DEF Changed, SfsVnode, Inode

LEMMA LinkedVnode ==
    ASSUME NEW w \in SfsVnode
    PROVE  /\ Linked(w) \in SfsVnode /\ Linked(w).ino = w.ino /\ Linked(w).ref = w.ref
           /\ Linked(w).inode.links = w.inode.links + 1 /\ Linked(w).dirty = TRUE
<1>1. w.inode.links + 1 \in Int /\ w.inode.size \in 0 .. MaxSize
  BY DEF SfsVnode, Inode
<1> QED
  BY <1>1, ChangedVnode DEF Linked

LEMMA UnlinkedVnode ==
    ASSUME NEW w \in SfsVnode
    PROVE  /\ Unlinked(w) \in SfsVnode /\ Unlinked(w).ino = w.ino
           /\ Unlinked(w).ref = w.ref /\ Unlinked(w).inode.links = w.inode.links - 1
           /\ Unlinked(w).dirty = TRUE
<1>1. w.inode.links - 1 \in Int /\ w.inode.size \in 0 .. MaxSize
  BY DEF SfsVnode, Inode
<1> QED
  BY <1>1, ChangedVnode DEF Unlinked

(* A call on the file that t has open: its vnode is x afterwards.          *)
LEMMA Use ==
    ASSUME IInv, NEW t \in Thread, Enters(t), NEW v \in Vnode, file[t] = v,
           NEW x \in SfsVnode, NEW i \in Ino, x.ino = i, vn[v].ino = i,
           UNCHANGED <<mounted, disk, diskmap, freemap, file, hand, pc, biglock, lost>>,
           vn' = [vn EXCEPT ![v] = x], x.dirty = TRUE, x.ref = vn[v].ref,
           dir' \in [Name -> Ino \cup {NULL}],
           \A j \in Ino \ {i} : Names(j)' = Names(j),
           x.inode.links = Cardinality(Names(i)')
    PROVE  IInv'
<1>1. vn[v] # NULL /\ vn[v] \in SfsVnode
  BY There, ConstantsAssumption DEF IInv, VnodesInv
<1>2. mounted = TRUE /\ mounted' = mounted
  BY DEF Enters, IInv, VnodesInv, TypeOK
<1>3. \A w \in Vnode \ {v} : vn[w] # NULL => vn[w].ino # i
  BY <1>1 DEF IInv, VnodesInv, OneVnode
<1>4. OneVnode' /\ LinksExact'
  <2>1. freemap' = freemap \cup {i}
    <3>1. i \in Map
      BY <1>1 DEF IInv, LinksExact, Resident
    <3> QED
      BY <1>2, <3>1 DEF Map
  <2>2. \A j \in Ino \ {i} : disk'[j] = disk[j] /\ Names(j)' = Names(j)
    OBVIOUS
  <2>3. AsOnDisk(x, disk'[i])
    BY DEF AsOnDisk
  <2> QED
    BY <1>2, <1>3, <2>1, <2>2, <2>3, Install
<1>5. \A w \in Vnode : vn'[w] = IF w = v THEN x ELSE vn[w]
  BY DEF IInv, VnodesInv, TypeOK
<1>6. x # NULL /\ x.ref = vn[v].ref
  BY <1>1, NullAssumption
<1>7. RefsExact'
  <2>1. \A w \in Vnode : /\ vn'[w] = NULL <=> vn[w] = NULL
                         /\ vn[w] # NULL => vn'[w].ref = vn[w].ref
    BY <1>1, <1>5, <1>6
  <2>2. \A w \in Vnode : Users(w)' = Users(w) /\ Droppers(w)' = Droppers(w)
    BY DEF Users, Droppers
  <2> QED
    BY <2>1, <2>2 DEF IInv, VnodesInv, RefsExact
<1>8. HandInPlace' /\ CleanupAlone'
  BY Section
<1>9. TypeOK'
  BY DEF IInv, VnodesInv, TypeOK
<1> QED
  BY <1>4, <1>7, <1>8, <1>9 DEF IInv, VnodesInv

(* What t has open, and what it says of its inode.                         *)
LEMMA Opens ==
    ASSUME IInv, NEW t \in Thread, file[t] # NULL
    PROVE  /\ file[t] \in Vnode /\ vn[file[t]] \in SfsVnode /\ vn[file[t]].ino \in Ino
           /\ vn[file[t]].inode.links = Cardinality(Names(vn[file[t]].ino))
<1>1. file[t] \in Vnode /\ vn[file[t]] # NULL /\ vn[file[t]] \in SfsVnode
  BY There DEF IInv, VnodesInv
<1> QED
  BY <1>1 DEF SfsVnode, IInv, LinksExact

LEMMA LinkInv ==
    ASSUME IInv, NEW t \in Thread, NEW n \in Name, Link(t, n)
    PROVE  IInv'
<1>1. /\ Enters(t) /\ file[t] # NULL /\ dir[n] = NULL
      /\ dir' = [dir EXCEPT ![n] = vn[file[t]].ino]
      /\ vn' = [vn EXCEPT ![file[t]] = Linked(vn[file[t]])]
      /\ UNCHANGED <<mounted, disk, diskmap, freemap, file, hand, pc, biglock, lost>>
  BY DEF Link
<1>2. PICK v \in Vnode, w \in SfsVnode, i \in Ino :
        v = file[t] /\ w = vn[v] /\ i = w.ino /\ w.inode.links = Cardinality(Names(i))
  BY <1>1, Opens
<1>3. PICK x \in SfsVnode : /\ x = Linked(w) /\ x.ino = w.ino /\ x.ref = w.ref
                            /\ x.dirty = TRUE /\ x.inode.links = w.inode.links + 1
  BY LinkedVnode
<1>4. \A m \in Name : dir'[m] = IF m = n THEN i ELSE dir[m]
  BY <1>1, <1>2 DEF IInv, VnodesInv, TypeOK
<1>5. \A j \in Ino \ {i} : Names(j)' = Names(j)
  BY <1>1, <1>4, ConstantsAssumption DEF Names
<1>6. x.inode.links = Cardinality(Names(i)')
  <2>1. Names(i)' = Names(i) \cup {n} /\ n \notin Names(i)
    BY <1>1, <1>4, ConstantsAssumption DEF Names
  <2>2. IsFiniteSet(Names(i)) /\ Cardinality(Names(i)) \in Nat
    BY Finite
  <2>3. Cardinality(Names(i) \cup {n}) = Cardinality(Names(i)) + 1
    BY <2>1, <2>2, FS_AddElement
  <2>4. Cardinality(Names(i)') = Cardinality(Names(i)) + 1
    BY <2>1, <2>3
  <2> QED
    BY <1>2, <1>3, <2>4
<1>7. dir' \in [Name -> Ino \cup {NULL}]
  BY <1>1, <1>2 DEF IInv, VnodesInv, TypeOK
<1>8. /\ vn' = [vn EXCEPT ![v] = x] /\ x.ref = vn[v].ref /\ x.dirty = TRUE
      /\ x.ino = i /\ vn[v].ino = i
  BY <1>1, <1>2, <1>3
<1>9. Enters(t) /\ file[t] = v
      /\ UNCHANGED <<mounted, disk, diskmap, freemap, file, hand, pc, biglock, lost>>
  BY <1>1, <1>2
<1> QED
  BY <1>5, <1>6, <1>7, <1>8, <1>9, Use

(* sfs_write and sfs_truncate give the inode another size s.               *)
LEMMA ResizeInv ==
    ASSUME IInv, NEW t \in Thread, Enters(t), file[t] # NULL, NEW s \in 0 .. MaxSize,
           vn' = [vn EXCEPT ![file[t]] = Resized(file[t], s)],
           UNCHANGED <<mounted, dir, disk, diskmap, freemap, file, hand, pc, biglock,
                       lost>>
    PROVE  IInv'
<1>1. PICK v \in Vnode, w \in SfsVnode, i \in Ino :
        v = file[t] /\ w = vn[v] /\ i = w.ino /\ w.inode.links = Cardinality(Names(i))
  BY Opens
<1>2. PICK x \in SfsVnode :
        /\ x = Changed(w, w.inode.links, s) /\ x.ino = w.ino
        /\ x.ref = w.ref /\ x.dirty = TRUE /\ x.inode.links = w.inode.links
  <2>1. w.inode.links \in Int
    BY DEF SfsVnode, Inode
  <2> QED
    BY <2>1, ChangedVnode
<1>3. /\ vn' = [vn EXCEPT ![v] = x] /\ x.ref = vn[v].ref /\ x.dirty = TRUE
      /\ x.ino = i /\ vn[v].ino = i
  BY <1>1, <1>2 DEF Resized
<1>4. \A j \in Ino : Names(j)' = Names(j)
  BY DEF Names
<1>5. x.inode.links = Cardinality(Names(i)')
  BY <1>1, <1>2, <1>4
<1>6. dir' \in [Name -> Ino \cup {NULL}]
  BY DEF IInv, VnodesInv, TypeOK
<1>7. /\ \A j \in Ino \ {i} : Names(j)' = Names(j)
      /\ x.inode.links = Cardinality(Names(i)') /\ file[t] = v
      /\ UNCHANGED <<mounted, disk, diskmap, freemap, file, hand, pc, biglock, lost>>
  BY <1>1, <1>4, <1>5
<1> QED
  BY <1>3, <1>6, <1>7, Use

LEMMA WriteInv ==
    ASSUME IInv, NEW t \in Thread, Write(t) \/ Truncate(t)
    PROVE  IInv'
<1>1. 0 \in 0 .. MaxSize
  BY ConstantsAssumption
<1> QED
  BY <1>1, ResizeInv DEF Write, Truncate

(* A call that finds the vnode of a name and ends with a VOP_DECREF: it    *)
(* becomes x, and the entries of the inode change as its link count does.  *)
LEMMA TakeAndDrop ==
    ASSUME IInv, NEW t \in Thread, Enters(t), NEW i \in Ino, i \in freemap,
           NEW v \in Vnode, GoDrop(t, v),
           NEW x \in SfsVnode, x.ino = i, x.ref = Counted(v) + 1,
           vn' = [vn EXCEPT ![v] = x],
           UNCHANGED <<mounted, disk, diskmap, freemap, file, lost>>,
           dir' \in [Name -> Ino \cup {NULL}],
           vn[v] # NULL => vn[v].ino = i,
           \A w \in Vnode \ {v} : vn[w] # NULL => vn[w].ino # i,
           \A j \in Ino \ {i} : Names(j)' = Names(j),
           x.inode.links = Cardinality(Names(i)'),
           AsOnDisk(x, disk[i])
    PROVE  IInv'
<1>1. mounted = TRUE /\ mounted' = mounted /\ hand[t] = NULL
  BY DEF Enters, IInv, VnodesInv, TypeOK, HandInPlace
<1>2. OneVnode' /\ LinksExact'
  <2>1. freemap' = freemap \cup {i}
    OBVIOUS
  <2>2. \A j \in Ino \ {i} : disk'[j] = disk[j] /\ Names(j)' = Names(j)
    OBVIOUS
  <2>3. AsOnDisk(x, disk'[i])
    BY DEF AsOnDisk
  <2> QED
    BY <1>1, <2>1, <2>2, <2>3, Install
<1>3. RefsExact'
  <2>1. hand' = [hand EXCEPT ![t] = v] /\ file' = file /\ lost' = lost
    BY DEF GoDrop
  <2> QED
    BY <1>1, <2>1, Gets DEF IInv, VnodesInv
<1>4. HandInPlace' /\ CleanupAlone'
  BY Section
<1>5. TypeOK'
  BY DEF GoDrop, Place, IInv, VnodesInv, TypeOK
<1> QED
  BY <1>2, <1>3, <1>4, <1>5 DEF IInv, VnodesInv

LEMMA RemoveInv ==
    ASSUME IInv, NEW t \in Thread, NEW n \in Name, Remove(t, n)
    PROVE  IInv'
<1>1. PICK v \in Found(dir[n]) :
        /\ GoDrop(t, v)
        /\ \/ /\ dir' = [dir EXCEPT ![n] = NULL]
              /\ vn' = [vn EXCEPT ![v] = Unlinked(Loaded(dir[n], v))]
           \/ /\ UNCHANGED dir
              /\ vn' = [vn EXCEPT ![v] = Loaded(dir[n], v)]
  BY DEF Remove
<1>2. /\ Enters(t) /\ dir[n] # NULL
      /\ UNCHANGED <<mounted, disk, diskmap, freemap, file, lost>>
  BY DEF Remove
<1>3. PICK i \in Ino, w \in SfsVnode :
        /\ i = dir[n] /\ w = Loaded(dir[n], v) /\ v \in Vnode /\ i \in freemap
        /\ w.ino = i /\ w.ref = Counted(v) + 1
        /\ w.inode.links = Cardinality(Names(i))
        /\ AsOnDisk(w, disk[i])
        /\ vn[v] # NULL => vn[v].ino = i
        /\ \A u \in Vnode \ {v} : vn[u] # NULL => vn[u].ino # i
  <2>1. mounted = TRUE
    BY <1>2 DEF Enters, IInv, VnodesInv, TypeOK
  <2> QED
    BY <1>1, <1>2, <2>1, Loads
<1>4. CASE dir' = dir /\ vn' = [vn EXCEPT ![v] = w]
  <2>1. \A j \in Ino : Names(j)' = Names(j)
    BY <1>4 DEF Names
  <2>2. w.inode.links = Cardinality(Names(i)')
    BY <1>3, <2>1
  <2>3. dir' \in [Name -> Ino \cup {NULL}]
    BY <1>4 DEF IInv, VnodesInv, TypeOK
  <2>4. GoDrop(t, v) /\ vn' = [vn EXCEPT ![v] = w] /\ AsOnDisk(w, disk[i])
    BY <1>1, <1>3, <1>4
  <2>5. /\ v \in Vnode /\ i \in freemap /\ w.ino = i /\ w.ref = Counted(v) + 1
        /\ vn[v] # NULL => vn[v].ino = i
        /\ \A u \in Vnode \ {v} : vn[u] # NULL => vn[u].ino # i
        /\ \A j \in Ino \ {i} : Names(j)' = Names(j)
    BY <1>3, <2>1
  <2> QED
    BY <1>2, <2>2, <2>3, <2>4, <2>5, TakeAndDrop
<1>5. CASE dir' = [dir EXCEPT ![n] = NULL] /\ vn' = [vn EXCEPT ![v] = Unlinked(w)]
  <2>1. PICK x \in SfsVnode :
          /\ x = Unlinked(w) /\ x.ino = i /\ x.ref = w.ref /\ x.dirty = TRUE
          /\ x.inode.links = w.inode.links - 1
    <3>1. w.ino = i
      BY <1>3
    <3> QED
      BY <3>1, UnlinkedVnode
  <2>2. \A m \in Name : dir'[m] = IF m = n THEN NULL ELSE dir[m]
    BY <1>5 DEF IInv, VnodesInv, TypeOK
  <2>3. \A j \in Ino \ {i} : Names(j)' = Names(j)
    BY <1>3, <2>2, ConstantsAssumption DEF Names
  <2>4. x.inode.links = Cardinality(Names(i)')
    <3>1. Names(i)' = Names(i) \ {n} /\ n \in Names(i)
      BY <1>3, <2>2, ConstantsAssumption DEF Names
    <3>2. IsFiniteSet(Names(i)) /\ Cardinality(Names(i)) \in Nat
      BY Finite
    <3>3. Cardinality(Names(i) \ {n}) = Cardinality(Names(i)) - 1
      BY <3>1, <3>2, FS_RemoveElement
    <3>4. Cardinality(Names(i)') = Cardinality(Names(i)) - 1
      BY <3>1, <3>3
    <3> QED
      BY <1>3, <2>1, <3>4
  <2>5. dir' \in [Name -> Ino \cup {NULL}]
    BY <1>5 DEF IInv, VnodesInv, TypeOK
  <2>6. x.ref = Counted(v) + 1 /\ x.dirty = TRUE
        /\ vn' = [vn EXCEPT ![v] = x] /\ AsOnDisk(x, disk[i])
    BY <1>3, <1>5, <2>1 DEF AsOnDisk
  <2>7. GoDrop(t, v)
    BY <1>1
  <2> QED
    BY <1>2, <1>3, <2>1, <2>3, <2>4, <2>5, <2>6, <2>7, TakeAndDrop
<1> QED
  BY <1>1, <1>3, <1>4, <1>5

LEMMA RenameInv ==
    ASSUME IInv, NEW t \in Thread, NEW old \in Name, NEW new \in Name,
           Rename(t, old, new)
    PROVE  IInv'
<1>1. PICK v \in Found(dir[old]) :
        /\ GoDrop(t, v)
        /\ \/ /\ dir[new] = NULL
              /\ \/ dir' = [dir EXCEPT ![old] = NULL, ![new] = dir[old]]
                 \/ UNCHANGED dir
              /\ vn' = [vn EXCEPT ![v] = Unlinked(Linked(Loaded(dir[old], v)))]
           \/ /\ UNCHANGED dir
              /\ vn' = [vn EXCEPT ![v] = Loaded(dir[old], v)]
  BY DEF Rename
<1>2. /\ Enters(t) /\ dir[old] # NULL
      /\ UNCHANGED <<mounted, disk, diskmap, freemap, file, lost>>
  BY DEF Rename
<1>3. PICK i \in Ino, w \in SfsVnode :
        /\ i = dir[old] /\ w = Loaded(dir[old], v) /\ v \in Vnode /\ i \in freemap
        /\ w.ino = i /\ w.ref = Counted(v) + 1
        /\ w.inode.links = Cardinality(Names(i))
        /\ AsOnDisk(w, disk[i])
        /\ vn[v] # NULL => vn[v].ino = i
        /\ \A u \in Vnode \ {v} : vn[u] # NULL => vn[u].ino # i
  <2>1. mounted = TRUE
    BY <1>2 DEF Enters, IInv, VnodesInv, TypeOK
  <2> QED
    BY <1>1, <1>2, <2>1, Loads
<1>4. PICK x \in SfsVnode :
        /\ x.ino = i /\ x.ref = Counted(v) + 1 /\ x.inode.links = w.inode.links
        /\ AsOnDisk(x, disk[i])
        /\ vn' = [vn EXCEPT ![v] = x]
  <2>1. CASE vn' = [vn EXCEPT ![v] = w]
    BY <1>3, <2>1
  <2>2. CASE vn' = [vn EXCEPT ![v] = Unlinked(Linked(w))]
    <3>1. PICK y \in SfsVnode :
            /\ y = Linked(w) /\ y.ino = w.ino /\ y.ref = w.ref
            /\ y.inode.links = w.inode.links + 1
      BY LinkedVnode
    <3>2. PICK x \in SfsVnode :
            /\ x = Unlinked(y) /\ x.ino = y.ino /\ x.ref = y.ref /\ x.dirty = TRUE
            /\ x.inode.links = y.inode.links - 1
      BY UnlinkedVnode
    <3>3. vn' = [vn EXCEPT ![v] = x] /\ x.inode.links = w.inode.links
      <4>1. w.inode.links \in Int
        BY DEF SfsVnode, Inode
      <4> QED
        BY <2>2, <3>1, <3>2, <4>1
    <3> QED
      BY <1>3, <3>1, <3>2, <3>3 DEF AsOnDisk
  <2> QED
    BY <1>1, <1>3, <2>1, <2>2
<1>5. /\ dir' \in [Name -> Ino \cup {NULL}]
      /\ \A j \in Ino \ {i} : Names(j)' = Names(j)
      /\ Cardinality(Names(i)') = Cardinality(Names(i))
  <2>1. CASE dir' = dir
    BY <2>1 DEF Names, IInv, VnodesInv, TypeOK
  <2>2. CASE dir[new] = NULL /\ dir' = [dir EXCEPT ![old] = NULL, ![new] = dir[old]]
    <3>1. old # new
      BY <1>2, <2>2
    <3>2. \A m \in Name : dir'[m] = IF m = new THEN i
                                    ELSE IF m = old THEN NULL ELSE dir[m]
      BY <1>3, <2>2, <3>1 DEF IInv, VnodesInv, TypeOK
    <3>3. /\ Names(i)' = (Names(i) \ {old}) \cup {new}
          /\ old \in Names(i) /\ new \notin Names(i)
      BY <1>3, <2>2, <3>1, <3>2, ConstantsAssumption DEF Names
    <3>4. IsFiniteSet(Names(i)) /\ Cardinality(Names(i)) \in Nat
      BY Finite
    <3>5. /\ IsFiniteSet(Names(i) \ {old})
          /\ Cardinality(Names(i) \ {old}) = Cardinality(Names(i)) - 1
      BY <3>3, <3>4, FS_RemoveElement
    <3>6. Cardinality((Names(i) \ {old}) \cup {new}) = Cardinality(Names(i) \ {old}) + 1
      BY <3>3, <3>5, FS_AddElement
    <3>7. Cardinality(Names(i)') = Cardinality(Names(i))
      BY <3>3, <3>4, <3>5, <3>6
    <3>8. \A j \in Ino \ {i} : Names(j)' = Names(j)
      <4>1. \A j \in Ino \ {i} : \A m \in Name : dir'[m] = j <=> dir[m] = j
        BY <1>3, <2>2, <3>2, ConstantsAssumption
      <4> QED
        BY <4>1 DEF Names
    <3>9. dir' \in [Name -> Ino \cup {NULL}]
      BY <1>3, <2>2 DEF IInv, VnodesInv, TypeOK
    <3> QED
      BY <3>7, <3>8, <3>9
  <2> QED
    BY <1>1, <2>1, <2>2
<1>6. GoDrop(t, v) /\ x.inode.links = Cardinality(Names(i)')
  BY <1>1, <1>3, <1>4, <1>5
<1>7. /\ v \in Vnode /\ i \in freemap /\ x.ino = i /\ x.ref = Counted(v) + 1
      /\ AsOnDisk(x, disk[i]) /\ vn' = [vn EXCEPT ![v] = x]
      /\ vn[v] # NULL => vn[v].ino = i
      /\ \A u \in Vnode \ {v} : vn[u] # NULL => vn[u].ino # i
  BY <1>3, <1>4
<1>8. /\ dir' \in [Name -> Ino \cup {NULL}]
      /\ \A j \in Ino \ {i} : Names(j)' = Names(j)
  BY <1>5
<1> QED
  BY <1>2, <1>6, <1>7, <1>8, TakeAndDrop

-----------------------------------------------------------------------------
(* A reference that is not the last is given up, open or in hand.          *)
LEMMA Lower ==
    ASSUME IInv, NEW t \in Thread, NEW v \in Vnode, vn' = Lowered(v),
           UNCHANGED <<mounted, dir, disk, diskmap, freemap, lost>>,
           \/ file[t] = v /\ file' = [file EXCEPT ![t] = NULL] /\ hand' = hand
           \/ hand[t] = v /\ hand' = [hand EXCEPT ![t] = NULL] /\ file' = file
    PROVE  /\ OneVnode' /\ LinksExact' /\ RefsExact'
           /\ vn' \in [Vnode -> SfsVnode \cup {NULL}]
           /\ \A w \in Vnode \ {v} : vn'[w] = vn[w]
<1>1. TypeOK /\ RefsExact
  BY DEF IInv, VnodesInv
<1>2. vn[v] # NULL /\ vn[v] \in SfsVnode /\ vn[v].ref \in Nat \ {0}
  BY <1>1, There, ConstantsAssumption
<1>3. PICK x \in SfsVnode :
        /\ vn' = [vn EXCEPT ![v] = x]
        /\ x.ino = vn[v].ino /\ x.inode = vn[v].inode /\ x.dirty = vn[v].dirty
  BY <1>1, <1>2, LoweredVnode
<1>4. OneVnode' /\ LinksExact'
  <2>1. \A w \in Vnode : vn'[w] = IF w = v THEN x ELSE vn[w]
    BY <1>1, <1>3 DEF TypeOK
  <2>2. x # NULL
    BY NullAssumption
  <2> QED
    BY <1>2, <1>3, <2>1, <2>2, SameLinks
<1>5. RefsExact'
  BY <1>1, <1>2, Drops
<1>6. /\ vn' \in [Vnode -> SfsVnode \cup {NULL}]
      /\ \A w \in Vnode \ {v} : vn'[w] = vn[w]
  BY <1>1, <1>3 DEF TypeOK
<1> QED
  BY <1>4, <1>5, <1>6

(* A thread that returns from sfs_reclaim or its section leaves vfs_biglock *)
(* to nobody, and nobody in a place where it is held.                      *)
LEMMA Returns ==
    ASSUME TypeOK, HandInPlace, NEW t \in Thread, biglock \in {NULL, t}, Return(t)
    PROVE  /\ HandInPlace' /\ CleanupAlone'
           /\ hand' \in [Thread -> Vnode \cup {NULL}] /\ pc' \in [Thread -> Place]
           /\ biglock' \in Thread \cup {NULL}
<1>1. \A u \in Thread \ {t} : pc[u] \notin {"drop", "erase"}
  BY ConstantsAssumption DEF HandInPlace
<1>2. \A u \in Thread : /\ pc'[u] = IF u = t THEN "out" ELSE pc[u]
                        /\ hand'[u] = IF u = t THEN NULL ELSE hand[u]
  BY DEF Return, TypeOK
<1>3. HandInPlace' /\ CleanupAlone'
  BY <1>1, <1>2 DEF HandInPlace, CleanupAlone
<1>4. /\ hand' \in [Thread -> Vnode \cup {NULL}] /\ pc' \in [Thread -> Place]
      /\ biglock' \in Thread \cup {NULL}
  BY DEF Return, TypeOK, Place
<1> QED
  BY <1>3, <1>4

LEMMA CloseInv ==
    ASSUME IInv, NEW t \in Thread, Close(t)
    PROVE  IInv'
<1>1. PICK v \in Vnode : v = file[t]
  BY DEF Close, IInv, VnodesInv, TypeOK
<1>2. /\ pc[t] = "out" /\ ~Last(v) /\ vn' = Lowered(v) /\ file[t] = v
      /\ file' = [file EXCEPT ![t] = NULL] /\ hand' = hand
      /\ UNCHANGED <<mounted, dir, disk, diskmap, freemap, lost>>
      /\ UNCHANGED <<pc, biglock>>
  BY <1>1 DEF Close
<1>3. /\ OneVnode' /\ LinksExact' /\ RefsExact'
      /\ vn' \in [Vnode -> SfsVnode \cup {NULL}]
      /\ \A w \in Vnode \ {v} : vn'[w] = vn[w]
  BY <1>2, Lower
<1>4. HandInPlace'
  BY <1>2 DEF IInv, VnodesInv, HandInPlace
<1>5. CleanupAlone'
  <2>1. ASSUME NEW u \in Thread, pc'[u] = "erase"
        PROVE  Last(hand[u])'
    <3>1. Last(hand[u]) /\ hand[u] \in Vnode
      BY <1>2, <2>1 DEF IInv, VnodesInv, TypeOK, HandInPlace, CleanupAlone
    <3>2. hand[u] # v
      BY <1>2, <3>1
    <3> QED
      BY <1>2, <1>3, <3>1, <3>2 DEF Last
  <2> QED
    BY <2>1 DEF CleanupAlone
<1>6. TypeOK'
  BY <1>2, <1>3 DEF IInv, VnodesInv, TypeOK
<1> QED
  BY <1>3, <1>4, <1>5, <1>6 DEF IInv, VnodesInv

(* A thread that is not out has a vnode in hand.                           *)
LEMMA InHand ==
    ASSUME IInv, NEW t \in Thread, pc[t] # "out"
    PROVE  /\ hand[t] \in Vnode /\ vn[hand[t]] # NULL /\ vn[hand[t]] \in SfsVnode
           /\ vn[hand[t]].ino \in Ino /\ vn[hand[t]].ref \in Nat \ {0}
<1>1. hand[t] # NULL
  BY DEF IInv, VnodesInv, HandInPlace
<1>2. /\ hand[t] \in Vnode /\ vn[hand[t]] # NULL /\ vn[hand[t]] \in SfsVnode
      /\ vn[hand[t]].ref \in Nat \ {0}
  BY <1>1, There DEF IInv, VnodesInv
<1> QED
  BY <1>2 DEF SfsVnode

(* Drop, and the sfs_reclaim that finds the vnode in use.                  *)
LEMMA DropInv ==
    ASSUME IInv, NEW t \in Thread, Drop(t) \/ ReclaimBusy(t)
    PROVE  IInv'
<1>1. PICK v \in Vnode : v = hand[t]
  BY InHand DEF Drop, ReclaimBusy
<1>2. /\ vn' = Lowered(v) /\ hand[t] = v
      /\ UNCHANGED <<mounted, dir, disk, diskmap, freemap, lost>>
      /\ file' = file /\ Return(t)
  BY <1>1 DEF Drop, ReclaimBusy, Consumed
<1>3. hand' = [hand EXCEPT ![t] = NULL]
  BY <1>2 DEF Return
<1>4. biglock \in {NULL, t}
  BY DEF Drop, ReclaimBusy, IInv, VnodesInv, HandInPlace
<1>5. /\ OneVnode' /\ LinksExact' /\ RefsExact'
      /\ vn' \in [Vnode -> SfsVnode \cup {NULL}]
  BY <1>2, <1>3, Lower
<1>6. /\ HandInPlace' /\ CleanupAlone'
      /\ hand' \in [Thread -> Vnode \cup {NULL}] /\ pc' \in [Thread -> Place]
      /\ biglock' \in Thread \cup {NULL}
  BY <1>2, <1>4, Returns DEF IInv, VnodesInv
<1>7. TypeOK'
  BY <1>2, <1>5, <1>6 DEF IInv, VnodesInv, TypeOK
<1> QED
  BY <1>5, <1>6, <1>7 DEF IInv, VnodesInv

(* A step that changes no vnode, no inode and no name.                     *)
LEMMA Untouched ==
    ASSUME IInv, UNCHANGED <<mounted, dir, disk, diskmap, freemap, vn>>
    PROVE  OneVnode' /\ LinksExact'
BY SameLinks

LEMMA CloseLastInv ==
    ASSUME IInv, NEW t \in Thread, CloseLast(t)
    PROVE  IInv'
<1>1. /\ pc[t] = "out" /\ file[t] # NULL /\ hand' = [hand EXCEPT ![t] = file[t]]
      /\ file' = [file EXCEPT ![t] = NULL] /\ pc' = [pc EXCEPT ![t] = "reclaim"]
      /\ UNCHANGED <<mounted, dir, disk, diskmap, freemap, vn>>
      /\ UNCHANGED <<biglock, lost>>
  BY DEF CloseLast
<1>2. \A u \in Thread : /\ pc'[u] = IF u = t THEN "reclaim" ELSE pc[u]
                        /\ hand'[u] = IF u = t THEN file[t] ELSE hand[u]
                        /\ file'[u] = IF u = t THEN NULL ELSE file[u]
  BY <1>1 DEF IInv, VnodesInv, TypeOK
<1>3. OneVnode' /\ LinksExact'
  BY <1>1, Untouched
<1>4. RefsExact'
  <2>1. \A v \in Vnode : Mine(t, v)' = Mine(t, v)
    <3>1. hand[t] = NULL
      BY <1>1 DEF IInv, VnodesInv, HandInPlace
    <3> QED
      BY <1>1, <1>2, <3>1, ConstantsAssumption DEF Mine, One, Lost
  <2>2. \A v \in Vnode : Counted(v)' = Counted(v) /\ Counted(v) \in Int
    BY <1>1 DEF Counted, IInv, VnodesInv, TypeOK, SfsVnode
  <2>3. \A v \in Vnode : Mine(t, v) \in Int
    BY DEF Mine, One, Lost
  <2>4. \A v \in Vnode : Counted(v)' = Counted(v) + Mine(t, v)' - Mine(t, v)
    BY <2>1, <2>2, <2>3
  <2>5. \A u \in Thread \ {t} : file'[u] = file[u] /\ hand'[u] = hand[u]
    BY <1>2
  <2> QED
    BY <2>4, <2>5, RefsStep DEF IInv, VnodesInv
<1>5. HandInPlace' /\ CleanupAlone'
  BY <1>1, <1>2 DEF IInv, VnodesInv, HandInPlace, CleanupAlone, Last
<1>6. TypeOK'
  BY <1>1 DEF IInv, VnodesInv, TypeOK, Place
<1> QED
  BY <1>3, <1>4, <1>5, <1>6 DEF IInv, VnodesInv

(* Whether it is the last is decided, here and in sfs_reclaim.             *)
LEMMA DecideInv ==
    ASSUME IInv, NEW t \in Thread, DropLast(t) \/ Reclaim(t)
    PROVE  IInv'
<1>1. /\ UNCHANGED <<mounted, dir, disk, diskmap, freemap, vn>>
      /\ UNCHANGED <<file, hand, lost>>
  BY DEF DropLast, Reclaim
<1>2. OneVnode' /\ LinksExact'
  BY <1>1, Untouched
<1>3. RefsExact'
  BY <1>1 DEF IInv, VnodesInv, RefsExact, Users, Droppers
<1>4. CASE DropLast(t)
  <2>1. \A u \in Thread : pc'[u] = IF u = t THEN "reclaim" ELSE pc[u]
    BY <1>4 DEF DropLast, IInv, VnodesInv, TypeOK
  <2>2. pc[t] = "drop" /\ biglock' = biglock
    BY <1>4 DEF DropLast
  <2>3. HandInPlace' /\ CleanupAlone'
    BY <1>1, <2>1, <2>2 DEF IInv, VnodesInv, HandInPlace, CleanupAlone, Last
  <2>4. TypeOK'
    BY <1>1, <1>4 DEF DropLast, IInv, VnodesInv, TypeOK, Place
  <2> QED
    BY <1>2, <1>3, <2>3, <2>4 DEF IInv, VnodesInv
<1>5. CASE Reclaim(t)
  <2>1. \A u \in Thread : pc'[u] = IF u = t THEN "erase" ELSE pc[u]
    BY <1>5 DEF Reclaim, IInv, VnodesInv, TypeOK
  <2>2. pc[t] = "reclaim" /\ Last(hand[t]) /\ biglock \in {NULL, t} /\ biglock' = t
    BY <1>5 DEF Reclaim, MayErase
  <2>3. \A u \in Thread \ {t} : pc[u] \notin {"drop", "erase"}
    BY <2>2, ConstantsAssumption DEF IInv, VnodesInv, HandInPlace
  <2>4. HandInPlace' /\ CleanupAlone'
    BY <1>1, <2>1, <2>2, <2>3
      DEF IInv, VnodesInv, HandInPlace, CleanupAlone, Last
  <2>5. TypeOK'
    BY <1>1, <1>5 DEF Reclaim, IInv, VnodesInv, TypeOK, Place
  <2> QED
    BY <1>2, <1>3, <2>4, <2>5 DEF IInv, VnodesInv
<1> QED
  BY <1>4, <1>5

(* The thread in sfs_reclaim has the only reference: nobody has the vnode  *)
(* open or in hand, and it is not lost.                                    *)
LEMMA OnlyMine ==
    ASSUME IInv, NEW t \in Thread, pc[t] = "erase"
    PROVE  /\ Users(hand[t]) = {} /\ Droppers(hand[t]) = {t}
           /\ hand[t] \notin lost
<1>1. PICK v \in Vnode : v = hand[t] /\ vn[v] # NULL
  BY InHand
<1>2. vn[v].ref = 1
  BY <1>1 DEF IInv, VnodesInv, CleanupAlone, Last
<1>3. 1 = Cardinality(Users(v)) + Cardinality(Droppers(v)) + Cardinality(lost \cap {v})
  BY <1>1, <1>2 DEF IInv, VnodesInv, RefsExact
<1>4. t \in Droppers(v)
  BY <1>1 DEF Droppers
<1>5. /\ IsFiniteSet(Users(v)) /\ IsFiniteSet(Droppers(v))
      /\ Cardinality(Users(v)) \in Nat /\ Cardinality(Droppers(v)) \in Nat
  BY Finite
<1>6. Cardinality(Droppers(v) \ {t}) = Cardinality(Droppers(v)) - 1
      /\ IsFiniteSet(Droppers(v) \ {t}) /\ Cardinality(Droppers(v) \ {t}) \in Nat
  BY <1>4, <1>5, FS_RemoveElement, FS_CardinalityType
<1>7. v \notin lost /\ Cardinality(Users(v)) = 0 /\ Cardinality(Droppers(v) \ {t}) = 0
  BY <1>3, <1>5, <1>6, OneOf
<1>8. Users(v) = {} /\ Droppers(v) \ {t} = {}
  BY <1>5, <1>6, <1>7, FS_EmptySet
<1> QED
  BY <1>1, <1>4, <1>7, <1>8

LEMMA EraseInv ==
    ASSUME IInv, NEW t \in Thread, Erase(t)
    PROVE  IInv'
<1>1. PICK v \in Vnode, w \in SfsVnode, i \in Ino :
        v = hand[t] /\ w = vn[v] /\ i = w.ino /\ vn[v] # NULL
  BY InHand DEF Erase
<1>2. /\ pc[t] = "erase"
      /\ disk' = [disk EXCEPT ![i] = WrittenBack(v)]
      /\ freemap' = freemap \ Freed(v)
      /\ vn' = [vn EXCEPT ![v] = NULL]
      /\ Return(t)
      /\ UNCHANGED <<mounted, dir, diskmap, file, lost>>
  BY <1>1 DEF Erase
<1>3. mounted = TRUE /\ mounted' = TRUE
  BY <1>1, <1>2 DEF IInv, VnodesInv, TypeOK, OneVnode
<1>4. \A u \in Vnode : vn'[u] = IF u = v THEN NULL ELSE vn[u]
  BY <1>2 DEF IInv, VnodesInv, TypeOK
<1>5. OneVnode'
  BY <1>3, <1>4 DEF IInv, VnodesInv, OneVnode
<1>6. LinksExact'
  <2>1. \A j \in Ino : /\ Names(j)' = Names(j)
                       /\ Resident(j)' = IF j = i THEN {} ELSE Resident(j)
    BY <1>1, <1>2, <1>4 DEF Names, Resident, IInv, VnodesInv, OneVnode
  <2>2. w.inode.links = Cardinality(Names(i)) /\ w.inode \in Inode
        /\ (~w.dirty => disk[i] = w.inode)
    BY <1>1 DEF IInv, LinksExact, SfsVnode
  <2>3. IF w.inode.links = 0 THEN Names(i) = {} ELSE Names(i) # {}
    BY <2>2, Finite, FS_EmptySet
  <2>4. i \in freemap
    BY <1>1, <1>3 DEF IInv, LinksExact, Map, Resident
  <2>5. \A j \in Ino : j \in freemap' <=> j \in freemap /\ ~(j = i /\ w.inode.links = 0)
    BY <1>1, <1>2 DEF Freed, Unused
  <2>6. \A j \in Ino : j \in freemap <=> Names(j) # {} \/ Resident(j) # {}
    BY <1>3 DEF IInv, LinksExact, Map
  <2>7. \A j \in Ino : j \in Map' <=> Names(j)' # {} \/ Resident(j)' # {}
    BY <1>3, <2>1, <2>3, <2>4, <2>5, <2>6 DEF Map
  <2>8. \A j \in Ino : disk'[j] = IF j = i THEN WrittenBack(v) ELSE disk[j]
    BY <1>2 DEF IInv, VnodesInv, TypeOK
  <2>9. Names(i) # {} => WrittenBack(v).links = Cardinality(Names(i))
    BY <1>1, <2>2, <2>3 DEF WrittenBack, Unused
  <2>10. \A j \in Ino : Names(j)' # {} /\ Resident(j)' = {}
           => disk'[j].links = Cardinality(Names(j)')
    BY <2>1, <2>8, <2>9 DEF IInv, LinksExact
  <2>11. ASSUME NEW u \in Vnode, vn'[u] # NULL
         PROVE  Right(u)'
    <3>1. u # v /\ vn'[u] = vn[u] /\ vn[u].ino \in Ino /\ Right(u)
      BY <1>4, <2>11 DEF IInv, VnodesInv, TypeOK, SfsVnode, LinksExact, Right
    <3>2. vn[u].ino # i
      BY <1>1, <1>4, <2>11, <3>1 DEF IInv, VnodesInv, OneVnode
    <3> QED
      BY <2>1, <2>8, <3>1, <3>2 DEF Right
  <2> QED
    BY <2>7, <2>10, <2>11 DEF LinksExact, Right
<1>7. RefsExact'
  <2>1. Users(v) = {} /\ Droppers(v) = {t} /\ v \notin lost
    BY <1>1, <1>2, OnlyMine
  <2>2. \A u \in Thread : hand'[u] = IF u = t THEN NULL ELSE hand[u]
    BY <1>2 DEF Return, IInv, VnodesInv, TypeOK
  <2>3. Users(v)' = {} /\ Droppers(v)' = {} /\ v \notin lost'
    BY <1>2, <2>1, <2>2, ConstantsAssumption DEF Users, Droppers
  <2>4. \A u \in Vnode \ {v} : Users(u)' = Users(u) /\ Droppers(u)' = Droppers(u)
    BY <1>1, <1>2, <2>2, ConstantsAssumption DEF Users, Droppers
  <2> QED
    BY <1>2, <1>4, <2>3, <2>4 DEF IInv, VnodesInv, RefsExact
<1>8. /\ HandInPlace' /\ CleanupAlone'
      /\ hand' \in [Thread -> Vnode \cup {NULL}] /\ pc' \in [Thread -> Place]
      /\ biglock' \in Thread \cup {NULL}
  <2>1. biglock = t
    BY <1>2 DEF IInv, VnodesInv, HandInPlace
  <2> QED
    BY <1>2, <2>1, Returns DEF IInv, VnodesInv
<1>9. TypeOK'
  <2>1. WrittenBack(v) \in Inode
    <3>1. w.inode \in Inode /\ disk[i] \in Inode
      BY <1>1 DEF SfsVnode, IInv, VnodesInv, TypeOK
    <3> QED
      BY <1>1, <3>1, BlankIsInode DEF WrittenBack
  <2> QED
    BY <1>2, <1>3, <1>8, <2>1 DEF IInv, VnodesInv, TypeOK
<1> QED
  BY <1>5, <1>6, <1>7, <1>8, <1>9 DEF IInv, VnodesInv

LEMMA EraseFailsInv ==
    ASSUME IInv, NEW t \in Thread, EraseFails(t)
    PROVE  IInv'
<1>1. PICK v \in Vnode, w \in SfsVnode : v = hand[t] /\ w = vn[v] /\ vn[v] # NULL
  BY InHand DEF EraseFails
<1>2. /\ pc[t] = "erase"
      /\ vn' = vn \/ \E size \in {0, w.inode.size} : vn' = [vn EXCEPT ![v] = Resized(v, size)]
      /\ lost' = lost \cup {v}
      /\ Return(t)
      /\ UNCHANGED <<mounted, dir, disk, diskmap, freemap, file>>
  BY <1>1 DEF EraseFails
<1>3. PICK x \in SfsVnode :
        /\ \A u \in Vnode : vn'[u] = IF u = v THEN x ELSE vn[u]
        /\ x.ino = w.ino /\ x.ref = w.ref /\ x.inode.links = w.inode.links
        /\ x = w \/ x.dirty = TRUE
  <2>1. CASE vn' = vn
    BY <1>1, <2>1
  <2>2. ASSUME NEW size \in {0, w.inode.size}, vn' = [vn EXCEPT ![v] = Resized(v, size)]
        PROVE  \E y \in SfsVnode :
                  /\ \A u \in Vnode : vn'[u] = IF u = v THEN y ELSE vn[u]
                  /\ y.ino = w.ino /\ y.ref = w.ref /\ y.inode.links = w.inode.links
                  /\ y.dirty = TRUE
    <3>1. w.inode.links \in Int /\ size \in 0 .. MaxSize
      BY ConstantsAssumption DEF SfsVnode, Inode
    <3>2. Resized(v, size) = Changed(w, w.inode.links, size)
      BY <1>1 DEF Resized
    <3>3. PICK y \in SfsVnode :
            /\ y = Resized(v, size) /\ y.ino = w.ino /\ y.ref = w.ref
            /\ y.inode.links = w.inode.links /\ y.dirty = TRUE
      <4>1. PICK y \in SfsVnode :
              /\ y = Changed(w, w.inode.links, size) /\ y.ino = w.ino /\ y.ref = w.ref
              /\ y.inode.links = w.inode.links /\ y.dirty = TRUE
        BY <3>1, ChangedVnode
      <4> QED
        BY <3>2, <4>1
    <3>4. \A u \in Vnode : vn'[u] = IF u = v THEN y ELSE vn[u]
      BY <2>2, <3>3 DEF IInv, VnodesInv, TypeOK
    <3> QED
      BY <3>3, <3>4
  <2> QED
    BY <1>2, <2>1, <2>2
<1>4. x # NULL
  BY NullAssumption
<1>5. OneVnode' /\ LinksExact'
  BY <1>1, <1>2, <1>3, <1>4, SameLinks
<1>6. RefsExact'
  <2>1. \A u \in Thread : hand'[u] = IF u = t THEN NULL ELSE hand[u]
    BY <1>2 DEF Return, IInv, VnodesInv, TypeOK
  <2>2. v \notin lost
    BY <1>1, <1>2, OnlyMine
  <2>3. \A u \in Vnode : Mine(t, u)' = Mine(t, u) /\ Mine(t, u) \in Int
    BY <1>1, <1>2, <2>1, <2>2, ConstantsAssumption DEF Mine, One, Lost
  <2>4. \A u \in Vnode : Counted(u)' = Counted(u) /\ Counted(u) \in Int
    BY <1>1, <1>3, <1>4 DEF Counted, IInv, VnodesInv, TypeOK, SfsVnode
  <2>5. \A u \in Vnode : Counted(u)' = Counted(u) + Mine(t, u)' - Mine(t, u)
    BY <2>3, <2>4
  <2>6. \A u \in Thread \ {t} : file'[u] = file[u] /\ hand'[u] = hand[u]
    BY <1>2, <2>1
  <2> QED
    BY <2>5, <2>6, RefsStep DEF IInv, VnodesInv
<1>7. /\ HandInPlace' /\ CleanupAlone'
      /\ hand' \in [Thread -> Vnode \cup {NULL}] /\ pc' \in [Thread -> Place]
      /\ biglock' \in Thread \cup {NULL}
  <2>1. biglock = t
    BY <1>2 DEF IInv, VnodesInv, HandInPlace
  <2> QED
    BY <1>2, <2>1, Returns DEF IInv, VnodesInv
<1>8. vn' \in [Vnode -> SfsVnode \cup {NULL}]
  <2>1. vn \in [Vnode -> SfsVnode \cup {NULL}] /\ DOMAIN vn' = Vnode
    BY <1>2 DEF IInv, VnodesInv, TypeOK
  <2>2. \A u \in Vnode : vn'[u] \in SfsVnode \cup {NULL}
    BY <1>3, <2>1
  <2>3. vn' = [u \in Vnode |-> vn'[u]]
    BY <1>2, <2>1
  <2> QED
    BY <2>2, <2>3
<1>9. TypeOK'
  BY <1>2, <1>7, <1>8 DEF IInv, VnodesInv, TypeOK
<1> QED
  BY <1>5, <1>6, <1>7, <1>9 DEF IInv, VnodesInv

-----------------------------------------------------------------------------
LEMMA SyncInv == ASSUME IInv, Sync PROVE IInv'
<1>1. PICK s \in SUBSET Dirty :
        /\ disk' = Written(s)
        /\ vn' = [v \in Vnode |-> IF v \in s THEN Cleaned(vn[v]) ELSE vn[v]]
  BY DEF Sync
<1>2. /\ mounted = TRUE
      /\ UNCHANGED <<mounted, dir, diskmap, freemap, file, hand, pc, biglock, lost>>
  BY DEF Sync, IInv, VnodesInv, TypeOK
<1>3. \A v \in s : v \in Vnode /\ vn[v] # NULL /\ vn[v] \in SfsVnode
  BY DEF Dirty, IInv, VnodesInv, TypeOK
(* A vnode that is written is clean and as on disk; the others are as they *)
(* were.                                                                   *)
<1>4. \A v \in Vnode \ s : vn'[v] = vn[v]
  BY <1>1
<1>5. ASSUME NEW v \in s
      PROVE  /\ vn'[v] \in SfsVnode /\ vn'[v].ino = vn[v].ino
             /\ vn'[v].ref = vn[v].ref /\ vn'[v].inode = vn[v].inode
  <2>1. vn'[v] = Cleaned(vn[v])
    BY <1>1, <1>3
  <2>2. /\ Cleaned(vn[v]) \in SfsVnode /\ Cleaned(vn[v]).ino = vn[v].ino
        /\ Cleaned(vn[v]).ref = vn[v].ref /\ Cleaned(vn[v]).inode = vn[v].inode
    BY <1>3 DEF Cleaned, SfsVnode
  <2> QED
    BY <2>1, <2>2
<1>6. \A v \in s : vn'[v] # NULL
  BY <1>5, NullAssumption
<1>7. OneVnode'
  BY <1>2, <1>3, <1>4, <1>5, <1>6 DEF IInv, VnodesInv, OneVnode
<1>8. \A i \in Ino : Resident(i)' = Resident(i) /\ Names(i)' = Names(i)
  BY <1>2, <1>3, <1>4, <1>5, <1>6 DEF Resident, Names
<1>9. \A v \in Vnode : vn[v] # NULL => vn[v].ino \in Ino /\ vn[v].inode \in Inode
  BY DEF IInv, VnodesInv, TypeOK, SfsVnode
<1>10. \A v \in s : disk'[vn[v].ino] = vn[v].inode
  <2>1. ASSUME NEW v \in s
        PROVE  disk'[vn[v].ino] = vn[v].inode
    <3>1. Resident(vn[v].ino) \cap s = {v}
      BY <1>3 DEF Resident, IInv, VnodesInv, OneVnode
    <3> QED
      BY <1>1, <1>3, <1>9, <3>1 DEF Written
  <2> QED
    BY <2>1
<1>11. \A i \in Ino : Resident(i) \cap s = {} => disk'[i] = disk[i]
  BY <1>1 DEF Written
<1>12. LinksExact'
  <2>1. \A j \in Ino : j \in Map' <=> Names(j)' # {} \/ Resident(j)' # {}
    BY <1>2, <1>8 DEF IInv, LinksExact, Map
  <2>2. \A j \in Ino : Names(j)' # {} /\ Resident(j)' = {}
          => disk'[j].links = Cardinality(Names(j)')
    BY <1>8, <1>11 DEF IInv, LinksExact
  <2>3. ASSUME NEW v \in Vnode, vn'[v] # NULL
        PROVE  Right(v)'
    <3>1. CASE v \in s
      <4>1. Right(v) /\ vn[v].ino \in Ino
        BY <1>3, <1>9, <3>1 DEF IInv, LinksExact, Right
      <4>2. vn'[v].ino = vn[v].ino /\ vn'[v].inode = vn[v].inode
            /\ disk'[vn[v].ino] = vn[v].inode
        BY <1>5, <1>10, <3>1
      <4> QED
        BY <1>8, <4>1, <4>2 DEF Right
    <3>2. CASE v \notin s
      <4>1. vn'[v] = vn[v] /\ Right(v) /\ vn[v].ino \in Ino
        BY <1>4, <1>9, <2>3, <3>2 DEF IInv, LinksExact, Right
      <4>2. Resident(vn[v].ino) \cap s = {}
        BY <1>3, <2>3, <3>2, <4>1 DEF Resident, IInv, VnodesInv, OneVnode
      <4> QED
        BY <1>8, <1>11, <4>1, <4>2 DEF Right
    <3> QED
      BY <3>1, <3>2
  <2> QED
    BY <2>1, <2>2, <2>3 DEF LinksExact, Right
<1>13. RefsExact'
  <2>1. \A v \in Vnode : /\ vn'[v] = NULL <=> vn[v] = NULL
                         /\ vn[v] # NULL => vn'[v].ref = vn[v].ref
    BY <1>3, <1>4, <1>5, <1>6
  <2>2. \A v \in Vnode : Users(v)' = Users(v) /\ Droppers(v)' = Droppers(v)
    BY <1>2 DEF Users, Droppers
  <2> QED
    BY <1>2, <2>1, <2>2 DEF IInv, VnodesInv, RefsExact
<1>14. HandInPlace'
  BY <1>2 DEF IInv, VnodesInv, HandInPlace
<1>15. CleanupAlone'
  <2>1. biglock = NULL
    BY DEF Sync
  <2>2. \A t \in Thread : pc[t] # "erase"
    BY <2>1, ConstantsAssumption DEF IInv, VnodesInv, HandInPlace
  <2> QED
    BY <1>2, <2>2 DEF CleanupAlone
<1>16. TypeOK'
  <2>1. vn' \in [Vnode -> SfsVnode \cup {NULL}]
    <3>1. \A v \in Vnode : vn'[v] \in SfsVnode \cup {NULL}
      BY <1>4, <1>5 DEF IInv, VnodesInv, TypeOK
    <3> QED
      BY <1>1, <3>1
  <2>2. disk' \in [Ino -> Inode]
    <3>1. \A i \in Ino : disk'[i] \in Inode
      <4>1. ASSUME NEW i \in Ino, Resident(i) \cap s # {}
            PROVE  disk'[i] \in Inode
        <5>1. PICK v \in s : vn[v].ino = i
          BY <4>1 DEF Resident
        <5> QED
          BY <1>3, <1>9, <1>10, <5>1
      <4> QED
        BY <1>11, <4>1 DEF IInv, VnodesInv, TypeOK
    <3> QED
      BY <1>1, <3>1 DEF Written
  <2> QED
    BY <1>2, <2>1, <2>2 DEF IInv, VnodesInv, TypeOK
<1> QED
  BY <1>7, <1>12, <1>13, <1>14, <1>15, <1>16 DEF IInv, VnodesInv

LEMMA MountInv == ASSUME IInv, Unmount \/ Mount PROVE IInv'
<1>1. UNCHANGED <<dir, disk, vn, file, hand, pc, biglock, lost>>
  BY DEF Unmount, Mount
<1>2. \A v \in Vnode : vn[v] = NULL
  BY DEF Unmount, Mount, IInv, VnodesInv, OneVnode
<1>3. Map' = Map /\ mounted' \in BOOLEAN /\ diskmap' \subseteq Ino /\ freemap' \subseteq Ino
  BY DEF Map, Unmount, Mount, IInv, VnodesInv, TypeOK
<1>4. \A i \in Ino : Resident(i)' = Resident(i) /\ Names(i)' = Names(i)
  BY <1>1 DEF Resident, Names
<1>5. LinksExact' /\ OneVnode'
  BY <1>1, <1>2, <1>3, <1>4 DEF IInv, VnodesInv, LinksExact, OneVnode
<1>6. RefsExact' /\ HandInPlace' /\ CleanupAlone'
  BY <1>1 DEF IInv, VnodesInv, RefsExact, Users, Droppers, HandInPlace,
              CleanupAlone, Last
<1>7. TypeOK'
  BY <1>1, <1>3 DEF IInv, VnodesInv, TypeOK
<1> QED
  BY <1>5, <1>6, <1>7 DEF IInv, VnodesInv

LEMMA StutterInv == ASSUME IInv, UNCHANGED vars PROVE IInv'
<1>1. OneVnode' /\ LinksExact'
  BY Untouched DEF vars
<1>2. RefsExact' /\ HandInPlace' /\ CleanupAlone' /\ TypeOK'
  BY DEF vars, IInv, VnodesInv, RefsExact, Users, Droppers, HandInPlace,
         CleanupAlone, Last, TypeOK
<1> QED
  BY <1>1, <1>2 DEF IInv, VnodesInv

LEMMA StepInv == IInv /\ [Next]_vars => IInv'
<1> SUFFICES ASSUME IInv, [Next]_vars PROVE IInv'
  OBVIOUS
<1>1. ASSUME NEW t \in Thread, NEW n \in Name,
             Lookup(t, n) \/ Creat(t, n) \/ Link(t, n) \/ Remove(t, n)
      PROVE  IInv'
  BY <1>1, LookupInv, CreatInv, LinkInv, RemoveInv
<1>2. ASSUME NEW t \in Thread, NEW old \in Name, NEW new \in Name, Rename(t, old, new)
      PROVE  IInv'
  BY <1>2, RenameInv
<1>3. ASSUME NEW t \in Thread,
             CreatUnlinked(t) \/ CreatNoVnode(t) \/ Write(t) \/ Truncate(t)
      PROVE  IInv'
  BY <1>3, CreatUnlinkedInv, CreatNoVnodeInv, WriteInv
<1>4. ASSUME NEW t \in Thread, Close(t) \/ CloseLast(t) \/ Drop(t) \/ DropLast(t)
      PROVE  IInv'
  BY <1>4, CloseInv, CloseLastInv, DropInv, DecideInv
<1>5. ASSUME NEW t \in Thread,
             ReclaimBusy(t) \/ Reclaim(t) \/ Erase(t) \/ EraseFails(t)
      PROVE  IInv'
  BY <1>5, DropInv, DecideInv, EraseInv, EraseFailsInv
<1>6. CASE Sync \/ Unmount \/ Mount
  BY <1>6, SyncInv, MountInv
<1>7. CASE UNCHANGED vars
  BY <1>7, StutterInv
<1> QED
  BY <1>1, <1>2, <1>3, <1>4, <1>5, <1>6, <1>7 DEF Next

LEMMA Invariant == Spec => []IInv
BY InitInv, StepInv, PTL DEF Spec

-----------------------------------------------------------------------------
(* vnode_incref, vnode_decref and sfs_reclaim keep the count of every      *)
(* vnode exact, whoever opens, closes, removes and reclaims it meanwhile,  *)
(* and a vnode that is being freed belongs to nobody else.                 *)
THEOREM VnodesCorrect == Spec => []VnodesInv
<1>1. IInv => VnodesInv
  BY DEF IInv
<1> QED
  BY <1>1, Invariant, PTL

(* The link count of every inode is the number of its names, its block is  *)
(* in use just while it has one or is in memory, and a vnode that is not   *)
(* dirty is as on disk (sfs_link, sfs_remove, sfs_rename, sfs_reclaim).    *)
THEOREM LinksCorrect == Spec => []LinksExact
<1>1. IInv => LinksExact
  BY DEF IInv
<1> QED
  BY <1>1, Invariant, PTL

-----------------------------------------------------------------------------
(***************************************************************************)
(* SFS implements UnixFiles: whatever is loaded, written back, reclaimed   *)
(* or lost, names and open files lead to the files they should, with the   *)
(* sizes that were written.                                                *)
(***************************************************************************)
(* What a step may not do to a file that it is not about, and to a vnode   *)
(* that somebody has open.                                                 *)
Same(i) == Current(i)'.size = Current(i).size
OpenKept == \A t \in Thread : file[t] # NULL => vn'[file[t]].ino = vn[file[t]].ino

LEMMA CurrentIs ==
    ASSUME IInv, NEW v \in Vnode, vn[v] # NULL
    PROVE  Current(vn[v].ino) = vn[v].inode
<1>1. Resident(vn[v].ino) = {v}
  BY DEF IInv, VnodesInv, OneVnode, Resident
<1> QED
  BY <1>1 DEF Current

LEMMA CurrentWill ==
    ASSUME IInv', NEW v \in Vnode, vn'[v] # NULL, NEW i, i = vn'[v].ino
    PROVE  Current(i)' = vn'[v].inode
<1>1. Resident(i)' = {v}
  BY DEF IInv, VnodesInv, OneVnode, Resident
<1> QED
  BY <1>1 DEF Current

(* A vnode of inode i becomes x: so does the inode, and no other.          *)
LEMMA Put ==
    ASSUME IInv, IInv', NEW v \in Vnode, NEW x \in SfsVnode, NEW i \in Ino,
           x.ino = i, vn' = [vn EXCEPT ![v] = x],
           vn[v] # NULL => vn[v].ino = i,
           \A j \in Ino \ {i} : disk'[j] = disk[j]
    PROVE  /\ Current(i)' = x.inode
           /\ \A j \in Ino \ {i} : Current(j)' = Current(j)
           /\ OpenKept
<1>1. \A w \in Vnode : vn'[w] = IF w = v THEN x ELSE vn[w]
  BY DEF IInv, VnodesInv, TypeOK
<1>2. x # NULL
  BY NullAssumption
<1>3. Current(i)' = x.inode
  BY <1>1, <1>2, CurrentWill
<1>4. ASSUME NEW j \in Ino \ {i}
      PROVE  Current(j)' = Current(j)
  <2>1. Resident(j)' = Resident(j) /\ v \notin Resident(j)
    BY <1>1, <1>2 DEF Resident
  <2>2. CASE Resident(j) = {}
    BY <2>1, <2>2 DEF Current
  <2>3. CASE Resident(j) # {}
    <3>1. PICK w \in Vnode : w # v /\ vn[w] # NULL /\ vn[w].ino = j
      BY <2>1, <2>3 DEF Resident
    <3>2. vn'[w] = vn[w]
      BY <1>1, <3>1
    <3> QED
      BY <3>1, <3>2, CurrentIs, CurrentWill
  <2> QED
    BY <2>2, <2>3
<1>5. OpenKept
  <2> SUFFICES ASSUME NEW t \in Thread, file[t] # NULL
               PROVE  vn'[file[t]].ino = vn[file[t]].ino
    BY DEF OpenKept
  <2>1. file[t] \in Vnode /\ vn[file[t]] # NULL
    BY There DEF IInv, VnodesInv
  <2> QED
    BY <1>1, <2>1
<1> QED
  BY <1>3, <1>4, <1>5

(* Only t opens or closes anything.                                        *)
LEMMA OpenedStep ==
    ASSUME OpenKept, NEW t \in Thread, \A u \in Thread \ {t} : file'[u] = file[u]
    PROVE  Opened' = [Opened EXCEPT ![t] = InodeOf(file[t])']
<1>1. \A u \in Thread \ {t} : InodeOf(file[u])' = InodeOf(file[u])
  BY DEF OpenKept, InodeOf
<1> QED
  BY <1>1 DEF Opened

LEMMA SizeStep ==
    ASSUME \A i \in Ino : i \in Exists' <=> i \in Exists,
           \A i \in Ino : i \in Exists => Same(i)
    PROVE  Size' = Size
BY DEF Size, Same

(* A step that user programs do not see.                                   *)
Unseen == UNCHANGED <<dir, Opened, Size>>
LEMMA UnseenStep ==
    ASSUME OpenKept, dir' = dir, file' = file, \A i \in Ino : i \in Exists => Same(i)
    PROVE  Unseen
<1>1. Opened' = Opened
  BY DEF OpenKept, Opened, InodeOf
<1>2. \A i \in Ino : i \in Exists' <=> i \in Exists
  BY <1>1 DEF Exists
<1> QED
  BY <1>1, <1>2, SizeStep DEF Unseen

-----------------------------------------------------------------------------
(* sfs_loadvnode gives the inode as it is now, from the table or the disk. *)
LEMMA LoadsCurrent ==
    ASSUME IInv, NEW i \in Ino, NEW v \in Found(i)
    PROVE  v \in Vnode /\ Loaded(i, v).inode = Current(i)
<1>1. CASE Resident(i) # {}
  <2>1. v \in Vnode /\ vn[v] # NULL /\ vn[v].ino = i
    BY <1>1 DEF Found, Resident
  <2>2. PICK w : w = vn[v] /\ w \in SfsVnode
    BY <2>1 DEF IInv, VnodesInv, TypeOK
  <2>3. Loaded(i, v) = [w EXCEPT !.ref = w.ref + 1]
    BY <2>1, <2>2 DEF Loaded
  <2>4. Loaded(i, v).inode = w.inode
    BY <2>2, <2>3 DEF SfsVnode
  <2> QED
    BY <2>1, <2>2, <2>4, CurrentIs
<1>2. CASE Resident(i) = {}
  <2>1. v \in Vnode /\ vn[v] = NULL
    BY <1>2 DEF Found, Spare, Lowest
  <2> QED
    BY <1>2, <2>1 DEF Loaded, Current
<1> QED
  BY <1>1, <1>2

LEMMA LookupOpens ==
    ASSUME IInv, IInv', NEW t \in Thread, NEW n \in Name, Lookup(t, n)
    PROVE  Files!Open(t, n)
<1>1. PICK i \in Ino, v \in Vnode :
        /\ i = dir[n] /\ v \in Found(i) /\ vn' = [vn EXCEPT ![v] = Loaded(i, v)]
        /\ file' = [file EXCEPT ![t] = v]
  <2>1. dir[n] \in Ino
    BY DEF Lookup, IInv, VnodesInv, TypeOK
  <2>2. Found(dir[n]) \subseteq Vnode
    BY DEF Found, Resident, Spare, Lowest
  <2> QED
    BY <2>1, <2>2 DEF Lookup
<1>2. /\ mounted = TRUE /\ dir[n] # NULL /\ file[t] = NULL
      /\ dir' = dir /\ disk' = disk
  BY DEF Lookup, Enters, IInv, VnodesInv, TypeOK
<1>3. v \in Vnode /\ v # NULL /\ Loaded(i, v).inode = Current(i)
  BY <1>1, LoadsCurrent, ConstantsAssumption
<1>4. PICK x \in SfsVnode : /\ vn' = [vn EXCEPT ![v] = x] /\ x.ino = i
                            /\ x.inode = Current(i) /\ (vn[v] # NULL => vn[v].ino = i)
  BY <1>1, <1>2, <1>3, Loads
<1>5. (\A j \in Ino : Current(j)' = Current(j)) /\ OpenKept
  <2>1. \A j \in Ino \ {i} : disk'[j] = disk[j]
    BY <1>2
  <2> QED
    BY <1>3, <1>4, <2>1, Put
<1>6. Opened' = [Opened EXCEPT ![t] = i]
  <2>1. file'[t] = v /\ \A u \in Thread \ {t} : file'[u] = file[u]
    BY <1>1 DEF IInv, VnodesInv, TypeOK
  <2>2. InodeOf(file[t])' = i
    <3>1. vn'[v] = x
      BY <1>3, <1>4 DEF IInv, VnodesInv, TypeOK
    <3> QED
      BY <1>3, <1>4, <2>1, <3>1 DEF InodeOf
  <2> QED
    BY <1>5, <2>1, <2>2, OpenedStep
<1>7. Opened[t] = NULL
  BY <1>2 DEF Opened, InodeOf
<1>8. Size' = Size
  <2>1. \A u \in Thread : Opened'[u] = IF u = t THEN i ELSE Opened[u]
    BY <1>6 DEF Opened
  <2>2. \A j \in Ino : j \in Exists' <=> j \in Exists
    BY <1>1, <1>2, <1>7, <2>1, ConstantsAssumption DEF Exists
  <2> QED
    BY <1>5, <2>2, SizeStep DEF Same
<1> QED
  BY <1>1, <1>2, <1>6, <1>7, <1>8 DEF Files!Open

-----------------------------------------------------------------------------
(* Only the vnode v of inode i changes, without its size.                  *)
LEMMA PutSame ==
    ASSUME IInv, IInv', NEW v \in Vnode, NEW x \in SfsVnode, NEW i \in Ino,
           x.ino = i, vn' = [vn EXCEPT ![v] = x],
           vn[v] # NULL => vn[v].ino = i,
           x.inode.size = Current(i).size,
           disk' = disk
    PROVE  (\A j \in Ino : Same(j)) /\ OpenKept
<1>1. \A j \in Ino \ {i} : disk'[j] = disk[j]
  OBVIOUS
<1>2. Current(i)' = x.inode /\ (\A j \in Ino \ {i} : Current(j)' = Current(j)) /\ OpenKept
  BY <1>1, Put
<1> QED
  BY <1>2 DEF Same

(* The sizes that the calls leave.                                         *)
LEMMA ChangedSize ==
    ASSUME NEW w, NEW links, NEW size
    PROVE  Changed(w, links, size).inode.size = size
BY DEF Changed

LEMMA LinkedSize ==
    ASSUME NEW w
    PROVE  /\ Linked(w).inode.size = w.inode.size
           /\ Unlinked(w).inode.size = w.inode.size
BY ChangedSize DEF Linked, Unlinked

(* What t has open: the vnode, and what the file is.                       *)
LEMMA OpenIs ==
    ASSUME IInv, NEW t \in Thread, file[t] # NULL
    PROVE  \E v \in Vnode, w \in SfsVnode, i \in Ino :
             /\ v = file[t] /\ w = vn[v] /\ vn[v] # NULL /\ w.ino = i
             /\ Current(i) = w.inode /\ Opened[t] = i
<1>1. PICK v \in Vnode, w \in SfsVnode :
        v = file[t] /\ vn[v] # NULL /\ w = vn[v] /\ vn[v].ino \in Ino
  BY There, Opens DEF IInv, VnodesInv
<1> QED
  BY <1>1, CurrentIs DEF Opened, InodeOf

(* A block that sfs_balloc takes is no file.                               *)
LEMMA FreshIsNoFile ==
    ASSUME IInv, NEW i \in Ino, Names(i) = {},
           \A w \in Vnode : vn[w] # NULL => vn[w].ino # i
    PROVE  i \notin Exists
<1>1. \A n \in Name : dir[n] # i
  BY DEF Names
<1>2. ASSUME NEW t \in Thread
      PROVE  Opened[t] # i
  <2>1. file[t] # NULL => file[t] \in Vnode /\ vn[file[t]] # NULL
    BY There DEF IInv, VnodesInv
  <2> QED
    BY <2>1, ConstantsAssumption DEF Opened, InodeOf
<1> QED
  BY <1>1, <1>2 DEF Exists

LEMMA CreatCreates ==
    ASSUME IInv, IInv', NEW t \in Thread, NEW n \in Name, Creat(t, n)
    PROVE  \E f \in Ino : Files!Create(t, n, f)
<1>1. PICK i \in Ino, v \in Spare :
        /\ Balloc(i)
        /\ vn' = [vn EXCEPT ![v] = NewVnode(i, 1)]
        /\ dir' = [dir EXCEPT ![n] = i]
        /\ file' = [file EXCEPT ![t] = v]
  BY DEF Creat
<1>2. mounted = TRUE /\ file[t] = NULL /\ dir[n] = NULL
  BY DEF Creat, Enters, IInv, VnodesInv, TypeOK
<1>3. /\ Names(i) = {} /\ (\A w \in Vnode : vn[w] # NULL => vn[w].ino # i)
      /\ v \in Vnode /\ v # NULL /\ vn[v] = NULL
  BY <1>1, <1>2, Fresh, ConstantsAssumption DEF Balloc
<1>4. PICK x \in SfsVnode : /\ vn' = [vn EXCEPT ![v] = x] /\ x.ino = i
                            /\ x.inode.size = 0
  <2>1. NewVnode(i, 1).inode.size = 0
    BY DEF NewVnode
  <2>2. NewVnode(i, 1) \in SfsVnode /\ NewVnode(i, 1).ino = i
    BY New
  <2> QED
    BY <1>1, <2>1, <2>2
<1>5. /\ Current(i)' = x.inode /\ \A j \in Ino \ {i} : Current(j)' = Current(j)
      /\ OpenKept
  <2>1. \A j \in Ino \ {i} : disk'[j] = disk[j]
    BY <1>1 DEF Balloc, IInv, VnodesInv, TypeOK
  <2> QED
    BY <1>3, <1>4, <2>1, Put
<1>6. Opened' = [Opened EXCEPT ![t] = i]
  <2>1. file'[t] = v /\ \A u \in Thread \ {t} : file'[u] = file[u]
    BY <1>1 DEF IInv, VnodesInv, TypeOK
  <2>2. vn'[v] = x
    BY <1>3, <1>4 DEF IInv, VnodesInv, TypeOK
  <2>3. InodeOf(file[t])' = i
    BY <1>3, <1>4, <2>1, <2>2 DEF InodeOf
  <2> QED
    BY <1>5, <2>1, <2>3, OpenedStep
<1>7. Opened[t] = NULL
  BY <1>2 DEF Opened, InodeOf
<1>8. Size[i] = NULL /\ Size' = [Size EXCEPT ![i] = 0]
  <2>1. i \notin Exists
    BY <1>3, FreshIsNoFile
  <2>2. \A u \in Thread : Opened'[u] = IF u = t THEN i ELSE Opened[u]
    BY <1>6 DEF Opened
  <2>3. \A m \in Name : dir'[m] = IF m = n THEN i ELSE dir[m]
    BY <1>1 DEF IInv, VnodesInv, TypeOK
  <2>4. \A j \in Ino : j \in Exists' <=> j \in Exists \/ j = i
    BY <1>2, <1>7, <2>2, <2>3, ConstantsAssumption DEF Exists
  <2>5. Current(i)'.size = 0
    BY <1>4, <1>5
  <2>6. \A j \in Ino : Size'[j] = IF j = i THEN 0 ELSE Size[j]
    BY <1>5, <2>4, <2>5 DEF Size
  <2> QED
    BY <2>1, <2>6 DEF Size
<1> QED
  BY <1>1, <1>2, <1>6, <1>7, <1>8 DEF Files!Create

(* creat that fails.                                                       *)
LEMMA CreatFails ==
    ASSUME IInv, IInv', NEW t \in Thread, CreatUnlinked(t) \/ CreatNoVnode(t)
    PROVE  Unseen
<1>1. mounted = TRUE /\ dir' = dir /\ file' = file
  BY DEF CreatUnlinked, CreatNoVnode, Enters, IInv, VnodesInv, TypeOK
<1>2. PICK i \in Ino : Balloc(i)
  BY DEF CreatUnlinked, CreatNoVnode
<1>3. i \in Lowest(Ino \ freemap) /\ \A j \in Ino \ {i} : disk'[j] = disk[j]
  BY <1>2 DEF Balloc, IInv, VnodesInv, TypeOK
<1>4. CASE CreatUnlinked(t)
  <2>1. PICK k \in Ino, v \in Spare : Balloc(k) /\ vn' = [vn EXCEPT ![v] = NewVnode(k, 0)]
    BY <1>4 DEF CreatUnlinked
  <2>2. k \in Lowest(Ino \ freemap) /\ \A j \in Ino \ {k} : disk'[j] = disk[j]
    BY <2>1 DEF Balloc, IInv, VnodesInv, TypeOK
  <2>3. /\ Names(k) = {} /\ (\A w \in Vnode : vn[w] # NULL => vn[w].ino # k)
        /\ v \in Vnode /\ vn[v] = NULL
    BY <1>1, <2>1, <2>2, Fresh
  <2>4. PICK x \in SfsVnode : vn' = [vn EXCEPT ![v] = x] /\ x.ino = k
    BY <2>1, New
  <2>5. (\A j \in Ino \ {k} : Current(j)' = Current(j)) /\ OpenKept
    BY <2>2, <2>3, <2>4, Put
  <2>6. k \notin Exists
    BY <2>3, FreshIsNoFile
  <2> QED
    BY <1>1, <2>5, <2>6, UnseenStep DEF Same
<1>5. CASE CreatNoVnode(t)
  <2>1. vn' = vn
    BY <1>5 DEF CreatNoVnode
  <2>2. i \notin freemap /\ Names(i) = {} /\ Resident(i) = {}
    BY <1>1, <1>3 DEF IInv, LinksExact, Map, Lowest
  <2>3. i \notin Exists
    BY <2>2, FreshIsNoFile DEF Resident
  <2>4. \A j \in Ino \ {i} : Current(j)' = Current(j)
    BY <1>3, <2>1 DEF Current, Resident
  <2>5. OpenKept
    BY <2>1 DEF OpenKept
  <2> QED
    BY <1>1, <2>3, <2>4, <2>5, UnseenStep DEF Same
<1> QED
  BY <1>4, <1>5

-----------------------------------------------------------------------------
LEMMA LinkLinks ==
    ASSUME IInv, IInv', NEW t \in Thread, NEW n \in Name, Link(t, n)
    PROVE  Files!Link(t, n)
<1>1. /\ file[t] # NULL /\ dir[n] = NULL
      /\ dir' = [dir EXCEPT ![n] = vn[file[t]].ino]
      /\ vn' = [vn EXCEPT ![file[t]] = Linked(vn[file[t]])]
      /\ file' = file /\ disk' = disk
  BY DEF Link
<1>2. PICK v \in Vnode, w \in SfsVnode, i \in Ino :
        /\ v = file[t] /\ w = vn[v] /\ vn[v] # NULL /\ w.ino = i
        /\ Current(i) = w.inode /\ Opened[t] = i
  BY <1>1, OpenIs
<1>3. PICK x \in SfsVnode : /\ vn' = [vn EXCEPT ![v] = x] /\ x.ino = i
                            /\ x.inode.size = Current(i).size
  <2>1. PICK z \in SfsVnode : z = Linked(w) /\ z.ino = w.ino
    BY LinkedVnode
  <2>2. vn' = [vn EXCEPT ![v] = z]
    BY <1>1, <1>2, <2>1
  <2>3. z.inode.size = w.inode.size
    BY <2>1, LinkedSize
  <2> QED
    BY <1>2, <2>1, <2>2, <2>3
<1>4. (\A j \in Ino : Same(j)) /\ OpenKept
  <2>1. vn[v] # NULL => vn[v].ino = i
    BY <1>2
  <2> QED
    BY <1>1, <1>3, <2>1, PutSame
<1>5. Opened' = Opened
  BY <1>1, <1>4 DEF OpenKept, Opened, InodeOf
<1>6. dir' = [dir EXCEPT ![n] = i]
  BY <1>1, <1>2
<1>7. Size' = Size
  <2>1. \A m \in Name : dir'[m] = IF m = n THEN i ELSE dir[m]
    BY <1>6 DEF IInv, VnodesInv, TypeOK
  <2>2. \A j \in Ino : j \in Exists' <=> j \in Exists
    BY <1>1, <1>2, <1>5, <2>1, ConstantsAssumption DEF Exists
  <2> QED
    BY <1>4, <2>2, SizeStep
<1>8. i # NULL
  BY ConstantsAssumption
<1> QED
  BY <1>1, <1>2, <1>5, <1>6, <1>7, <1>8 DEF Files!Link

LEMMA ResizeResizes ==
    ASSUME IInv, IInv', NEW t \in Thread, NEW s \in 0 .. MaxSize,
           NEW v \in Vnode, NEW i \in Ino, vn[v].ino = i, Opened[t] = i,
           NEW x \in SfsVnode, x.ino = i, x.inode.size = s,
           vn' = [vn EXCEPT ![v] = x],
           dir' = dir, disk' = disk, file' = file
    PROVE  Files!Resize(t, s)
<1>1. /\ Current(i)' = x.inode /\ \A j \in Ino \ {i} : Current(j)' = Current(j)
      /\ OpenKept
  <2>1. vn[v] # NULL => vn[v].ino = i
    OBVIOUS
  <2>2. \A j \in Ino \ {i} : disk'[j] = disk[j]
    OBVIOUS
  <2> QED
    BY <2>1, <2>2, Put
<1>2. Opened' = Opened
  BY <1>1 DEF OpenKept, Opened, InodeOf
<1>3. Size' = [Size EXCEPT ![i] = s]
  <2>1. \A j \in Ino : j \in Exists' <=> j \in Exists
    BY <1>2 DEF Exists
  <2>2. i \in Exists
    BY DEF Exists
  <2>3. Current(i)'.size = s
    BY <1>1
  <2>4. \A j \in Ino : Size'[j] = IF j = i THEN s ELSE Size[j]
    BY <1>1, <2>1, <2>2, <2>3 DEF Size
  <2> QED
    BY <2>4 DEF Size
<1>4. i # NULL
  BY ConstantsAssumption
<1> QED
  BY <1>2, <1>3, <1>4 DEF Files!Resize

LEMMA WriteResizes ==
    ASSUME IInv, IInv', NEW t \in Thread, Write(t) \/ Truncate(t)
    PROVE  \E s \in 0 .. MaxSize : Files!Resize(t, s)
<1>1. file[t] # NULL /\ dir' = dir /\ disk' = disk /\ file' = file
  BY DEF Write, Truncate
<1>2. PICK v \in Vnode, w \in SfsVnode, i \in Ino :
        v = file[t] /\ w = vn[v] /\ w.ino = i /\ Opened[t] = i
  BY <1>1, OpenIs
<1>3. PICK s \in 0 .. MaxSize : vn' = [vn EXCEPT ![v] = Changed(w, w.inode.links, s)]
  <2>1. 0 \in 0 .. MaxSize
    BY ConstantsAssumption
  <2>2. PICK s \in 0 .. MaxSize : vn' = [vn EXCEPT ![file[t]] = Resized(file[t], s)]
    <3>1. CASE Write(t)
      BY <3>1 DEF Write
    <3>2. CASE Truncate(t)
      BY <2>1, <3>2 DEF Truncate
    <3> QED
      BY <3>1, <3>2
  <2>3. Resized(v, s) = Changed(w, w.inode.links, s)
    BY <1>2 DEF Resized
  <2>4. vn' = [vn EXCEPT ![v] = Changed(w, w.inode.links, s)]
    BY <1>2, <2>2, <2>3
  <2> QED
    BY <2>4
<1>4. PICK x \in SfsVnode : /\ x = Changed(w, w.inode.links, s)
                            /\ x.ino = w.ino /\ x.inode.size = s
  <2>1. w.inode.links \in Int
    BY DEF SfsVnode, Inode
  <2>2. PICK x \in SfsVnode : x = Changed(w, w.inode.links, s) /\ x.ino = w.ino
    BY <2>1, ChangedVnode
  <2> QED
    BY <2>2, ChangedSize
<1>5. vn[v].ino = i /\ x.ino = i /\ x.inode.size = s /\ vn' = [vn EXCEPT ![v] = x]
  BY <1>2, <1>3, <1>4
<1>6. Files!Resize(t, s)
  BY <1>1, <1>2, <1>5, ResizeResizes
<1> QED
  BY <1>6

-----------------------------------------------------------------------------
(* The directory entries change, and the vnode of inode i is loaded, with  *)
(* another link count maybe: no size of a file does.                       *)
LEMMA Touches ==
    ASSUME IInv, IInv', NEW n \in Name, dir[n] # NULL,
           NEW v \in Found(dir[n]), mounted = TRUE, NEW x \in SfsVnode,
           vn' = [vn EXCEPT ![v] = x],
           x.ino = Loaded(dir[n], v).ino,
           x.inode.size = Loaded(dir[n], v).inode.size,
           UNCHANGED <<disk, file>>
    PROVE  (\A j \in Ino : Same(j)) /\ OpenKept /\ Opened' = Opened
<1>1. PICK i \in Ino : i = dir[n]
  BY DEF IInv, VnodesInv, TypeOK
<1>2. v \in Vnode /\ x.ino = i /\ (vn[v] # NULL => vn[v].ino = i)
  BY <1>1, Loads
<1>3. x.inode.size = Current(i).size
  BY <1>1, LoadsCurrent
<1>4. (\A j \in Ino : Same(j)) /\ OpenKept
  BY <1>2, <1>3, PutSame
<1> QED
  BY <1>4 DEF OpenKept, Opened, InodeOf

LEMMA RemoveRemoves ==
    ASSUME IInv, IInv', NEW t \in Thread, NEW n \in Name, Remove(t, n)
    PROVE  Files!Remove(n) \/ Unseen
<1>1. mounted = TRUE /\ dir[n] # NULL /\ disk' = disk /\ file' = file
  BY DEF Remove, Enters, IInv, VnodesInv, TypeOK
<1>2. PICK v \in Found(dir[n]) :
        \/ /\ dir' = [dir EXCEPT ![n] = NULL]
           /\ vn' = [vn EXCEPT ![v] = Unlinked(Loaded(dir[n], v))]
        \/ dir' = dir /\ vn' = [vn EXCEPT ![v] = Loaded(dir[n], v)]
  BY DEF Remove
<1>3. PICK y \in SfsVnode : y = Loaded(dir[n], v)
  BY <1>1, Loads
<1>4. PICK x \in SfsVnode : /\ vn' = [vn EXCEPT ![v] = x] /\ x.ino = y.ino
                            /\ x.inode.size = y.inode.size
  BY <1>2, <1>3, UnlinkedVnode, LinkedSize
<1>5. (\A j \in Ino : Same(j)) /\ OpenKept /\ Opened' = Opened
  BY <1>1, <1>3, <1>4, Touches
<1>6. CASE dir' = dir
  BY <1>1, <1>5, <1>6, UnseenStep
<1>7. CASE dir' = [dir EXCEPT ![n] = NULL]
  <2>1. \A m \in Name : dir'[m] = IF m = n THEN NULL ELSE dir[m]
    BY <1>7 DEF IInv, VnodesInv, TypeOK
  <2>2. \A j \in Ino : j \in Exists' => j \in Exists
    BY <1>5, <2>1, ConstantsAssumption DEF Exists
  <2>3. Size' = Files!Kept
    BY <1>5, <2>2 DEF Size, Same, Exists, Files!Kept
  <2> QED
    BY <1>1, <1>5, <1>7, <2>3 DEF Files!Remove
<1> QED
  BY <1>2, <1>6, <1>7

LEMMA RenameRenames ==
    ASSUME IInv, IInv', NEW t \in Thread, NEW old \in Name, NEW new \in Name,
           Rename(t, old, new)
    PROVE  Files!Rename(old, new) \/ Unseen
<1>1. mounted = TRUE /\ dir[old] # NULL /\ disk' = disk /\ file' = file
  BY DEF Rename, Enters, IInv, VnodesInv, TypeOK
<1>2. PICK v \in Found(dir[old]) :
        /\ \/ vn' = [vn EXCEPT ![v] = Unlinked(Linked(Loaded(dir[old], v)))]
           \/ vn' = [vn EXCEPT ![v] = Loaded(dir[old], v)]
        /\ \/ dir[new] = NULL /\ dir' = [dir EXCEPT ![old] = NULL, ![new] = dir[old]]
           \/ dir' = dir
  BY DEF Rename
<1>3. PICK y \in SfsVnode : y = Loaded(dir[old], v)
  BY <1>1, Loads
<1>4. PICK x \in SfsVnode : /\ vn' = [vn EXCEPT ![v] = x] /\ x.ino = y.ino
                            /\ x.inode.size = y.inode.size
  <2>1. PICK z \in SfsVnode : /\ z = Linked(y) /\ z.ino = y.ino
                              /\ z.inode.size = y.inode.size
    BY LinkedVnode, LinkedSize
  <2>2. /\ Unlinked(z) \in SfsVnode /\ Unlinked(z).ino = y.ino
        /\ Unlinked(z).inode.size = y.inode.size
    BY <2>1, UnlinkedVnode, LinkedSize
  <2>3. vn' = [vn EXCEPT ![v] = Unlinked(z)] \/ vn' = [vn EXCEPT ![v] = y]
    BY <1>2, <1>3, <2>1
  <2> QED
    BY <2>2, <2>3
<1>5. (\A j \in Ino : Same(j)) /\ OpenKept /\ Opened' = Opened
  BY <1>1, <1>3, <1>4, Touches
<1>6. CASE dir' = dir
  BY <1>1, <1>5, <1>6, UnseenStep
<1>7. CASE dir[new] = NULL /\ dir' = [dir EXCEPT ![old] = NULL, ![new] = dir[old]]
  <2>1. \A m \in Name : dir'[m] = IF m = new THEN dir[old]
                                  ELSE IF m = old THEN NULL ELSE dir[m]
    BY <1>7 DEF IInv, VnodesInv, TypeOK
  <2>2. \A j \in Ino : j \in Exists' <=> j \in Exists
    BY <1>1, <1>5, <1>7, <2>1, ConstantsAssumption DEF Exists
  <2>3. Size' = Size
    BY <1>5, <2>2, SizeStep
  <2> QED
    BY <1>1, <1>5, <1>7, <2>3 DEF Files!Rename
<1> QED
  BY <1>2, <1>6, <1>7

-----------------------------------------------------------------------------
(* The vnodes keep their inodes and sizes, and the disk is as it was.      *)
LEMMA KeepsSizes ==
    ASSUME IInv, IInv', disk' = disk,
           \A w \in Vnode :
             /\ vn'[w] = NULL <=> vn[w] = NULL
             /\ vn[w] # NULL => /\ vn'[w].ino = vn[w].ino
                                /\ vn'[w].inode.size = vn[w].inode.size
    PROVE  (\A i \in Ino : Same(i)) /\ OpenKept
<1>1. ASSUME NEW i \in Ino
      PROVE  Same(i)
  <2>1. Resident(i)' = Resident(i)
    BY DEF Resident
  <2>2. CASE Resident(i) = {}
    BY <2>1, <2>2 DEF Current, Same
  <2>3. CASE Resident(i) # {}
    <3>1. PICK w \in Vnode : vn[w] # NULL /\ vn[w].ino = i
      BY <2>3 DEF Resident
    <3>2. vn'[w] # NULL /\ vn'[w].ino = i /\ vn'[w].inode.size = vn[w].inode.size
      BY <3>1
    <3>3. Current(i) = vn[w].inode /\ Current(i)' = vn'[w].inode
      BY <3>1, <3>2, CurrentIs, CurrentWill
    <3> QED
      BY <3>2, <3>3 DEF Same
  <2> QED
    BY <2>2, <2>3
<1>2. OpenKept
  <2>1. \A t \in Thread : file[t] # NULL => file[t] \in Vnode /\ vn[file[t]] # NULL
    BY There DEF IInv, VnodesInv
  <2> QED
    BY <2>1 DEF OpenKept
<1> QED
  BY <1>1, <1>2

(* A vnode that gives up a reference.                                      *)
LEMMA LoweredKeeps ==
    ASSUME IInv, IInv', NEW t \in Thread, NEW v \in Vnode, v = file[t] \/ v = hand[t],
           vn' = Lowered(v), disk' = disk
    PROVE  (\A i \in Ino : Same(i)) /\ OpenKept
<1>1. v # NULL /\ TypeOK /\ RefsExact
  BY ConstantsAssumption DEF IInv, VnodesInv
<1>2. vn[v] # NULL /\ vn[v] \in SfsVnode /\ vn[v].ref \in Nat \ {0}
  BY <1>1, There
<1>3. PICK x \in SfsVnode : /\ vn' = [vn EXCEPT ![v] = x] /\ x.ino = vn[v].ino
                            /\ x.inode = vn[v].inode
  BY <1>1, <1>2, LoweredVnode
<1>4. \A w \in Vnode : vn'[w] = IF w = v THEN x ELSE vn[w]
  BY <1>1, <1>3 DEF TypeOK
<1>5. x # NULL
  BY NullAssumption
<1>6. \A w \in Vnode : /\ vn'[w] = NULL <=> vn[w] = NULL
                       /\ vn[w] # NULL => /\ vn'[w].ino = vn[w].ino
                                          /\ vn'[w].inode.size = vn[w].inode.size
  BY <1>2, <1>3, <1>4, <1>5
<1> QED
  BY <1>6, KeepsSizes

LEMMA CloseCloses ==
    ASSUME IInv, IInv', NEW t \in Thread, Close(t) \/ CloseLast(t)
    PROVE  Files!Close(t)
<1>1. /\ file[t] # NULL /\ file' = [file EXCEPT ![t] = NULL]
      /\ dir' = dir /\ disk' = disk
  BY DEF Close, CloseLast
<1>2. PICK v \in Vnode, i \in Ino : v = file[t] /\ Opened[t] = i
  BY <1>1, OpenIs
<1>3. (\A j \in Ino : Same(j)) /\ OpenKept
  <2>1. CASE Close(t)
    <3>1. vn' = Lowered(v)
      BY <1>2, <2>1 DEF Close
    <3> QED
      BY <1>1, <1>2, <3>1, LoweredKeeps
  <2>2. CASE CloseLast(t)
    <3>1. vn' = vn
      BY <2>2 DEF CloseLast
    <3> QED
      BY <1>1, <3>1 DEF Same, Current, Resident, OpenKept
  <2> QED
    BY <2>1, <2>2
<1>4. Opened' = [Opened EXCEPT ![t] = NULL]
  <2>1. file'[t] = NULL /\ \A u \in Thread \ {t} : file'[u] = file[u]
    BY <1>1 DEF IInv, VnodesInv, TypeOK
  <2>2. InodeOf(file[t])' = NULL
    BY <2>1 DEF InodeOf
  <2> QED
    BY <1>3, <2>1, <2>2, OpenedStep
<1>5. Size' = Files!Kept
  <2>1. \A u \in Thread : Opened'[u] = IF u = t THEN NULL ELSE Opened[u]
    BY <1>4 DEF Opened
  <2>2. \A j \in Ino : j \in Exists' => j \in Exists
    BY <1>1, <2>1, ConstantsAssumption DEF Exists
  <2> QED
    BY <1>3, <2>2 DEF Size, Same, Exists, Files!Kept
<1>6. Opened[t] # NULL
  BY <1>2, ConstantsAssumption
<1> QED
  BY <1>1, <1>4, <1>5, <1>6 DEF Files!Close

LEMMA DropUnseen ==
    ASSUME IInv, IInv', NEW t \in Thread,
           Drop(t) \/ DropLast(t) \/ ReclaimBusy(t) \/ Reclaim(t)
    PROVE  Unseen
<1>1. dir' = dir /\ file' = file /\ disk' = disk
  BY DEF Drop, DropLast, ReclaimBusy, Reclaim
<1>2. CASE Drop(t) \/ ReclaimBusy(t)
  <2>1. PICK v \in Vnode : v = hand[t]
    BY <1>2, InHand DEF Drop, ReclaimBusy
  <2>2. vn' = Lowered(v)
    BY <1>2, <2>1 DEF Drop, ReclaimBusy, Consumed
  <2> QED
    BY <1>1, <2>1, <2>2, LoweredKeeps, UnseenStep
<1>3. CASE DropLast(t) \/ Reclaim(t)
  <2>1. vn' = vn
    BY <1>3 DEF DropLast, Reclaim
  <2> QED
    BY <1>1, <2>1, UnseenStep DEF Same, Current, Resident, OpenKept
<1> QED
  BY <1>2, <1>3

(* A vnode that is erased stands for no file, or for one that is on disk   *)
(* as it was in memory.                                                    *)
LEMMA EraseUnseen ==
    ASSUME IInv, IInv', NEW t \in Thread, Erase(t)
    PROVE  Unseen
<1>1. PICK v \in Vnode, w \in SfsVnode, i \in Ino :
        v = hand[t] /\ w = vn[v] /\ vn[v] # NULL /\ i = w.ino
  BY InHand DEF Erase
<1>2. /\ pc[t] = "erase" /\ dir' = dir /\ file' = file
      /\ disk' = [disk EXCEPT ![i] = WrittenBack(v)]
      /\ vn' = [vn EXCEPT ![v] = NULL]
  BY <1>1 DEF Erase
<1>3. \A u \in Vnode : vn'[u] = IF u = v THEN NULL ELSE vn[u]
  BY <1>2 DEF IInv, VnodesInv, TypeOK
<1>4. \A j \in Ino : disk'[j] = IF j = i THEN WrittenBack(v) ELSE disk[j]
  BY <1>2 DEF IInv, VnodesInv, TypeOK
<1>5. \A u \in Thread : file[u] # v
  BY <1>1, <1>2, OnlyMine DEF Users
<1>6. OpenKept
  <2>1. \A u \in Thread : file[u] # NULL => file[u] \in Vnode
    BY DEF IInv, VnodesInv, TypeOK
  <2> QED
    BY <1>3, <1>5, <2>1 DEF OpenKept
<1>7. Resident(i) = {v} /\ Current(i) = w.inode
  BY <1>1, CurrentIs DEF IInv, VnodesInv, OneVnode, Resident
<1>8. ASSUME NEW j \in Ino \ {i}
      PROVE  Same(j)
  <2>1. Resident(j)' = Resident(j) /\ v \notin Resident(j)
    BY <1>1, <1>3 DEF Resident
  <2>2. CASE Resident(j) = {}
    BY <1>4, <2>1, <2>2 DEF Current, Same
  <2>3. CASE Resident(j) # {}
    <3>1. PICK u \in Vnode : u # v /\ vn[u] # NULL /\ vn[u].ino = j
      BY <2>1, <2>3 DEF Resident
    <3>2. vn'[u] = vn[u]
      BY <1>3, <3>1
    <3> QED
      BY <3>1, <3>2, CurrentIs, CurrentWill DEF Same
  <2> QED
    BY <2>2, <2>3
<1>9. CASE w.inode.links = 0
  <2>1. Names(i) = {}
    <3>1. w.inode.links = Cardinality(Names(i))
      BY <1>1 DEF IInv, LinksExact
    <3> QED
      BY <1>9, <3>1, Finite, FS_EmptySet
  <2>2. \A n \in Name : dir[n] # i
    BY <2>1 DEF Names
  <2>3. \A u \in Thread : Opened[u] # i
    <3>1. \A u \in Thread : file[u] # NULL =>
            file[u] \in Vnode /\ vn[file[u]] # NULL /\ file[u] # v
      BY <1>5, There DEF IInv, VnodesInv
    <3>2. \A u \in Vnode : vn[u] # NULL /\ vn[u].ino = i => u = v
      BY <1>1 DEF IInv, VnodesInv, OneVnode
    <3> QED
      BY <3>1, <3>2, ConstantsAssumption DEF Opened, InodeOf
  <2>4. i \notin Exists
    BY <2>2, <2>3 DEF Exists
  <2> QED
    BY <1>2, <1>6, <1>8, <2>4, UnseenStep
<1>10. CASE w.inode.links # 0
  <2>1. Resident(i)' = {}
    BY <1>3, <1>7 DEF Resident
  <2>2. Current(i)' = WrittenBack(v)
    BY <1>4, <2>1 DEF Current
  <2>3. ~w.dirty => disk[i] = w.inode
    BY <1>1 DEF IInv, LinksExact
  <2>4. WrittenBack(v) = w.inode
    BY <1>1, <1>10, <2>3 DEF WrittenBack, Unused
  <2>5. Same(i)
    BY <1>7, <2>2, <2>4 DEF Same
  <2> QED
    BY <1>2, <1>6, <1>8, <2>5, UnseenStep
<1> QED
  BY <1>9, <1>10

(* A truncation that is done is one of a file that does not exist.         *)
LEMMA EraseFailsUnseen ==
    ASSUME IInv, IInv', NEW t \in Thread, EraseFails(t)
    PROVE  Unseen
<1>1. PICK v \in Vnode, w \in SfsVnode, i \in Ino :
        v = hand[t] /\ w = vn[v] /\ vn[v] # NULL /\ i = w.ino
  BY InHand DEF EraseFails
<1>2. /\ pc[t] = "erase" /\ dir' = dir /\ file' = file /\ disk' = disk
      /\ \/ vn' = vn
         \/ /\ w.inode.links = 0
            /\ \E size \in {0, w.inode.size} : vn' = [vn EXCEPT ![v] = Resized(v, size)]
  BY <1>1 DEF EraseFails, Unused
<1>3. CASE vn' = vn
  BY <1>2, <1>3, UnseenStep DEF Same, Current, Resident, OpenKept
<1>4. ASSUME w.inode.links = 0, NEW size \in {0, w.inode.size},
             vn' = [vn EXCEPT ![v] = Resized(v, size)]
      PROVE  Unseen
  <2>1. PICK x \in SfsVnode : vn' = [vn EXCEPT ![v] = x] /\ x.ino = i
    <3>1. w.inode.links \in Int /\ size \in 0 .. MaxSize
      BY ConstantsAssumption DEF SfsVnode, Inode
    <3>2. PICK y \in SfsVnode : y = Changed(w, w.inode.links, size) /\ y.ino = w.ino
      BY <3>1, ChangedVnode
    <3>3. Resized(v, size) = Changed(w, w.inode.links, size)
      BY <1>1 DEF Resized
    <3> QED
      BY <1>1, <1>4, <3>2, <3>3
  <2>2. (\A j \in Ino \ {i} : Current(j)' = Current(j)) /\ OpenKept
    <3>1. (vn[v] # NULL => vn[v].ino = i) /\ \A j \in Ino \ {i} : disk'[j] = disk[j]
      BY <1>1, <1>2
    <3> QED
      BY <2>1, <3>1, Put
  <2>3. \A n \in Name : dir[n] # i
    <3>1. w.inode.links = Cardinality(Names(i))
      BY <1>1 DEF IInv, LinksExact
    <3>2. Names(i) = {}
      BY <1>4, <3>1, Finite, FS_EmptySet
    <3> QED
      BY <3>2 DEF Names
  <2>4. \A u \in Thread : Opened[u] # i
    <3>1. \A u \in Thread : file[u] # v
      BY <1>1, <1>2, OnlyMine DEF Users
    <3>2. \A u \in Thread : file[u] # NULL =>
            file[u] \in Vnode /\ vn[file[u]] # NULL /\ file[u] # v
      BY <3>1, There DEF IInv, VnodesInv
    <3>3. \A u \in Vnode : vn[u] # NULL /\ vn[u].ino = i => u = v
      BY <1>1 DEF IInv, VnodesInv, OneVnode
    <3> QED
      BY <3>2, <3>3, ConstantsAssumption DEF Opened, InodeOf
  <2>5. i \notin Exists
    BY <2>3, <2>4 DEF Exists
  <2> QED
    BY <1>2, <2>2, <2>5, UnseenStep DEF Same
<1> QED
  BY <1>2, <1>3, <1>4

-----------------------------------------------------------------------------
(* sfs_sync writes what is in memory, so that it is the same on disk.      *)
LEMMA SyncUnseen ==
    ASSUME IInv, IInv', Sync
    PROVE  Unseen
<1>1. PICK s \in SUBSET Dirty :
        /\ disk' = Written(s)
        /\ vn' = [v \in Vnode |-> IF v \in s THEN Cleaned(vn[v]) ELSE vn[v]]
  BY DEF Sync
<1>2. dir' = dir /\ file' = file
  BY DEF Sync
<1>3. \A v \in Vnode : /\ v \notin s => vn'[v] = vn[v]
                       /\ v \in s => vn'[v] = Cleaned(vn[v])
  BY <1>1
<1>4. \A v \in s : v \in Vnode /\ vn[v] # NULL
  BY DEF Dirty
<1>5. \A v \in Vnode : /\ vn'[v] = NULL <=> vn[v] = NULL
                       /\ vn[v] # NULL => /\ vn'[v].ino = vn[v].ino
                                          /\ vn'[v].inode = vn[v].inode
  <2>1. ASSUME NEW v \in s
        PROVE  vn'[v] # NULL /\ vn'[v].ino = vn[v].ino /\ vn'[v].inode = vn[v].inode
    <3>1. PICK w \in SfsVnode : w = vn[v]
      BY <1>4, <2>1 DEF IInv, VnodesInv, TypeOK
    <3>2. Cleaned(w) \in SfsVnode /\ Cleaned(w).ino = w.ino /\ Cleaned(w).inode = w.inode
      BY DEF Cleaned, SfsVnode
    <3> QED
      BY <1>3, <1>4, <3>1, <3>2, NullAssumption
  <2> QED
    BY <1>3, <1>4, <2>1
<1>6. ASSUME NEW i \in Ino
      PROVE  Same(i)
  <2>1. Resident(i)' = Resident(i)
    BY <1>5 DEF Resident
  <2>2. CASE Resident(i) = {}
    <3>1. disk'[i] = disk[i]
      BY <1>1, <2>2 DEF Written
    <3> QED
      BY <2>1, <2>2, <3>1 DEF Current, Same
  <2>3. CASE Resident(i) # {}
    <3>1. PICK w \in Vnode : vn[w] # NULL /\ vn[w].ino = i
      BY <2>3 DEF Resident
    <3>2. vn'[w] # NULL /\ vn'[w].ino = i /\ vn'[w].inode = vn[w].inode
      BY <1>5, <3>1
    <3> QED
      BY <3>1, <3>2, CurrentIs, CurrentWill DEF Same
  <2> QED
    BY <2>2, <2>3
<1>7. OpenKept
  <2>1. \A t \in Thread : file[t] # NULL => file[t] \in Vnode /\ vn[file[t]] # NULL
    BY There DEF IInv, VnodesInv
  <2> QED
    BY <1>5, <2>1 DEF OpenKept
<1> QED
  BY <1>2, <1>6, <1>7, UnseenStep

LEMMA MountUnseen ==
    ASSUME Unmount \/ Mount \/ UNCHANGED vars
    PROVE  Unseen
<1>1. UNCHANGED <<dir, disk, vn, file>>
  BY DEF Unmount, Mount, vars
<1>2. (\A i \in Ino : Same(i)) /\ OpenKept
  BY <1>1 DEF Same, Current, Resident, OpenKept
<1> QED
  BY <1>1, <1>2, UnseenStep

LEMMA InitFiles == Init => Files!Init
<1> SUFFICES ASSUME Init PROVE Files!Init
  OBVIOUS
<1>1. Opened = [t \in Thread |-> NULL]
  BY DEF Init, Opened, InodeOf
<1>2. \A i \in Ino : i \notin Exists
  BY <1>1, ConstantsAssumption DEF Init, Exists
<1>3. Size = [i \in Ino |-> NULL]
  BY <1>2 DEF Size
<1> QED
  BY <1>1, <1>3 DEF Init, Files!Init

LEMMA StepFiles == IInv /\ IInv' /\ [Next]_vars => Files!Next \/ Unseen
<1> SUFFICES ASSUME IInv, IInv', [Next]_vars PROVE Files!Next \/ Unseen
  OBVIOUS
<1>1. ASSUME NEW t \in Thread, NEW n \in Name,
             Lookup(t, n) \/ Creat(t, n) \/ Link(t, n)
      PROVE  Files!Next
  <2>1. Files!Open(t, n) \/ (\E f \in Ino : Files!Create(t, n, f)) \/ Files!Link(t, n)
    BY <1>1, LookupOpens, CreatCreates, LinkLinks
  <2> QED
    BY <2>1 DEF Files!Next
<1>2. ASSUME NEW t \in Thread, NEW n \in Name, Remove(t, n)
      PROVE  Files!Next \/ Unseen
  <2>1. Files!Remove(n) \/ Unseen
    BY <1>2, RemoveRemoves
  <2> QED
    BY <2>1 DEF Files!Next
<1>3. ASSUME NEW t \in Thread, NEW old \in Name, NEW new \in Name, Rename(t, old, new)
      PROVE  Files!Next \/ Unseen
  <2>1. Files!Rename(old, new) \/ Unseen
    BY <1>3, RenameRenames
  <2> QED
    BY <2>1 DEF Files!Next
<1>4. ASSUME NEW t \in Thread, Write(t) \/ Truncate(t) \/ Close(t) \/ CloseLast(t)
      PROVE  Files!Next
  <2>1. (\E s \in 0 .. MaxSize : Files!Resize(t, s)) \/ Files!Close(t)
    BY <1>4, WriteResizes, CloseCloses
  <2> QED
    BY <2>1 DEF Files!Next
<1>5. ASSUME NEW t \in Thread,
             \/ CreatUnlinked(t) \/ CreatNoVnode(t)
             \/ Drop(t) \/ DropLast(t) \/ ReclaimBusy(t) \/ Reclaim(t)
             \/ Erase(t) \/ EraseFails(t)
      PROVE  Unseen
  BY <1>5, CreatFails, DropUnseen, EraseUnseen, EraseFailsUnseen
<1>6. CASE Sync \/ Unmount \/ Mount \/ UNCHANGED vars
  BY <1>6, SyncUnseen, MountUnseen
<1> QED
  BY <1>1, <1>2, <1>3, <1>4, <1>5, <1>6 DEF Next

(* SFS implements files: its steps are those of UnixFiles, or change       *)
(* nothing that user programs see, whatever is loaded, dropped, reclaimed, *)
(* synced or fails in the meantime (sfs_vnops.c, sfs_inode.c, vnode.c).    *)
THEOREM FilesImplemented == Spec => ImplementsFiles
<1>1. IInv /\ IInv' /\ [Next]_vars => [Files!Next]_<<dir, Opened, Size>>
  BY StepFiles DEF Unseen
<1> QED
  BY <1>1, InitFiles, Invariant, PTL DEF Spec, ImplementsFiles, Files!Spec
=============================================================================
