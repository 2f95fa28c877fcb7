-------------------------- MODULE OpenFilesProofs --------------------------
(***************************************************************************)
(* The reference counts of open files are exact, and shared positions are  *)
(* used one call at a time, for every number of processes, of openfiles    *)
(* and of descriptors.                                                     *)
(***************************************************************************)
EXTENDS OpenFiles, TLAPS, FiniteSetTheorems

(* The places where a reference can be. *)
Places == Proc \X (0 .. OPEN_MAX)
HandOf(p) == <<p, OPEN_MAX>>

(* They are finitely many, and a hand is no descriptor. *)
LEMMA FinitePlaces ==
    /\ IsFiniteSet(Places)
    /\ OPEN_MAX \in Nat \ {0} /\ OPEN_MAX \notin Fd /\ Fd \subseteq 0 .. OPEN_MAX
<1>1. IsFiniteSet(0 .. OPEN_MAX)
  BY FS_Interval, ConstantsAssumption
<1>2. IsFiniteSet(Places)
  BY <1>1, FS_Product, ConstantsAssumption DEF Places
<1> QED
  BY <1>2, ConstantsAssumption DEF Fd

(* So are the references to an openfile. *)
LEMMA FiniteRefs ==
    ASSUME NEW S, S \subseteq Places
    PROVE  IsFiniteSet(S) /\ Cardinality(S) \in Nat
  BY FinitePlaces, FS_Subset, FS_CardinalityType

(* One place changes from y to x: x has one reference more, y one less. *)
LEMMA Change ==
    ASSUME NEW p \in Proc, NEW d \in 0 .. OPEN_MAX, NEW x,
           \A q \in Proc, e \in 0 .. OPEN_MAX :
               Held(q, e)' = IF q = p /\ e = d THEN x ELSE Held(q, e),
           NEW f, x # Held(p, d)
    PROVE  Cardinality(Refs(f))' = Cardinality(Refs(f))
                                   + (IF f = x THEN 1 ELSE 0)
                                   - (IF f = Held(p, d) THEN 1 ELSE 0)
<1>1. Refs(f) \subseteq Places /\ IsFiniteSet(Refs(f))
  BY FiniteRefs DEF Refs, Places
<1>2. CASE f = x
  <2>1. Refs(f)' = Refs(f) \cup {<<p, d>>} /\ <<p, d>> \notin Refs(f)
    BY <1>2 DEF Refs
  <2> QED
    BY <1>1, <1>2, <2>1, FS_AddElement, FiniteRefs
<1>3. CASE f = Held(p, d)
  <2>1. Refs(f)' = Refs(f) \ {<<p, d>>} /\ <<p, d>> \in Refs(f)
    BY <1>3 DEF Refs
  <2> QED
    BY <1>1, <1>3, <2>1, FS_RemoveElement, FiniteRefs, SMTT(30)
<1>4. CASE f # x /\ f # Held(p, d)
  <2>1. Refs(f)' = Refs(f)
    BY <1>4 DEF Refs
  <2> QED
    BY <1>1, <1>4, <2>1, FiniteRefs
<1> QED
  BY <1>2, <1>3, <1>4

(* What a place refers to is allocated. *)
LEMMA Reachable ==
    ASSUME TypeOK, RefcountExact,
           NEW p \in Proc, NEW d \in 0 .. OPEN_MAX, Held(p, d) # NULL
    PROVE  /\ Held(p, d) \in Live /\ of[Held(p, d)] \in Openfile
           /\ of[Held(p, d)].refcount \in Nat \ {0}
<1> DEFINE f == Held(p, d)
<1>1. f \in File
  <2>1. d = OPEN_MAX \/ d \in Fd
    BY ConstantsAssumption DEF Fd
  <2> QED
    BY <2>1, FinitePlaces DEF TypeOK, Held
<1>2. <<p, d>> \in Refs(f) /\ Refs(f) \subseteq Places
  BY DEF Refs, Places
<1>3. Cardinality(Refs(f)) # 0 /\ Cardinality(Refs(f)) \in Nat
  BY <1>2, FiniteRefs, FS_EmptySet
<1>4. of[f] # NULL /\ of[f].refcount = Cardinality(Refs(f))
  BY <1>1, <1>3 DEF RefcountExact
<1> QED
  BY <1>1, <1>3, <1>4 DEF TypeOK, Live

(* A descriptor and a hand are places. *)
LEMMA HeldAt ==
    /\ \A p \in Proc : Held(p, OPEN_MAX) = hand[p] /\ Held(p, OPEN_MAX)' = hand'[p]
    /\ \A p \in Proc, d \in Fd : Held(p, d) = ft[p][d] /\ Held(p, d)' = ft'[p][d]
  BY FinitePlaces DEF Held

(* An openfile whose count is one is referred to from one place only. *)
LEMMA Alone ==
    ASSUME RefcountExact, NEW f \in Live, of[f].refcount = 1,
           NEW p \in Proc, NEW d \in 0 .. OPEN_MAX, Held(p, d) = f,
           NEW q \in Proc, NEW e \in 0 .. OPEN_MAX, Held(q, e) = f
    PROVE  p = q /\ d = e
<1>1. Cardinality(Refs(f)) = 1
  BY DEF RefcountExact, Live
<1>2. <<p, d>> \in Refs(f) /\ <<q, e>> \in Refs(f) /\ Refs(f) \subseteq Places
  BY DEF Refs, Places
<1>3. PICK r : Refs(f) = {r}
  BY <1>1, <1>2, FiniteRefs, FS_Singleton
<1> QED
  BY <1>2, <1>3

(* Nothing refers to what is not allocated. *)
LEMMA Unreferenced ==
    ASSUME RefcountExact, NEW f \in File \ Live,
           NEW p \in Proc, NEW d \in 0 .. OPEN_MAX
    PROVE  Held(p, d) # f
<1>1. Cardinality(Refs(f)) = 0 /\ IsFiniteSet(Refs(f))
  BY FiniteRefs DEF RefcountExact, Live, Refs, Places
<1>2. Refs(f) = {}
  BY <1>1, FS_EmptySet
<1> SUFFICES ASSUME Held(p, d) = f PROVE FALSE
  OBVIOUS
<1>3. <<p, d>> \in Refs(f)
  BY DEF Refs
<1> QED
  BY <1>2, <1>3

(* Who is at a table has it for itself: a process that runs is not the one *)
(* the table is for, nor has it the table too. *)
LEMMA OwnTable ==
    ASSUME TypeOK, TableInv, NEW p \in Proc, OnTable(p),
           NEW q \in Proc, q # p, pc[q] # "embryo"
    PROVE  arg[p].whose # q /\ arg[q].whose # arg[p].whose
<1> DEFINE w == arg[p].whose
<1>1. w \in Proc
  BY DEF TypeOK, Locals
<1>2. CASE w = p
  <2>1. arg[q].whose # q => pc[arg[q].whose] = "embryo"
    BY DEF TableInv
  <2> QED
    BY <1>2, <2>1 DEF OnTable
<1>3. CASE w # p
  <2>1. pc[w] = "embryo" /\ \A r \in Proc \ {p, w} : arg[r].whose # w
    BY <1>3 DEF TableInv
  <2> QED
    BY <1>3, <2>1
<1> QED
  BY <1>2, <1>3

(* At the start there is nothing to count. *)
THEOREM InitInv == Init => OpenFilesInv /\ RefcountExact
<1> SUFFICES ASSUME Init PROVE OpenFilesInv /\ RefcountExact
  OBVIOUS
<1> USE ConstantsAssumption, NullAssumption
<1>1. TypeOK
  BY DEF Init, TypeOK, Place, Locals, NoArg, Pos
<1>2. HandInv /\ CallInv
  BY DEF Init, HandInv, CallInv, Holding, Destroying, Moving
<1>3. TableInv /\ EmptyInv
  <2>1. \A p \in Proc : arg[p].whose = p /\ arg[p].fd = 0 /\ pc[p] = "none"
    BY DEF Init, NoArg
  <2>2. \A p \in Proc, d \in Fd : ft[p][d] = NULL
    BY DEF Init
  <2>3. TableInv
    <3>1. 0 \in Fd
      BY DEF Fd
    <3> QED
      BY <2>1, <3>1 DEF TableInv, OnTable
  <2>4. EmptyInv
    BY <2>1, <2>2 DEF EmptyInv, OnTable
  <2> QED
    BY <2>3, <2>4
<1>4. RefcountExact
  <2>1. \A f \in File : Refs(f) = {}
    BY DEF Init, Refs, Held, Fd
  <2> QED
    BY <2>1, FS_EmptySet DEF RefcountExact, Init
<1> QED
  BY <1>1, <1>2, <1>3, <1>4 DEF OpenFilesInv

(* The openfiles that calls work on are allocated. *)
LEMMA Operands ==
    ASSUME OpenFilesInv, RefcountExact, NEW p \in Proc
    PROVE  /\ Holding(p) => hand[p] \in Live /\ of[hand[p]].refcount # 0
           /\ \A q \in Proc, d \in Fd :
                  ft[q][d] # NULL => ft[q][d] \in Live /\ of[ft[q][d]].refcount # 0
           /\ Moving(p) \/ pc[p] = "transfer" => arg[p].fd \in Fd /\ Got(p) \in Live
<1>1. Holding(p) => hand[p] \in Live /\ of[hand[p]].refcount # 0
  BY Reachable, HeldAt, FinitePlaces DEF OpenFilesInv, HandInv
<1>2. \A q \in Proc, d \in Fd :
          ft[q][d] # NULL => ft[q][d] \in Live /\ of[ft[q][d]].refcount # 0
  BY Reachable, HeldAt, FinitePlaces DEF OpenFilesInv
<1>3. Moving(p) \/ pc[p] = "transfer" => arg[p].fd \in Fd /\ Got(p) # NULL
  BY DEF OpenFilesInv, CallInv, TableInv, Moving, OnTable
<1> QED
  BY <1>1, <1>2, <1>3 DEF Got

LEMMA LiveType ==
    ASSUME TypeOK, NEW f \in Live
    PROVE  f \in File /\ f # NULL /\ of[f] \in Openfile /\ of[f].refcount \in Nat
  BY NullAssumption DEF TypeOK, Live, Openfile

(* What actions do to an openfile is well typed. *)
LEMMA OfTypes ==
    ASSUME TypeOK, NEW f \in Live
    PROVE  LET Files == [File -> Openfile \cup {NULL}] IN
           /\ [of EXCEPT ![f] = NULL] \in Files
           /\ \A n \in Nat : [of EXCEPT ![f].refcount = n] \in Files
           /\ \A l \in Proc \cup {NULL} :
                  /\ [of EXCEPT ![f].offsetlock = l] \in Files
                  /\ \A o \in Pos : [of EXCEPT ![f].offset = o, ![f].offsetlock = l] \in Files
<1> DEFINE Files == [File -> Openfile \cup {NULL}]
<1>1. \A x \in Openfile \cup {NULL} : [of EXCEPT ![f] = x] \in Files
  BY LiveType DEF TypeOK
<1>2. \A n \in Nat : [of EXCEPT ![f].refcount = n] \in Files
  BY LiveType, <1>1 DEF Openfile
<1>3. \A l \in Proc \cup {NULL} : [of EXCEPT ![f].offsetlock = l] \in Files
  BY LiveType, <1>1 DEF Openfile
<1>4. \A l \in Proc \cup {NULL}, o \in Pos :
          [of EXCEPT ![f].offset = o, ![f].offsetlock = l] \in Files
  BY LiveType, <1>1 DEF Openfile
<1> QED
  BY <1>1, <1>2, <1>3, <1>4

(* So is what they do to their locals. *)
LEMMA ArgTypes ==
    ASSUME TypeOK, NEW p \in Proc
    PROVE  LET Args == [Proc -> Locals] IN
           /\ [arg EXCEPT ![p] = NoArg(p)] \in Args
           /\ \A d \in 0 .. OPEN_MAX :
                  /\ [arg EXCEPT ![p].fd = d] \in Args
                  /\ \A how \in {"UIO_READ", "UIO_WRITE"} :
                         [arg EXCEPT ![p].fd = d, ![p].rw = how] \in Args
           /\ \A n \in Pos : /\ [arg EXCEPT ![p].pos = n] \in Args
                              /\ [arg EXCEPT ![p].moved = n] \in Args
           /\ \A q \in Proc : [arg EXCEPT ![p].fd = 0, ![p].whose = q] \in Args
<1> DEFINE Args == [Proc -> Locals]
<1>0. arg[p] \in Locals
  BY DEF TypeOK
<1>1. \A x \in Locals : [arg EXCEPT ![p] = x] \in Args
  BY DEF TypeOK
<1>2. NoArg(p) \in Locals
  BY ConstantsAssumption DEF NoArg, Locals, Pos
<1>3. \A d \in 0 .. OPEN_MAX : [arg EXCEPT ![p].fd = d] \in Args
  BY <1>0, <1>1 DEF Locals
<1>4. \A d \in 0 .. OPEN_MAX, how \in {"UIO_READ", "UIO_WRITE"} :
          [arg EXCEPT ![p].fd = d, ![p].rw = how] \in Args
  BY <1>0, <1>1 DEF Locals
<1>5. \A n \in Pos : /\ [arg EXCEPT ![p].pos = n] \in Args
                     /\ [arg EXCEPT ![p].moved = n] \in Args
  BY <1>0, <1>1 DEF Locals
<1>6. \A q \in Proc : [arg EXCEPT ![p].fd = 0, ![p].whose = q] \in Args
  BY <1>0, <1>1, ConstantsAssumption DEF Locals
<1> QED
  BY <1>1, <1>2, <1>3, <1>4, <1>5, <1>6

(* Where a copy or a destruction is. *)
LEMMA TableArg ==
    ASSUME TypeOK, NEW p \in Proc
    PROVE  /\ arg[p] \in Locals /\ arg[p].whose \in Proc
           /\ arg[p].pos \in Pos /\ arg[p].moved \in Pos
           /\ arg[p].fd \in 0 .. OPEN_MAX
           /\ arg[p].fd < OPEN_MAX => arg[p].fd \in Fd /\ arg[p].fd + 1 \in 0 .. OPEN_MAX
<1>1. arg[p] \in Locals
  BY DEF TypeOK
<1> QED
  BY <1>1, ConstantsAssumption DEF Locals, Fd

(* What one process may do. *)
StepOf(p) ==
    \/ RunProgram(p) \/ Open(p) \/ PlaceFile(p) \/ PlaceFails(p)
    \/ Decref(p) \/ DecrefLast(p) \/ Destroy(p)
    \/ Close(p) \/ Dup2(p) \/ DupPlace(p) \/ DupReplace(p)
    \/ ReadWrite(p) \/ Lock(p) \/ Transfer(p) \/ Update(p) \/ ReadWriteEnds(p)
    \/ Lseek(p) \/ SeekLock(p) \/ Seek(p) \/ SeekFails(p)
    \/ Fork(p) \/ Copy(p) \/ ForkDone(p) \/ ForkFails(p)
    \/ Exit(p) \/ Drop(p) \/ DropLast(p) \/ DropDestroy(p) \/ DropDone(p)

(* Every step keeps the types. *)
LEMMA TypeStep ==
    ASSUME OpenFilesInv, RefcountExact, Next
    PROVE  TypeOK'
<1>0. PICK p \in Proc : StepOf(p)
  BY DEF Next, StepOf
<1> USE DEF OpenFilesInv
<1> DEFINE Files == [File -> Openfile \cup {NULL}]
           Args == [Proc -> Locals]
           Tables == [Proc -> [Fd -> File \cup {NULL}]]
           Hands == [Proc -> File \cup {NULL}]
<1>1. of \in Files /\ arg \in Args /\ ft \in Tables /\ hand \in Hands /\ pc \in [Proc -> Place]
  BY DEF TypeOK
<1>2. /\ \A x \in Place, q \in Proc : [pc EXCEPT ![q] = x] \in [Proc -> Place]
      /\ \A x \in File \cup {NULL}, q \in Proc : [hand EXCEPT ![q] = x] \in Hands
      /\ \A x \in File \cup {NULL}, q \in Proc, d \in Fd : [ft EXCEPT ![q][d] = x] \in Tables
  BY <1>1
<1>3. CASE RunProgram(p)
  BY <1>3, <1>1, <1>2
  DEF RunProgram, Go, Return, Place, TypeOK
<1>4. CASE Open(p)
  <2>1. of' \in Files
    <3>1. PICK f \in File \ Live, v \in Vnode, m \in AccMode :
         of' = [of EXCEPT ![f] = [vnode |-> v, accmode |-> m, offset |-> 0,
         refcount |-> 1, offsetlock |-> NULL]]
      BY <1>4 DEF Open
    <3>2. [vnode |-> v, accmode |-> m, offset |-> 0, refcount |-> 1, offsetlock |-> NULL] \in Openfile
      BY ConstantsAssumption DEF Openfile, Pos
    <3> QED
      BY <1>1, <3>1, <3>2
  <2>2. ft' \in Tables
    BY <1>4, <1>1 DEF Open
  <2>3. pc' \in [Proc -> Place]
    BY <1>4, <1>2 DEF Open, Go, Return, Place
  <2>4. hand' \in Hands
    BY <1>4, <1>2 DEF Open, Live
  <2>5. arg' \in Args
    BY <1>4, <1>1 DEF Open
  <2> QED
    BY <1>1, <2>1, <2>2, <2>3, <2>4, <2>5 DEF TypeOK
<1>5. CASE PlaceFile(p)
  <2>1. of' \in Files
    BY <1>5, <1>1 DEF PlaceFile
  <2>2. ft' \in Tables
    <3>1. PICK d \in Fd : ft' = [ft EXCEPT ![p][d] = hand[p]]
      BY <1>5 DEF PlaceFile, Chosen, FreeFd
    <3> QED
      BY <1>1, <1>2, <3>1
  <2>3. pc' \in [Proc -> Place]
    BY <1>5, <1>2 DEF PlaceFile, Go, Return, Place
  <2>4. hand' \in Hands
    BY <1>5, <1>2 DEF PlaceFile
  <2>5. arg' \in Args
    BY <1>5, <1>1 DEF PlaceFile
  <2> QED
    BY <1>1, <2>1, <2>2, <2>3, <2>4, <2>5 DEF TypeOK
<1>6. CASE PlaceFails(p)
  BY <1>6, <1>1, <1>2
  DEF PlaceFails, Go, Return, Place, TypeOK
<1>7. CASE Decref(p)
  <2>1. of' \in Files
    <3>1. hand[p] \in Live /\ of[hand[p]].refcount - 1 \in Nat
      BY <1>7, Operands, LiveType DEF Decref, Return, Go, Holding
    <3> QED
      BY <1>7, <3>1, OfTypes DEF Decref, Lower
  <2>2. ft' \in Tables
    BY <1>7, <1>1 DEF Decref
  <2>3. pc' \in [Proc -> Place]
    BY <1>7, <1>2 DEF Decref, Go, Return, Place
  <2>4. hand' \in Hands
    BY <1>7, <1>2 DEF Decref
  <2>5. arg' \in Args
    BY <1>7, ArgTypes DEF Decref, Return
  <2> QED
    BY <1>1, <2>1, <2>2, <2>3, <2>4, <2>5 DEF TypeOK
<1>8. CASE DecrefLast(p)
  BY <1>8, <1>1, <1>2
  DEF DecrefLast, Go, Return, Place, TypeOK
<1>9. CASE Destroy(p)
  BY <1>9, <1>1, <1>2, Operands, OfTypes, ArgTypes
  DEF Destroy, Go, Return, Place, TypeOK, Holding, Destroying
<1>10. CASE Close(p)
  <2>1. of' \in Files
    BY <1>10, <1>1 DEF Close
  <2>2. ft' \in Tables
    <3>1. PICK d \in Fd : ft' = [ft EXCEPT ![p][d] = NULL]
      BY <1>10 DEF Close
    <3> QED
      BY <1>2, <3>1
  <2>3. pc' \in [Proc -> Place]
    BY <1>10, <1>2 DEF Close, Go, Return, Place
  <2>4. hand' \in Hands
    BY <1>10, <1>1, <1>2 DEF Close
  <2>5. arg' \in Args
    BY <1>10, <1>1 DEF Close
  <2> QED
    BY <1>1, <2>1, <2>2, <2>3, <2>4, <2>5 DEF TypeOK
<1>11. CASE Dup2(p)
  <2>1. of' \in Files
    <3>1. PICK d \in Fd : ft[p][d] # NULL /\ Incref(ft[p][d])
      BY <1>11 DEF Dup2
    <3>2. ft[p][d] \in Live /\ of[ft[p][d]].refcount + 1 \in Nat
      BY <3>1, Operands, LiveType
    <3> QED
      BY <3>1, <3>2, OfTypes DEF Incref
  <2>2. ft' \in Tables
    BY <1>11, <1>1 DEF Dup2
  <2>3. pc' \in [Proc -> Place]
    BY <1>11, <1>2 DEF Dup2, Go, Return, Place
  <2>4. hand' \in Hands
    BY <1>11, <1>1, <1>2 DEF Dup2
  <2>5. arg' \in Args
    <3>1. PICK d \in Fd : arg' = [arg EXCEPT ![p].fd = d]
      BY <1>11 DEF Dup2
    <3> QED
      BY <3>1, ArgTypes, FinitePlaces
  <2> QED
    BY <1>1, <2>1, <2>2, <2>3, <2>4, <2>5 DEF TypeOK
<1>12. CASE DupPlace(p)
  BY <1>12, <1>1, <1>2, ArgTypes
  DEF DupPlace, Go, Return, Place, TypeOK
<1>13. CASE DupReplace(p)
  <2>1. of' \in Files
    BY <1>13, <1>1 DEF DupReplace
  <2>2. ft' \in Tables
    BY <1>13, <1>1, <1>2 DEF DupReplace, Go, Return, Got
  <2>3. pc' \in [Proc -> Place]
    BY <1>13, <1>2 DEF DupReplace, Go, Return, Place
  <2>4. hand' \in Hands
    <3>1. arg[p].fd \in Fd
      BY <1>13 DEF DupReplace, Go, TableInv, OnTable
    <3> QED
      BY <1>13, <1>1, <1>2, <3>1 DEF DupReplace, Got
  <2>5. arg' \in Args
    BY <1>13, <1>1 DEF DupReplace
  <2> QED
    BY <1>1, <2>1, <2>2, <2>3, <2>4, <2>5 DEF TypeOK
<1>14. CASE ReadWrite(p)
  <2>1. of' \in Files
    BY <1>14, <1>1 DEF ReadWrite
  <2>2. ft' \in Tables
    BY <1>14, <1>1 DEF ReadWrite
  <2>3. pc' \in [Proc -> Place]
    <3>1. \E to \in Place : pc' = [pc EXCEPT ![p] = to]
      BY <1>14 DEF ReadWrite, Go, Place
    <3> QED
      BY <1>2, <3>1
  <2>4. hand' \in Hands
    BY <1>14, <1>1 DEF ReadWrite
  <2>5. arg' \in Args
    <3>1. PICK d \in Fd, how \in {"UIO_READ", "UIO_WRITE"} :
         arg' = [arg EXCEPT ![p].fd = d, ![p].rw = how]
      BY <1>14 DEF ReadWrite
    <3> QED
      BY <3>1, ArgTypes, FinitePlaces
  <2> QED
    BY <1>1, <2>1, <2>2, <2>3, <2>4, <2>5 DEF TypeOK
<1>15. CASE Lock(p)
  <2>1. of' \in Files
    <3>1. Got(p) \in Live
      BY <1>15, Operands DEF Lock, Go, Moving
    <3> QED
      BY <1>15, <3>1, OfTypes DEF Lock, Acquire
  <2>2. ft' \in Tables
    BY <1>15, <1>1 DEF Lock
  <2>3. pc' \in [Proc -> Place]
    BY <1>15, <1>2 DEF Lock, Go, Return, Place
  <2>4. hand' \in Hands
    BY <1>15, <1>1 DEF Lock
  <2>5. arg' \in Args
    <3>1. of[Got(p)].offset \in Pos
      BY <1>15, Operands, LiveType DEF Lock, Go, Moving, Openfile
    <3> QED
      BY <1>15, <3>1, ArgTypes DEF Lock
  <2> QED
    BY <1>1, <2>1, <2>2, <2>3, <2>4, <2>5 DEF TypeOK
<1>16. CASE Transfer(p)
  <2>1. of' \in Files
    BY <1>16, <1>1 DEF Transfer
  <2>2. ft' \in Tables
    BY <1>16, <1>1 DEF Transfer
  <2>3. pc' \in [Proc -> Place]
    BY <1>16, <1>2 DEF Transfer, Go, Return, Place
  <2>4. hand' \in Hands
    BY <1>16, <1>1 DEF Transfer
  <2>5. arg' \in Args
    <3>1. arg[p].pos \in Pos
      BY TableArg
    <3>2. \A n \in 0 .. MaxPos - arg[p].pos : n \in Pos
      BY <3>1, ConstantsAssumption DEF Pos
    <3>3. PICK n \in Pos : arg' = [arg EXCEPT ![p].moved = n]
      BY <1>16, <3>2 DEF Transfer
    <3> QED
      BY ArgTypes, <3>3
  <2> QED
    BY <1>1, <2>1, <2>2, <2>3, <2>4, <2>5 DEF TypeOK
<1>17. CASE Update(p)
  <2>1. of' \in Files
    <3>1. Got(p) \in Live /\ arg[p].pos + arg[p].moved \in Pos
      BY <1>17, Operands DEF Update, Return, Go, Moving, CallInv
    <3> QED
      BY <1>17, <3>1, OfTypes DEF Update
  <2>2. ft' \in Tables
    BY <1>17, <1>1 DEF Update
  <2>3. pc' \in [Proc -> Place]
    BY <1>17, <1>2 DEF Update, Go, Return, Place
  <2>4. hand' \in Hands
    BY <1>17, <1>1 DEF Update
  <2>5. arg' \in Args
    BY <1>17, ArgTypes DEF Update, Return
  <2> QED
    BY <1>1, <2>1, <2>2, <2>3, <2>4, <2>5 DEF TypeOK
<1>18. CASE ReadWriteEnds(p)
  <2>1. of' \in Files
    <3>1. Got(p) \in Live
      BY <1>18, Operands DEF ReadWriteEnds, Return, Go
    <3>2. [of EXCEPT ![Got(p)].offsetlock = NULL] \in Files
      BY <3>1, OfTypes
    <3>3. of' = [of EXCEPT ![Got(p)].offsetlock = NULL] \/ of' = of
      BY <1>18 DEF ReadWriteEnds, Release
    <3> QED
      BY <1>1, <3>2, <3>3
  <2>2. ft' \in Tables
    BY <1>18, <1>1 DEF ReadWriteEnds
  <2>3. pc' \in [Proc -> Place]
    BY <1>18, <1>2 DEF ReadWriteEnds, Go, Return, Place
  <2>4. hand' \in Hands
    BY <1>18, <1>1 DEF ReadWriteEnds
  <2>5. arg' \in Args
    BY <1>18, ArgTypes DEF ReadWriteEnds, Return
  <2> QED
    BY <1>1, <2>1, <2>2, <2>3, <2>4, <2>5 DEF TypeOK
<1>19. CASE Lseek(p)
  <2>1. of' \in Files
    BY <1>19, <1>1 DEF Lseek
  <2>2. ft' \in Tables
    BY <1>19, <1>1 DEF Lseek
  <2>3. pc' \in [Proc -> Place]
    BY <1>19, <1>2 DEF Lseek, Go, Return, Place
  <2>4. hand' \in Hands
    BY <1>19, <1>1 DEF Lseek
  <2>5. arg' \in Args
    <3>1. PICK d \in Fd : arg' = [arg EXCEPT ![p].fd = d]
      BY <1>19 DEF Lseek
    <3> QED
      BY <3>1, ArgTypes, FinitePlaces
  <2> QED
    BY <1>1, <2>1, <2>2, <2>3, <2>4, <2>5 DEF TypeOK
<1>20. CASE SeekLock(p)
  BY <1>20, <1>1, <1>2, Operands, OfTypes
  DEF SeekLock, Go, Return, Place, TypeOK, Acquire, Moving
<1>21. CASE Seek(p)
  <2>1. of' \in Files
    <3>1. Got(p) \in Live
      BY <1>21, Operands DEF Seek, Return, Go, Moving
    <3>2. PICK n \in -1 .. MaxPos : /\ n >= 0
         /\ of' = [of EXCEPT ![Got(p)].offset = n, ![Got(p)].offsetlock = NULL]
      BY <1>21 DEF Seek, Accepts
    <3>3. n \in Pos
      BY <3>2, ConstantsAssumption DEF Pos
    <3> QED
      BY <3>1, <3>2, <3>3, OfTypes
  <2>2. ft' \in Tables
    BY <1>21, <1>1 DEF Seek
  <2>3. pc' \in [Proc -> Place]
    BY <1>21, <1>2 DEF Seek, Go, Return, Place
  <2>4. hand' \in Hands
    BY <1>21, <1>1 DEF Seek
  <2>5. arg' \in Args
    BY <1>21, ArgTypes DEF Seek, Return
  <2> QED
    BY <1>1, <2>1, <2>2, <2>3, <2>4, <2>5 DEF TypeOK
<1>22. CASE SeekFails(p)
  BY <1>22, <1>1, <1>2, Operands, OfTypes, ArgTypes
  DEF SeekFails, Go, Return, Place, TypeOK, Release, Moving
<1>23. CASE Fork(p)
  <2>1. of' \in Files
    BY <1>23, <1>1 DEF Fork
  <2>2. ft' \in Tables
    BY <1>23, <1>1 DEF Fork
  <2>3. pc' \in [Proc -> Place]
    BY <1>23, <1>1 DEF Fork, Place
  <2>4. hand' \in Hands
    BY <1>23, <1>1 DEF Fork
  <2>5. arg' \in Args
    <3>1. PICK q \in Proc : arg' = [arg EXCEPT ![p].fd = 0, ![p].whose = q]
      BY <1>23 DEF Fork
    <3> QED
      BY <3>1, ArgTypes
  <2> QED
    BY <1>1, <2>1, <2>2, <2>3, <2>4, <2>5 DEF TypeOK
<1>24. CASE Copy(p)
  <2>1. of' \in Files
    <3>1. CASE Increfs(Got(p))
      <4>1. Got(p) \in Live /\ of[Got(p)].refcount + 1 \in Nat
        BY <1>24, <3>1, TableArg, Operands, LiveType DEF Copy, Increfs, Got
      <4> QED
        BY <1>24, <3>1, <4>1, OfTypes DEF Copy, Incref
    <3>2. CASE ~Increfs(Got(p))
      BY <1>24, <1>1, <3>2 DEF Copy
    <3> QED
      BY <3>1, <3>2
  <2>2. ft' \in Tables
    <3>1. arg[p].fd \in Fd /\ arg[p].whose \in Proc
      BY <1>24, TableArg DEF Copy
    <3> QED
      BY <1>24, <1>1, <1>2, <3>1 DEF Copy, Got
  <2>3. pc' \in [Proc -> Place]
    BY <1>24, <1>1 DEF Copy
  <2>4. hand' \in Hands
    BY <1>24, <1>1 DEF Copy
  <2>5. arg' \in Args
    BY <1>24, ArgTypes, TableArg DEF Copy
  <2> QED
    BY <1>1, <2>1, <2>2, <2>3, <2>4, <2>5 DEF TypeOK
<1>25. CASE ForkDone(p)
  BY <1>25, <1>1, <1>2, ArgTypes
  DEF ForkDone, Go, Return, Place, TypeOK
<1>26. CASE ForkFails(p)
  <2>1. of' \in Files
    BY <1>26, <1>1 DEF ForkFails
  <2>2. ft' \in Tables
    BY <1>26, <1>1 DEF ForkFails
  <2>3. pc' \in [Proc -> Place]
    BY <1>26, <1>2 DEF ForkFails, Go, Return, Place
  <2>4. hand' \in Hands
    BY <1>26, <1>1 DEF ForkFails
  <2>5. arg' \in Args
    <3>1. 0 \in 0 .. OPEN_MAX /\ arg' = [arg EXCEPT ![p].fd = 0]
      BY <1>26, ConstantsAssumption DEF ForkFails
    <3> QED
      BY <3>1, ArgTypes
  <2> QED
    BY <1>1, <2>1, <2>2, <2>3, <2>4, <2>5 DEF TypeOK
<1>27. CASE Exit(p)
  <2>1. 0 \in 0 .. OPEN_MAX
    BY FinitePlaces
  <2>2. arg' \in Args
    BY <1>27, <2>1, ArgTypes DEF Exit
  <2>3. of' \in Files /\ ft' \in Tables /\ pc' \in [Proc -> Place] /\ hand' \in Hands
    BY <1>27, <1>1, <1>2 DEF Exit, Go, Place
  <2> QED
    BY <2>2, <2>3 DEF TypeOK
<1>28. CASE Drop(p)
  <2>1. of' \in Files
    <3>1. CASE Doomed(p) # NULL
      <4>1. Doomed(p) \in Live /\ of[Doomed(p)].refcount - 1 \in Nat
        BY <1>28, <3>1, TableArg, Operands, LiveType DEF Drop, Dropping, Doomed
      <4> QED
        BY <1>28, <3>1, <4>1, OfTypes DEF Drop, Lower
    <3>2. CASE Doomed(p) = NULL
      BY <1>28, <1>1, <3>2 DEF Drop
    <3> QED
      BY <3>1, <3>2
  <2>2. ft' \in Tables
    <3>1. arg[p].fd \in Fd /\ arg[p].whose \in Proc
      BY <1>28, TableArg DEF Drop, Dropping
    <3> QED
      BY <1>28, <1>1, <1>2, <3>1 DEF Drop, DropNext
  <2>3. pc' \in [Proc -> Place]
    BY <1>28, <1>1 DEF Drop
  <2>4. hand' \in Hands
    BY <1>28, <1>1 DEF Drop
  <2>5. arg' \in Args
    BY <1>28, ArgTypes, TableArg DEF Drop, Dropping, DropNext
  <2> QED
    BY <1>1, <2>1, <2>2, <2>3, <2>4, <2>5 DEF TypeOK
<1>29. CASE DropLast(p)
  <2>1. of' \in Files
    BY <1>29, <1>1 DEF DropLast
  <2>2. ft' \in Tables
    <3>1. arg[p].fd \in Fd /\ arg[p].whose \in Proc
      BY <1>29, TableArg DEF DropLast, Dropping
    <3> QED
      BY <1>29, <1>1, <1>2, <3>1 DEF DropLast, DropNext
  <2>3. pc' \in [Proc -> Place]
    BY <1>29, <1>2 DEF DropLast, Go, Return, Place
  <2>4. hand' \in Hands
    <3>1. arg[p].fd \in Fd /\ arg[p].whose \in Proc
      BY <1>29, TableArg DEF DropLast, Dropping
    <3>2. Doomed(p) \in File \cup {NULL} /\ hand' = [hand EXCEPT ![p] = Doomed(p)]
      BY <1>29, <1>1, <3>1 DEF DropLast, Doomed
    <3> QED
      BY <1>2, <3>2
  <2>5. arg' \in Args
    BY <1>29, ArgTypes, TableArg DEF DropLast, Dropping, DropNext
  <2> QED
    BY <1>1, <2>1, <2>2, <2>3, <2>4, <2>5 DEF TypeOK
<1>30. CASE DropDestroy(p)
  BY <1>30, <1>1, <1>2, Operands, OfTypes
  DEF DropDestroy, Go, Return, Place, TypeOK, Holding, Destroying
<1>31. CASE DropDone(p)
  BY <1>31, <1>1, <1>2, ArgTypes
  DEF DropDone, Go, Return, Place, TypeOK
<1> QED
  BY <1>0, <1>3, <1>4, <1>5, <1>6, <1>7, <1>8, <1>9, <1>10, <1>11, <1>12, <1>13,
     <1>14, <1>15, <1>16, <1>17, <1>18, <1>19, <1>20, <1>21, <1>22, <1>23,
     <1>24, <1>25, <1>26, <1>27, <1>28, <1>29, <1>30, <1>31 DEF StepOf

(* What is held where after a step that writes a slot, or a hand. *)
LEMMA SlotOrHand ==
    ASSUME NEW e \in 0 .. OPEN_MAX
    PROVE  e # OPEN_MAX <=> e \in Fd
  BY ConstantsAssumption DEF Fd

LEMMA HeldHand ==
    ASSUME TypeOK, NEW p \in Proc, NEW y,
           ft' = ft, hand' = [hand EXCEPT ![p] = y]
    PROVE  \A r \in Proc, e \in 0 .. OPEN_MAX :
               Held(r, e)' = IF r = p /\ e = OPEN_MAX THEN y ELSE Held(r, e)
  BY DEF Held, TypeOK

(* A step that moves no reference. *)
LEMMA CountSame ==
    ASSUME RefcountExact, UNCHANGED <<ft, hand>>,
           \A f \in File : /\ of'[f] = NULL <=> of[f] = NULL
                           /\ of[f] # NULL => of'[f].refcount = of[f].refcount
    PROVE  RefcountExact'
<1>1. \A f \in File : Refs(f)' = Refs(f)
  BY DEF Refs, Held
<1> QED
  BY <1>1 DEF RefcountExact

(* A step that makes a reference. *)
LEMMA CountMore ==
    ASSUME RefcountExact, NEW f \in File,
           NEW p \in Proc, NEW d \in 0 .. OPEN_MAX, Held(p, d) = NULL,
           \A q \in Proc, e \in 0 .. OPEN_MAX :
               Held(q, e)' = IF q = p /\ e = d THEN f ELSE Held(q, e),
           \A g \in File : g # f => of'[g] = of[g],
           of'[f] # NULL,
           of'[f].refcount = 1 + (IF of[f] = NULL THEN 0 ELSE of[f].refcount)
    PROVE  RefcountExact'
<1>0. f # Held(p, d)
  BY NullAssumption
<1>1. ASSUME NEW g
      PROVE  Cardinality(Refs(g))' = Cardinality(Refs(g)) + (IF g = f THEN 1 ELSE 0)
                                     - (IF g = Held(p, d) THEN 1 ELSE 0)
  BY ONLY <1>0, Change, \A q \in Proc, e \in 0 .. OPEN_MAX :
               Held(q, e)' = IF q = p /\ e = d THEN f ELSE Held(q, e)
<1>2. \A g \in File : Cardinality(Refs(g)) \in Nat
  BY FiniteRefs DEF Refs, Places
<1> QED
  BY <1>1, <1>2, NullAssumption DEF RefcountExact

(* A step that drops one. *)
LEMMA CountLess ==
    ASSUME RefcountExact, NEW f \in File,
           NEW p \in Proc, NEW d \in 0 .. OPEN_MAX, Held(p, d) = f,
           \A q \in Proc, e \in 0 .. OPEN_MAX :
               Held(q, e)' = IF q = p /\ e = d THEN NULL ELSE Held(q, e),
           \A g \in File : g # f => of'[g] = of[g],
           of[f] # NULL,
           IF of'[f] = NULL THEN of[f].refcount = 1
           ELSE of'[f].refcount = of[f].refcount - 1
    PROVE  RefcountExact'
<1>0. NULL # Held(p, d)
  BY NullAssumption
<1>1. ASSUME NEW g
      PROVE  Cardinality(Refs(g))' = Cardinality(Refs(g)) + (IF g = NULL THEN 1 ELSE 0)
                                     - (IF g = Held(p, d) THEN 1 ELSE 0)
  BY ONLY <1>0, Change, \A q \in Proc, e \in 0 .. OPEN_MAX :
               Held(q, e)' = IF q = p /\ e = d THEN NULL ELSE Held(q, e)
<1>2. \A g \in File : Cardinality(Refs(g)) \in Nat
  BY FiniteRefs DEF Refs, Places
<1> QED
  BY <1>1, <1>2, NullAssumption DEF RefcountExact

(* A call exchanges what it has in hand with what a table has in a slot. *)
LEMMA Moves ==
    ASSUME TypeOK, RefcountExact, of' = of, NEW p \in Proc, NEW q \in Proc, NEW d \in Fd,
           ft' = [ft EXCEPT ![q][d] = hand[p]], hand' = [hand EXCEPT ![p] = ft[q][d]]
    PROVE  RefcountExact'
<1> DEFINE a == <<p, OPEN_MAX>>
           b == <<q, d>>
<1>1. \A r \in Proc, e \in 0 .. OPEN_MAX :
          Held(r, e)' = IF r = p /\ e = OPEN_MAX THEN ft[q][d]
                        ELSE IF r = q /\ e = d THEN hand[p] ELSE Held(r, e)
  <2>1. \A r \in Proc, e \in Fd : ft'[r][e] = IF r = q /\ e = d THEN hand[p] ELSE ft[r][e]
    BY DEF TypeOK
  <2>2. \A r \in Proc : hand'[r] = IF r = p THEN ft[q][d] ELSE hand[r]
    BY DEF TypeOK
  <2> QED
    BY <2>1, <2>2, SlotOrHand DEF Held
<1>2. d \in 0 .. OPEN_MAX /\ OPEN_MAX \in 0 .. OPEN_MAX /\ d # OPEN_MAX
  BY FinitePlaces
<1>3. Held(q, d) = ft[q][d] /\ Held(p, OPEN_MAX) = hand[p]
  BY HeldAt
<1>4. ASSUME NEW f \in File PROVE Cardinality(Refs(f))' = Cardinality(Refs(f))
  <2>1. IsFiniteSet(Refs(f)) /\ Cardinality(Refs(f)) \in Nat
    BY FiniteRefs DEF Refs, Places
  <2>2. CASE hand[p] = f /\ ft[q][d] # f
    <3> DEFINE rest == Refs(f) \ {a}
    <3>1. Refs(f)' = rest \cup {b} /\ a \in Refs(f) /\ b \notin rest
      BY <1>1, <1>2, <1>3, <2>2 DEF Refs
    <3>2. IsFiniteSet(rest) /\ Cardinality(rest) = Cardinality(Refs(f)) - 1
      BY <2>1, <3>1, FS_RemoveElement
    <3> HIDE DEF rest
    <3>3. Cardinality(rest \cup {b}) = Cardinality(rest) + 1
      BY <3>1, <3>2, FS_AddElement
    <3> QED
      BY <2>1, <3>1, <3>2, <3>3
  <2>3. CASE ft[q][d] = f /\ hand[p] # f
    <3> DEFINE rest == Refs(f) \ {b}
    <3>1. Refs(f)' = rest \cup {a} /\ b \in Refs(f) /\ a \notin rest
      BY <1>1, <1>2, <1>3, <2>3 DEF Refs
    <3>2. IsFiniteSet(rest) /\ Cardinality(rest) = Cardinality(Refs(f)) - 1
      BY <2>1, <3>1, FS_RemoveElement
    <3> HIDE DEF rest
    <3>3. Cardinality(rest \cup {a}) = Cardinality(rest) + 1
      BY <3>1, <3>2, FS_AddElement
    <3> QED
      BY <2>1, <3>1, <3>2, <3>3
  <2>4. CASE hand[p] = f <=> ft[q][d] = f
    <3>1. Refs(f)' = Refs(f)
      BY <1>1, <1>2, <1>3, <2>4 DEF Refs
    <3> QED
      BY <3>1
  <2> QED
    BY <2>2, <2>3, <2>4
<1> QED
  BY <1>4 DEF RefcountExact

(* incref and decref change one count. *)
LEMMA OneChange ==
    ASSUME TypeOK, NEW f \in Live, NEW n \in Nat, of' = [of EXCEPT ![f].refcount = n]
    PROVE  /\ \A g \in File : g # f => of'[g] = of[g]
           /\ of'[f] # NULL /\ of'[f].refcount = n
           /\ of'[f].vnode = of[f].vnode /\ of'[f].offset = of[f].offset
           /\ of'[f].offsetlock = of[f].offsetlock
<1>1. f \in File /\ of[f] \in Openfile /\ DOMAIN of = File
  BY LiveType DEF TypeOK
<1>2. \A g \in File : g # f => of'[g] = of[g]
  BY <1>1
<1>3. of'[f] = [of[f] EXCEPT !.refcount = n]
  BY <1>1
<1>4. of'[f] \in Openfile
  BY <1>1, <1>3 DEF Openfile
<1> QED
  BY <1>1, <1>2, <1>3, <1>4, NullAssumption DEF Openfile

(* A position that is locked, or set and unlocked. *)
LEMMA OneSeek ==
    ASSUME TypeOK, NEW f \in Live, NEW l \in Proc \cup {NULL},
           \/ of' = [of EXCEPT ![f].offsetlock = l]
           \/ \E o \in Pos : of' = [of EXCEPT ![f].offset = o, ![f].offsetlock = l]
    PROVE  /\ \A g \in File : g # f => of'[g] = of[g]
           /\ of'[f] # NULL /\ of'[f].offsetlock = l
           /\ of'[f].vnode = of[f].vnode /\ of'[f].refcount = of[f].refcount
<1>1. f \in File /\ of[f] \in Openfile /\ DOMAIN of = File
  BY LiveType DEF TypeOK
<1>2. \A g \in File : g # f => of'[g] = of[g]
  BY <1>1
<1>3. \/ of'[f] = [of[f] EXCEPT !.offsetlock = l]
      \/ \E o \in Pos : of'[f] = [of[f] EXCEPT !.offset = o, !.offsetlock = l]
  BY <1>1
<1>4. of'[f] \in Openfile
  BY <1>1, <1>3 DEF Openfile
<1> QED
  BY <1>1, <1>2, <1>3, <1>4, NullAssumption DEF Openfile

(* A call that works on a position changes the position and its lock only. *)
LEMMA SeekChange ==
    ASSUME OpenFilesInv, RefcountExact, NEW p \in Proc, Moving(p) \/ pc[p] = "transfer",
           \/ of' = of
           \/ \E l \in Proc \cup {NULL} :
                  \/ of' = [of EXCEPT ![Got(p)].offsetlock = l]
                  \/ \E o \in Pos :
                         of' = [of EXCEPT ![Got(p)].offset = o, ![Got(p)].offsetlock = l]
    PROVE  \A g \in File :
               /\ of'[g] = NULL <=> of[g] = NULL
               /\ of[g] # NULL => /\ of'[g].refcount = of[g].refcount
                                  /\ of'[g].vnode = of[g].vnode
               /\ g # Got(p) => of'[g] = of[g]
<1> DEFINE f == Got(p)
<1>1. f \in Live /\ f \in File /\ of[f] # NULL /\ TypeOK
  BY Operands, LiveType DEF OpenFilesInv, Live
<1>2. CASE of' = of
  BY <1>2
<1>3. ASSUME NEW l \in Proc \cup {NULL},
             \/ of' = [of EXCEPT ![f].offsetlock = l]
             \/ \E o \in Pos : of' = [of EXCEPT ![f].offset = o, ![f].offsetlock = l]
      PROVE  /\ \A g \in File : g # f => of'[g] = of[g]
             /\ of'[f] # NULL
             /\ of'[f].vnode = of[f].vnode /\ of'[f].refcount = of[f].refcount
  BY <1>1, <1>3, OneSeek
<1> QED
  BY <1>1, <1>2, <1>3

(* Every step keeps the counts exact. *)
LEMMA CountStep ==
    ASSUME OpenFilesInv, RefcountExact, Next
    PROVE  RefcountExact'
<1>0. PICK p \in Proc : StepOf(p)
  BY DEF Next, StepOf
<1> USE DEF OpenFilesInv
<1>1. CASE RunProgram(p)
  BY <1>1, CountSame DEF RunProgram
<1>2. CASE Open(p)
  <2>1. PICK f \in File \ Live, v \in Vnode, m \in AccMode :
          /\ of' = [of EXCEPT ![f] = [vnode |-> v, accmode |-> m, offset |-> 0,
                                      refcount |-> 1, offsetlock |-> NULL]]
          /\ hand' = [hand EXCEPT ![p] = f]
          /\ ft' = ft
    BY <1>2 DEF Open
  <2>2. Held(p, OPEN_MAX) = NULL
    BY <1>2, HeldAt DEF Open, Go, HandInv, Holding, Destroying
  <2>3. \A q \in Proc, e \in 0 .. OPEN_MAX :
            Held(q, e)' = IF q = p /\ e = OPEN_MAX THEN f ELSE Held(q, e)
    BY <2>1, HeldHand
  <2>4. [vnode |-> v, accmode |-> m, offset |-> 0, refcount |-> 1, offsetlock |-> NULL] \in Openfile
    BY ConstantsAssumption DEF Openfile, Pos
  <2>5. /\ \A g \in File : g # f => of'[g] = of[g]
        /\ of'[f] # NULL /\ of'[f].refcount = 1 /\ of[f] = NULL
    BY <2>1, <2>4, NullAssumption DEF TypeOK, Live
  <2> QED
    BY <2>2, <2>3, <2>5, CountMore, FinitePlaces
<1>3. CASE PlaceFile(p)
  <2>1. PICK d \in Fd : ft[p][d] = NULL /\ ft' = [ft EXCEPT ![p][d] = hand[p]]
    BY <1>3 DEF PlaceFile, Chosen, FreeFd
  <2>2. hand' = [hand EXCEPT ![p] = NULL] /\ of' = of
    BY <1>3 DEF PlaceFile
  <2> QED
    BY <2>1, <2>2, Moves
<1>4. CASE PlaceFails(p)
  BY <1>4, CountSame DEF PlaceFails
<1>5. CASE Decref(p)
  <2>1. hand[p] \in Live /\ hand[p] = Held(p, OPEN_MAX) /\ of[hand[p]] # NULL
    BY <1>5, Operands, HeldAt DEF Decref, Return, Go, Holding, Destroying, Live
  <2>2. \A q \in Proc, e \in 0 .. OPEN_MAX :
            Held(q, e)' = IF q = p /\ e = OPEN_MAX THEN NULL ELSE Held(q, e)
    BY <1>5, HeldHand DEF Decref
  <2>3. /\ \A g \in File : g # hand[p] => of'[g] = of[g]
        /\ of'[hand[p]] # NULL /\ of'[hand[p]].refcount = of[hand[p]].refcount - 1
    <3>1. of[hand[p]].refcount - 1 \in Nat
      BY <1>5, <2>1, Operands, LiveType DEF Decref, Return, Go, Holding
    <3> QED
      BY <1>5, <2>1, <3>1, OneChange, LiveType DEF Decref, Lower
  <2> QED
    BY <2>1, <2>2, <2>3, CountLess, FinitePlaces DEF Live
<1>6. CASE DecrefLast(p)
  BY <1>6, CountSame DEF DecrefLast
<1>7. CASE Destroy(p)
  <2>1. hand[p] \in Live /\ hand[p] = Held(p, OPEN_MAX) /\ of[hand[p]] # NULL
    BY <1>7, Operands, HeldAt DEF Destroy, Return, Go, Holding, Destroying, Live
  <2>2. \A q \in Proc, e \in 0 .. OPEN_MAX :
            Held(q, e)' = IF q = p /\ e = OPEN_MAX THEN NULL ELSE Held(q, e)
    BY <1>7, HeldHand DEF Destroy
  <2>3. /\ \A g \in File : g # hand[p] => of'[g] = of[g]
        /\ of'[hand[p]] = NULL /\ of[hand[p]].refcount = 1
    BY <1>7, <2>1 DEF Destroy, Return, Go, HandInv, Destroying, TypeOK, Live
  <2> QED
    BY <2>1, <2>2, <2>3, CountLess, FinitePlaces DEF Live
<1>8. CASE Close(p)
  <2>1. PICK d \in Fd : hand' = [hand EXCEPT ![p] = ft[p][d]] /\ ft' = [ft EXCEPT ![p][d] = NULL]
    BY <1>8 DEF Close
  <2>2. hand[p] = NULL /\ of' = of
    BY <1>8 DEF Close, Go, HandInv, Holding, Destroying
  <2> QED
    BY <2>1, <2>2, Moves
<1>9. CASE Dup2(p)
  <2>1. PICK d \in Fd : /\ ft[p][d] # NULL /\ Incref(ft[p][d])
                        /\ hand' = [hand EXCEPT ![p] = ft[p][d]]
    BY <1>9 DEF Dup2
  <2> DEFINE f == ft[p][d]
  <2>2. f \in Live /\ f \in File /\ of[f] # NULL
    BY <2>1, Operands DEF Live
  <2>3. Held(p, OPEN_MAX) = NULL
    BY <1>9, HeldAt DEF Dup2, Go, HandInv, Holding, Destroying
  <2>4. \A q \in Proc, e \in 0 .. OPEN_MAX :
            Held(q, e)' = IF q = p /\ e = OPEN_MAX THEN f ELSE Held(q, e)
    BY <1>9, <2>1, HeldHand DEF Dup2
  <2>5. /\ \A g \in File : g # f => of'[g] = of[g]
        /\ of'[f] # NULL /\ of'[f].refcount = of[f].refcount + 1
    <3>1. of[f].refcount + 1 \in Nat
      BY <2>2, LiveType
    <3> QED
      BY <2>1, <2>2, <3>1, OneChange DEF Incref
  <2> QED
    BY <2>2, <2>3, <2>4, <2>5, LiveType, CountMore, FinitePlaces
<1>10. CASE DupPlace(p)
  <2>1. arg[p].fd \in Fd /\ ft[p][arg[p].fd] = NULL
    BY <1>10 DEF DupPlace, Return, Go, Got, TableInv, OnTable
  <2> QED
    BY <1>10, <2>1, Moves DEF DupPlace
<1>11. CASE DupReplace(p)
  <2>1. arg[p].fd \in Fd
    BY <1>11 DEF DupReplace, Go, TableInv, OnTable
  <2> QED
    BY <1>11, <2>1, Moves DEF DupReplace, Got
<1>12. CASE ReadWrite(p)
  BY <1>12, CountSame DEF ReadWrite
<1>13. CASE Lock(p)
  BY <1>13, SeekChange, CountSame DEF Lock, Return, Go, Acquire, Moving
<1>14. CASE Transfer(p)
  BY <1>14, CountSame DEF Transfer
<1>15. CASE Update(p)
  <2>1. arg[p].pos + arg[p].moved \in Pos
    BY <1>15 DEF Update, Return, Go, CallInv
  <2> QED
    BY <1>15, <2>1, SeekChange, CountSame DEF Update, Return, Go, Moving
<1>16. CASE ReadWriteEnds(p)
  BY <1>16, SeekChange, CountSame DEF ReadWriteEnds, Return, Go, Release
<1>17. CASE Lseek(p)
  BY <1>17, CountSame DEF Lseek
<1>18. CASE SeekLock(p)
  BY <1>18, SeekChange, CountSame DEF SeekLock, Return, Go, Acquire, Moving
<1>19. CASE Seek(p)
  <2>1. \E o \in Pos : of' = [of EXCEPT ![Got(p)].offset = o, ![Got(p)].offsetlock = NULL]
    <3>1. PICK o \in -1 .. MaxPos :
              o >= 0 /\ of' = [of EXCEPT ![Got(p)].offset = o, ![Got(p)].offsetlock = NULL]
      BY <1>19 DEF Seek, Accepts
    <3>2. o \in Pos
      BY <3>1, ConstantsAssumption DEF Pos
    <3> QED
      BY <3>1, <3>2
  <2>2. Moving(p) /\ ft' = ft /\ hand' = hand
    BY <1>19 DEF Seek, Return, Go, Moving
  <2> QED
    BY <2>1, <2>2, SeekChange, CountSame
<1>20. CASE SeekFails(p)
  BY <1>20, SeekChange, CountSame DEF SeekFails, Return, Go, Release, Moving
<1>21. CASE Fork(p)
  BY <1>21, CountSame DEF Fork
<1>22. CASE Copy(p)
  <2> DEFINE w == arg[p].whose
             d == arg[p].fd
             f == Got(p)
  <2>1. d \in Fd /\ w \in Proc /\ f = ft[p][d] /\ ft' = [ft EXCEPT ![w][d] = f] /\ hand' = hand
    BY <1>22, TableArg DEF Copy, Got
  <2>2. ft[w][d] = NULL
    <3>1. OnTable(p) /\ Cleared(p, d)
      BY <1>22, <2>1 DEF Copy, OnTable, Cleared, Fd
    <3> QED
      BY <2>1, <3>1 DEF EmptyInv
  <2>3. \A q \in Proc, e \in 0 .. OPEN_MAX :
            Held(q, e)' = IF q = w /\ e = d THEN f ELSE Held(q, e)
    <3>1. \A q \in Proc, e \in Fd : ft'[q][e] = IF q = w /\ e = d THEN f ELSE ft[q][e]
      BY <2>1 DEF TypeOK
    <3> QED
      BY <2>1, <3>1, SlotOrHand DEF Held
  <2>4. Held(w, d) = NULL
    BY <2>1, <2>2, HeldAt
  <2>5. CASE f = NULL
    <3>1. \A q \in Proc, e \in 0 .. OPEN_MAX : Held(q, e)' = Held(q, e)
      BY <2>3, <2>4, <2>5
    <3>2. \A g \in File : Refs(g)' = Refs(g)
      BY <3>1 DEF Refs
    <3> QED
      BY <1>22, <2>5, <3>2 DEF Copy, Increfs, RefcountExact
  <2>6. CASE f # NULL
    <3>1. f \in Live /\ f \in File /\ of[f] # NULL /\ of[f].refcount + 1 \in Nat
      BY <2>1, <2>6, Operands, LiveType DEF Live
    <3>2. /\ \A g \in File : g # f => of'[g] = of[g]
          /\ of'[f] # NULL /\ of'[f].refcount = of[f].refcount + 1
      BY <1>22, <2>6, <3>1, OneChange DEF Copy, Increfs, Incref
    <3> QED
      BY <2>1, <2>3, <2>4, <3>1, <3>2, LiveType, CountMore, FinitePlaces
  <2> QED
    BY <2>5, <2>6
<1>23. CASE ForkDone(p)
  BY <1>23, CountSame DEF ForkDone
<1>24. CASE ForkFails(p)
  BY <1>24, CountSame DEF ForkFails
<1>25. CASE Exit(p)
  BY <1>25, CountSame DEF Exit
<1>26. CASE Drop(p)
  <2> DEFINE w == arg[p].whose
             d == arg[p].fd
             f == Doomed(p)
  <2>1. d \in Fd /\ w \in Proc /\ f = ft[w][d] /\ ft' = [ft EXCEPT ![w][d] = NULL] /\ hand' = hand
    BY <1>26, TableArg DEF Drop, Dropping, DropNext, Doomed
  <2>2. \A q \in Proc, e \in 0 .. OPEN_MAX :
            Held(q, e)' = IF q = w /\ e = d THEN NULL ELSE Held(q, e)
    <3>1. \A q \in Proc, e \in Fd : ft'[q][e] = IF q = w /\ e = d THEN NULL ELSE ft[q][e]
      BY <2>1 DEF TypeOK
    <3> QED
      BY <2>1, <3>1, SlotOrHand DEF Held
  <2>3. Held(w, d) = f
    BY <2>1, HeldAt
  <2>4. CASE f = NULL
    <3>1. \A q \in Proc, e \in 0 .. OPEN_MAX : Held(q, e)' = Held(q, e)
      BY <2>2, <2>3, <2>4, SMTT(30)
    <3>2. \A g \in File : Refs(g)' = Refs(g)
      BY <3>1 DEF Refs
    <3> QED
      BY <1>26, <2>4, <3>2 DEF Drop, RefcountExact
  <2>5. CASE f # NULL
    <3>1. f \in Live /\ f \in File /\ of[f] # NULL /\ of[f].refcount - 1 \in Nat
      BY <2>1, <2>5, Operands, LiveType DEF Live
    <3>2. /\ \A g \in File : g # f => of'[g] = of[g]
          /\ of'[f] # NULL /\ of'[f].refcount = of[f].refcount - 1
      BY <1>26, <2>5, <3>1, OneChange DEF Drop, Lower
    <3> QED
      BY <2>1, <2>2, <2>3, <3>1, <3>2, CountLess, FinitePlaces
  <2> QED
    BY <2>4, <2>5
<1>27. CASE DropLast(p)
  <2>1. arg[p].fd \in Fd /\ arg[p].whose \in Proc
    BY <1>27, TableArg DEF DropLast, Dropping
  <2>2. hand[p] = NULL
    BY <1>27 DEF DropLast, Go, HandInv, Holding, Destroying
  <2> QED
    BY <1>27, <2>1, <2>2, Moves DEF DropLast, DropNext, Doomed
<1>28. CASE DropDestroy(p)
  <2>1. hand[p] \in Live /\ hand[p] = Held(p, OPEN_MAX) /\ of[hand[p]] # NULL
    BY <1>28, Operands, HeldAt DEF DropDestroy, Return, Go, Holding, Destroying, Live
  <2>2. \A q \in Proc, e \in 0 .. OPEN_MAX :
            Held(q, e)' = IF q = p /\ e = OPEN_MAX THEN NULL ELSE Held(q, e)
    BY <1>28, HeldHand DEF DropDestroy
  <2>3. /\ \A g \in File : g # hand[p] => of'[g] = of[g]
        /\ of'[hand[p]] = NULL /\ of[hand[p]].refcount = 1
    BY <1>28, <2>1 DEF DropDestroy, Go, HandInv, Destroying, TypeOK, Live
  <2> QED
    BY <2>1, <2>2, <2>3, CountLess, FinitePlaces DEF Live
<1>29. CASE DropDone(p)
  BY <1>29, CountSame DEF DropDone
<1> QED
  BY <1>0, <1>1, <1>2, <1>3, <1>4, <1>5, <1>6, <1>7, <1>8, <1>9, <1>10,
     <1>11, <1>12, <1>13, <1>14, <1>15, <1>16, <1>17, <1>18, <1>19,
     <1>20, <1>21, <1>22, <1>23, <1>24, <1>25, <1>26, <1>27, <1>28,
     <1>29 DEF StepOf

(* A call that destroys an openfile has the only reference to it. *)
LEMMA LastAlone ==
    ASSUME OpenFilesInv, RefcountExact, NEW q \in Proc, Destroying(q)
    PROVE  /\ hand[q] \in Live /\ of[hand[q]].refcount = 1
           /\ \A r \in Proc \ {q} : hand[r] # hand[q]
           /\ \A r \in Proc, d \in Fd : ft[r][d] # hand[q]
<1>1. hand[q] \in Live /\ of[hand[q]].refcount = 1
  BY Operands DEF OpenFilesInv, HandInv, Holding
<1>2. \A r \in Proc, c \in 0 .. OPEN_MAX : Held(r, c) = hand[q] => r = q /\ c = OPEN_MAX
  BY <1>1, Alone, HeldAt, FinitePlaces
<1> QED
  BY <1>1, <1>2, HeldAt, FinitePlaces

(* A step that changes nobody's hand. *)
LEMMA HandQuiet ==
    ASSUME OpenFilesInv, RefcountExact, hand' = hand,
           \A q \in Proc : /\ Holding(q)' <=> Holding(q)
                           /\ Destroying(q)' => Destroying(q),
           \A f \in File : of[f] # NULL => of'[f].refcount = of[f].refcount
    PROVE  HandInv'
<1>1. ASSUME NEW q \in Proc
      PROVE  /\ hand'[q] # NULL <=> Holding(q)'
             /\ Destroying(q)' => of'[hand'[q]].refcount = 1
  <2>1. hand'[q] # NULL <=> Holding(q)'
    BY DEF OpenFilesInv, HandInv
  <2>2. Destroying(q)' => of'[hand'[q]].refcount = 1
    BY LastAlone DEF Live
  <2> QED
    BY <2>1, <2>2
<1> QED
  BY <1>1 DEF HandInv

(* A step that changes the hand of p. *)
LEMMA HandFilled ==
    ASSUME OpenFilesInv, NEW p \in Proc,
           \A q \in Proc \ {p} : hand'[q] = hand[q] /\ pc'[q] = pc[q],
           \A q \in Proc \ {p} : Destroying(q) => of'[hand[q]].refcount = 1,
           hand'[p] # NULL, Holding(p)', Destroying(p)' => of'[hand'[p]].refcount = 1
    PROVE  HandInv'
  BY DEF OpenFilesInv, HandInv, Holding, Destroying

LEMMA HandEmptied ==
    ASSUME OpenFilesInv, NEW p \in Proc,
           \A q \in Proc \ {p} : hand'[q] = hand[q] /\ pc'[q] = pc[q],
           \A q \in Proc \ {p} : Destroying(q) => of'[hand[q]].refcount = 1,
           hand'[p] = NULL, pc'[p] \in {"user", "drop"}
    PROVE  HandInv'
  BY DEF OpenFilesInv, HandInv, Holding, Destroying

(* Every step keeps the hands right. *)
LEMMA HandStep ==
    ASSUME OpenFilesInv, RefcountExact, Next
    PROVE  HandInv'
<1>0. PICK p \in Proc : StepOf(p)
  BY DEF Next, StepOf
<1> USE DEF OpenFilesInv
<1>1. CASE RunProgram(p)
  <2>1. hand' = hand /\ \A q \in Proc : /\ Holding(q)' <=> Holding(q)
                                        /\ Destroying(q)' => Destroying(q)
    BY <1>1 DEF RunProgram, Go, Return, Holding, Destroying, TypeOK
  <2>2. \A f \in File : of[f] # NULL => of'[f].refcount = of[f].refcount
    BY <1>1 DEF RunProgram
  <2> QED
    BY <2>1, <2>2, HandQuiet
<1>2. CASE Open(p)
  <2>1. \A q \in Proc \ {p} : hand'[q] = hand[q] /\ pc'[q] = pc[q]
    BY <1>2 DEF Open, Go, Return, TypeOK
  <2>2. \A q \in Proc \ {p} : Destroying(q) => of'[hand[q]].refcount = 1
    <3>1. PICK f \in File \ Live : \A g \in File : g # f => of'[g] = of[g]
      BY <1>2 DEF Open, TypeOK
    <3> QED
      BY <3>1, LastAlone DEF Live
  <2>3. hand'[p] # NULL /\ pc'[p] = "place"
    BY <1>2, NullAssumption DEF Open, Go, TypeOK
  <2> QED
    BY <2>1, <2>2, <2>3, HandFilled DEF Holding, Destroying
<1>3. CASE PlaceFile(p)
  <2>1. \A q \in Proc \ {p} : hand'[q] = hand[q] /\ pc'[q] = pc[q]
    BY <1>3 DEF PlaceFile, Go, Return, TypeOK
  <2>2. \A q \in Proc \ {p} : Destroying(q) => of'[hand[q]].refcount = 1
    BY <1>3, LastAlone DEF PlaceFile
  <2>3. hand'[p] = NULL /\ pc'[p] \in {"user", "drop"}
    BY <1>3 DEF PlaceFile, Go, Return, TypeOK
  <2> QED
    BY <2>1, <2>2, <2>3, HandEmptied
<1>4. CASE PlaceFails(p)
  <2>1. hand' = hand /\ \A q \in Proc : /\ Holding(q)' <=> Holding(q)
                                        /\ Destroying(q)' => Destroying(q)
    BY <1>4 DEF PlaceFails, Go, Return, Holding, Destroying, TypeOK
  <2>2. \A f \in File : of[f] # NULL => of'[f].refcount = of[f].refcount
    BY <1>4 DEF PlaceFails
  <2> QED
    BY <2>1, <2>2, HandQuiet
<1>5. CASE Decref(p)
  <2>1. \A q \in Proc \ {p} : hand'[q] = hand[q] /\ pc'[q] = pc[q]
    BY <1>5 DEF Decref, Go, Return, TypeOK
  <2>2. \A q \in Proc \ {p} : Destroying(q) => of'[hand[q]].refcount = 1
    <3>1. \A g \in File : g # hand[p] => of'[g] = of[g]
      BY <1>5 DEF Decref, Lower, TypeOK
    <3> QED
      BY <3>1, LastAlone DEF Live
  <2>3. hand'[p] = NULL /\ pc'[p] \in {"user", "drop"}
    BY <1>5 DEF Decref, Go, Return, TypeOK
  <2> QED
    BY <2>1, <2>2, <2>3, HandEmptied
<1>6. CASE DecrefLast(p)
  <2>1. \A q \in Proc \ {p} : hand'[q] = hand[q] /\ pc'[q] = pc[q]
    BY <1>6 DEF DecrefLast, Go, Return, TypeOK
  <2>2. \A q \in Proc \ {p} : Destroying(q) => of'[hand[q]].refcount = 1
    BY <1>6, LastAlone DEF DecrefLast
  <2>3. hand'[p] # NULL /\ pc'[p] = "destroy" /\ of'[hand'[p]].refcount = 1
    BY <1>6 DEF DecrefLast, Go, Last, TypeOK, HandInv, Holding
  <2> QED
    BY <2>1, <2>2, <2>3, HandFilled DEF Holding, Destroying
<1>7. CASE Destroy(p)
  <2>1. \A q \in Proc \ {p} : hand'[q] = hand[q] /\ pc'[q] = pc[q]
    BY <1>7 DEF Destroy, Go, Return, TypeOK
  <2>2. \A q \in Proc \ {p} : Destroying(q) => of'[hand[q]].refcount = 1
    <3>1. \A g \in File : g # hand[p] => of'[g] = of[g]
      BY <1>7 DEF Destroy, TypeOK
    <3> QED
      BY <3>1, LastAlone DEF Live
  <2>3. hand'[p] = NULL /\ pc'[p] \in {"user", "drop"}
    BY <1>7 DEF Destroy, Go, Return, TypeOK
  <2> QED
    BY <2>1, <2>2, <2>3, HandEmptied
<1>8. CASE Close(p)
  <2>1. \A q \in Proc \ {p} : hand'[q] = hand[q] /\ pc'[q] = pc[q]
    BY <1>8 DEF Close, Go, Return, TypeOK
  <2>2. \A q \in Proc \ {p} : Destroying(q) => of'[hand[q]].refcount = 1
    BY <1>8, LastAlone DEF Close
  <2>3. hand'[p] # NULL /\ pc'[p] = "decref"
    BY <1>8 DEF Close, Go, TypeOK
  <2> QED
    BY <2>1, <2>2, <2>3, HandFilled DEF Holding, Destroying
<1>9. CASE Dup2(p)
  <2>1. \A q \in Proc \ {p} : hand'[q] = hand[q] /\ pc'[q] = pc[q]
    BY <1>9 DEF Dup2, Go, Return, TypeOK
  <2>2. \A q \in Proc \ {p} : Destroying(q) => of'[hand[q]].refcount = 1
    <3>1. PICK d \in Fd : \A g \in File : g # ft[p][d] => of'[g] = of[g]
      BY <1>9 DEF Dup2, Incref, TypeOK
    <3> QED
      BY <3>1, LastAlone DEF Live
  <2>3. hand'[p] # NULL /\ pc'[p] = "dup"
    BY <1>9 DEF Dup2, Go, TypeOK
  <2> QED
    BY <2>1, <2>2, <2>3, HandFilled DEF Holding, Destroying
<1>10. CASE DupPlace(p)
  <2>1. \A q \in Proc \ {p} : hand'[q] = hand[q] /\ pc'[q] = pc[q]
    BY <1>10 DEF DupPlace, Go, Return, TypeOK
  <2>2. \A q \in Proc \ {p} : Destroying(q) => of'[hand[q]].refcount = 1
    BY <1>10, LastAlone DEF DupPlace
  <2>3. hand'[p] = NULL /\ pc'[p] \in {"user", "drop"}
    BY <1>10 DEF DupPlace, Go, Return, TypeOK
  <2> QED
    BY <2>1, <2>2, <2>3, HandEmptied
<1>11. CASE DupReplace(p)
  <2>1. \A q \in Proc \ {p} : hand'[q] = hand[q] /\ pc'[q] = pc[q]
    BY <1>11 DEF DupReplace, Go, Return, TypeOK
  <2>2. \A q \in Proc \ {p} : Destroying(q) => of'[hand[q]].refcount = 1
    BY <1>11, LastAlone DEF DupReplace
  <2>3. hand'[p] # NULL /\ pc'[p] = "decref"
    BY <1>11 DEF DupReplace, Go, TypeOK
  <2> QED
    BY <2>1, <2>2, <2>3, HandFilled DEF Holding, Destroying
<1>12. CASE ReadWrite(p)
  <2>1. hand' = hand /\ \A q \in Proc : /\ Holding(q)' <=> Holding(q)
                                        /\ Destroying(q)' => Destroying(q)
    BY <1>12 DEF ReadWrite, Go, Return, Holding, Destroying, TypeOK
  <2>2. \A f \in File : of[f] # NULL => of'[f].refcount = of[f].refcount
    BY <1>12 DEF ReadWrite
  <2> QED
    BY <2>1, <2>2, HandQuiet
<1>13. CASE Lock(p)
  <2>1. hand' = hand /\ \A q \in Proc : /\ Holding(q)' <=> Holding(q)
                                        /\ Destroying(q)' => Destroying(q)
    BY <1>13 DEF Lock, Go, Return, Holding, Destroying, TypeOK
  <2>2. \A f \in File : of[f] # NULL => of'[f].refcount = of[f].refcount
    BY <1>13, SeekChange DEF Lock, Return, Go, Acquire, Moving
  <2> QED
    BY <2>1, <2>2, HandQuiet
<1>14. CASE Transfer(p)
  <2>1. hand' = hand /\ \A q \in Proc : /\ Holding(q)' <=> Holding(q)
                                        /\ Destroying(q)' => Destroying(q)
    BY <1>14 DEF Transfer, Go, Return, Holding, Destroying, TypeOK
  <2>2. \A f \in File : of[f] # NULL => of'[f].refcount = of[f].refcount
    BY <1>14 DEF Transfer
  <2> QED
    BY <2>1, <2>2, HandQuiet
<1>15. CASE Update(p)
  <2>1. hand' = hand /\ \A q \in Proc : /\ Holding(q)' <=> Holding(q)
                                        /\ Destroying(q)' => Destroying(q)
    BY <1>15 DEF Update, Go, Return, Holding, Destroying, TypeOK
  <2>2. arg[p].pos + arg[p].moved \in Pos
    BY <1>15 DEF Update, Return, Go, CallInv
  <2>3. \A f \in File : of[f] # NULL => of'[f].refcount = of[f].refcount
    BY <1>15, <2>2, SeekChange DEF Update, Return, Go, Moving
  <2> QED
    BY <2>1, <2>3, HandQuiet
<1>16. CASE ReadWriteEnds(p)
  <2>1. hand' = hand /\ \A q \in Proc : /\ Holding(q)' <=> Holding(q)
                                        /\ Destroying(q)' => Destroying(q)
    BY <1>16 DEF ReadWriteEnds, Go, Return, Holding, Destroying, TypeOK
  <2>2. \A f \in File : of[f] # NULL => of'[f].refcount = of[f].refcount
    BY <1>16, SeekChange DEF ReadWriteEnds, Return, Go, Release
  <2> QED
    BY <2>1, <2>2, HandQuiet
<1>17. CASE Lseek(p)
  <2>1. hand' = hand /\ \A q \in Proc : /\ Holding(q)' <=> Holding(q)
                                        /\ Destroying(q)' => Destroying(q)
    BY <1>17 DEF Lseek, Go, Return, Holding, Destroying, TypeOK
  <2>2. \A f \in File : of[f] # NULL => of'[f].refcount = of[f].refcount
    BY <1>17 DEF Lseek
  <2> QED
    BY <2>1, <2>2, HandQuiet
<1>18. CASE SeekLock(p)
  <2>1. hand' = hand /\ \A q \in Proc : /\ Holding(q)' <=> Holding(q)
                                        /\ Destroying(q)' => Destroying(q)
    BY <1>18 DEF SeekLock, Go, Return, Holding, Destroying, TypeOK
  <2>2. \A f \in File : of[f] # NULL => of'[f].refcount = of[f].refcount
    BY <1>18, SeekChange DEF SeekLock, Return, Go, Acquire, Moving
  <2> QED
    BY <2>1, <2>2, HandQuiet
<1>19. CASE Seek(p)
  <2>1. hand' = hand /\ \A q \in Proc : /\ Holding(q)' <=> Holding(q)
                                        /\ Destroying(q)' => Destroying(q)
    BY <1>19 DEF Seek, Go, Return, Holding, Destroying, TypeOK
  <2>2. \A f \in File : of[f] # NULL => of'[f].refcount = of[f].refcount
    <3>1. PICK o \in -1 .. MaxPos :
              o >= 0 /\ of' = [of EXCEPT ![Got(p)].offset = o, ![Got(p)].offsetlock = NULL]
      BY <1>19 DEF Seek, Accepts
    <3>2. o \in Pos
      BY <3>1, ConstantsAssumption DEF Pos
    <3> QED
      BY <1>19, <3>1, <3>2, SeekChange DEF Seek, Return, Go, Moving
  <2> QED
    BY <2>1, <2>2, HandQuiet
<1>20. CASE SeekFails(p)
  <2>1. hand' = hand /\ \A q \in Proc : /\ Holding(q)' <=> Holding(q)
                                        /\ Destroying(q)' => Destroying(q)
    BY <1>20 DEF SeekFails, Go, Return, Holding, Destroying, TypeOK
  <2>2. \A f \in File : of[f] # NULL => of'[f].refcount = of[f].refcount
    BY <1>20, SeekChange DEF SeekFails, Return, Go, Release, Moving
  <2> QED
    BY <2>1, <2>2, HandQuiet
<1>21. CASE Fork(p)
  <2>1. hand' = hand /\ \A q \in Proc : /\ Holding(q)' <=> Holding(q)
                                        /\ Destroying(q)' => Destroying(q)
    <3>1. PICK c \in Proc : pc[c] = "none" /\ pc' = [pc EXCEPT ![p] = "copy", ![c] = "embryo"]
      BY <1>21 DEF Fork
    <3>2. \A q \in Proc : pc'[q] = pc[q] \/ {pc[q], pc'[q]} \subseteq {"none", "user", "copy", "embryo"}
      BY <1>21, <3>1 DEF Fork, TypeOK
    <3> QED
      BY <1>21, <3>2 DEF Fork, Holding, Destroying
  <2>2. \A f \in File : of[f] # NULL => of'[f].refcount = of[f].refcount
    BY <1>21 DEF Fork
  <2> QED
    BY <2>1, <2>2, HandQuiet
<1>22. CASE Copy(p)
  <2>1. hand' = hand /\ pc' = pc
    BY <1>22 DEF Copy
  <2>2. \A g \in File : g # Got(p) => of'[g] = of[g]
    BY <1>22 DEF Copy, Incref, Lower, Increfs, TypeOK
  <2>3. \A q \in Proc : Destroying(q) => hand[q] # Got(p)
    BY <1>22, LastAlone, TableArg DEF Copy, Dropping, Got, Doomed
  <2>4. \A q \in Proc : Destroying(q) => of'[hand[q]].refcount = 1
    BY <2>2, <2>3, LastAlone DEF Live
  <2> QED
    BY <2>1, <2>4 DEF HandInv, Holding, Destroying
<1>23. CASE ForkDone(p)
  <2>1. hand' = hand /\ \A q \in Proc : /\ Holding(q)' <=> Holding(q)
                                        /\ Destroying(q)' => Destroying(q)
    <3>1. arg[p].whose \in Proc /\ pc[arg[p].whose] = "embryo"
      BY <1>23, TableArg DEF ForkDone, TableInv
    <3>2. \A q \in Proc : pc'[q] = pc[q] \/ {pc[q], pc'[q]} \subseteq {"copy", "embryo", "user"}
      BY <1>23, <3>1 DEF ForkDone, TypeOK
    <3> QED
      BY <1>23, <3>2 DEF ForkDone, Holding, Destroying
  <2>2. \A f \in File : of[f] # NULL => of'[f].refcount = of[f].refcount
    BY <1>23 DEF ForkDone
  <2> QED
    BY <2>1, <2>2, HandQuiet
<1>24. CASE ForkFails(p)
  <2>1. hand' = hand /\ \A q \in Proc : /\ Holding(q)' <=> Holding(q)
                                        /\ Destroying(q)' => Destroying(q)
    BY <1>24 DEF ForkFails, Go, Return, Holding, Destroying, TypeOK
  <2>2. \A f \in File : of[f] # NULL => of'[f].refcount = of[f].refcount
    BY <1>24 DEF ForkFails
  <2> QED
    BY <2>1, <2>2, HandQuiet
<1>25. CASE Exit(p)
  <2>1. hand' = hand /\ \A q \in Proc : /\ Holding(q)' <=> Holding(q)
                                        /\ Destroying(q)' => Destroying(q)
    BY <1>25 DEF Exit, Go, Return, Holding, Destroying, TypeOK
  <2>2. \A f \in File : of[f] # NULL => of'[f].refcount = of[f].refcount
    BY <1>25 DEF Exit
  <2> QED
    BY <2>1, <2>2, HandQuiet
<1>26. CASE Drop(p)
  <2>1. hand' = hand /\ pc' = pc
    BY <1>26 DEF Drop
  <2>2. \A g \in File : g # Doomed(p) => of'[g] = of[g]
    BY <1>26 DEF Drop, Incref, Lower, Increfs, TypeOK
  <2>3. \A q \in Proc : Destroying(q) => hand[q] # Doomed(p)
    BY <1>26, LastAlone, TableArg DEF Drop, Dropping, Got, Doomed
  <2>4. \A q \in Proc : Destroying(q) => of'[hand[q]].refcount = 1
    BY <2>2, <2>3, LastAlone DEF Live
  <2> QED
    BY <2>1, <2>4 DEF HandInv, Holding, Destroying
<1>27. CASE DropLast(p)
  <2>1. \A q \in Proc \ {p} : hand'[q] = hand[q] /\ pc'[q] = pc[q]
    BY <1>27 DEF DropLast, Go, Return, TypeOK
  <2>2. \A q \in Proc \ {p} : Destroying(q) => of'[hand[q]].refcount = 1
    BY <1>27, LastAlone DEF DropLast
  <2>3. hand'[p] # NULL /\ pc'[p] = "drop_destroy" /\ of'[hand'[p]].refcount = 1
    BY <1>27 DEF DropLast, Go, Last, TypeOK
  <2> QED
    BY <2>1, <2>2, <2>3, HandFilled DEF Holding, Destroying
<1>28. CASE DropDestroy(p)
  <2>1. \A q \in Proc \ {p} : hand'[q] = hand[q] /\ pc'[q] = pc[q]
    BY <1>28 DEF DropDestroy, Go, Return, TypeOK
  <2>2. \A q \in Proc \ {p} : Destroying(q) => of'[hand[q]].refcount = 1
    <3>1. \A g \in File : g # hand[p] => of'[g] = of[g]
      BY <1>28 DEF DropDestroy, TypeOK
    <3> QED
      BY <3>1, LastAlone DEF Live
  <2>3. hand'[p] = NULL /\ pc'[p] \in {"user", "drop"}
    BY <1>28 DEF DropDestroy, Go, Return, TypeOK
  <2> QED
    BY <2>1, <2>2, <2>3, HandEmptied
<1>29. CASE DropDone(p)
  <2>1. hand' = hand /\ \A q \in Proc : /\ Holding(q)' <=> Holding(q)
                                        /\ Destroying(q)' => Destroying(q)
    <3>1. arg[p].whose \in Proc /\ (arg[p].whose # p => pc[arg[p].whose] = "embryo")
      BY <1>29, TableArg DEF DropDone, TableInv
    <3>2. \A q \in Proc : pc'[q] = pc[q] \/ {pc[q], pc'[q]} \subseteq {"drop", "embryo", "user", "none"}
      BY <1>29, <3>1 DEF DropDone, TypeOK
    <3> QED
      BY <1>29, <3>2 DEF DropDone, Holding, Destroying
  <2>2. \A f \in File : of[f] # NULL => of'[f].refcount = of[f].refcount
    BY <1>29 DEF DropDone
  <2> QED
    BY <2>1, <2>2, HandQuiet
<1> QED
  BY <1>0, <1>1, <1>2, <1>3, <1>4, <1>5, <1>6, <1>7, <1>8, <1>9, <1>10,
     <1>11, <1>12, <1>13, <1>14, <1>15, <1>16, <1>17, <1>18, <1>19,
     <1>20, <1>21, <1>22, <1>23, <1>24, <1>25, <1>26, <1>27, <1>28,
     <1>29 DEF StepOf

(* Calls that use a descriptor for reading, writing or seeking. *)
Calling(q) == Moving(q) \/ pc[q] = "transfer"

LEMMA CallStill ==
    ASSUME OpenFilesInv, NEW S,
           \A q \in S : Calling(q)' =>
               /\ Calling(q) /\ pc'[q] = pc[q] /\ arg'[q] = arg[q] /\ ft'[q] = ft[q]
               /\ of'[Got(q)].vnode = of[Got(q)].vnode,
           S \subseteq Proc
    PROVE  \A q \in S :
               /\ Moving(q)' \/ pc'[q] = "transfer" => Got(q)' # NULL
               /\ Moving(q)' => Locks(Got(q))'
               /\ pc'[q] = "update" => arg'[q].pos + arg'[q].moved \in Pos
<1> TAKE q \in S
<1>1. CASE ~Calling(q)'
  BY <1>1 DEF Calling, Moving
<1>2. CASE Calling(q)'
  <2>1. Got(q)' = Got(q)
    BY <1>2 DEF Got
  <2>2. Locks(Got(q))' = Locks(Got(q))
    BY <1>2, <2>1 DEF Locks
  <2>3. Moving(q)' = Moving(q)
    BY <1>2 DEF Moving
  <2> QED
    BY <1>2, <2>1, <2>2, <2>3 DEF OpenFilesInv, CallInv
<1> QED
  BY <1>1, <1>2

(* Every step keeps the descriptors in use open. *)
LEMMA CallStep ==
    ASSUME OpenFilesInv, RefcountExact, Next
    PROVE  CallInv'
<1>0. PICK p \in Proc : StepOf(p)
  BY DEF Next, StepOf
<1> USE DEF OpenFilesInv
<1>1. CASE RunProgram(p)
  <2>1. \A q \in Proc : Calling(q)' =>
            Calling(q) /\ pc'[q] = pc[q] /\ arg'[q] = arg[q] /\ ft'[q] = ft[q]
    BY <1>1 DEF RunProgram, Go, Return, Calling, Moving, TypeOK
  <2>2. \A f \in Live : of'[f].vnode = of[f].vnode
    BY <1>1 DEF RunProgram
  <2> QED
    BY <2>1, <2>2, Operands, CallStill DEF Calling, CallInv
<1>2. CASE Open(p)
  <2>1. \A q \in Proc : Calling(q)' =>
            Calling(q) /\ pc'[q] = pc[q] /\ arg'[q] = arg[q] /\ ft'[q] = ft[q]
    BY <1>2 DEF Open, Go, Return, Calling, Moving, TypeOK
  <2>2. \A f \in Live : of'[f].vnode = of[f].vnode
    <3>1. PICK f \in File \ Live : \A g \in File : g # f => of'[g] = of[g]
      BY <1>2 DEF Open, TypeOK
    <3> QED
      BY <3>1 DEF Live
  <2> QED
    BY <2>1, <2>2, Operands, CallStill DEF Calling, CallInv
<1>3. CASE PlaceFile(p)
  <2>1. \A q \in Proc : Calling(q)' =>
            Calling(q) /\ pc'[q] = pc[q] /\ arg'[q] = arg[q] /\ ft'[q] = ft[q]
    BY <1>3 DEF PlaceFile, Go, Return, Calling, Moving, TypeOK
  <2>2. \A f \in Live : of'[f].vnode = of[f].vnode
    BY <1>3 DEF PlaceFile
  <2> QED
    BY <2>1, <2>2, Operands, CallStill DEF Calling, CallInv
<1>4. CASE PlaceFails(p)
  <2>1. \A q \in Proc : Calling(q)' =>
            Calling(q) /\ pc'[q] = pc[q] /\ arg'[q] = arg[q] /\ ft'[q] = ft[q]
    BY <1>4 DEF PlaceFails, Go, Return, Calling, Moving, TypeOK
  <2>2. \A f \in Live : of'[f].vnode = of[f].vnode
    BY <1>4 DEF PlaceFails
  <2> QED
    BY <2>1, <2>2, Operands, CallStill DEF Calling, CallInv
<1>5. CASE Decref(p)
  <2>1. \A q \in Proc : Calling(q)' =>
            Calling(q) /\ pc'[q] = pc[q] /\ arg'[q] = arg[q] /\ ft'[q] = ft[q]
    BY <1>5 DEF Decref, Go, Return, Calling, Moving, TypeOK
  <2>2. \A f \in Live : of'[f].vnode = of[f].vnode
    <3>1. hand[p] \in Live /\ of[hand[p]].refcount - 1 \in Nat
      BY <1>5, Operands, LiveType DEF Decref, Return, Go, Holding
    <3> QED
      BY <1>5, <3>1, OneChange DEF Decref, Lower, Live
  <2> QED
    BY <2>1, <2>2, Operands, CallStill DEF Calling, CallInv
<1>6. CASE DecrefLast(p)
  <2>1. \A q \in Proc : Calling(q)' =>
            Calling(q) /\ pc'[q] = pc[q] /\ arg'[q] = arg[q] /\ ft'[q] = ft[q]
    BY <1>6 DEF DecrefLast, Go, Return, Calling, Moving, TypeOK
  <2>2. \A f \in Live : of'[f].vnode = of[f].vnode
    BY <1>6 DEF DecrefLast
  <2> QED
    BY <2>1, <2>2, Operands, CallStill DEF Calling, CallInv
<1>7. CASE Destroy(p)
  <2>1. \A q \in Proc : Calling(q)' =>
            Calling(q) /\ pc'[q] = pc[q] /\ arg'[q] = arg[q] /\ ft'[q] = ft[q]
    BY <1>7 DEF Destroy, Go, Return, Calling, Moving, TypeOK
  <2>2. \A q \in Proc : Calling(q)' => of'[Got(q)].vnode = of[Got(q)].vnode
    <3>1. \A f \in Live : f # hand[p] => of'[f] = of[f]
      BY <1>7 DEF Destroy, Live, TypeOK
    <3>2. \A q \in Proc : Calling(q) => Got(q) \in Live /\ Got(q) # hand[p]
      BY <1>7, Operands, LastAlone DEF Destroy, Return, Go, Destroying, Got, Calling
    <3> QED
      BY <2>1, <3>1, <3>2
  <2> QED
    BY <2>1, <2>2, CallStill DEF CallInv
<1>8. CASE Close(p)
  <2>1. \A q \in Proc : Calling(q)' =>
            Calling(q) /\ pc'[q] = pc[q] /\ arg'[q] = arg[q] /\ ft'[q] = ft[q]
    BY <1>8 DEF Close, Go, Return, Calling, Moving, TypeOK
  <2>2. \A f \in Live : of'[f].vnode = of[f].vnode
    BY <1>8 DEF Close
  <2> QED
    BY <2>1, <2>2, Operands, CallStill DEF Calling, CallInv
<1>9. CASE Dup2(p)
  <2>1. \A q \in Proc : Calling(q)' =>
            Calling(q) /\ pc'[q] = pc[q] /\ arg'[q] = arg[q] /\ ft'[q] = ft[q]
    BY <1>9 DEF Dup2, Go, Return, Calling, Moving, TypeOK
  <2>2. \A f \in Live : of'[f].vnode = of[f].vnode
    <3>1. PICK d \in Fd : ft[p][d] # NULL /\ Incref(ft[p][d])
      BY <1>9 DEF Dup2
    <3>2. ft[p][d] \in Live /\ of[ft[p][d]].refcount + 1 \in Nat
      BY <3>1, Operands, LiveType
    <3> QED
      BY <3>1, <3>2, OneChange DEF Incref, Live
  <2> QED
    BY <2>1, <2>2, Operands, CallStill DEF Calling, CallInv
<1>10. CASE DupPlace(p)
  <2>1. \A q \in Proc : Calling(q)' =>
            Calling(q) /\ pc'[q] = pc[q] /\ arg'[q] = arg[q] /\ ft'[q] = ft[q]
    BY <1>10 DEF DupPlace, Go, Return, Calling, Moving, TypeOK
  <2>2. \A f \in Live : of'[f].vnode = of[f].vnode
    BY <1>10 DEF DupPlace
  <2> QED
    BY <2>1, <2>2, Operands, CallStill DEF Calling, CallInv
<1>11. CASE DupReplace(p)
  <2>1. \A q \in Proc : Calling(q)' =>
            Calling(q) /\ pc'[q] = pc[q] /\ arg'[q] = arg[q] /\ ft'[q] = ft[q]
    BY <1>11 DEF DupReplace, Go, Return, Calling, Moving, TypeOK
  <2>2. \A f \in Live : of'[f].vnode = of[f].vnode
    BY <1>11 DEF DupReplace
  <2> QED
    BY <2>1, <2>2, Operands, CallStill DEF Calling, CallInv
<1>12. CASE ReadWrite(p)
  <2>1. \A q \in Proc \ {p} : Calling(q)' =>
            Calling(q) /\ pc'[q] = pc[q] /\ arg'[q] = arg[q] /\ ft'[q] = ft[q]
    BY <1>12 DEF ReadWrite, Go, Return, Calling, Moving, TypeOK
  <2>2. \A f \in Live : of'[f].vnode = of[f].vnode
    BY <1>12 DEF ReadWrite
  <2>3. /\ Got(p)' # NULL
        /\ Moving(p)' => Locks(Got(p))'
        /\ pc'[p] = "update" => arg'[p].pos + arg'[p].moved \in Pos
    <3>1. PICK d \in Fd : /\ ft[p][d] # NULL /\ arg'[p].fd = d
                          /\ pc'[p] = IF Locks(ft[p][d]) THEN "lock" ELSE "transfer"
      BY <1>12, TableArg DEF ReadWrite, Go, TypeOK, Locals
    <3>2. Got(p)' = ft[p][d] /\ of' = of
      BY <1>12, <3>1 DEF ReadWrite, Got
    <3> QED
      BY <3>1, <3>2 DEF Locks, Moving
  <2>4. \A q \in Proc \ {p} : /\ Moving(q)' \/ pc'[q] = "transfer" => Got(q)' # NULL
                              /\ Moving(q)' => Locks(Got(q))'
                              /\ pc'[q] = "update" => arg'[q].pos + arg'[q].moved \in Pos
    BY <2>1, <2>2, Operands, CallStill DEF Calling
  <2> QED
    BY <2>3, <2>4 DEF CallInv
<1>13. CASE Lock(p)
  <2>1. \A q \in Proc \ {p} : Calling(q)' =>
            Calling(q) /\ pc'[q] = pc[q] /\ arg'[q] = arg[q] /\ ft'[q] = ft[q]
    BY <1>13 DEF Lock, Go, Return, Calling, Moving, TypeOK
  <2>2. \A f \in Live : of'[f].vnode = of[f].vnode
    BY <1>13, SeekChange DEF Lock, Return, Go, Acquire, Moving, Live
  <2>3. /\ Got(p)' # NULL
        /\ Moving(p)' => Locks(Got(p))'
        /\ pc'[p] = "update" => arg'[p].pos + arg'[p].moved \in Pos
    <3>0. arg'[p].fd = arg[p].fd
      BY <1>13, TableArg DEF Lock, TypeOK, Locals
    <3>1. Got(p) \in Live /\ pc'[p] = "transfer" /\ ft' = ft
      BY <1>13, Operands DEF Lock, Go, Moving, TypeOK
    <3>2. Got(p)' = Got(p) /\ Got(p) # NULL
      BY <3>0, <3>1, LiveType DEF Got
    <3> QED
      BY <3>1, <3>2 DEF Moving
  <2>4. \A q \in Proc \ {p} : /\ Moving(q)' \/ pc'[q] = "transfer" => Got(q)' # NULL
                              /\ Moving(q)' => Locks(Got(q))'
                              /\ pc'[q] = "update" => arg'[q].pos + arg'[q].moved \in Pos
    BY <2>1, <2>2, Operands, CallStill DEF Calling
  <2> QED
    BY <2>3, <2>4 DEF CallInv
<1>14. CASE Transfer(p)
  <2>1. \A q \in Proc \ {p} : Calling(q)' =>
            Calling(q) /\ pc'[q] = pc[q] /\ arg'[q] = arg[q] /\ ft'[q] = ft[q]
    BY <1>14 DEF Transfer, Go, Return, Calling, Moving, TypeOK
  <2>2. \A f \in Live : of'[f].vnode = of[f].vnode
    BY <1>14 DEF Transfer
  <2>3. /\ Got(p)' # NULL
        /\ Moving(p)' => Locks(Got(p))'
        /\ pc'[p] = "update" => arg'[p].pos + arg'[p].moved \in Pos
    <3>1. PICK n \in 0 .. MaxPos - arg[p].pos :
              /\ arg'[p].fd = arg[p].fd /\ arg'[p].pos = arg[p].pos /\ arg'[p].moved = n
      BY <1>14, TableArg DEF Transfer, TypeOK, Locals
    <3>2. arg'[p].pos + arg'[p].moved \in Pos
      BY <3>1, TableArg, ConstantsAssumption DEF Pos
    <3>3. Got(p)' = Got(p) /\ Got(p) # NULL /\ Locks(Got(p)) /\ of' = of
      BY <1>14, <3>1, Operands, LiveType DEF Transfer, Go, Got
    <3> QED
      BY <3>2, <3>3 DEF Locks
  <2>4. \A q \in Proc \ {p} : /\ Moving(q)' \/ pc'[q] = "transfer" => Got(q)' # NULL
                              /\ Moving(q)' => Locks(Got(q))'
                              /\ pc'[q] = "update" => arg'[q].pos + arg'[q].moved \in Pos
    BY <2>1, <2>2, Operands, CallStill DEF Calling
  <2> QED
    BY <2>3, <2>4 DEF CallInv
<1>15. CASE Update(p)
  <2>1. \A q \in Proc : Calling(q)' =>
            Calling(q) /\ pc'[q] = pc[q] /\ arg'[q] = arg[q] /\ ft'[q] = ft[q]
    BY <1>15 DEF Update, Go, Return, Calling, Moving, TypeOK
  <2>2. \A f \in Live : of'[f].vnode = of[f].vnode
    <3>1. arg[p].pos + arg[p].moved \in Pos
      BY <1>15 DEF Update, Return, Go, CallInv
    <3> QED
      BY <1>15, <3>1, SeekChange DEF Update, Return, Go, Moving, Live
  <2> QED
    BY <2>1, <2>2, Operands, CallStill DEF Calling, CallInv
<1>16. CASE ReadWriteEnds(p)
  <2>1. \A q \in Proc : Calling(q)' =>
            Calling(q) /\ pc'[q] = pc[q] /\ arg'[q] = arg[q] /\ ft'[q] = ft[q]
    BY <1>16 DEF ReadWriteEnds, Go, Return, Calling, Moving, TypeOK
  <2>2. \A f \in Live : of'[f].vnode = of[f].vnode
    BY <1>16, SeekChange DEF ReadWriteEnds, Return, Go, Release, Live
  <2> QED
    BY <2>1, <2>2, Operands, CallStill DEF Calling, CallInv
<1>17. CASE Lseek(p)
  <2>1. \A q \in Proc \ {p} : Calling(q)' =>
            Calling(q) /\ pc'[q] = pc[q] /\ arg'[q] = arg[q] /\ ft'[q] = ft[q]
    BY <1>17 DEF Lseek, Go, Return, Calling, Moving, TypeOK
  <2>2. \A f \in Live : of'[f].vnode = of[f].vnode
    BY <1>17 DEF Lseek
  <2>3. /\ Got(p)' # NULL
        /\ Moving(p)' => Locks(Got(p))'
        /\ pc'[p] = "update" => arg'[p].pos + arg'[p].moved \in Pos
    <3>0. PICK d \in Fd : ft[p][d] # NULL /\ Locks(ft[p][d]) /\ arg' = [arg EXCEPT ![p].fd = d]
      BY <1>17 DEF Lseek
    <3>1. arg'[p].fd = d
      BY <3>0, TableArg DEF TypeOK, Locals
    <3>2. Got(p)' = ft[p][d] /\ of' = of /\ pc'[p] = "seek_lock"
      BY <1>17, <3>1 DEF Lseek, Go, Got, TypeOK
    <3> QED
      BY <3>0, <3>1, <3>2 DEF Locks, Moving
  <2>4. \A q \in Proc \ {p} : /\ Moving(q)' \/ pc'[q] = "transfer" => Got(q)' # NULL
                              /\ Moving(q)' => Locks(Got(q))'
                              /\ pc'[q] = "update" => arg'[q].pos + arg'[q].moved \in Pos
    BY <2>1, <2>2, Operands, CallStill DEF Calling
  <2> QED
    BY <2>3, <2>4 DEF CallInv
<1>18. CASE SeekLock(p)
  <2>1. \A q \in Proc \ {p} : Calling(q)' =>
            Calling(q) /\ pc'[q] = pc[q] /\ arg'[q] = arg[q] /\ ft'[q] = ft[q]
    BY <1>18 DEF SeekLock, Go, Return, Calling, Moving, TypeOK
  <2>2. \A f \in Live : of'[f].vnode = of[f].vnode
    BY <1>18, SeekChange DEF SeekLock, Return, Go, Acquire, Moving, Live
  <2>3. /\ Got(p)' # NULL
        /\ Moving(p)' => Locks(Got(p))'
        /\ pc'[p] = "update" => arg'[p].pos + arg'[p].moved \in Pos
    <3>1. /\ Got(p) \in Live /\ arg' = arg /\ pc'[p] = "seek" /\ ft' = ft
          /\ Locks(Got(p))
      BY <1>18, Operands DEF SeekLock, Go, Moving, TypeOK, CallInv
    <3>2. Got(p)' = Got(p) /\ Got(p) # NULL
      BY <3>1, LiveType DEF Got
    <3> QED
      BY <2>2, <3>1, <3>2 DEF Locks
  <2>4. \A q \in Proc \ {p} : /\ Moving(q)' \/ pc'[q] = "transfer" => Got(q)' # NULL
                              /\ Moving(q)' => Locks(Got(q))'
                              /\ pc'[q] = "update" => arg'[q].pos + arg'[q].moved \in Pos
    BY <2>1, <2>2, Operands, CallStill DEF Calling
  <2> QED
    BY <2>3, <2>4 DEF CallInv
<1>19. CASE Seek(p)
  <2>1. \A q \in Proc : Calling(q)' =>
            Calling(q) /\ pc'[q] = pc[q] /\ arg'[q] = arg[q] /\ ft'[q] = ft[q]
    BY <1>19 DEF Seek, Go, Return, Calling, Moving, TypeOK
  <2>2. \A f \in Live : of'[f].vnode = of[f].vnode
    <3>1. PICK o \in -1 .. MaxPos :
              o >= 0 /\ of' = [of EXCEPT ![Got(p)].offset = o, ![Got(p)].offsetlock = NULL]
      BY <1>19 DEF Seek, Accepts
    <3>2. o \in Pos
      BY <3>1, ConstantsAssumption DEF Pos
    <3> QED
      BY <1>19, <3>1, <3>2, SeekChange DEF Seek, Return, Go, Moving, Live
  <2> QED
    BY <2>1, <2>2, Operands, CallStill DEF Calling, CallInv
<1>20. CASE SeekFails(p)
  <2>1. \A q \in Proc : Calling(q)' =>
            Calling(q) /\ pc'[q] = pc[q] /\ arg'[q] = arg[q] /\ ft'[q] = ft[q]
    BY <1>20 DEF SeekFails, Go, Return, Calling, Moving, TypeOK
  <2>2. \A f \in Live : of'[f].vnode = of[f].vnode
    BY <1>20, SeekChange DEF SeekFails, Return, Go, Release, Moving, Live
  <2> QED
    BY <2>1, <2>2, Operands, CallStill DEF Calling, CallInv
<1>21. CASE Fork(p)
  <2>1. \A q \in Proc : Calling(q)' =>
            Calling(q) /\ pc'[q] = pc[q] /\ arg'[q] = arg[q] /\ ft'[q] = ft[q]
    BY <1>21 DEF Fork, Go, Return, Calling, Moving, TypeOK
  <2>2. \A f \in Live : of'[f].vnode = of[f].vnode
    BY <1>21 DEF Fork
  <2> QED
    BY <2>1, <2>2, Operands, CallStill DEF Calling, CallInv
<1>22. CASE Copy(p)
  <2>1. \A q \in Proc : Calling(q)' =>
            Calling(q) /\ pc'[q] = pc[q] /\ arg'[q] = arg[q] /\ ft'[q] = ft[q]
    BY <1>22, TableArg DEF Copy, Go, Return, Calling, Moving, TypeOK, TableInv
  <2>2. \A f \in Live : of'[f].vnode = of[f].vnode
    <3>1. Increfs(Got(p)) => Got(p) \in Live /\ of[Got(p)].refcount + 1 \in Nat
      BY <1>22, TableArg, Operands, LiveType DEF Copy, Increfs, Got
    <3> QED
      BY <1>22, <3>1, OneChange DEF Copy, Incref, Live
  <2> QED
    BY <2>1, <2>2, Operands, CallStill DEF Calling, CallInv
<1>23. CASE ForkDone(p)
  <2>1. \A q \in Proc : Calling(q)' =>
            Calling(q) /\ pc'[q] = pc[q] /\ arg'[q] = arg[q] /\ ft'[q] = ft[q]
    BY <1>23, TableArg DEF ForkDone, Go, Return, Calling, Moving, TypeOK, TableInv
  <2>2. \A f \in Live : of'[f].vnode = of[f].vnode
    BY <1>23 DEF ForkDone
  <2> QED
    BY <2>1, <2>2, Operands, CallStill DEF Calling, CallInv
<1>24. CASE ForkFails(p)
  <2>1. \A q \in Proc : Calling(q)' =>
            Calling(q) /\ pc'[q] = pc[q] /\ arg'[q] = arg[q] /\ ft'[q] = ft[q]
    BY <1>24 DEF ForkFails, Go, Return, Calling, Moving, TypeOK
  <2>2. \A f \in Live : of'[f].vnode = of[f].vnode
    BY <1>24 DEF ForkFails
  <2> QED
    BY <2>1, <2>2, Operands, CallStill DEF Calling, CallInv
<1>25. CASE Exit(p)
  <2>1. \A q \in Proc : Calling(q)' =>
            Calling(q) /\ pc'[q] = pc[q] /\ arg'[q] = arg[q] /\ ft'[q] = ft[q]
    BY <1>25 DEF Exit, Go, Return, Calling, Moving, TypeOK
  <2>2. \A f \in Live : of'[f].vnode = of[f].vnode
    BY <1>25 DEF Exit
  <2> QED
    BY <2>1, <2>2, Operands, CallStill DEF Calling, CallInv
<1>26. CASE Drop(p)
  <2>1. \A q \in Proc : Calling(q)' =>
            Calling(q) /\ pc'[q] = pc[q] /\ arg'[q] = arg[q] /\ ft'[q] = ft[q]
    BY <1>26, TableArg DEF Drop, Go, Return, Calling, Moving, TypeOK, TableInv, DropNext, Dropping
  <2>2. \A f \in Live : of'[f].vnode = of[f].vnode
    <3>1. Doomed(p) # NULL => Doomed(p) \in Live /\ of[Doomed(p)].refcount - 1 \in Nat
      BY <1>26, TableArg, Operands, LiveType DEF Drop, Dropping, Doomed
    <3> QED
      BY <1>26, <3>1, OneChange DEF Drop, Lower, Live
  <2> QED
    BY <2>1, <2>2, Operands, CallStill DEF Calling, CallInv
<1>27. CASE DropLast(p)
  <2>1. \A q \in Proc : Calling(q)' =>
            Calling(q) /\ pc'[q] = pc[q] /\ arg'[q] = arg[q] /\ ft'[q] = ft[q]
    BY <1>27, TableArg DEF DropLast, Go, Return, Calling, Moving, TypeOK, TableInv, DropNext, Dropping
  <2>2. \A f \in Live : of'[f].vnode = of[f].vnode
    BY <1>27 DEF DropLast
  <2> QED
    BY <2>1, <2>2, Operands, CallStill DEF Calling, CallInv
<1>28. CASE DropDestroy(p)
  <2>1. \A q \in Proc : Calling(q)' =>
            Calling(q) /\ pc'[q] = pc[q] /\ arg'[q] = arg[q] /\ ft'[q] = ft[q]
    BY <1>28 DEF DropDestroy, Go, Return, Calling, Moving, TypeOK
  <2>2. \A q \in Proc : Calling(q)' => of'[Got(q)].vnode = of[Got(q)].vnode
    <3>1. \A f \in Live : f # hand[p] => of'[f] = of[f]
      BY <1>28 DEF DropDestroy, Live, TypeOK
    <3>2. \A q \in Proc : Calling(q) => Got(q) \in Live /\ Got(q) # hand[p]
      BY <1>28, Operands, LastAlone DEF DropDestroy, Return, Go, Destroying, Got, Calling
    <3> QED
      BY <2>1, <3>1, <3>2
  <2> QED
    BY <2>1, <2>2, CallStill DEF CallInv
<1>29. CASE DropDone(p)
  <2>1. \A q \in Proc : Calling(q)' =>
            Calling(q) /\ pc'[q] = pc[q] /\ arg'[q] = arg[q] /\ ft'[q] = ft[q]
    BY <1>29, TableArg DEF DropDone, Go, Return, Calling, Moving, TypeOK, TableInv
  <2>2. \A f \in Live : of'[f].vnode = of[f].vnode
    BY <1>29 DEF DropDone
  <2> QED
    BY <2>1, <2>2, Operands, CallStill DEF Calling, CallInv
<1> QED
  BY <1>0, <1>1, <1>2, <1>3, <1>4, <1>5, <1>6, <1>7, <1>8, <1>9, <1>10,
     <1>11, <1>12, <1>13, <1>14, <1>15, <1>16, <1>17, <1>18, <1>19,
     <1>20, <1>21, <1>22, <1>23, <1>24, <1>25, <1>26, <1>27, <1>28,
     <1>29 DEF StepOf

(* A step of p that works on no table but its own, and not as in fork or    *)
(* in exit. *)
LEMMA TablesCalm ==
    ASSUME OpenFilesInv, NEW p \in Proc,
           \A q \in Proc \ {p} : /\ pc'[q] = pc[q] /\ ft'[q] = ft[q]
                                 /\ arg'[q].whose = arg[q].whose /\ arg'[q].fd = arg[q].fd,
           pc[p] # "embryo", ~OnTable(p), pc'[p] \notin {"none", "embryo"}, ~OnTable(p)',
           arg'[p].whose = p, arg'[p].fd \in Fd
    PROVE  TableInv' /\ EmptyInv'
<1> USE DEF OpenFilesInv
<1>1. \A q \in Proc \ {p} : /\ OnTable(q)' = OnTable(q)
                            /\ arg[q].whose \in Proc \ {p}
  BY TableArg DEF OnTable, TableInv
<1>2. TableInv'
  <2>1. ASSUME NEW q \in Proc \ {p}, arg[q].whose # q
        PROVE  /\ pc'[arg[q].whose] = "embryo"
               /\ \A r \in Proc \ {q, arg[q].whose} : arg'[r].whose # arg[q].whose
    BY <1>1, <2>1 DEF TableInv
  <2>2. ASSUME NEW q \in Proc \ {p}
        PROVE  /\ ~OnTable(q)' => arg'[q].whose = q /\ arg'[q].fd \in Fd
               /\ pc'[q] = "copy" => arg'[q].whose # q
    BY <1>1 DEF TableInv
  <2>3. pc'[p] # "copy"
    BY DEF OnTable
  <2>4. ASSUME NEW q \in Proc
        PROVE  /\ ~OnTable(q)' => arg'[q].whose = q /\ arg'[q].fd \in Fd
               /\ pc'[q] = "copy" => arg'[q].whose # q
               /\ arg'[q].whose # q =>
                      /\ pc'[arg'[q].whose] = "embryo"
                      /\ \A r \in Proc \ {q, arg'[q].whose} : arg'[r].whose # arg'[q].whose
    <3>1. CASE q = p
      BY <2>3, <3>1
    <3>2. CASE q # p
      BY <2>1, <2>2, <3>2
    <3> QED
      BY <3>1, <3>2
  <2> QED
    BY <2>4 DEF TableInv
<1>3. EmptyInv'
  <2>1. ASSUME NEW q \in Proc \ {p}, NEW d \in Fd
        PROVE  /\ pc'[q] = "none" => ft'[q][d] = NULL
               /\ OnTable(q)' /\ Cleared(q, d)' => ft'[arg'[q].whose][d] = NULL
    BY <1>1, <2>1 DEF EmptyInv, Cleared
  <2> QED
    BY <2>1 DEF EmptyInv, OnTable
<1> QED
  BY <1>2, <1>3

(* A step of p that starts or continues work on the table it works on. *)
LEMMA TablesWork ==
    ASSUME OpenFilesInv, NEW p \in Proc,
           \A q \in Proc : arg'[q].whose = arg[q].whose,
           \A q \in Proc \ {p} : pc'[q] = pc[q] /\ arg'[q].fd = arg[q].fd,
           pc[p] \notin {"none", "embryo"}, OnTable(p)', pc'[p] # "embryo",
           pc'[p] = "copy" => pc[p] = "copy"
    PROVE  TableInv'
<1> USE DEF OpenFilesInv
<1>1. ASSUME NEW q \in Proc, arg[q].whose # q
      PROVE  /\ pc'[arg[q].whose] = "embryo"
             /\ \A r \in Proc \ {q, arg[q].whose} : arg'[r].whose # arg[q].whose
  <2>1. /\ arg[q].whose \in Proc /\ pc[arg[q].whose] = "embryo"
        /\ \A r \in Proc \ {q, arg[q].whose} : arg[r].whose # arg[q].whose
    BY <1>1, TableArg DEF TableInv
  <2> QED
    BY <2>1
<1>2. ASSUME NEW q \in Proc
      PROVE  /\ ~OnTable(q)' => arg[q].whose = q /\ arg'[q].fd \in Fd
             /\ pc'[q] = "copy" => arg[q].whose # q
  <2>1. CASE q = p
    BY <2>1 DEF TableInv
  <2>2. CASE q # p
    BY <2>2 DEF TableInv, OnTable
  <2> QED
    BY <2>1, <2>2
<1>3. \A q \in Proc :
          /\ ~OnTable(q)' => arg'[q].whose = q /\ arg'[q].fd \in Fd
          /\ pc'[q] = "copy" => arg'[q].whose # q
          /\ arg'[q].whose # q =>
                 /\ pc'[arg'[q].whose] = "embryo"
                 /\ \A r \in Proc \ {q, arg'[q].whose} : arg'[r].whose # arg'[q].whose
  BY <1>1, <1>2
<1> QED
  BY <1>3 DEF TableInv

(* It leaves what the others rely on to be empty. *)
LEMMA EmptyWork ==
    ASSUME OpenFilesInv, NEW p \in Proc,
           \A q \in Proc : arg'[q].whose = arg[q].whose,
           \A q \in Proc \ {p} : pc'[q] = pc[q] /\ arg'[q].fd = arg[q].fd,
           \A q \in Proc \ {p} : pc[q] # "embryo" =>
               ft'[q] = ft[q] /\ ft'[arg[q].whose] = ft[arg[q].whose],
           pc'[p] # "none",
           \A e \in Fd : Cleared(p, e)' => ft'[arg[p].whose][e] = NULL
    PROVE  EmptyInv'
<1> USE DEF OpenFilesInv
<1>1. ASSUME NEW q \in Proc, NEW e \in Fd
      PROVE  /\ pc'[q] = "none" => ft'[q][e] = NULL
             /\ OnTable(q)' /\ Cleared(q, e)' => ft'[arg'[q].whose][e] = NULL
  <2>1. CASE q = p
    BY <2>1
  <2>2. CASE q # p
    <3>1. /\ OnTable(q)' = OnTable(q) /\ Cleared(q, e)' = Cleared(q, e)
          /\ pc'[q] = pc[q]
      BY <2>2 DEF OnTable, Cleared
    <3>2. /\ pc[q] = "none" => ft[q][e] = NULL
          /\ OnTable(q) /\ Cleared(q, e) => ft[arg[q].whose][e] = NULL
      BY DEF EmptyInv
    <3>3. pc[q] = "none" \/ OnTable(q) => pc[q] # "embryo"
      BY DEF OnTable
    <3> QED
      BY <2>2, <3>1, <3>2, <3>3
  <2> QED
    BY <2>1, <2>2
<1> QED
  BY <1>1 DEF EmptyInv

(* A step by which p stops working on a table, which is then a process's. *)
LEMMA TablesDone ==
    ASSUME OpenFilesInv, NEW p \in Proc, NEW x \in {"user", "none"},
           OnTable(p), ft' = ft,
           \A q \in Proc : pc'[q] = IF q = arg[p].whose THEN x
                                    ELSE IF q = p THEN "user" ELSE pc[q],
           \A q \in Proc \ {p} : arg'[q] = arg[q],
           arg'[p].whose = p, arg'[p].fd \in Fd,
           x = "none" => \A e \in Fd : ft[arg[p].whose][e] = NULL
    PROVE  TableInv' /\ EmptyInv'
<1> USE DEF OpenFilesInv
<1> DEFINE w == arg[p].whose
<1>1. w \in Proc /\ (w # p => pc[w] = "embryo") /\ pc[p] # "embryo"
  BY TableArg DEF TableInv, OnTable
<1>2. \A q \in Proc \ {p, w} :
          /\ pc'[q] = pc[q] /\ arg'[q] = arg[q]
          /\ arg[q].whose \in Proc \ {p, w}
  <2>1. ASSUME NEW q \in Proc \ {p, w}
        PROVE  arg[q].whose \in Proc \ {p, w}
    <3>1. arg[q].whose # q => pc[arg[q].whose] = "embryo"
      BY DEF TableInv
    <3>2. arg[q].whose # w
      <4>1. CASE w = p
        BY <1>1, <3>1, <4>1
      <4>2. CASE w # p
        BY <4>2 DEF TableInv
      <4> QED
        BY <4>1, <4>2
    <3> QED
      BY <1>1, <3>1, <3>2, TableArg
  <2> QED
    BY <2>1
<1>3. w # p => arg'[w].whose = w /\ arg'[w].fd \in Fd
  BY <1>1 DEF TableInv, OnTable
<1>4. \A q \in {p, w} : /\ arg'[q].whose = q /\ arg'[q].fd \in Fd
                        /\ pc'[q] \in {"user", "none"} /\ ~OnTable(q)'
  BY <1>1, <1>3 DEF OnTable
<1>5. TableInv'
  <2>1. ASSUME NEW q \in Proc \ {p, w}
        PROVE  /\ ~OnTable(q)' => arg'[q].whose = q /\ arg'[q].fd \in Fd
               /\ pc'[q] = "copy" => arg'[q].whose # q
               /\ arg'[q].whose # q =>
                      /\ pc'[arg'[q].whose] = "embryo"
                      /\ \A r \in Proc \ {q, arg'[q].whose} : arg'[r].whose # arg'[q].whose
    <3>1. /\ ~OnTable(q) => arg[q].whose = q /\ arg[q].fd \in Fd
          /\ pc[q] = "copy" => arg[q].whose # q
          /\ arg[q].whose # q =>
                 /\ pc[arg[q].whose] = "embryo"
                 /\ \A r \in Proc \ {q, arg[q].whose} : arg[r].whose # arg[q].whose
      BY DEF TableInv
    <3>2. OnTable(q)' = OnTable(q) /\ arg'[q] = arg[q] /\ pc'[q] = pc[q]
      BY <1>2 DEF OnTable
    <3>3. arg[q].whose # q => pc'[arg[q].whose] = "embryo"
      BY <1>2, <3>1
    <3>4. ASSUME arg[q].whose # q, NEW r \in Proc \ {q, arg[q].whose}
          PROVE  arg'[r].whose # arg[q].whose
      <4>1. CASE r \in {p, w}
        BY <1>2, <1>4, <4>1
      <4>2. CASE r \notin {p, w}
        BY <1>2, <3>1, <3>4, <4>2
      <4> QED
        BY <4>1, <4>2
    <3> QED
      BY <3>1, <3>2, <3>3, <3>4
  <2>2. \A q \in Proc :
            /\ ~OnTable(q)' => arg'[q].whose = q /\ arg'[q].fd \in Fd
            /\ pc'[q] = "copy" => arg'[q].whose # q
            /\ arg'[q].whose # q =>
                   /\ pc'[arg'[q].whose] = "embryo"
                   /\ \A r \in Proc \ {q, arg'[q].whose} : arg'[r].whose # arg'[q].whose
    BY <1>4, <2>1
  <2> QED
    BY <2>2 DEF TableInv
<1>6. EmptyInv'
  <2>1. ASSUME NEW q \in Proc, NEW e \in Fd
        PROVE  /\ pc'[q] = "none" => ft'[q][e] = NULL
               /\ OnTable(q)' /\ Cleared(q, e)' => ft'[arg'[q].whose][e] = NULL
    <3>1. CASE q \in {p, w}
      BY <1>1, <1>4, <3>1
    <3>2. CASE q \notin {p, w}
      <4>1. /\ pc'[q] = pc[q] /\ arg'[q] = arg[q]
            /\ OnTable(q)' = OnTable(q) /\ Cleared(q, e)' = Cleared(q, e)
        BY <1>2, <3>2 DEF OnTable, Cleared
      <4>2. /\ pc[q] = "none" => ft[q][e] = NULL
            /\ OnTable(q) /\ Cleared(q, e) => ft[arg[q].whose][e] = NULL
        BY DEF EmptyInv
      <4> QED
        BY <4>1, <4>2
    <3> QED
      BY <3>1, <3>2
  <2> QED
    BY <2>1 DEF EmptyInv
<1> QED
  BY <1>5, <1>6

(* Every step keeps the tables apart, and empty where they should be. *)
LEMMA TableStep ==
    ASSUME OpenFilesInv, RefcountExact, Next
    PROVE  TableInv' /\ EmptyInv'
<1>0. PICK p \in Proc : StepOf(p)
  BY DEF Next, StepOf
<1> USE DEF OpenFilesInv
<1>1. CASE RunProgram(p)
  <2>1. \A q \in Proc \ {p} : /\ pc'[q] = pc[q] /\ ft'[q] = ft[q]
                              /\ arg'[q].whose = arg[q].whose /\ arg'[q].fd = arg[q].fd
    BY <1>1 DEF RunProgram, Go, Return, TypeOK
  <2>2. /\ pc[p] # "embryo" /\ ~OnTable(p) /\ pc'[p] \notin {"none", "embryo"} /\ ~OnTable(p)'
        /\ arg[p].whose = p /\ arg[p].fd \in Fd
    BY <1>1 DEF RunProgram, Go, Return, OnTable, TypeOK, TableInv
  <2>3. arg'[p].whose = p /\ arg'[p].fd \in Fd
    BY <1>1, <2>2 DEF RunProgram
  <2> QED
    BY <2>1, <2>2, <2>3, TablesCalm
<1>2. CASE Open(p)
  <2>1. \A q \in Proc \ {p} : /\ pc'[q] = pc[q] /\ ft'[q] = ft[q]
                              /\ arg'[q].whose = arg[q].whose /\ arg'[q].fd = arg[q].fd
    BY <1>2 DEF Open, Go, Return, TypeOK
  <2>2. /\ pc[p] # "embryo" /\ ~OnTable(p) /\ pc'[p] \notin {"none", "embryo"} /\ ~OnTable(p)'
        /\ arg[p].whose = p /\ arg[p].fd \in Fd
    BY <1>2 DEF Open, Go, Return, OnTable, TypeOK, TableInv
  <2>3. arg'[p].whose = p /\ arg'[p].fd \in Fd
    BY <1>2, <2>2 DEF Open
  <2> QED
    BY <2>1, <2>2, <2>3, TablesCalm
<1>3. CASE PlaceFile(p)
  <2>1. \A q \in Proc \ {p} : /\ pc'[q] = pc[q] /\ ft'[q] = ft[q]
                              /\ arg'[q].whose = arg[q].whose /\ arg'[q].fd = arg[q].fd
    BY <1>3 DEF PlaceFile, Go, Return, TypeOK
  <2>2. /\ pc[p] # "embryo" /\ ~OnTable(p) /\ pc'[p] \notin {"none", "embryo"} /\ ~OnTable(p)'
        /\ arg[p].whose = p /\ arg[p].fd \in Fd
    BY <1>3 DEF PlaceFile, Go, Return, OnTable, TypeOK, TableInv
  <2>3. arg'[p].whose = p /\ arg'[p].fd \in Fd
    BY <1>3, <2>2 DEF PlaceFile
  <2> QED
    BY <2>1, <2>2, <2>3, TablesCalm
<1>4. CASE PlaceFails(p)
  <2>1. \A q \in Proc \ {p} : /\ pc'[q] = pc[q] /\ ft'[q] = ft[q]
                              /\ arg'[q].whose = arg[q].whose /\ arg'[q].fd = arg[q].fd
    BY <1>4 DEF PlaceFails, Go, Return, TypeOK
  <2>2. /\ pc[p] # "embryo" /\ ~OnTable(p) /\ pc'[p] \notin {"none", "embryo"} /\ ~OnTable(p)'
        /\ arg[p].whose = p /\ arg[p].fd \in Fd
    BY <1>4 DEF PlaceFails, Go, Return, OnTable, TypeOK, TableInv
  <2>3. arg'[p].whose = p /\ arg'[p].fd \in Fd
    BY <1>4, <2>2 DEF PlaceFails
  <2> QED
    BY <2>1, <2>2, <2>3, TablesCalm
<1>5. CASE Decref(p)
  <2>1. \A q \in Proc \ {p} : /\ pc'[q] = pc[q] /\ ft'[q] = ft[q]
                              /\ arg'[q].whose = arg[q].whose /\ arg'[q].fd = arg[q].fd
    BY <1>5 DEF Decref, Go, Return, TypeOK
  <2>2. /\ pc[p] # "embryo" /\ ~OnTable(p) /\ pc'[p] \notin {"none", "embryo"} /\ ~OnTable(p)'
        /\ arg[p].whose = p /\ arg[p].fd \in Fd
    BY <1>5 DEF Decref, Go, Return, OnTable, TypeOK, TableInv
  <2>3. arg'[p].whose = p /\ arg'[p].fd \in Fd
    BY <1>5, FinitePlaces DEF Decref, Return, NoArg, TypeOK, Fd
  <2> QED
    BY <2>1, <2>2, <2>3, TablesCalm
<1>6. CASE DecrefLast(p)
  <2>1. \A q \in Proc \ {p} : /\ pc'[q] = pc[q] /\ ft'[q] = ft[q]
                              /\ arg'[q].whose = arg[q].whose /\ arg'[q].fd = arg[q].fd
    BY <1>6 DEF DecrefLast, Go, Return, TypeOK
  <2>2. /\ pc[p] # "embryo" /\ ~OnTable(p) /\ pc'[p] \notin {"none", "embryo"} /\ ~OnTable(p)'
        /\ arg[p].whose = p /\ arg[p].fd \in Fd
    BY <1>6 DEF DecrefLast, Go, Return, OnTable, TypeOK, TableInv
  <2>3. arg'[p].whose = p /\ arg'[p].fd \in Fd
    BY <1>6, <2>2 DEF DecrefLast
  <2> QED
    BY <2>1, <2>2, <2>3, TablesCalm
<1>7. CASE Destroy(p)
  <2>1. \A q \in Proc \ {p} : /\ pc'[q] = pc[q] /\ ft'[q] = ft[q]
                              /\ arg'[q].whose = arg[q].whose /\ arg'[q].fd = arg[q].fd
    BY <1>7 DEF Destroy, Go, Return, TypeOK
  <2>2. /\ pc[p] # "embryo" /\ ~OnTable(p) /\ pc'[p] \notin {"none", "embryo"} /\ ~OnTable(p)'
        /\ arg[p].whose = p /\ arg[p].fd \in Fd
    BY <1>7 DEF Destroy, Go, Return, OnTable, TypeOK, TableInv
  <2>3. arg'[p].whose = p /\ arg'[p].fd \in Fd
    BY <1>7, FinitePlaces DEF Destroy, Return, NoArg, TypeOK, Fd
  <2> QED
    BY <2>1, <2>2, <2>3, TablesCalm
<1>8. CASE Close(p)
  <2>1. \A q \in Proc \ {p} : /\ pc'[q] = pc[q] /\ ft'[q] = ft[q]
                              /\ arg'[q].whose = arg[q].whose /\ arg'[q].fd = arg[q].fd
    BY <1>8 DEF Close, Go, Return, TypeOK
  <2>2. /\ pc[p] # "embryo" /\ ~OnTable(p) /\ pc'[p] \notin {"none", "embryo"} /\ ~OnTable(p)'
        /\ arg[p].whose = p /\ arg[p].fd \in Fd
    BY <1>8 DEF Close, Go, Return, OnTable, TypeOK, TableInv
  <2>3. arg'[p].whose = p /\ arg'[p].fd \in Fd
    BY <1>8, <2>2 DEF Close
  <2> QED
    BY <2>1, <2>2, <2>3, TablesCalm
<1>9. CASE Dup2(p)
  <2>1. \A q \in Proc \ {p} : /\ pc'[q] = pc[q] /\ ft'[q] = ft[q]
                              /\ arg'[q].whose = arg[q].whose /\ arg'[q].fd = arg[q].fd
    BY <1>9 DEF Dup2, Go, Return, TypeOK
  <2>2. /\ pc[p] # "embryo" /\ ~OnTable(p) /\ pc'[p] \notin {"none", "embryo"} /\ ~OnTable(p)'
        /\ arg[p].whose = p /\ arg[p].fd \in Fd
    BY <1>9 DEF Dup2, Go, Return, OnTable, TypeOK, TableInv
  <2>3. arg'[p].whose = p /\ arg'[p].fd \in Fd
    <3>1. PICK d \in Fd : arg' = [arg EXCEPT ![p].fd = d]
      BY <1>9 DEF Dup2
    <3> QED
      BY <2>2, <3>1, TableArg DEF TypeOK, Locals
  <2> QED
    BY <2>1, <2>2, <2>3, TablesCalm
<1>10. CASE DupPlace(p)
  <2>1. \A q \in Proc \ {p} : /\ pc'[q] = pc[q] /\ ft'[q] = ft[q]
                              /\ arg'[q].whose = arg[q].whose /\ arg'[q].fd = arg[q].fd
    BY <1>10 DEF DupPlace, Go, Return, TypeOK
  <2>2. /\ pc[p] # "embryo" /\ ~OnTable(p) /\ pc'[p] \notin {"none", "embryo"} /\ ~OnTable(p)'
        /\ arg[p].whose = p /\ arg[p].fd \in Fd
    BY <1>10 DEF DupPlace, Go, Return, OnTable, TypeOK, TableInv
  <2>3. arg'[p].whose = p /\ arg'[p].fd \in Fd
    BY <1>10, FinitePlaces DEF DupPlace, Return, NoArg, TypeOK, Fd
  <2> QED
    BY <2>1, <2>2, <2>3, TablesCalm
<1>11. CASE DupReplace(p)
  <2>1. \A q \in Proc \ {p} : /\ pc'[q] = pc[q] /\ ft'[q] = ft[q]
                              /\ arg'[q].whose = arg[q].whose /\ arg'[q].fd = arg[q].fd
    BY <1>11 DEF DupReplace, Go, Return, TypeOK
  <2>2. /\ pc[p] # "embryo" /\ ~OnTable(p) /\ pc'[p] \notin {"none", "embryo"} /\ ~OnTable(p)'
        /\ arg[p].whose = p /\ arg[p].fd \in Fd
    BY <1>11 DEF DupReplace, Go, Return, OnTable, TypeOK, TableInv
  <2>3. arg'[p].whose = p /\ arg'[p].fd \in Fd
    BY <1>11, <2>2 DEF DupReplace
  <2> QED
    BY <2>1, <2>2, <2>3, TablesCalm
<1>12. CASE ReadWrite(p)
  <2>1. \A q \in Proc \ {p} : /\ pc'[q] = pc[q] /\ ft'[q] = ft[q]
                              /\ arg'[q].whose = arg[q].whose /\ arg'[q].fd = arg[q].fd
    BY <1>12 DEF ReadWrite, Go, Return, TypeOK
  <2>2. /\ pc[p] # "embryo" /\ ~OnTable(p) /\ pc'[p] \notin {"none", "embryo"} /\ ~OnTable(p)'
        /\ arg[p].whose = p /\ arg[p].fd \in Fd
    BY <1>12 DEF ReadWrite, Go, Return, OnTable, TypeOK, TableInv
  <2>3. arg'[p].whose = p /\ arg'[p].fd \in Fd
    <3>1. PICK d \in Fd, how \in {"UIO_READ", "UIO_WRITE"} : arg' = [arg EXCEPT ![p].fd = d, ![p].rw = how]
      BY <1>12 DEF ReadWrite
    <3> QED
      BY <2>2, <3>1, TableArg DEF TypeOK, Locals
  <2> QED
    BY <2>1, <2>2, <2>3, TablesCalm
<1>13. CASE Lock(p)
  <2>1. \A q \in Proc \ {p} : /\ pc'[q] = pc[q] /\ ft'[q] = ft[q]
                              /\ arg'[q].whose = arg[q].whose /\ arg'[q].fd = arg[q].fd
    BY <1>13 DEF Lock, Go, Return, TypeOK
  <2>2. /\ pc[p] # "embryo" /\ ~OnTable(p) /\ pc'[p] \notin {"none", "embryo"} /\ ~OnTable(p)'
        /\ arg[p].whose = p /\ arg[p].fd \in Fd
    BY <1>13 DEF Lock, Go, Return, OnTable, TypeOK, TableInv
  <2>3. arg'[p].whose = p /\ arg'[p].fd \in Fd
    BY <1>13, <2>2, TableArg DEF Lock, TypeOK, Locals
  <2> QED
    BY <2>1, <2>2, <2>3, TablesCalm
<1>14. CASE Transfer(p)
  <2>1. \A q \in Proc \ {p} : /\ pc'[q] = pc[q] /\ ft'[q] = ft[q]
                              /\ arg'[q].whose = arg[q].whose /\ arg'[q].fd = arg[q].fd
    BY <1>14 DEF Transfer, Go, Return, TypeOK
  <2>2. /\ pc[p] # "embryo" /\ ~OnTable(p) /\ pc'[p] \notin {"none", "embryo"} /\ ~OnTable(p)'
        /\ arg[p].whose = p /\ arg[p].fd \in Fd
    BY <1>14 DEF Transfer, Go, Return, OnTable, TypeOK, TableInv
  <2>3. arg'[p].whose = p /\ arg'[p].fd \in Fd
    <3>1. PICK n : arg' = [arg EXCEPT ![p].moved = n]
      BY <1>14 DEF Transfer
    <3> QED
      BY <2>2, <3>1, TableArg DEF TypeOK, Locals
  <2> QED
    BY <2>1, <2>2, <2>3, TablesCalm
<1>15. CASE Update(p)
  <2>1. \A q \in Proc \ {p} : /\ pc'[q] = pc[q] /\ ft'[q] = ft[q]
                              /\ arg'[q].whose = arg[q].whose /\ arg'[q].fd = arg[q].fd
    BY <1>15 DEF Update, Go, Return, TypeOK
  <2>2. /\ pc[p] # "embryo" /\ ~OnTable(p) /\ pc'[p] \notin {"none", "embryo"} /\ ~OnTable(p)'
        /\ arg[p].whose = p /\ arg[p].fd \in Fd
    BY <1>15 DEF Update, Go, Return, OnTable, TypeOK, TableInv
  <2>3. arg'[p].whose = p /\ arg'[p].fd \in Fd
    BY <1>15, FinitePlaces DEF Update, Return, NoArg, TypeOK, Fd
  <2> QED
    BY <2>1, <2>2, <2>3, TablesCalm
<1>16. CASE ReadWriteEnds(p)
  <2>1. \A q \in Proc \ {p} : /\ pc'[q] = pc[q] /\ ft'[q] = ft[q]
                              /\ arg'[q].whose = arg[q].whose /\ arg'[q].fd = arg[q].fd
    BY <1>16 DEF ReadWriteEnds, Go, Return, TypeOK
  <2>2. /\ pc[p] # "embryo" /\ ~OnTable(p) /\ pc'[p] \notin {"none", "embryo"} /\ ~OnTable(p)'
        /\ arg[p].whose = p /\ arg[p].fd \in Fd
    BY <1>16 DEF ReadWriteEnds, Go, Return, OnTable, TypeOK, TableInv
  <2>3. arg'[p].whose = p /\ arg'[p].fd \in Fd
    BY <1>16, FinitePlaces DEF ReadWriteEnds, Return, NoArg, TypeOK, Fd
  <2> QED
    BY <2>1, <2>2, <2>3, TablesCalm
<1>17. CASE Lseek(p)
  <2>1. \A q \in Proc \ {p} : /\ pc'[q] = pc[q] /\ ft'[q] = ft[q]
                              /\ arg'[q].whose = arg[q].whose /\ arg'[q].fd = arg[q].fd
    BY <1>17 DEF Lseek, Go, Return, TypeOK
  <2>2. /\ pc[p] # "embryo" /\ ~OnTable(p) /\ pc'[p] \notin {"none", "embryo"} /\ ~OnTable(p)'
        /\ arg[p].whose = p /\ arg[p].fd \in Fd
    BY <1>17 DEF Lseek, Go, Return, OnTable, TypeOK, TableInv
  <2>3. arg'[p].whose = p /\ arg'[p].fd \in Fd
    <3>1. PICK d \in Fd : arg' = [arg EXCEPT ![p].fd = d]
      BY <1>17 DEF Lseek
    <3> QED
      BY <2>2, <3>1, TableArg DEF TypeOK, Locals
  <2> QED
    BY <2>1, <2>2, <2>3, TablesCalm
<1>18. CASE SeekLock(p)
  <2>1. \A q \in Proc \ {p} : /\ pc'[q] = pc[q] /\ ft'[q] = ft[q]
                              /\ arg'[q].whose = arg[q].whose /\ arg'[q].fd = arg[q].fd
    BY <1>18 DEF SeekLock, Go, Return, TypeOK
  <2>2. /\ pc[p] # "embryo" /\ ~OnTable(p) /\ pc'[p] \notin {"none", "embryo"} /\ ~OnTable(p)'
        /\ arg[p].whose = p /\ arg[p].fd \in Fd
    BY <1>18 DEF SeekLock, Go, Return, OnTable, TypeOK, TableInv
  <2>3. arg'[p].whose = p /\ arg'[p].fd \in Fd
    BY <1>18, <2>2 DEF SeekLock
  <2> QED
    BY <2>1, <2>2, <2>3, TablesCalm
<1>19. CASE Seek(p)
  <2>1. \A q \in Proc \ {p} : /\ pc'[q] = pc[q] /\ ft'[q] = ft[q]
                              /\ arg'[q].whose = arg[q].whose /\ arg'[q].fd = arg[q].fd
    BY <1>19 DEF Seek, Go, Return, TypeOK
  <2>2. /\ pc[p] # "embryo" /\ ~OnTable(p) /\ pc'[p] \notin {"none", "embryo"} /\ ~OnTable(p)'
        /\ arg[p].whose = p /\ arg[p].fd \in Fd
    BY <1>19 DEF Seek, Go, Return, OnTable, TypeOK, TableInv
  <2>3. arg'[p].whose = p /\ arg'[p].fd \in Fd
    BY <1>19, FinitePlaces DEF Seek, Return, NoArg, TypeOK, Fd
  <2> QED
    BY <2>1, <2>2, <2>3, TablesCalm
<1>20. CASE SeekFails(p)
  <2>1. \A q \in Proc \ {p} : /\ pc'[q] = pc[q] /\ ft'[q] = ft[q]
                              /\ arg'[q].whose = arg[q].whose /\ arg'[q].fd = arg[q].fd
    BY <1>20 DEF SeekFails, Go, Return, TypeOK
  <2>2. /\ pc[p] # "embryo" /\ ~OnTable(p) /\ pc'[p] \notin {"none", "embryo"} /\ ~OnTable(p)'
        /\ arg[p].whose = p /\ arg[p].fd \in Fd
    BY <1>20 DEF SeekFails, Go, Return, OnTable, TypeOK, TableInv
  <2>3. arg'[p].whose = p /\ arg'[p].fd \in Fd
    BY <1>20, FinitePlaces DEF SeekFails, Return, NoArg, TypeOK, Fd
  <2> QED
    BY <2>1, <2>2, <2>3, TablesCalm
<1>21. CASE Fork(p)
  <2>1. PICK c \in Proc : /\ pc[c] = "none" /\ pc' = [pc EXCEPT ![p] = "copy", ![c] = "embryo"]
                          /\ arg' = [arg EXCEPT ![p].fd = 0, ![p].whose = c]
    BY <1>21 DEF Fork
  <2>2. /\ \A q \in Proc : /\ pc'[q] = IF q = c THEN "embryo" ELSE IF q = p THEN "copy" ELSE pc[q]
                           /\ arg'[q].whose = IF q = p THEN c ELSE arg[q].whose
                           /\ arg'[q].fd = IF q = p THEN 0 ELSE arg[q].fd
        /\ pc[p] = "user" /\ pc[c] = "none" /\ c # p /\ ft' = ft
    BY <1>21, <2>1, TableArg DEF Fork, TypeOK, Locals
  <2>3. \A q \in Proc : /\ q # c => arg[q].whose # c
                        /\ arg[q].whose # q => pc[arg[q].whose] = "embryo"
    BY <2>1 DEF TableInv
  <2>4. arg[c].whose = c /\ arg[c].fd \in Fd /\ arg[p].whose = p
    BY <2>1, <2>2 DEF TableInv, OnTable
  <2>5. TableInv'
    <3>1. ASSUME NEW q \in Proc
          PROVE  /\ ~OnTable(q)' => arg'[q].whose = q /\ arg'[q].fd \in Fd
                 /\ pc'[q] = "copy" => arg'[q].whose # q
                 /\ arg'[q].whose # q =>
                        /\ pc'[arg'[q].whose] = "embryo"
                        /\ \A r \in Proc \ {q, arg'[q].whose} : arg'[r].whose # arg'[q].whose
      <4>1. CASE q = p
        BY <2>2, <2>3, <4>1 DEF OnTable
      <4>2. CASE q = c
        BY <2>2, <2>4, <4>2 DEF OnTable
      <4>3. CASE q # p /\ q # c
        <5>1. arg[q].whose \in Proc /\ OnTable(q)' = OnTable(q)
          BY <2>2, <4>3, TableArg DEF OnTable
        <5>2. /\ ~OnTable(q) => arg[q].whose = q /\ arg[q].fd \in Fd
              /\ pc[q] = "copy" => arg[q].whose # q
              /\ arg[q].whose # q =>
                     /\ pc[arg[q].whose] = "embryo"
                     /\ \A r \in Proc \ {q, arg[q].whose} : arg[r].whose # arg[q].whose
          BY DEF TableInv
        <5> QED
          BY <2>2, <2>3, <4>3, <5>1, <5>2
      <4> QED
        BY <4>1, <4>2, <4>3
    <3> QED
      BY <3>1 DEF TableInv
  <2>6. EmptyInv'
    BY <2>2, <2>4, TableArg DEF EmptyInv, OnTable, Cleared
  <2> QED
    BY <2>5, <2>6
<1>22. CASE Copy(p)
  <2> DEFINE w == arg[p].whose
             d == arg[p].fd
  <2>1. /\ \A q \in Proc : /\ pc'[q] = IF q = p THEN "copy" ELSE pc[q]
                           /\ arg'[q].whose = arg[q].whose
                           /\ arg'[q].fd = IF q = p THEN d + 1 ELSE arg[q].fd
        /\ pc[p] = "copy" /\ d \in Fd /\ w \in Proc
    BY <1>22, TableArg DEF Copy, TypeOK, Locals
  <2>2. \A q \in Proc, e \in Fd : ft'[q][e] = IF q = w /\ e = d THEN Got(p) ELSE ft[q][e]
    BY <1>22, <2>1 DEF Copy, TypeOK
  <2>3. TableInv'
    BY <2>1, TablesWork DEF OnTable
  <2>4. \A q \in Proc \ {p} : pc[q] # "embryo" => q # w /\ arg[q].whose # w
    BY <2>1, OwnTable DEF OnTable
  <2>5. \A q \in Proc \ {w} : ft'[q] = ft[q]
    BY <1>22, <2>1 DEF Copy, TypeOK
  <2>6. \A e \in Fd : Cleared(p, e)' => ft'[w][e] = NULL
    BY <2>1, <2>2, FinitePlaces DEF EmptyInv, OnTable, Cleared, Fd
  <2>7. EmptyInv'
    BY <2>1, <2>4, <2>5, <2>6, TableArg, EmptyWork
  <2> QED
    BY <2>3, <2>7
<1>23. CASE ForkDone(p)
  <2> DEFINE w == arg[p].whose
  <2>1. /\ w \in Proc /\ pc[p] = "copy" /\ arg[p].fd = OPEN_MAX /\ ft' = ft
        /\ \A q \in Proc : pc'[q] = IF q = w THEN "user" ELSE IF q = p THEN "user" ELSE pc[q]
        /\ \A q \in Proc \ {p} : arg'[q] = arg[q]
        /\ arg'[p].whose = p /\ arg'[p].fd = 0
    BY <1>23, TableArg DEF ForkDone, TypeOK, NoArg
  <2>2. 0 \in Fd /\ OnTable(p)
    BY <2>1, FinitePlaces DEF Fd, OnTable
  <2> QED
    BY <2>1, <2>2, TablesDone
<1>24. CASE ForkFails(p)
  <2>1. /\ \A q \in Proc : /\ pc'[q] = IF q = p THEN "drop" ELSE pc[q]
                           /\ arg'[q].whose = arg[q].whose
                           /\ q # p => arg'[q].fd = arg[q].fd
        /\ pc[p] = "copy" /\ arg'[p].fd = 0 /\ ft' = ft
    BY <1>24, TableArg DEF ForkFails, Go, TypeOK, Locals
  <2>2. TableInv'
    BY <2>1, TablesWork DEF OnTable
  <2>3. EmptyInv'
    BY <2>1, EmptyWork DEF Cleared, Fd
  <2> QED
    BY <2>2, <2>3
<1>25. CASE Exit(p)
  <2>1. /\ \A q \in Proc : /\ pc'[q] = IF q = p THEN "drop" ELSE pc[q]
                           /\ arg'[q].whose = arg[q].whose
                           /\ q # p => arg'[q].fd = arg[q].fd
        /\ pc[p] = "user" /\ arg'[p].fd = 0 /\ ft' = ft
    BY <1>25, TableArg DEF Exit, Go, TypeOK, Locals
  <2>2. TableInv'
    BY <2>1, TablesWork DEF OnTable
  <2>3. EmptyInv'
    BY <2>1, EmptyWork DEF Cleared, Fd
  <2> QED
    BY <2>2, <2>3
<1>26. CASE Drop(p)
  <2> DEFINE w == arg[p].whose
             d == arg[p].fd
  <2>1. /\ \A q \in Proc : /\ pc'[q] = IF q = p THEN "drop" ELSE pc[q]
                           /\ arg'[q].whose = arg[q].whose
                           /\ arg'[q].fd = IF q = p THEN d + 1 ELSE arg[q].fd
        /\ pc[p] = "drop" /\ d \in Fd /\ w \in Proc
    BY <1>26, TableArg DEF Drop, Dropping, DropNext, TypeOK, Locals
  <2>2. \A q \in Proc, e \in Fd : ft'[q][e] = IF q = w /\ e = d THEN NULL ELSE ft[q][e]
    BY <1>26, <2>1 DEF Drop, Dropping, DropNext, TypeOK
  <2>3. TableInv'
    BY <2>1, TablesWork DEF OnTable
  <2>4. \A q \in Proc \ {p} : pc[q] # "embryo" => q # w /\ arg[q].whose # w
    BY <2>1, OwnTable DEF OnTable
  <2>5. \A q \in Proc \ {w} : ft'[q] = ft[q]
    BY <1>26, <2>1 DEF Drop, Dropping, DropNext, TypeOK
  <2>6. \A e \in Fd : Cleared(p, e)' => ft'[w][e] = NULL
    BY <2>1, <2>2, FinitePlaces DEF EmptyInv, OnTable, Cleared, Fd
  <2>7. EmptyInv'
    BY <2>1, <2>4, <2>5, <2>6, TableArg, EmptyWork
  <2> QED
    BY <2>3, <2>7
<1>27. CASE DropLast(p)
  <2> DEFINE w == arg[p].whose
             d == arg[p].fd
  <2>1. /\ \A q \in Proc : /\ pc'[q] = IF q = p THEN "drop_destroy" ELSE pc[q]
                           /\ arg'[q].whose = arg[q].whose
                           /\ arg'[q].fd = IF q = p THEN d + 1 ELSE arg[q].fd
        /\ pc[p] = "drop" /\ d \in Fd /\ w \in Proc
    BY <1>27, TableArg DEF DropLast, Dropping, DropNext, Go, TypeOK, Locals
  <2>2. \A q \in Proc, e \in Fd : ft'[q][e] = IF q = w /\ e = d THEN NULL ELSE ft[q][e]
    BY <1>27, <2>1 DEF DropLast, Dropping, DropNext, Go, TypeOK
  <2>3. TableInv'
    BY <2>1, TablesWork DEF OnTable
  <2>4. \A q \in Proc \ {p} : pc[q] # "embryo" => q # w /\ arg[q].whose # w
    BY <2>1, OwnTable DEF OnTable
  <2>5. \A q \in Proc \ {w} : ft'[q] = ft[q]
    BY <1>27, <2>1 DEF DropLast, Dropping, DropNext, Go, TypeOK
  <2>6. \A e \in Fd : Cleared(p, e)' => ft'[w][e] = NULL
    BY <2>1, <2>2, FinitePlaces DEF EmptyInv, OnTable, Cleared, Fd
  <2>7. EmptyInv'
    BY <2>1, <2>4, <2>5, <2>6, TableArg, EmptyWork
  <2> QED
    BY <2>3, <2>7
<1>28. CASE DropDestroy(p)
  <2>1. /\ \A q \in Proc : pc'[q] = IF q = p THEN "drop" ELSE pc[q]
        /\ pc[p] = "drop_destroy" /\ arg' = arg /\ ft' = ft
    BY <1>28 DEF DropDestroy, Go, TypeOK
  <2>2. TableInv'
    BY <2>1, TablesWork DEF OnTable
  <2>3. EmptyInv'
    BY <2>1, EmptyWork DEF Cleared, OnTable, EmptyInv
  <2> QED
    BY <2>2, <2>3
<1>29. CASE DropDone(p)
  <2> DEFINE w == arg[p].whose
  <2>1. /\ w \in Proc /\ pc[p] = "drop" /\ arg[p].fd = OPEN_MAX /\ ft' = ft
        /\ \A q \in Proc : pc'[q] = IF q = w THEN "none" ELSE IF q = p THEN "user" ELSE pc[q]
        /\ \A q \in Proc \ {p} : arg'[q] = arg[q]
        /\ arg'[p].whose = p /\ arg'[p].fd = 0
    BY <1>29, TableArg DEF DropDone, TypeOK, NoArg
  <2>2. 0 \in Fd /\ OnTable(p)
    BY <2>1, FinitePlaces DEF Fd, OnTable
  <2>3. \A e \in Fd : ft[w][e] = NULL
    BY <2>1, <2>2, FinitePlaces DEF EmptyInv, Cleared, Fd
  <2> QED
    BY <2>1, <2>2, <2>3, TablesDone
<1> QED
  BY <1>0, <1>1, <1>2, <1>3, <1>4, <1>5, <1>6, <1>7, <1>8, <1>9, <1>10,
     <1>11, <1>12, <1>13, <1>14, <1>15, <1>16, <1>17, <1>18, <1>19,
     <1>20, <1>21, <1>22, <1>23, <1>24, <1>25, <1>26, <1>27, <1>28,
     <1>29 DEF StepOf

(* A step of p, seen by the others: their locals are as they were, and so  *)
(* are their tables, but for the embryo's, whose process is at no call.    *)
Others(p) ==
    \A q \in Proc \ {p} :
        /\ arg'[q] = arg[q]
        /\ \/ pc'[q] = pc[q] /\ ft'[q] = ft[q]
           \/ {pc[q], pc'[q]} \subseteq {"none", "embryo", "user"}

Same(f) == /\ of'[f].vnode = of[f].vnode /\ of'[f].offset = of[f].offset
           /\ of'[f].offsetlock = of[f].offsetlock

(* A call is at an openfile. *)
AtFile(q) == Moving(q) \/ pc[q] = "transfer"

(* Every step is seen so. *)
LEMMA OthersSee ==
    ASSUME OpenFilesInv, NEW p \in Proc, StepOf(p)
    PROVE  Others(p)
<1> USE DEF OpenFilesInv
<1>1. CASE RunProgram(p)
  BY <1>1 DEF RunProgram, Go, Return, Others, TypeOK
<1>2. CASE Open(p)
  BY <1>2 DEF Open, Go, Return, Others, TypeOK
<1>3. CASE PlaceFile(p)
  BY <1>3 DEF PlaceFile, Go, Return, Others, TypeOK
<1>4. CASE PlaceFails(p)
  BY <1>4 DEF PlaceFails, Go, Return, Others, TypeOK
<1>5. CASE Decref(p)
  BY <1>5 DEF Decref, Go, Return, Others, TypeOK
<1>6. CASE DecrefLast(p)
  BY <1>6 DEF DecrefLast, Go, Return, Others, TypeOK
<1>7. CASE Destroy(p)
  BY <1>7 DEF Destroy, Go, Return, Others, TypeOK
<1>8. CASE Close(p)
  BY <1>8 DEF Close, Go, Return, Others, TypeOK
<1>9. CASE Dup2(p)
  BY <1>9 DEF Dup2, Go, Return, Others, TypeOK
<1>10. CASE DupPlace(p)
  BY <1>10 DEF DupPlace, Go, Return, Others, TypeOK
<1>11. CASE DupReplace(p)
  BY <1>11 DEF DupReplace, Go, Return, Others, TypeOK
<1>12. CASE ReadWrite(p)
  BY <1>12 DEF ReadWrite, Go, Return, Others, TypeOK
<1>13. CASE Lock(p)
  BY <1>13 DEF Lock, Go, Return, Others, TypeOK
<1>14. CASE Transfer(p)
  BY <1>14 DEF Transfer, Go, Return, Others, TypeOK
<1>15. CASE Update(p)
  BY <1>15 DEF Update, Go, Return, Others, TypeOK
<1>16. CASE ReadWriteEnds(p)
  BY <1>16 DEF ReadWriteEnds, Go, Return, Others, TypeOK
<1>17. CASE Lseek(p)
  BY <1>17 DEF Lseek, Go, Return, Others, TypeOK
<1>18. CASE SeekLock(p)
  BY <1>18 DEF SeekLock, Go, Return, Others, TypeOK
<1>19. CASE Seek(p)
  BY <1>19 DEF Seek, Go, Return, Others, TypeOK
<1>20. CASE SeekFails(p)
  BY <1>20 DEF SeekFails, Go, Return, Others, TypeOK
<1>21. CASE Fork(p)
  <2>1. PICK c \in Proc : /\ pc[c] = "none" /\ ft' = ft
                          /\ pc' = [pc EXCEPT ![p] = "copy", ![c] = "embryo"]
                          /\ arg' = [arg EXCEPT ![p].fd = 0, ![p].whose = c]
    BY <1>21 DEF Fork
  <2>2. \A q \in Proc \ {p} : /\ arg'[q] = arg[q] /\ ft'[q] = ft[q]
                              /\ pc'[q] = IF q = c THEN "embryo" ELSE pc[q]
    BY <2>1 DEF TypeOK
  <2> QED
    BY <2>1, <2>2 DEF Others
<1>22. CASE Copy(p)
  <2>1. /\ \A q \in Proc \ {p} : pc'[q] = pc[q] /\ arg'[q] = arg[q]
        /\ \A q \in Proc \ {arg[p].whose} : ft'[q] = ft[q]
        /\ arg[p].whose # p => pc[arg[p].whose] = "embryo"
    BY <1>22 DEF Copy, Go, TypeOK, TableInv
  <2> QED
    BY <2>1 DEF Others
<1>23. CASE ForkDone(p)
  <2>1. /\ \A q \in Proc \ {p} : /\ arg'[q] = arg[q] /\ ft'[q] = ft[q]
                                 /\ pc'[q] = IF q = arg[p].whose THEN "user" ELSE pc[q]
        /\ arg[p].whose # p => pc[arg[p].whose] = "embryo"
    BY <1>23 DEF ForkDone, TypeOK, TableInv
  <2> QED
    BY <2>1 DEF Others
<1>24. CASE ForkFails(p)
  BY <1>24 DEF ForkFails, Go, Return, Others, TypeOK
<1>25. CASE Exit(p)
  BY <1>25 DEF Exit, Go, Return, Others, TypeOK
<1>26. CASE Drop(p)
  <2>1. /\ \A q \in Proc \ {p} : pc'[q] = pc[q] /\ arg'[q] = arg[q]
        /\ \A q \in Proc \ {arg[p].whose} : ft'[q] = ft[q]
        /\ arg[p].whose # p => pc[arg[p].whose] = "embryo"
    BY <1>26 DEF Drop, Dropping, DropNext, Go, TypeOK, TableInv
  <2> QED
    BY <2>1 DEF Others
<1>27. CASE DropLast(p)
  <2>1. /\ \A q \in Proc \ {p} : pc'[q] = pc[q] /\ arg'[q] = arg[q]
        /\ \A q \in Proc \ {arg[p].whose} : ft'[q] = ft[q]
        /\ arg[p].whose # p => pc[arg[p].whose] = "embryo"
    BY <1>27 DEF DropLast, Dropping, DropNext, Go, TypeOK, TableInv
  <2> QED
    BY <2>1 DEF Others
<1>28. CASE DropDestroy(p)
  BY <1>28 DEF DropDestroy, Go, Return, Others, TypeOK
<1>29. CASE DropDone(p)
  <2>1. /\ \A q \in Proc \ {p} : /\ arg'[q] = arg[q] /\ ft'[q] = ft[q]
                                 /\ pc'[q] = IF q = arg[p].whose THEN "none" ELSE pc[q]
        /\ arg[p].whose # p => pc[arg[p].whose] = "embryo"
    BY <1>29 DEF DropDone, TypeOK, TableInv
  <2> QED
    BY <2>1 DEF Others
<1> QED
  BY <1>1, <1>2, <1>3, <1>4, <1>5, <1>6, <1>7, <1>8, <1>9, <1>10,
     <1>11, <1>12, <1>13, <1>14, <1>15, <1>16, <1>17, <1>18, <1>19,
     <1>20, <1>21, <1>22, <1>23, <1>24, <1>25, <1>26, <1>27, <1>28,
     <1>29 DEF StepOf

(* The positions stay safe if the others' are not disturbed, and p has what *)
(* it uses for itself.                                                      *)
LEMMA AtomicIf ==
    ASSUME OpenFilesInv, RefcountExact, TransfersAtomic, NEW p \in Proc, Others(p),
           \A q \in Proc \ {p} : AtFile(q) => of'[Got(q)].vnode = of[Got(q)].vnode,
           \A q \in Proc \ {p} : Using(q) => Same(Got(q)),
           Using(p)' => (of[Got(p)].offsetlock = p)',
           Transferring(p)' => (of[Got(p)].offset = arg[p].pos)',
           \A f \in Live' : of'[f].offsetlock # NULL =>
               \/ of'[f].offsetlock = p /\ Using(p)' /\ Got(p)' = f
               \/ f \in Live /\ of'[f].offsetlock = of[f].offsetlock
                  /\ of[f].offsetlock # p
    PROVE  TransfersAtomic'
<1>1. ASSUME NEW q \in Proc \ {p}
      PROVE  /\ Using(q)' = Using(q) /\ Transferring(q)' = Transferring(q)
             /\ Using(q) => Got(q)' = Got(q) /\ Same(Got(q))
             /\ arg'[q] = arg[q]
  <2>1. CASE pc'[q] = pc[q] /\ ft'[q] = ft[q]
    <3>1. Got(q)' = Got(q) /\ arg'[q] = arg[q]
      BY <2>1 DEF Others, Got
    <3>2. AtFile(q) => Locks(Got(q))' = Locks(Got(q))
      BY <3>1 DEF Locks
    <3> QED
      BY <2>1, <3>1, <3>2 DEF Using, Transferring, AtFile, Moving
  <2>2. CASE {pc[q], pc'[q]} \subseteq {"none", "embryo", "user"}
    BY <2>2 DEF Using, Transferring, Others
  <2> QED
    BY <2>1, <2>2 DEF Others
<1>2. \A q \in Proc : Transferring(q)' => (of[Got(q)].offset = arg[q].pos)'
  <2>1. ASSUME NEW q \in Proc \ {p}, Transferring(q)'
        PROVE  (of[Got(q)].offset = arg[q].pos)'
    BY <1>1, <2>1 DEF TransfersAtomic, Same, Using
  <2> QED
    BY <2>1
<1>3. \A q \in Proc : Using(q)' => (of[Got(q)].offsetlock = q)'
  <2>1. ASSUME NEW q \in Proc \ {p}, Using(q)'
        PROVE  (of[Got(q)].offsetlock = q)'
    BY <1>1, <2>1 DEF TransfersAtomic, Same
  <2> QED
    BY <2>1
<1>4. \A f \in Live' : of'[f].offsetlock # NULL =>
          /\ Using(of[f].offsetlock)'
          /\ (Got(of[f].offsetlock) = f)'
  <2>1. ASSUME NEW f \in Live, of[f].offsetlock # NULL, of[f].offsetlock # p,
               of'[f].offsetlock = of[f].offsetlock
        PROVE  Using(of[f].offsetlock)' /\ (Got(of[f].offsetlock) = f)'
    <3>1. PICK q \in Proc \ {p} : of[f].offsetlock = q
      BY <2>1, LiveType DEF OpenFilesInv, Openfile
    <3>2. Using(q) /\ Got(q) = f
      BY <2>1, <3>1 DEF TransfersAtomic
    <3>3. Using(q)' /\ Got(q)' = f
      BY <1>1, <3>1, <3>2
    <3>4. of'[f].offsetlock = q
      BY <2>1, <3>1
    <3> QED
      BY <3>3, <3>4 DEF Using, Transferring, Got
  <2>2. ASSUME NEW f \in Live', of'[f].offsetlock = p, Using(p)', Got(p)' = f
        PROVE  Using(of[f].offsetlock)' /\ (Got(of[f].offsetlock) = f)'
    BY <2>2 DEF Using, Transferring, Got
  <2> QED
    BY <2>1, <2>2
<1> QED
  BY <1>2, <1>3, <1>4 DEF TransfersAtomic

(* So they do if p uses no position, before and after. *)
LEMMA AtomicQuiet ==
    ASSUME OpenFilesInv, RefcountExact, TransfersAtomic, NEW p \in Proc, Others(p),
           ~Using(p), ~Using(p)',
           \A q \in Proc \ {p} : AtFile(q) => Same(Got(q)),
           \A f \in Live' : (f \in Live /\ Same(f)) \/ of'[f].offsetlock = NULL
    PROVE  TransfersAtomic'
<1>1. \A f \in Live : of[f].offsetlock # NULL => of[f].offsetlock # p
  BY DEF TransfersAtomic
<1>2. \A q \in Proc : Using(q) => AtFile(q)
  BY DEF Using, Transferring, AtFile, Moving
<1>3. ~Transferring(p)'
  BY DEF Using
<1>4. \A q \in Proc \ {p} : AtFile(q) => of'[Got(q)].vnode = of[Got(q)].vnode
  BY DEF Same
<1>5. \A f \in Live' : of'[f].offsetlock # NULL =>
          f \in Live /\ of'[f].offsetlock = of[f].offsetlock /\ of[f].offsetlock # p
  BY <1>1 DEF Same
<1>6. \A q \in Proc \ {p} : Using(q) => Same(Got(q))
  BY <1>2
<1> QED
  BY ONLY <1>3, <1>4, <1>5, <1>6, AtomicIf, OpenFilesInv, RefcountExact, TransfersAtomic,
     p \in Proc, Others(p), ~Using(p)'

(* Every step keeps the positions safe. *)
LEMMA AtomicStep ==
    ASSUME OpenFilesInv, RefcountExact, TransfersAtomic, Next
    PROVE  TransfersAtomic'
<1>0. PICK p \in Proc : StepOf(p)
  BY DEF Next, StepOf
<1>o. Others(p)
  BY <1>0, OthersSee
<1> USE <1>o DEF OpenFilesInv
<1>1. CASE RunProgram(p)
  <2>1. of' = of
    BY <1>1 DEF RunProgram
  <2>2. ~Using(p) /\ ~Using(p)'
    BY <1>1 DEF RunProgram, Go, Return, Using, Transferring, TypeOK
  <2> QED
    BY <2>1, <2>2, AtomicQuiet DEF Same, Live
<1>2. CASE Open(p)
  <2>1. PICK g \in File \ Live, v \in Vnode, m \in AccMode :
            of' = [of EXCEPT ![g] = [vnode |-> v, accmode |-> m, offset |-> 0,
                                     refcount |-> 1, offsetlock |-> NULL]]
    BY <1>2 DEF Open
  <2>2. /\ \A f \in Live : Same(f)
        /\ \A f \in Live' : (f \in Live /\ Same(f)) \/ of'[f].offsetlock = NULL
    BY <2>1 DEF Same, Live, TypeOK
  <2>3. ~Using(p) /\ ~Using(p)'
    BY <1>2 DEF Open, Go, Return, Using, Transferring, TypeOK
  <2> QED
    BY <2>2, <2>3, AtomicQuiet, Operands DEF AtFile
<1>3. CASE PlaceFile(p)
  <2>1. of' = of
    BY <1>3 DEF PlaceFile
  <2>2. ~Using(p) /\ ~Using(p)'
    BY <1>3 DEF PlaceFile, Go, Return, Using, Transferring, TypeOK
  <2> QED
    BY <2>1, <2>2, AtomicQuiet DEF Same, Live
<1>4. CASE PlaceFails(p)
  <2>1. of' = of
    BY <1>4 DEF PlaceFails
  <2>2. ~Using(p) /\ ~Using(p)'
    BY <1>4 DEF PlaceFails, Go, Return, Using, Transferring, TypeOK
  <2> QED
    BY <2>1, <2>2, AtomicQuiet DEF Same, Live
<1>5. CASE Decref(p)
  <2>1. PICK g \in Live : \E n : of' = [of EXCEPT ![g].refcount = n]
    BY <1>5, Operands DEF Decref, Return, Go, Lower, Holding
  <2>2. \A f \in Live : Same(f)
    BY <2>1, LiveType DEF Same, TypeOK, Openfile
  <2>3. Live' \subseteq Live
    BY <2>1 DEF TypeOK, Live
  <2>4. ~Using(p) /\ ~Using(p)'
    BY <1>5 DEF Decref, Go, Return, Using, Transferring, TypeOK
  <2> QED
    BY <2>2, <2>3, <2>4, AtomicQuiet, Operands DEF AtFile
<1>6. CASE DecrefLast(p)
  <2>1. of' = of
    BY <1>6 DEF DecrefLast
  <2>2. ~Using(p) /\ ~Using(p)'
    BY <1>6 DEF DecrefLast, Go, Return, Using, Transferring, TypeOK
  <2> QED
    BY <2>1, <2>2, AtomicQuiet DEF Same, Live
<1>7. CASE Destroy(p)
  <2>1. of' = [of EXCEPT ![hand[p]] = NULL] /\ Destroying(p)
    BY <1>7 DEF Destroy, Go, Return, Destroying
  <2>2. \A q \in Proc : AtFile(q) => Got(q) \in Live \ {hand[p]}
    BY <2>1, LastAlone, Operands DEF AtFile, Got
  <2>3. \A f \in Live \ {hand[p]} : Same(f)
    BY <2>1 DEF Same, Live, TypeOK
  <2>4. Live' \subseteq Live \ {hand[p]}
    BY <2>1 DEF Live, TypeOK
  <2>5. ~Using(p) /\ ~Using(p)'
    BY <1>7 DEF Destroy, Go, Return, Using, Transferring, TypeOK
  <2> QED
    BY <2>2, <2>3, <2>4, <2>5, AtomicQuiet
<1>8. CASE Close(p)
  <2>1. of' = of
    BY <1>8 DEF Close
  <2>2. ~Using(p) /\ ~Using(p)'
    BY <1>8 DEF Close, Go, Return, Using, Transferring, TypeOK
  <2> QED
    BY <2>1, <2>2, AtomicQuiet DEF Same, Live
<1>9. CASE Dup2(p)
  <2>1. PICK g \in Live : \E n : of' = [of EXCEPT ![g].refcount = n]
    BY <1>9, Operands DEF Dup2, Incref
  <2>2. \A f \in Live : Same(f)
    BY <2>1, LiveType DEF Same, TypeOK, Openfile
  <2>3. Live' \subseteq Live
    BY <2>1 DEF TypeOK, Live
  <2>4. ~Using(p) /\ ~Using(p)'
    BY <1>9 DEF Dup2, Go, Return, Using, Transferring, TypeOK
  <2> QED
    BY <2>2, <2>3, <2>4, AtomicQuiet, Operands DEF AtFile
<1>10. CASE DupPlace(p)
  <2>1. of' = of
    BY <1>10 DEF DupPlace
  <2>2. ~Using(p) /\ ~Using(p)'
    BY <1>10 DEF DupPlace, Go, Return, Using, Transferring, TypeOK
  <2> QED
    BY <2>1, <2>2, AtomicQuiet DEF Same, Live
<1>11. CASE DupReplace(p)
  <2>1. of' = of
    BY <1>11 DEF DupReplace
  <2>2. ~Using(p) /\ ~Using(p)'
    BY <1>11 DEF DupReplace, Go, Return, Using, Transferring, TypeOK
  <2> QED
    BY <2>1, <2>2, AtomicQuiet DEF Same, Live
<1>12. CASE ReadWrite(p)
  <2>1. PICK d \in Fd, how \in {"UIO_READ", "UIO_WRITE"} :
            /\ ft[p][d] # NULL /\ pc[p] = "user"
            /\ pc' = [pc EXCEPT ![p] = IF Locks(ft[p][d]) THEN "lock" ELSE "transfer"]
            /\ arg' = [arg EXCEPT ![p].fd = d, ![p].rw = how]
    BY <1>12 DEF ReadWrite, Go
  <2>2. of' = of /\ ft' = ft /\ arg'[p].fd = d
    BY <1>12, <2>1, TableArg DEF ReadWrite, TypeOK, Locals
  <2>3. Got(p)' = ft[p][d] /\ Locks(Got(p))' = Locks(ft[p][d])
    BY <2>2 DEF Got, Locks
  <2>4. ~Using(p) /\ ~Using(p)'
    BY <2>1, <2>3 DEF Using, Transferring, TypeOK
  <2> QED
    BY <2>2, <2>4, AtomicQuiet DEF Same, Live
<1>13. CASE Lock(p)
  <2> DEFINE g == Got(p)
  <2>1. /\ g \in Live /\ g \in File /\ of[g].offsetlock = NULL
        /\ of' = [of EXCEPT ![g].offsetlock = p]
        /\ arg[p].fd \in Fd /\ ft' = ft /\ arg'[p].fd = arg[p].fd
        /\ pc'[p] = "transfer" /\ arg'[p].pos = of[g].offset
    BY <1>13, Operands, LiveType, TableArg
    DEF Lock, Acquire, Go, Moving, TypeOK, Locals
  <2>2. /\ \A f \in Live \ {g} : Same(f)
        /\ of'[g].vnode = of[g].vnode /\ of'[g].offset = of[g].offset
        /\ of'[g].offsetlock = p
        /\ Live' = Live
    BY <2>1, LiveType, NullAssumption DEF Same, TypeOK, Openfile, Live
  <2>3. Got(p)' = g
    BY <2>1 DEF Got
  <2>4. Locks(Got(p))'
    <3>1. Locks(g)
      BY <1>13 DEF Lock, Go, Moving, CallInv
    <3> QED
      BY <2>2, <2>3, <3>1 DEF Locks
  <2>5. /\ Using(p)' /\ (of[Got(p)].offsetlock = p)'
        /\ Transferring(p)' => (of[Got(p)].offset = arg[p].pos)'
    BY <2>1, <2>2, <2>3, <2>4 DEF Using, Transferring
  <2>6. \A q \in Proc \ {p} : AtFile(q) => of'[Got(q)].vnode = of[Got(q)].vnode
    BY <2>2, Operands DEF AtFile, Same
  <2>7. \A q \in Proc \ {p} : Using(q) => Same(Got(q))
    <3>1. \A q \in Proc \ {p} : Using(q) => AtFile(q) /\ of[Got(q)].offsetlock = q
      BY DEF TransfersAtomic, Using, Transferring, AtFile, Moving
    <3> QED
      BY <2>1, <2>2, <3>1, Operands, ConstantsAssumption DEF AtFile
  <2>8. \A f \in Live \ {g} : of[f].offsetlock # p
    <3>1. ~Using(p)
      BY <1>13 DEF Lock, Go, Using, Transferring
    <3> QED
      BY <3>1, ConstantsAssumption DEF TransfersAtomic
  <2>9. \A f \in Live' : of'[f].offsetlock # NULL =>
            \/ of'[f].offsetlock = p /\ Using(p)' /\ Got(p)' = f
            \/ f \in Live /\ of'[f].offsetlock = of[f].offsetlock
               /\ of[f].offsetlock # p
    BY <2>2, <2>3, <2>5, <2>8 DEF Same
  <2> QED
    BY <2>5, <2>6, <2>7, <2>9, AtomicIf
<1>14. CASE Transfer(p)
  <2>1. PICK n : arg' = [arg EXCEPT ![p].moved = n]
    BY <1>14 DEF Transfer
  <2>2. /\ of' = of /\ ft' = ft
        /\ arg'[p].fd = arg[p].fd /\ arg'[p].pos = arg[p].pos
        /\ pc[p] = "transfer" /\ pc'[p] = "update" /\ Locks(Got(p))
    BY <1>14, <2>1, TableArg DEF Transfer, Go, TypeOK, Locals
  <2>3. Got(p)' = Got(p) /\ Locks(Got(p))'
    BY <2>2 DEF Got, Locks
  <2>4. Using(p) /\ Transferring(p) /\ Using(p)' /\ Transferring(p)'
    BY <2>2, <2>3 DEF Using, Transferring
  <2>5. of[Got(p)].offsetlock = p /\ of[Got(p)].offset = arg[p].pos
    BY <2>4 DEF TransfersAtomic
  <2>6. \A f \in Live : of[f].offsetlock = p => Got(p) = f
    BY ConstantsAssumption DEF TransfersAtomic
  <2>7. /\ (of[Got(p)].offsetlock = p)'
        /\ (of[Got(p)].offset = arg[p].pos)'
    BY <2>2, <2>3, <2>5
  <2>8. \A f \in Live' : of'[f].offsetlock # NULL =>
            \/ of'[f].offsetlock = p /\ Using(p)' /\ Got(p)' = f
            \/ f \in Live /\ of'[f].offsetlock = of[f].offsetlock
               /\ of[f].offsetlock # p
    BY <2>2, <2>3, <2>4, <2>6 DEF Live
  <2>9. \A f : Same(f)
    BY <2>2 DEF Same
  <2> QED
    BY <2>7, <2>8, <2>9, AtomicIf DEF Same
<1>15. CASE Update(p)
  <2> DEFINE g == Got(p)
  <2>1. g \in Live /\ g \in File /\ Using(p) /\ ~Using(p)'
    BY <1>15, Operands, LiveType
    DEF Update, Return, Go, Moving, Using, Transferring, TypeOK, CallInv
  <2>2. of[g].offsetlock = p
    BY <2>1 DEF TransfersAtomic
  <2>3. /\ \A f \in Live \ {g} : Same(f)
        /\ of'[g].vnode = of[g].vnode /\ of'[g].offsetlock = NULL
        /\ Live' \subseteq Live
    <3>1. PICK x : of' = [of EXCEPT ![g].offset = x, ![g].offsetlock = NULL]
      BY <1>15 DEF Update
    <3> QED
      BY <2>1, <3>1, LiveType DEF Same, TypeOK, Openfile, Live
  <2>4. \A q \in Proc \ {p} : AtFile(q) => of'[Got(q)].vnode = of[Got(q)].vnode
    BY <2>3, Operands DEF AtFile, Same
  <2>5. \A q \in Proc \ {p} : Using(q) => Same(Got(q))
    <3>1. \A q \in Proc \ {p} : Using(q) => AtFile(q) /\ of[Got(q)].offsetlock = q
      BY DEF TransfersAtomic, Using, Transferring, AtFile, Moving
    <3> QED
      BY <2>2, <2>3, <3>1, Operands DEF AtFile
  <2>6. \A f \in Live : of[f].offsetlock = p => g = f
    BY ConstantsAssumption DEF TransfersAtomic
  <2>7. \A f \in Live' : of'[f].offsetlock # NULL =>
            \/ of'[f].offsetlock = p /\ Using(p)' /\ Got(p)' = f
            \/ f \in Live /\ of'[f].offsetlock = of[f].offsetlock
               /\ of[f].offsetlock # p
    BY <2>3, <2>6 DEF Same
  <2>8. ~Transferring(p)'
    BY <2>1 DEF Using
  <2> QED
    BY <2>1, <2>4, <2>5, <2>7, <2>8, AtomicIf
<1>16. CASE ReadWriteEnds(p)
  <2> DEFINE g == Got(p)
  <2>1. CASE Locks(g)
    <3>1. g \in Live /\ g \in File /\ Using(p) /\ ~Using(p)'
      BY <1>16, <2>1, Operands, LiveType
      DEF ReadWriteEnds, Return, Go, Moving, Using, Transferring, TypeOK, CallInv
    <3>2. of[g].offsetlock = p
      BY <3>1 DEF TransfersAtomic
    <3>3. /\ \A f \in Live \ {g} : Same(f)
          /\ of'[g].vnode = of[g].vnode /\ of'[g].offsetlock = NULL
          /\ Live' \subseteq Live
      BY <1>16, <2>1, <3>1, LiveType, NullAssumption DEF ReadWriteEnds, Release, Same, TypeOK, Openfile, Live
    <3>4. \A q \in Proc \ {p} : AtFile(q) => of'[Got(q)].vnode = of[Got(q)].vnode
      BY <3>3, Operands DEF AtFile, Same
    <3>5. \A q \in Proc \ {p} : Using(q) => Same(Got(q))
      <4>1. \A q \in Proc \ {p} : Using(q) => AtFile(q) /\ of[Got(q)].offsetlock = q
        BY DEF TransfersAtomic, Using, Transferring, AtFile, Moving
      <4> QED
        BY <3>2, <3>3, <4>1, Operands DEF AtFile
    <3>6. \A f \in Live : of[f].offsetlock = p => g = f
      BY ConstantsAssumption DEF TransfersAtomic
    <3>7. \A f \in Live' : of'[f].offsetlock # NULL =>
              \/ of'[f].offsetlock = p /\ Using(p)' /\ Got(p)' = f
              \/ f \in Live /\ of'[f].offsetlock = of[f].offsetlock
                 /\ of[f].offsetlock # p
      BY <3>3, <3>6 DEF Same
    <3>8. ~Transferring(p)'
      BY <3>1 DEF Using
    <3> QED
      BY <3>1, <3>4, <3>5, <3>7, <3>8, AtomicIf
  <2>2. CASE ~Locks(g)
    <3>1. of' = of
      BY <1>16, <2>2 DEF ReadWriteEnds
    <3>2. ~Using(p) /\ ~Using(p)'
      BY <1>16, <2>2 DEF ReadWriteEnds, Go, Return, Using, Transferring, TypeOK
    <3> QED
      BY <3>1, <3>2, AtomicQuiet DEF Same, Live
  <2> QED
    BY <2>1, <2>2
<1>17. CASE Lseek(p)
  <2>1. of' = of
    BY <1>17 DEF Lseek
  <2>2. ~Using(p) /\ ~Using(p)'
    BY <1>17 DEF Lseek, Go, Return, Using, Transferring, TypeOK
  <2> QED
    BY <2>1, <2>2, AtomicQuiet DEF Same, Live
<1>18. CASE SeekLock(p)
  <2> DEFINE g == Got(p)
  <2>1. /\ g \in Live /\ g \in File /\ of[g].offsetlock = NULL
        /\ of' = [of EXCEPT ![g].offsetlock = p]
        /\ arg[p].fd \in Fd /\ ft' = ft /\ arg'[p].fd = arg[p].fd
        /\ pc'[p] = "seek" /\ pc[p] = "seek_lock"
    BY <1>18, Operands, LiveType, TableArg
    DEF SeekLock, Acquire, Go, Moving, TypeOK, Locals
  <2>2. /\ \A f \in Live \ {g} : Same(f)
        /\ of'[g].vnode = of[g].vnode /\ of'[g].offset = of[g].offset
        /\ of'[g].offsetlock = p
        /\ Live' = Live
    BY <2>1, LiveType, NullAssumption DEF Same, TypeOK, Openfile, Live
  <2>3. Got(p)' = g
    BY <2>1 DEF Got
  <2>4. Locks(Got(p))'
    <3>1. Locks(g)
      BY <1>18 DEF SeekLock, Go, Moving, CallInv
    <3> QED
      BY <2>2, <2>3, <3>1 DEF Locks
  <2>5. /\ Using(p)' /\ (of[Got(p)].offsetlock = p)'
        /\ Transferring(p)' => (of[Got(p)].offset = arg[p].pos)'
    BY <2>1, <2>2, <2>3, <2>4 DEF Using, Transferring
  <2>6. \A q \in Proc \ {p} : AtFile(q) => of'[Got(q)].vnode = of[Got(q)].vnode
    BY <2>2, Operands DEF AtFile, Same
  <2>7. \A q \in Proc \ {p} : Using(q) => Same(Got(q))
    <3>1. \A q \in Proc \ {p} : Using(q) => AtFile(q) /\ of[Got(q)].offsetlock = q
      BY DEF TransfersAtomic, Using, Transferring, AtFile, Moving
    <3> QED
      BY <2>1, <2>2, <3>1, Operands, ConstantsAssumption DEF AtFile
  <2>8. \A f \in Live \ {g} : of[f].offsetlock # p
    <3>1. ~Using(p)
      BY <1>18 DEF SeekLock, Go, Using, Transferring
    <3> QED
      BY <3>1, ConstantsAssumption DEF TransfersAtomic
  <2>9. \A f \in Live' : of'[f].offsetlock # NULL =>
            \/ of'[f].offsetlock = p /\ Using(p)' /\ Got(p)' = f
            \/ f \in Live /\ of'[f].offsetlock = of[f].offsetlock
               /\ of[f].offsetlock # p
    BY <2>2, <2>3, <2>5, <2>8 DEF Same
  <2> QED
    BY <2>5, <2>6, <2>7, <2>9, AtomicIf
<1>19. CASE Seek(p)
  <2> DEFINE g == Got(p)
  <2>1. g \in Live /\ g \in File /\ Using(p) /\ ~Using(p)'
    BY <1>19, Operands, LiveType
    DEF Seek, Return, Go, Moving, Using, Transferring, TypeOK, CallInv
  <2>2. of[g].offsetlock = p
    BY <2>1 DEF TransfersAtomic
  <2>3. /\ \A f \in Live \ {g} : Same(f)
        /\ of'[g].vnode = of[g].vnode /\ of'[g].offsetlock = NULL
        /\ Live' \subseteq Live
    <3>1. PICK x : of' = [of EXCEPT ![g].offset = x, ![g].offsetlock = NULL]
      BY <1>19 DEF Seek
    <3> QED
      BY <2>1, <3>1, LiveType DEF Same, TypeOK, Openfile, Live
  <2>4. \A q \in Proc \ {p} : AtFile(q) => of'[Got(q)].vnode = of[Got(q)].vnode
    BY <2>3, Operands DEF AtFile, Same
  <2>5. \A q \in Proc \ {p} : Using(q) => Same(Got(q))
    <3>1. \A q \in Proc \ {p} : Using(q) => AtFile(q) /\ of[Got(q)].offsetlock = q
      BY DEF TransfersAtomic, Using, Transferring, AtFile, Moving
    <3> QED
      BY <2>2, <2>3, <3>1, Operands DEF AtFile
  <2>6. \A f \in Live : of[f].offsetlock = p => g = f
    BY ConstantsAssumption DEF TransfersAtomic
  <2>7. \A f \in Live' : of'[f].offsetlock # NULL =>
            \/ of'[f].offsetlock = p /\ Using(p)' /\ Got(p)' = f
            \/ f \in Live /\ of'[f].offsetlock = of[f].offsetlock
               /\ of[f].offsetlock # p
    BY <2>3, <2>6 DEF Same
  <2>8. ~Transferring(p)'
    BY <2>1 DEF Using
  <2> QED
    BY <2>1, <2>4, <2>5, <2>7, <2>8, AtomicIf
<1>20. CASE SeekFails(p)
  <2> DEFINE g == Got(p)
  <2>1. g \in Live /\ g \in File /\ Using(p) /\ ~Using(p)'
    BY <1>20, Operands, LiveType
    DEF SeekFails, Return, Go, Moving, Using, Transferring, TypeOK, CallInv
  <2>2. of[g].offsetlock = p
    BY <2>1 DEF TransfersAtomic
  <2>3. /\ \A f \in Live \ {g} : Same(f)
        /\ of'[g].vnode = of[g].vnode /\ of'[g].offsetlock = NULL
        /\ Live' \subseteq Live
    BY <1>20, <2>1, LiveType, NullAssumption DEF SeekFails, Release, Same, TypeOK, Openfile, Live
  <2>4. \A q \in Proc \ {p} : AtFile(q) => of'[Got(q)].vnode = of[Got(q)].vnode
    BY <2>3, Operands DEF AtFile, Same
  <2>5. \A q \in Proc \ {p} : Using(q) => Same(Got(q))
    <3>1. \A q \in Proc \ {p} : Using(q) => AtFile(q) /\ of[Got(q)].offsetlock = q
      BY DEF TransfersAtomic, Using, Transferring, AtFile, Moving
    <3> QED
      BY <2>2, <2>3, <3>1, Operands DEF AtFile
  <2>6. \A f \in Live : of[f].offsetlock = p => g = f
    BY ConstantsAssumption DEF TransfersAtomic
  <2>7. \A f \in Live' : of'[f].offsetlock # NULL =>
            \/ of'[f].offsetlock = p /\ Using(p)' /\ Got(p)' = f
            \/ f \in Live /\ of'[f].offsetlock = of[f].offsetlock
               /\ of[f].offsetlock # p
    BY <2>3, <2>6 DEF Same
  <2>8. ~Transferring(p)'
    BY <2>1 DEF Using
  <2> QED
    BY <2>1, <2>4, <2>5, <2>7, <2>8, AtomicIf
<1>21. CASE Fork(p)
  <2>1. of' = of
    BY <1>21 DEF Fork
  <2>2. ~Using(p) /\ ~Using(p)'
    BY <1>21 DEF Fork, Go, Return, Using, Transferring, TypeOK
  <2> QED
    BY <2>1, <2>2, AtomicQuiet DEF Same, Live
<1>22. CASE Copy(p)
  <2>1. CASE of' = of
    <3>1. ~Using(p) /\ ~Using(p)'
      BY <1>22 DEF Copy, Go, Return, Using, Transferring, TypeOK
    <3> QED
      BY <2>1, <3>1, AtomicQuiet DEF Same, Live
  <2>2. CASE of' # of
    <3>1. PICK g \in Live : \E n : of' = [of EXCEPT ![g].refcount = n]
      BY <1>22, <2>2, Operands, TableArg DEF Copy, Incref, Increfs, Got
    <3>2. \A f \in Live : Same(f)
      BY <3>1, LiveType DEF Same, TypeOK, Openfile
    <3>3. Live' \subseteq Live
      BY <3>1 DEF TypeOK, Live
    <3>4. ~Using(p) /\ ~Using(p)'
      BY <1>22 DEF Copy, Go, Return, Using, Transferring, TypeOK
    <3> QED
      BY <3>2, <3>3, <3>4, AtomicQuiet, Operands DEF AtFile
  <2> QED
    BY <2>1, <2>2
<1>23. CASE ForkDone(p)
  <2>1. of' = of
    BY <1>23 DEF ForkDone
  <2>2. ~Using(p) /\ ~Using(p)'
    BY <1>23 DEF ForkDone, Go, Return, Using, Transferring, TypeOK
  <2> QED
    BY <2>1, <2>2, AtomicQuiet DEF Same, Live
<1>24. CASE ForkFails(p)
  <2>1. of' = of
    BY <1>24 DEF ForkFails
  <2>2. ~Using(p) /\ ~Using(p)'
    BY <1>24 DEF ForkFails, Go, Return, Using, Transferring, TypeOK
  <2> QED
    BY <2>1, <2>2, AtomicQuiet DEF Same, Live
<1>25. CASE Exit(p)
  <2>1. of' = of
    BY <1>25 DEF Exit
  <2>2. ~Using(p) /\ ~Using(p)'
    BY <1>25 DEF Exit, Go, Return, Using, Transferring, TypeOK
  <2> QED
    BY <2>1, <2>2, AtomicQuiet DEF Same, Live
<1>26. CASE Drop(p)
  <2>1. CASE of' = of
    <3>1. ~Using(p) /\ ~Using(p)'
      <4>1. pc[p] = "drop" /\ pc' = pc
        BY <1>26 DEF Drop, Dropping
      <4> QED
        BY <4>1 DEF Using, Transferring
    <3> QED
      BY <2>1, <3>1, AtomicQuiet DEF Same, Live
  <2>2. CASE of' # of
    <3>1. PICK g \in Live : \E n : of' = [of EXCEPT ![g].refcount = n]
      BY <1>26, <2>2, Operands, TableArg DEF Drop, Dropping, Lower, Doomed
    <3>2. \A f \in Live : Same(f)
      BY <3>1, LiveType DEF Same, TypeOK, Openfile
    <3>3. Live' \subseteq Live
      BY <3>1 DEF TypeOK, Live
    <3>4. ~Using(p) /\ ~Using(p)'
      <4>1. pc[p] = "drop" /\ pc' = pc
        BY <1>26 DEF Drop, Dropping
      <4> QED
        BY <4>1 DEF Using, Transferring
    <3> QED
      BY <3>2, <3>3, <3>4, AtomicQuiet, Operands DEF AtFile
  <2> QED
    BY <2>1, <2>2
<1>27. CASE DropLast(p)
  <2>1. of' = of
    BY <1>27 DEF DropLast
  <2>2. ~Using(p) /\ ~Using(p)'
    BY <1>27 DEF DropLast, Dropping, DropNext, Go, Return, Using, Transferring, TypeOK
  <2> QED
    BY <2>1, <2>2, AtomicQuiet DEF Same, Live
<1>28. CASE DropDestroy(p)
  <2>1. of' = [of EXCEPT ![hand[p]] = NULL] /\ Destroying(p)
    BY <1>28 DEF DropDestroy, Go, Return, Destroying
  <2>2. \A q \in Proc : AtFile(q) => Got(q) \in Live \ {hand[p]}
    BY <2>1, LastAlone, Operands DEF AtFile, Got
  <2>3. \A f \in Live \ {hand[p]} : Same(f)
    BY <2>1 DEF Same, Live, TypeOK
  <2>4. Live' \subseteq Live \ {hand[p]}
    BY <2>1 DEF Live, TypeOK
  <2>5. ~Using(p) /\ ~Using(p)'
    BY <1>28 DEF DropDestroy, Go, Return, Using, Transferring, TypeOK
  <2> QED
    BY <2>2, <2>3, <2>4, <2>5, AtomicQuiet
<1>29. CASE DropDone(p)
  <2>1. of' = of
    BY <1>29 DEF DropDone
  <2>2. ~Using(p) /\ ~Using(p)'
    BY <1>29 DEF DropDone, Go, Return, Using, Transferring, TypeOK
  <2> QED
    BY <2>1, <2>2, AtomicQuiet DEF Same, Live
<1> QED
  BY <1>0, <1>1, <1>2, <1>3, <1>4, <1>5, <1>6, <1>7, <1>8, <1>9, <1>10,
     <1>11, <1>12, <1>13, <1>14, <1>15, <1>16, <1>17, <1>18, <1>19,
     <1>20, <1>21, <1>22, <1>23, <1>24, <1>25, <1>26, <1>27, <1>28,
     <1>29 DEF StepOf

(* At the start no position is in use. *)
LEMMA InitAtomic == Init => TransfersAtomic
  BY DEF Init, TransfersAtomic, Using, Transferring, Live

(* A call that destroys is alone with the openfile. *)
LEMMA AloneToDestroy ==
    ASSUME OpenFilesInv, RefcountExact, TransfersAtomic
    PROVE  DestroyAlone
<1> SUFFICES ASSUME NEW p \in Proc, Destroying(p)
             PROVE  /\ of[hand[p]].refcount = 1
                    /\ of[hand[p]].offsetlock = NULL
                    /\ \A q \in Proc : pc[q] \in {"lock", "seek_lock"} => Got(q) # hand[p]
  BY DEF DestroyAlone, Destroying
<1>1. /\ hand[p] \in Live /\ of[hand[p]].refcount = 1
      /\ \A q \in Proc, d \in Fd : ft[q][d] # hand[p]
  BY LastAlone
<1>2. \A q \in Proc : AtFile(q) => Got(q) # hand[p]
  BY <1>1, Operands DEF AtFile, Got
<1>3. of[hand[p]].offsetlock = NULL
  <2> SUFFICES ASSUME of[hand[p]].offsetlock # NULL PROVE FALSE
    OBVIOUS
  <2>1. PICK q \in Proc : q = of[hand[p]].offsetlock
    BY <1>1, LiveType DEF OpenFilesInv, Openfile
  <2>2. Using(q) /\ Got(q) = hand[p]
    BY <1>1, <2>1 DEF TransfersAtomic
  <2> QED
    BY <1>2, <2>2 DEF Using, Transferring, AtFile, Moving
<1> QED
  BY <1>1, <1>2, <1>3 DEF AtFile, Moving

(* The counts of openfiles are exact, and their positions safe, in every   *)
(* reachable state (openfile.c, filetable.c, file_syscalls.c).             *)
THEOREM Safety == Spec => [](OpenFilesInv /\ RefcountExact /\ TransfersAtomic)
<1> DEFINE Inv == OpenFilesInv /\ RefcountExact /\ TransfersAtomic
<1>1. Init => Inv
  BY InitInv, InitAtomic
<1>2. Inv /\ [Next]_vars => Inv'
  <2>1. ASSUME Inv, Next PROVE Inv'
    BY <2>1, TypeStep, CountStep, HandStep, CallStep, TableStep, AtomicStep DEF OpenFilesInv
  <2>2. ASSUME Inv, UNCHANGED vars PROVE Inv'
    <3> USE <2>2 DEF vars
    <3>0. TypeOK'
      BY DEF OpenFilesInv, TypeOK
    <3>1. HandInv' /\ CallInv'
      <4>1. HandInv'
        BY DEF OpenFilesInv, HandInv, Holding, Destroying
      <4>2. CallInv'
        BY DEF OpenFilesInv, CallInv, Moving, Got, Locks
      <4> QED
        BY <4>1, <4>2
    <3>2. TableInv' /\ EmptyInv'
      BY DEF OpenFilesInv, TableInv, EmptyInv, OnTable, Cleared
    <3>3. RefcountExact'
      BY DEF RefcountExact, Refs, Held
    <3>4. TransfersAtomic'
      BY DEF TransfersAtomic, Using, Transferring, Live, Got, Locks
    <3> QED
      BY <3>0, <3>1, <3>2, <3>3, <3>4 DEF OpenFilesInv
  <2> QED
    BY <2>1, <2>2
<1> QED
  BY <1>1, <1>2, PTL DEF Spec

(* So the type, hand, call and table invariants hold.                      *)
THEOREM Invariance == Spec => []OpenFilesInv
  BY Safety, PTL

(* An openfile's of_refcount is the number of references to it: it is not  *)
(* freed while there is one, and it is freed when there is none.           *)
THEOREM RefcountsExact == Spec => []RefcountExact
  BY Safety, PTL

(* From lock_acquire to lock_release in sys_readwrite and sys_lseek the    *)
(* seek position is the caller's alone.                                    *)
THEOREM PositionsSafe == Spec => []TransfersAtomic
  BY Safety, PTL

(* openfile_destroy, which runs with no lock held, has the only reference, *)
(* and nobody holds or waits for the lock that it destroys.                *)
THEOREM DestroyedAlone == Spec => []DestroyAlone
<1>1. OpenFilesInv /\ RefcountExact /\ TransfersAtomic => DestroyAlone
  BY AloneToDestroy
<1> QED
  BY <1>1, Safety, PTL

-----------------------------------------------------------------------------
(* What a step does to the openfiles: it changes only one that it has in   *)
(* hand or that a descriptor names, frees only one that the call destroys, *)
(* and moves a position in read, write and lseek only.                     *)
LEMMA OfStep ==
    ASSUME OpenFilesInv, RefcountExact, NEW p \in Proc, StepOf(p), NEW g \in Live
    PROVE  /\ of'[g] = of[g] \/ g = hand[p] \/ \E r \in Proc, d \in Fd : ft[r][d] = g
           /\ of'[g] = NULL => Destroying(p) /\ g = hand[p]
           /\ of'[g] # NULL => \/ of'[g].offset = of[g].offset
                               \/ (Update(p) \/ Seek(p)) /\ g = Got(p)
<1> USE DEF OpenFilesInv
<1>0. g \in File /\ of[g] # NULL /\ arg[p].fd \in 0 .. OPEN_MAX /\ arg[p].whose \in Proc
  BY TableArg, LiveType DEF Live
<1>1. CASE of' = of
  BY <1>0, <1>1
<1>2. ASSUME NEW f \in Live, f = hand[p] \/ \E r \in Proc, d \in Fd : ft[r][d] = f,
             NEW n \in Nat, of' = [of EXCEPT ![f].refcount = n]
      PROVE  /\ of'[g] = of[g] \/ g = f
             /\ of'[g] # NULL /\ of'[g].offset = of[g].offset
  BY <1>0, <1>2, OneChange
<1>3. CASE Open(p)
  <2>1. PICK f \in File \ Live, v \in Vnode, m \in AccMode :
            of' = [of EXCEPT ![f] = [vnode |-> v, accmode |-> m, offset |-> 0,
                                     refcount |-> 1, offsetlock |-> NULL]]
    BY <1>3 DEF Open
  <2>2. of'[g] = of[g]
    BY <1>0, <2>1 DEF TypeOK
  <2> QED
    BY <1>0, <2>2
<1>4. CASE Decref(p) \/ Drop(p) \/ Dup2(p) \/ Copy(p)
  <2>1. ASSUME of' # of
        PROVE  \E f \in Live, n \in Nat :
                   /\ f = hand[p] \/ \E r \in Proc, d \in Fd : ft[r][d] = f
                   /\ of' = [of EXCEPT ![f].refcount = n]
    <3>1. CASE Decref(p)
      <4>1. hand[p] \in Live /\ of' = [of EXCEPT ![hand[p]].refcount = of[hand[p]].refcount - 1]
        BY <3>1, Operands DEF Decref, Return, Go, Lower, Holding
      <4>2. of[hand[p]].refcount - 1 \in Nat
        BY <3>1, <4>1, LiveType, Operands DEF Decref, Return, Go, Holding
      <4> QED
        BY <4>1, <4>2
    <3>2. CASE Drop(p)
      <4> DEFINE f == Doomed(p)
      <4>1. arg[p].fd \in Fd
        BY <3>2, TableArg DEF Drop, Dropping
      <4>2. f = ft[arg[p].whose][arg[p].fd] /\ f # NULL
        BY <2>1, <3>2 DEF Drop, Doomed
      <4>3. f \in Live /\ of[f].refcount # 0
        BY <1>0, <4>1, <4>2, Operands
      <4>4. of' = [of EXCEPT ![f].refcount = of[f].refcount - 1]
        BY <2>1, <3>2 DEF Drop, Lower
      <4>5. of[f].refcount - 1 \in Nat
        BY <4>3, LiveType
      <4> QED
        BY <1>0, <4>1, <4>2, <4>3, <4>4, <4>5
    <3>3. CASE Dup2(p)
      <4>1. PICK d \in Fd : ft[p][d] # NULL /\ Incref(ft[p][d])
        BY <3>3 DEF Dup2
      <4>2. ft[p][d] \in Live /\ of[ft[p][d]].refcount + 1 \in Nat
        BY <4>1, Operands, LiveType
      <4> QED
        BY <4>1, <4>2 DEF Incref
    <3>4. CASE Copy(p)
      <4>1. arg[p].fd \in Fd
        BY <3>4, TableArg DEF Copy
      <4>2. Got(p) # NULL /\ Incref(Got(p)) /\ Got(p) = ft[p][arg[p].fd]
        BY <2>1, <3>4 DEF Copy, Increfs, Got
      <4>3. Got(p) \in Live /\ of[Got(p)].refcount + 1 \in Nat
        BY <4>1, <4>2, Operands, LiveType
      <4> QED
        BY <4>1, <4>2, <4>3 DEF Incref
    <3> QED
      BY <1>4, <3>1, <3>2, <3>3, <3>4
  <2> QED
    BY <1>1, <1>2, <2>1
<1>5. CASE Destroy(p) \/ DropDestroy(p)
  <2>1. Destroying(p) /\ of' = [of EXCEPT ![hand[p]] = NULL]
    BY <1>5 DEF Destroy, DropDestroy, Return, Go, Destroying
  <2>2. g # hand[p] => of'[g] = of[g]
    BY <1>0, <2>1 DEF TypeOK
  <2> QED
    BY <1>0, <2>1, <2>2
<1>6. CASE Lock(p) \/ SeekLock(p) \/ SeekFails(p) \/ ReadWriteEnds(p)
  <2>1. Moving(p) \/ pc[p] = "transfer"
    BY <1>6 DEF Lock, SeekLock, SeekFails, ReadWriteEnds, Return, Go, Moving
  <2>2. arg[p].fd \in Fd /\ Got(p) \in Live /\ Got(p) = ft[p][arg[p].fd]
    BY <2>1, Operands DEF Got
  <2>3. of' = of \/ \E l \in Proc \cup {NULL} : of' = [of EXCEPT ![Got(p)].offsetlock = l]
    BY <1>6 DEF Lock, SeekLock, SeekFails, ReadWriteEnds, Acquire, Release
  <2>4. ASSUME NEW l \in Proc \cup {NULL}, of' = [of EXCEPT ![Got(p)].offsetlock = l]
        PROVE  /\ of'[g] = of[g] \/ g = Got(p)
               /\ of'[g] # NULL /\ of'[g].offset = of[g].offset
    <3>1. of[g] \in Openfile
      BY LiveType
    <3>2. CASE g = Got(p)
      <4>1. of'[g] = [of[g] EXCEPT !.offsetlock = l]
        BY <1>0, <2>4, <3>2 DEF TypeOK
      <4>2. of'[g] \in Openfile
        BY <3>1, <4>1 DEF Openfile
      <4> QED
        BY <3>1, <3>2, <4>1, <4>2, NullAssumption DEF Openfile
    <3>3. CASE g # Got(p)
      BY <1>0, <2>4, <3>3 DEF TypeOK
    <3> QED
      BY <3>2, <3>3
  <2> QED
    BY <1>1, <2>2, <2>3, <2>4
<1>7. CASE Update(p) \/ Seek(p)
  <2>1. Moving(p)
    BY <1>7 DEF Update, Seek, Return, Go, Moving
  <2>2. arg[p].fd \in Fd /\ Got(p) \in Live /\ Got(p) = ft[p][arg[p].fd]
    BY <2>1, Operands DEF Got
  <2>3. \E o : of' = [of EXCEPT ![Got(p)].offset = o, ![Got(p)].offsetlock = NULL]
    BY <1>7 DEF Update, Seek
  <2>4. \A o \in Pos : of'[Got(p)] # NULL \/ of' # [of EXCEPT ![Got(p)].offset = o, ![Got(p)].offsetlock = NULL]
    BY <2>2, OneSeek
  <2>5. \E o \in Pos : of' = [of EXCEPT ![Got(p)].offset = o, ![Got(p)].offsetlock = NULL]
    <3>1. CASE Update(p)
      <4>1. arg[p].pos + arg[p].moved \in Pos
        BY <3>1 DEF Update, CallInv, Return, Go
      <4> QED
        BY <3>1, <4>1 DEF Update
    <3>2. CASE Seek(p)
      <4>1. PICK result \in -1 .. MaxPos :
                /\ Accepts(result)
                /\ of' = [of EXCEPT ![Got(p)].offset = result, ![Got(p)].offsetlock = NULL]
        BY <3>2 DEF Seek
      <4>2. result \in Pos
        BY <4>1, ConstantsAssumption DEF Accepts, Pos
      <4> QED
        BY <4>1, <4>2
    <3> QED
      BY <1>7, <3>1, <3>2
  <2>6. g # Got(p) => of'[g] = of[g]
    BY <1>0, <2>3 DEF TypeOK
  <2> QED
    BY <1>0, <1>7, <2>2, <2>4, <2>5, <2>6
<1>8. CASE \/ RunProgram(p) \/ PlaceFile(p) \/ PlaceFails(p) \/ DecrefLast(p) \/ Close(p)
           \/ DupPlace(p) \/ DupReplace(p) \/ ReadWrite(p) \/ Transfer(p) \/ Lseek(p)
           \/ Fork(p) \/ ForkDone(p) \/ ForkFails(p) \/ Exit(p) \/ DropLast(p) \/ DropDone(p)
  <2>1. of' = of
    BY <1>8 DEF RunProgram, PlaceFile, PlaceFails, DecrefLast, Close, DupPlace, DupReplace,
       ReadWrite, Transfer, Lseek, Fork, ForkDone, ForkFails, Exit, DropLast, DropDone
  <2> QED
    BY <1>1, <2>1
<1> QED
  BY <1>3, <1>4, <1>5, <1>6, <1>7, <1>8 DEF StepOf

(* What it does to hands and tables.                                       *)
LEMMA FtStep ==
    ASSUME OpenFilesInv, NEW p \in Proc, StepOf(p)
    PROVE  /\ \A q \in Proc \ {p} : hand'[q] = hand[q]
           /\ \A q \in Proc \ {p, arg[p].whose} : ft'[q] = ft[q]
<1> USE DEF OpenFilesInv
<1>1. CASE \/ RunProgram(p) \/ Open(p) \/ PlaceFile(p) \/ PlaceFails(p)
           \/ Decref(p) \/ DecrefLast(p) \/ Destroy(p)
  BY <1>1 DEF RunProgram, Open, PlaceFile, PlaceFails, Decref, DecrefLast, Destroy, TypeOK
<1>2. CASE Close(p) \/ Dup2(p) \/ DupPlace(p) \/ DupReplace(p)
  BY <1>2 DEF Close, Dup2, DupPlace, DupReplace, TypeOK
<1>3. CASE \/ ReadWrite(p) \/ Lock(p) \/ Transfer(p) \/ Update(p) \/ ReadWriteEnds(p)
           \/ Lseek(p) \/ SeekLock(p) \/ Seek(p) \/ SeekFails(p)
  BY <1>3 DEF ReadWrite, Lock, Transfer, Update, ReadWriteEnds, Lseek, SeekLock, Seek, SeekFails
<1>4. CASE Fork(p) \/ Copy(p) \/ ForkDone(p) \/ ForkFails(p) \/ Exit(p)
  BY <1>4 DEF Fork, Copy, ForkDone, ForkFails, Exit, TypeOK
<1>5. CASE Drop(p) \/ DropLast(p) \/ DropDestroy(p) \/ DropDone(p)
  BY <1>5 DEF Drop, DropLast, DropDestroy, DropDone, DropNext, TypeOK
<1> QED
  BY <1>1, <1>2, <1>3, <1>4, <1>5 DEF StepOf

(* What user programs see needs a little more: an openfile that open has   *)
(* made is nobody else's yet, dup2 copies a descriptor that is still there *)
(* and fork has copied what it has passed.                                 *)
Fresh ==
    \A p \in Proc : pc[p] = "place" => of[hand[p]].refcount = 1 /\ of[hand[p]].offset = 0
DupFrom ==
    \A p \in Proc : pc[p] = "dup" => \E d \in Fd : ft[p][d] = hand[p]
Copied ==
    \A p \in Proc : pc[p] = "copy" =>
        \A d \in Fd : d < arg[p].fd => ft[arg[p].whose][d] = ft[p][d]
SeenInv == Fresh /\ DupFrom /\ Copied

(* The others are not disturbed.                                           *)
LEMMA SeenOthers ==
    ASSUME OpenFilesInv, RefcountExact, SeenInv, NEW p \in Proc, StepOf(p),
           NEW q \in Proc, q # p
    PROVE  /\ pc'[q] = "place" => of'[hand'[q]].refcount = 1 /\ of'[hand'[q]].offset = 0
           /\ pc'[q] = "dup" => \E d \in Fd : ft'[q][d] = hand'[q]
           /\ pc'[q] = "copy" =>
                  \A d \in Fd : d < arg'[q].fd => ft'[arg'[q].whose][d] = ft'[q][d]
<1>1. Others(p)
  BY OthersSee
<1>2. arg'[q] = arg[q] /\ hand'[q] = hand[q]
  BY <1>1, FtStep DEF Others
<1>3. pc'[q] \in {"place", "dup", "copy"} => pc'[q] = pc[q] /\ ft'[q] = ft[q]
  BY <1>1 DEF Others
<1>4. ASSUME pc'[q] = "place"
      PROVE  of'[hand'[q]].refcount = 1 /\ of'[hand'[q]].offset = 0
  <2> DEFINE f == hand[q]
  <2>1. pc[q] = "place" /\ of[f].refcount = 1 /\ of[f].offset = 0
    BY <1>3, <1>4 DEF SeenInv, Fresh
  <2>2. f \in Live
    BY <2>1, Operands DEF Holding
  <2>3. \A r \in Proc, c \in 0 .. OPEN_MAX : Held(r, c) = f => r = q /\ c = OPEN_MAX
    BY <2>1, <2>2, Alone, HeldAt, FinitePlaces
  <2>4. hand[p] # f /\ \A r \in Proc, d \in Fd : ft[r][d] # f
    BY <2>3, HeldAt, FinitePlaces
  <2>5. of'[f] = of[f]
    BY <2>2, <2>4, OfStep
  <2> QED
    BY <1>2, <2>1, <2>5
<1>5. ASSUME pc'[q] = "dup" PROVE \E d \in Fd : ft'[q][d] = hand'[q]
  BY <1>2, <1>3, <1>5 DEF SeenInv, DupFrom
<1>6. ASSUME pc'[q] = "copy"
      PROVE  \A d \in Fd : d < arg'[q].fd => ft'[arg'[q].whose][d] = ft'[q][d]
  <2> DEFINE w == arg[q].whose
  <2>1. pc[q] = "copy" /\ w # q /\ w \in Proc /\ pc[w] = "embryo"
    BY <1>3, <1>6, TableArg DEF OpenFilesInv, TableInv
  <2>2. w # p
    BY <2>1 DEF StepOf, RunProgram, Open, PlaceFile, PlaceFails, Decref, DecrefLast, Destroy,
       Close, Dup2, DupPlace, DupReplace, ReadWrite, Lock, Transfer, Update, ReadWriteEnds,
       Lseek, SeekLock, Seek, SeekFails, Fork, Copy, ForkDone, ForkFails, Exit, Drop, DropLast,
       DropDestroy, DropDone, Dropping, Return, Go
  <2>3. w # arg[p].whose
    BY <2>1, <2>2 DEF OpenFilesInv, TableInv
  <2>4. ft'[w] = ft[w]
    BY <2>1, <2>2, <2>3, FtStep
  <2> QED
    BY <1>2, <1>3, <1>6, <2>4 DEF SeenInv, Copied
<1> QED
  BY <1>4, <1>5, <1>6

LEMMA SeenStep ==
    ASSUME OpenFilesInv, RefcountExact, SeenInv, NEW p \in Proc, StepOf(p)
    PROVE  SeenInv'
<1> USE DEF OpenFilesInv
<1>0. /\ pc'[p] = "place" => of'[hand'[p]].refcount = 1 /\ of'[hand'[p]].offset = 0
      /\ pc'[p] = "dup" => \E d \in Fd : ft'[p][d] = hand'[p]
      /\ pc'[p] = "copy" =>
             \A d \in Fd : d < arg'[p].fd => ft'[arg'[p].whose][d] = ft'[p][d]
  <2>1. CASE Open(p)
    <3>1. PICK f \in File \ Live, v \in Vnode, m \in AccMode :
              /\ of' = [of EXCEPT ![f] = [vnode |-> v, accmode |-> m, offset |-> 0,
                                          refcount |-> 1, offsetlock |-> NULL]]
              /\ hand' = [hand EXCEPT ![p] = f]
      BY <2>1 DEF Open
    <3>2. hand'[p] = f /\ of'[f].refcount = 1 /\ of'[f].offset = 0
      BY <3>1 DEF TypeOK
    <3>3. pc'[p] = "place"
      BY <2>1 DEF Open, Go, TypeOK
    <3> QED
      BY <3>2, <3>3
  <2>2. CASE Dup2(p)
    <3>1. PICK d \in Fd : ft[p][d] # NULL /\ hand' = [hand EXCEPT ![p] = ft[p][d]]
      BY <2>2 DEF Dup2
    <3>2. hand'[p] = ft'[p][d] /\ pc'[p] = "dup"
      BY <2>2, <3>1 DEF Dup2, Go, TypeOK
    <3> QED
      BY <3>2
  <2>3. CASE Fork(p)
    <3>1. PICK c \in Proc : /\ pc[c] = "none"
                            /\ pc' = [pc EXCEPT ![p] = "copy", ![c] = "embryo"]
                            /\ arg' = [arg EXCEPT ![p].fd = 0, ![p].whose = c]
      BY <2>3 DEF Fork
    <3>2. c # p
      BY <2>3, <3>1 DEF Fork
    <3>3. pc'[p] = "copy" /\ arg'[p].fd = 0
      BY <3>1, <3>2, TableArg DEF TypeOK, Locals
    <3> QED
      BY <3>3 DEF Fd
  <2>4. CASE Copy(p)
    <3> DEFINE w == arg[p].whose
               d == arg[p].fd
    <3>1. pc'[p] = "copy" /\ pc[p] = "copy" /\ d \in Fd /\ w \in Proc /\ w # p
      BY <2>4, TableArg DEF Copy, TableInv
    <3>2. arg'[p].fd = d + 1 /\ arg'[p].whose = w
      BY <2>4, TableArg DEF Copy, TypeOK, Locals
    <3>3. \A r \in Proc, e \in Fd :
              ft'[r][e] = IF r = w /\ e = d THEN ft[p][d] ELSE ft[r][e]
      BY <2>4, <3>1 DEF Copy, TypeOK, Got
    <3>4. \A e \in Fd : e < d => ft[w][e] = ft[p][e]
      BY <3>1 DEF SeenInv, Copied
    <3>5. \A e \in Fd : e < d + 1 => e < d \/ e = d
      BY <3>1 DEF Fd
    <3> QED
      BY <3>1, <3>2, <3>3, <3>4, <3>5
  <2>5. CASE \/ RunProgram(p) \/ PlaceFile(p) \/ PlaceFails(p)
             \/ Decref(p) \/ DecrefLast(p) \/ Destroy(p)
             \/ Close(p) \/ DupPlace(p) \/ DupReplace(p)
             \/ ReadWrite(p) \/ Lock(p) \/ Transfer(p) \/ Update(p) \/ ReadWriteEnds(p)
    <3>1. pc'[p] \notin {"place", "dup", "copy"}
      BY <2>5 DEF RunProgram, PlaceFile, PlaceFails, Decref, DecrefLast, Destroy, Close,
         DupPlace, DupReplace, ReadWrite, Lock, Transfer, Update, ReadWriteEnds, Go, Return,
         TypeOK
    <3> QED
      BY <3>1
  <2>6. CASE \/ Lseek(p) \/ SeekLock(p) \/ Seek(p) \/ SeekFails(p) \/ ForkFails(p) \/ Exit(p)
             \/ Drop(p) \/ DropLast(p) \/ DropDestroy(p)
    <3>1. pc'[p] \notin {"place", "dup", "copy"}
      BY <2>6 DEF Lseek, SeekLock, Seek, SeekFails, ForkFails, Exit, Drop, Dropping, DropLast,
         DropDestroy, Go, Return, TypeOK
    <3> QED
      BY <3>1
  <2>7. CASE ForkDone(p) \/ DropDone(p)
    <3>1. pc'[p] \in {"user", "none"}
      BY <2>7, TableArg DEF ForkDone, DropDone, TypeOK
    <3> QED
      BY <3>1
  <2> QED
    BY <2>1, <2>2, <2>3, <2>4, <2>5, <2>6, <2>7 DEF StepOf
<1>1. \A q \in Proc :
          /\ pc'[q] = "place" => of'[hand'[q]].refcount = 1 /\ of'[hand'[q]].offset = 0
          /\ pc'[q] = "dup" => \E d \in Fd : ft'[q][d] = hand'[q]
          /\ pc'[q] = "copy" =>
                 \A d \in Fd : d < arg'[q].fd => ft'[arg'[q].whose][d] = ft'[q][d]
  <2>1. ASSUME NEW q \in Proc, q # p
        PROVE  /\ pc'[q] = "place" => of'[hand'[q]].refcount = 1 /\ of'[hand'[q]].offset = 0
               /\ pc'[q] = "dup" => \E d \in Fd : ft'[q][d] = hand'[q]
               /\ pc'[q] = "copy" =>
                      \A d \in Fd : d < arg'[q].fd => ft'[arg'[q].whose][d] = ft'[q][d]
    BY <2>1, SeenOthers
  <2> QED
    BY <1>0, <2>1
<1> QED
  BY <1>1 DEF SeenInv, Fresh, DupFrom, Copied

(* Only read, write and lseek move a position.                             *)
LEMMA OffsetsStay ==
    ASSUME OpenFilesInv, RefcountExact, NEW p \in Proc, StepOf(p),
           pc[p] \notin {"update", "seek"} \/ SeekFails(p)
    PROVE  \A g \in Live : of'[g] # NULL => of'[g].offset = of[g].offset
<1> SUFFICES ASSUME NEW g \in Live, of'[g] # NULL PROVE of'[g].offset = of[g].offset
  OBVIOUS
<1>1. CASE pc[p] \notin {"update", "seek"}
  <2>1. ~Update(p) /\ ~Seek(p)
    BY <1>1 DEF Update, Seek, Return, Go
  <2> QED
    BY <2>1, OfStep
<1>2. CASE SeekFails(p)
  <2>1. arg[p].fd \in Fd /\ Got(p) \in Live
    BY <1>2, Operands DEF SeekFails, Return, Go, Moving
  <2>2. of' = [of EXCEPT ![Got(p)].offsetlock = NULL]
    BY <1>2 DEF SeekFails, Release
  <2>3. of[g] \in Openfile /\ g \in File /\ DOMAIN of = File
    BY LiveType DEF OpenFilesInv, TypeOK
  <2>4. CASE g = Got(p)
    <3>1. of'[g] = [of[g] EXCEPT !.offsetlock = NULL]
      BY <2>2, <2>3, <2>4
    <3> QED
      BY <2>3, <3>1 DEF Openfile
  <2>5. CASE g # Got(p)
    BY <2>2, <2>3, <2>5
  <2> QED
    BY <2>4, <2>5
<1> QED
  BY <1>1, <1>2

-----------------------------------------------------------------------------
(* What they see is open, and stays so in every step.                      *)
LEMMA SeenLive ==
    ASSUME OpenFilesInv, RefcountExact, NEW f \in File, Reached(f)
    PROVE  \E q \in Proc, d \in Fd : ft[q][d] = f /\ f \in Live
<1>1. PICK q \in Proc, d \in Fd : Visible(q)[d] = f
  BY DEF Reached
<1>2. ft[q][d] = f /\ f # NULL
  BY <1>1, NullAssumption DEF Visible
<1> QED
  BY <1>2, Operands

LEMMA SeenStays ==
    ASSUME OpenFilesInv, RefcountExact, NEW p \in Proc, StepOf(p), NEW f \in File, Reached(f)
    PROVE  /\ of[f] # NULL /\ of'[f] # NULL
           /\ \/ of'[f].offset = of[f].offset
              \/ (Update(p) \/ Seek(p)) /\ f = Got(p)
<1>1. f \in Live /\ \E q \in Proc, d \in Fd : ft[q][d] = f
  BY SeenLive
<1>2. Destroying(p) => f # hand[p]
  BY <1>1, LastAlone
<1>3. f \in Live
  BY <1>1
<1>4. /\ of'[f] = NULL => Destroying(p) /\ f = hand[p]
      /\ of'[f] # NULL => \/ of'[f].offset = of[f].offset
                          \/ (Update(p) \/ Seek(p)) /\ f = Got(p)
  BY <1>3, OfStep
<1>5. of[f] # NULL
  BY <1>3 DEF Live
<1>6. of'[f] # NULL
  BY <1>2, <1>4
<1> QED
  BY <1>4, <1>5, <1>6

(* A step after which every process sees the same tables.                  *)
LEMMA Unseen ==
    ASSUME OpenFilesInv, RefcountExact, NEW p \in Proc, StepOf(p),
           \A q \in Proc : Visible(q)' = Visible(q),
           \A g \in Live : of'[g] # NULL => of'[g].offset = of[g].offset
    PROVE  Desc' = Desc /\ Position' = Position
<1>1. \A f \in File : Reached(f)' = Reached(f)
  BY DEF Reached
<1>2. \A f \in File : Reached(f) => of'[f].offset = of[f].offset
  BY SeenStays DEF Live
<1> QED
  BY <1>1, <1>2 DEF Desc, Position

(* A step in which the openfiles that can still be reached keep their      *)
(* positions and the others are gone.                                      *)
LEMMA SeenKept ==
    ASSUME OpenFilesInv, RefcountExact, NEW p \in Proc, StepOf(p),
           \A f \in File, q \in Proc, e \in Fd :
               Desc'[q][e] = f => \E r \in Proc, c \in Fd : Desc[r][c] = f,
           \A g \in Live : of'[g] # NULL => of'[g].offset = of[g].offset
    PROVE  Position' = Shared!Kept(Position)
<1>1. \A f \in File : Reached(f) => of'[f].offset = of[f].offset
  BY SeenStays DEF Live
<1>2. \A f \in File : /\ Reached(f) <=> \E q \in Proc, d \in Fd : Desc[q][d] = f
                      /\ Reached(f)' <=> \E q \in Proc, d \in Fd : Desc'[q][d] = f
  BY DEF Reached, Desc
<1>3. Position' = [f \in File |-> IF Reached(f)' THEN Position[f] ELSE NULL]
  <2>1. \A f \in File : Reached(f)' => Reached(f)
    BY <1>2
  <2> QED
    BY <1>1, <2>1 DEF Position
<1> QED
  BY <1>2, <1>3 DEF Shared!Kept

(* A step that leaves alone where the others are and what their tables     *)
(* hold.                                                                   *)
Calm(p) == \A q \in Proc \ {p} : pc'[q] = pc[q] /\ ft'[q] = ft[q]

LEMMA SeeTheSame ==
    ASSUME NEW p \in Proc, Calm(p), ft'[p] = ft[p], pc[p] # "embryo", pc'[p] # "embryo"
    PROVE  \A q \in Proc : Visible(q)' = Visible(q)
BY DEF Calm, Visible

(* A step that changes the table of p, and one that changes a descriptor.  *)
LEMMA SeeTable ==
    ASSUME NEW p \in Proc, pc[p] # "embryo", pc'[p] # "embryo",
           \A q \in Proc \ {p} : pc'[q] = pc[q] /\ ft'[q] = ft[q]
    PROVE  Desc[p] = ft[p] /\ Desc'[p] = ft'[p] /\ \A q \in Proc \ {p} : Desc'[q] = Desc[q]
BY DEF Desc, Visible

Writes(t, s, p, d, x) ==
    \A q \in Proc, e \in Fd : t[q][e] = IF q = p /\ e = d THEN x ELSE s[q][e]

LEMMA SeeOneChange ==
    ASSUME NEW p \in Proc, NEW d \in Fd, NEW x,
           pc[p] # "embryo", pc'[p] # "embryo",
           \A q \in Proc \ {p} : pc'[q] = pc[q] /\ ft'[q] = ft[q],
           ft[p] \in [Fd -> File \cup {NULL}],
           ft'[p] = [ft[p] EXCEPT ![d] = x]
    PROVE  /\ Desc' = [Desc EXCEPT ![p][d] = x]
           /\ Desc[p] = ft[p]
           /\ Writes(Desc', Desc, p, d, x)
<1>1. /\ Desc[p] = ft[p] /\ Desc'[p] = [ft[p] EXCEPT ![d] = x]
      /\ \A q \in Proc \ {p} : Desc'[q] = Desc[q]
  BY SeeTable
<1>2. DOMAIN Desc = Proc /\ DOMAIN Desc' = Proc
  BY DEF Desc
<1>3. Desc' = [q \in Proc |-> Desc'[q]] /\ Desc = [q \in Proc |-> Desc[q]]
  BY DEF Desc
<1>4. Desc' = [Desc EXCEPT ![p] = [Desc[p] EXCEPT ![d] = x]]
  BY <1>1, <1>2, <1>3
<1>5. \A e \in Fd : [ft[p] EXCEPT ![d] = x][e] = IF e = d THEN x ELSE ft[p][e]
  OBVIOUS
<1>6. ASSUME NEW q \in Proc, NEW e \in Fd
      PROVE  Desc'[q][e] = IF q = p /\ e = d THEN x ELSE Desc[q][e]
  <2>1. CASE q = p
    <3>1. Desc'[q] = [ft[p] EXCEPT ![d] = x] /\ Desc[q] = ft[p]
      BY <1>1, <2>1
    <3>2. Desc'[q][e] = IF e = d THEN x ELSE ft[p][e]
      BY <1>5, <3>1
    <3> QED
      BY <2>1, <3>1, <3>2
  <2>2. CASE q # p
    BY <1>1, <2>2
  <2> QED
    BY <2>1, <2>2
<1> QED
  BY <1>1, <1>4, <1>6 DEF Writes

(* If what it writes was there before, or is nothing, no file is new.      *)
LEMMA ReachedOld ==
    ASSUME NEW p \in Proc, NEW d \in Fd, NEW x,
           Writes(Desc', Desc, p, d, x),
           x = NULL \/ \E e \in Fd : Desc[p][e] = x
    PROVE  \A f \in File, q \in Proc, e \in Fd :
               Desc'[q][e] = f => \E r \in Proc, c \in Fd : Desc[r][c] = f
<1> SUFFICES ASSUME NEW f \in File, NEW q \in Proc, NEW e \in Fd, Desc'[q][e] = f
             PROVE  \E r \in Proc, c \in Fd : Desc[r][c] = f
  OBVIOUS
<1>1. f # NULL
  BY NullAssumption
<1>2. CASE q = p /\ e = d
  BY <1>1, <1>2 DEF Writes
<1>3. CASE ~(q = p /\ e = d)
  BY <1>3 DEF Writes
<1> QED
  BY <1>2, <1>3

-----------------------------------------------------------------------------
(* The steps that user programs do not see.                                *)
LEMMA StepsUnseen ==
    ASSUME OpenFilesInv, RefcountExact, NEW p \in Proc,
           \/ RunProgram(p) \/ Open(p) \/ PlaceFails(p)
           \/ Decref(p) \/ DecrefLast(p) \/ Destroy(p) \/ Dup2(p)
           \/ ReadWrite(p) \/ Lock(p) \/ Transfer(p) \/ ReadWriteEnds(p)
           \/ Lseek(p) \/ SeekLock(p) \/ SeekFails(p)
           \/ ForkFails(p) \/ Exit(p) \/ DropDestroy(p)
    PROVE  Desc' = Desc /\ Position' = Position
<1> USE DEF OpenFilesInv
<1>1. StepOf(p)
  BY DEF StepOf
<1>2. Calm(p) /\ ft' = ft /\ pc[p] # "embryo" /\ pc'[p] # "embryo"
  <2>1. CASE \/ RunProgram(p) \/ Open(p) \/ PlaceFails(p)
             \/ Decref(p) \/ DecrefLast(p) \/ Destroy(p) \/ Dup2(p)
    BY <2>1 DEF RunProgram, Open, PlaceFails, Decref, DecrefLast, Destroy, Dup2, Go, Return,
       Calm, TypeOK
  <2>2. CASE \/ ReadWrite(p) \/ Lock(p) \/ Transfer(p) \/ ReadWriteEnds(p)
             \/ Lseek(p) \/ SeekLock(p) \/ SeekFails(p)
    BY <2>2 DEF ReadWrite, Lock, Transfer, ReadWriteEnds, Lseek, SeekLock, SeekFails, Go, Return,
       Calm, TypeOK
  <2>3. CASE ForkFails(p) \/ Exit(p) \/ DropDestroy(p)
    BY <2>3 DEF ForkFails, Exit, DropDestroy, Go, Return, Calm, TypeOK
  <2> QED
    BY <2>1, <2>2, <2>3
<1>3. pc[p] \notin {"update", "seek"} \/ SeekFails(p)
  BY DEF RunProgram, Open, PlaceFails, Decref, DecrefLast, Destroy, Dup2, ReadWrite, Lock, Transfer,
     ReadWriteEnds, Lseek, SeekLock, ForkFails, Exit, DropDestroy, Go, Return
<1>4. \A q \in Proc : Visible(q)' = Visible(q)
  BY <1>2, SeeTheSame
<1> QED
  BY <1>1, <1>3, <1>4, OffsetsStay, Unseen

(* fork is seen when the child starts.                                     *)
LEMMA ForkUnseen ==
    ASSUME OpenFilesInv, RefcountExact, NEW p \in Proc, Fork(p)
    PROVE  Desc' = Desc /\ Position' = Position
<1> USE DEF OpenFilesInv
<1>1. PICK c \in Proc : pc[c] = "none" /\ pc' = [pc EXCEPT ![p] = "copy", ![c] = "embryo"]
  BY DEF Fork
<1>2. pc[p] = "user" /\ c # p /\ ft' = ft
  BY <1>1 DEF Fork
<1>3. \A q \in Proc : pc'[q] = IF q = c THEN "embryo" ELSE IF q = p THEN "copy" ELSE pc[q]
  BY <1>1, <1>2 DEF TypeOK
<1>4. ft[c] = [d \in Fd |-> NULL]
  BY <1>1 DEF EmptyInv, TypeOK
<1>5. \A q \in Proc : Visible(q)' = Visible(q)
  <2>1. Visible(c)' = Visible(c)
    <3>1. Visible(c)' = [d \in Fd |-> NULL]
      BY <1>3 DEF Visible
    <3>2. Visible(c) = ft[c]
      BY <1>1 DEF Visible
    <3> QED
      BY <1>4, <3>1, <3>2
  <2>2. Visible(p)' = Visible(p)
    BY <1>2, <1>3 DEF Visible
  <2>3. \A q \in Proc \ {c, p} : Visible(q)' = Visible(q)
    BY <1>2, <1>3 DEF Visible
  <2> QED
    BY <2>1, <2>2, <2>3
<1>6. StepOf(p) /\ pc[p] \notin {"update", "seek"}
  BY <1>2 DEF StepOf
<1> QED
  BY <1>5, <1>6, OffsetsStay, Unseen

LEMMA CopyUnseen ==
    ASSUME OpenFilesInv, RefcountExact, NEW p \in Proc, Copy(p)
    PROVE  Desc' = Desc /\ Position' = Position
<1> USE DEF OpenFilesInv
<1> DEFINE w == arg[p].whose
<1>1. pc[p] = "copy" /\ pc' = pc /\ w # p /\ pc[w] = "embryo"
  BY DEF Copy, TableInv
<1>2. \A q \in Proc : q # w => ft'[q] = ft[q]
  BY DEF Copy, TypeOK
<1>3. \A q \in Proc : Visible(q)' = Visible(q)
  BY <1>1, <1>2 DEF Visible
<1>4. StepOf(p) /\ pc[p] \notin {"update", "seek"}
  BY <1>1 DEF StepOf
<1> QED
  BY <1>3, <1>4, OffsetsStay, Unseen

(* A table that is destroyed is empty in the end, the child's never seen.  *)
LEMMA DropDoneUnseen ==
    ASSUME OpenFilesInv, RefcountExact, NEW p \in Proc, DropDone(p)
    PROVE  Desc' = Desc /\ Position' = Position
<1> USE DEF OpenFilesInv
<1> DEFINE w == arg[p].whose
<1>1. pc[p] = "drop" /\ ft' = ft /\ arg[p].fd = OPEN_MAX /\ w \in Proc
  BY TableArg DEF DropDone
<1>2. \A q \in Proc : pc'[q] = IF q = w THEN "none" ELSE IF q = p THEN "user" ELSE pc[q]
  BY <1>1 DEF DropDone, TypeOK
<1>3. \A d \in Fd : d < arg[p].fd
  BY <1>1, ConstantsAssumption DEF Fd
<1>4. ft[w] = [d \in Fd |-> NULL]
  BY <1>1, <1>3 DEF EmptyInv, OnTable, Cleared, TypeOK
<1>5. \A q \in Proc : Visible(q)' = Visible(q)
  BY <1>1, <1>2, <1>4 DEF Visible
<1>6. StepOf(p) /\ pc[p] \notin {"update", "seek"}
  BY <1>1 DEF StepOf
<1> QED
  BY <1>5, <1>6, OffsetsStay, Unseen

-----------------------------------------------------------------------------
(* filetable_place makes an open file of what openfile_open returned.      *)
LEMMA PlaceOpens ==
    ASSUME OpenFilesInv, RefcountExact, SeenInv, NEW p \in Proc, PlaceFile(p)
    PROVE  \E d \in Fd, f \in File : Shared!Open(p, d, f)
<1> USE DEF OpenFilesInv
<1> DEFINE f == hand[p]
<1>1. /\ f \in Live /\ f \in File /\ f # NULL
      /\ of[f].refcount = 1 /\ of[f].offset = 0 /\ of' = of
  <2>1. pc[p] = "place" /\ of' = of
    BY DEF PlaceFile, Go
  <2> QED
    BY <2>1, Operands, LiveType DEF Holding, SeenInv, Fresh
<1>2. PICK d \in Chosen(p) : ft' = [ft EXCEPT ![p][d] = f]
  BY DEF PlaceFile
<1>3. /\ d \in Fd /\ ft[p][d] = NULL
      /\ \A e \in Fd : ft[p][e] = NULL => d <= e
  BY DEF Chosen, FreeFd
<1>4. \A r \in Proc, c \in 0 .. OPEN_MAX : Held(r, c) = f => r = p /\ c = OPEN_MAX
  BY <1>1, Alone, HeldAt, FinitePlaces
<1>5. \A r \in Proc, e \in Fd : ft[r][e] # f
  BY <1>4, HeldAt, FinitePlaces
<1>6. ~Reached(f)
  BY <1>1, <1>5 DEF Reached, Visible
<1>7. /\ pc[p] = "place" /\ pc'[p] = "user"
      /\ \A q \in Proc \ {p} : pc'[q] = pc[q] /\ ft'[q] = ft[q]
  BY <1>2 DEF PlaceFile, Go, TypeOK
<1>8. /\ Desc' = [Desc EXCEPT ![p][d] = f] /\ Desc[p] = ft[p]
      /\ Writes(Desc', Desc, p, d, f)
  <2>1. pc[p] # "embryo" /\ pc'[p] # "embryo"
    BY <1>7
  <2>2. ft[p] \in [Fd -> File \cup {NULL}] /\ ft'[p] = [ft[p] EXCEPT ![d] = f]
    BY <1>2 DEF TypeOK
  <2> HIDE DEF f
  <2> QED
    BY <1>3, <1>7, <2>1, <2>2, SeeOneChange
<1>9. \A g \in File : Reached(g)' <=> g = f \/ Reached(g)
  <2> SUFFICES ASSUME NEW g \in File PROVE Reached(g)' <=> g = f \/ Reached(g)
    OBVIOUS
  <2>1. /\ Reached(g) <=> \E q \in Proc, e \in Fd : Desc[q][e] = g
        /\ Reached(g)' <=> \E q \in Proc, e \in Fd : Desc'[q][e] = g
    BY DEF Reached, Desc
  <2>2. g # NULL /\ Desc[p][d] = NULL
    BY <1>3, <1>8, NullAssumption
  <2> QED
    BY <1>3, <1>8, <2>1, <2>2 DEF Writes
<1>10. Position[f] = NULL
  BY <1>1, <1>6 DEF Position
<1>11. Position' = [Position EXCEPT ![f] = 0]
  <2>1. Position' = [g \in File |-> IF g = f THEN 0 ELSE Position[g]]
    BY <1>1, <1>9 DEF Position
  <2> QED
    BY <1>1, <2>1 DEF Position
<1>12. Desc[p][d] = NULL /\ \A e \in Fd : e < d => Desc[p][e] # NULL
  BY <1>3, <1>8 DEF Fd
<1>13. Shared!Open(p, d, f)
  BY <1>8, <1>10, <1>11, <1>12 DEF Shared!Open
<1> QED
  BY <1>1, <1>3, <1>13

(* What close and the first step of an exit do to a descriptor of p.       *)
LEMMA Closing ==
    ASSUME OpenFilesInv, RefcountExact, NEW p \in Proc, StepOf(p), NEW d \in Fd,
           ft[p][d] # NULL, ft' = [ft EXCEPT ![p][d] = NULL],
           pc[p] \in {"user", "drop"}, pc'[p] # "embryo",
           \A q \in Proc \ {p} : pc'[q] = pc[q]
    PROVE  Shared!Close(p, d)
<1> USE DEF OpenFilesInv
<1>1. \A q \in Proc \ {p} : pc'[q] = pc[q] /\ ft'[q] = ft[q]
  BY DEF TypeOK
<1>2. /\ Desc' = [Desc EXCEPT ![p][d] = NULL] /\ Desc[p] = ft[p]
      /\ Writes(Desc', Desc, p, d, NULL)
  <2>1. /\ pc[p] # "embryo"
        /\ ft[p] \in [Fd -> File \cup {NULL}] /\ ft'[p] = [ft[p] EXCEPT ![d] = NULL]
    BY DEF TypeOK
  <2> QED
    BY <1>1, <2>1, SeeOneChange
<1>3. \A f \in File, q \in Proc, e \in Fd :
          Desc'[q][e] = f => \E r \in Proc, c \in Fd : Desc[r][c] = f
  BY <1>2, ReachedOld
<1>4. Position' = Shared!Kept(Position)
  BY <1>3, OffsetsStay, SeenKept
<1> QED
  BY <1>2, <1>4 DEF Shared!Close

LEMMA CloseCloses ==
    ASSUME OpenFilesInv, RefcountExact, NEW p \in Proc, Close(p)
    PROVE  \E d \in Fd : Shared!Close(p, d)
<1>1. PICK d \in Fd : ft[p][d] # NULL /\ ft' = [ft EXCEPT ![p][d] = NULL]
  BY DEF Close
<1>2. /\ pc[p] = "user" /\ pc'[p] # "embryo" /\ \A q \in Proc \ {p} : pc'[q] = pc[q]
      /\ StepOf(p)
  BY DEF Close, Go, StepOf, OpenFilesInv, TypeOK
<1> QED
  BY <1>1, <1>2, Closing

(* dup2's exchange.                                                        *)
LEMMA DupDups ==
    ASSUME OpenFilesInv, RefcountExact, SeenInv, NEW p \in Proc,
           DupPlace(p) \/ DupReplace(p)
    PROVE  \E old, new \in Fd : Shared!Dup(p, old, new)
<1> USE DEF OpenFilesInv
<1> DEFINE d == arg[p].fd
           x == hand[p]
<1>1. /\ pc[p] = "dup" /\ pc'[p] \in {"user", "decref"}
      /\ \A q \in Proc \ {p} : pc'[q] = pc[q]
      /\ ft' = [ft EXCEPT ![p][d] = x] /\ StepOf(p)
  BY DEF DupPlace, DupReplace, Return, Go, TypeOK, StepOf
<1>2. d \in Fd /\ x \in File \cup {NULL}
  BY <1>1 DEF TableInv, OnTable, TypeOK
<1>3. PICK old \in Fd : ft[p][old] = x
  BY <1>1 DEF SeenInv, DupFrom
<1>4. x # NULL
  BY <1>1 DEF HandInv, Holding
<1>5. \A q \in Proc \ {p} : pc'[q] = pc[q] /\ ft'[q] = ft[q]
  BY <1>1 DEF TypeOK
<1>6. /\ Desc' = [Desc EXCEPT ![p][d] = x] /\ Desc[p] = ft[p]
      /\ Writes(Desc', Desc, p, d, x)
  <2>1. /\ pc[p] # "embryo" /\ pc'[p] # "embryo"
        /\ ft[p] \in [Fd -> File \cup {NULL}] /\ ft'[p] = [ft[p] EXCEPT ![d] = x]
    BY <1>1 DEF TypeOK
  <2> HIDE DEF d, x
  <2> QED
    BY <1>2, <1>5, <2>1, SeeOneChange
<1>7. \A f \in File, q \in Proc, e \in Fd :
          Desc'[q][e] = f => \E r \in Proc, c \in Fd : Desc[r][c] = f
  <2> HIDE DEF d, x
  <2> QED
    BY <1>2, <1>3, <1>6, ReachedOld
<1>8. Position' = Shared!Kept(Position)
  BY <1>1, <1>7, OffsetsStay, SeenKept
<1>9. Shared!Dup(p, old, d)
  BY <1>3, <1>4, <1>6, <1>8 DEF Shared!Dup
<1> QED
  BY <1>2, <1>9

(* An exit closes the descriptors one by one; what proc_unfork destroys    *)
(* was never seen.                                                         *)
LEMMA DropCloses ==
    ASSUME OpenFilesInv, RefcountExact, NEW p \in Proc, Drop(p) \/ DropLast(p)
    PROVE  (\E d \in Fd : Shared!Close(p, d)) \/ (Desc' = Desc /\ Position' = Position)
<1> USE DEF OpenFilesInv
<1> DEFINE w == arg[p].whose
           d == arg[p].fd
<1>1. /\ pc[p] = "drop" /\ pc'[p] \in {"drop", "drop_destroy"}
      /\ \A q \in Proc \ {p} : pc'[q] = pc[q]
      /\ ft' = [ft EXCEPT ![w][d] = NULL] /\ StepOf(p)
  BY DEF Drop, DropLast, Dropping, DropNext, Go, TypeOK, StepOf
<1>2. d \in Fd /\ w \in Proc
  BY TableArg DEF Drop, DropLast, Dropping
<1>3. pc[p] \notin {"update", "seek"}
  BY <1>1
<1>4. CASE w = p /\ ft[p][d] # NULL
  <2>1. Shared!Close(p, d)
    BY <1>1, <1>2, <1>4, Closing
  <2> QED
    BY <1>2, <2>1
<1>5. CASE w = p /\ ft[p][d] = NULL
  <2>1. ft'[p] = ft[p]
    BY <1>1, <1>2, <1>5 DEF TypeOK
  <2>2. Calm(p)
    BY <1>1, <1>5 DEF Calm, TypeOK
  <2>3. \A q \in Proc : Visible(q)' = Visible(q)
    BY <1>1, <2>1, <2>2, SeeTheSame
  <2> QED
    BY <1>1, <1>3, <2>3, OffsetsStay, Unseen
<1>6. CASE w # p
  <2>1. pc[w] = "embryo" /\ pc'[w] = "embryo"
    BY <1>1, <1>2, <1>6 DEF TableInv
  <2>2. \A q \in Proc \ {w} : ft'[q] = ft[q]
    BY <1>1 DEF TypeOK
  <2>3. Visible(p)' = Visible(p)
    BY <1>1, <1>6, <2>2 DEF Visible
  <2>4. \A q \in Proc \ {p} : Visible(q)' = Visible(q)
    BY <1>1, <2>1, <2>2 DEF Visible
  <2>5. \A q \in Proc : Visible(q)' = Visible(q)
    BY <2>3, <2>4
  <2> QED
    BY <1>1, <1>3, <2>5, OffsetsStay, Unseen
<1> QED
  BY <1>4, <1>5, <1>6

(* read, write and lseek.                                                  *)
LEMMA MoveMoves ==
    ASSUME OpenFilesInv, RefcountExact, NEW p \in Proc, Update(p) \/ Seek(p)
    PROVE  \E d \in Fd : Shared!Move(p, d)
<1> USE DEF OpenFilesInv
<1> DEFINE f == Got(p)
           d == arg[p].fd
<1>1. /\ pc[p] \in {"update", "seek"} /\ pc'[p] = "user"
      /\ \A q \in Proc \ {p} : pc'[q] = pc[q]
      /\ ft' = ft /\ StepOf(p) /\ Moving(p)
  BY DEF Update, Seek, Return, Go, TypeOK, StepOf, Moving
<1>2. d \in Fd /\ f \in Live /\ f = ft[p][d]
  BY <1>1, Operands DEF Got
<1>3. f \in File /\ f # NULL /\ of[f] \in Openfile /\ DOMAIN of = File
  BY <1>2, LiveType DEF TypeOK
<1>4. PICK o \in Pos : of' = [of EXCEPT ![f].offset = o, ![f].offsetlock = NULL]
  <2>1. CASE Update(p)
    <3>1. arg[p].pos + arg[p].moved \in Pos
      BY <2>1 DEF Update, CallInv, Return, Go
    <3> QED
      BY <2>1, <3>1 DEF Update
  <2>2. CASE Seek(p)
    <3>1. PICK result \in -1 .. MaxPos :
              /\ Accepts(result)
              /\ of' = [of EXCEPT ![f].offset = result, ![f].offsetlock = NULL]
      BY <2>2 DEF Seek
    <3>2. result \in Pos
      BY <3>1, ConstantsAssumption DEF Accepts, Pos
    <3> QED
      BY <3>1, <3>2
  <2> QED
    BY <2>1, <2>2
<1>5. of'[f].offset = o
  <2>1. of'[f] = [of[f] EXCEPT !.offset = o, !.offsetlock = NULL]
    BY <1>3, <1>4
  <2> QED
    BY <1>3, <2>1 DEF Openfile
<1>6. \A g \in File : g # f => of'[g] = of[g]
  BY <1>3, <1>4
<1>7. \A q \in Proc : Visible(q)' = Visible(q)
  BY <1>1, SeeTheSame DEF Calm
<1>8. Desc' = Desc /\ \A g \in File : Reached(g)' = Reached(g)
  BY <1>7 DEF Desc, Reached
<1>9. Desc[p][d] = f /\ Reached(f)
  <2>1. Visible(p)[d] = f
    BY <1>1, <1>2 DEF Visible
  <2> QED
    BY <1>2, <2>1 DEF Desc, Reached
<1>10. Position' = [Position EXCEPT ![f] = o]
  <2>1. Position' = [g \in File |-> IF g = f THEN o ELSE Position[g]]
    BY <1>5, <1>6, <1>8, <1>9 DEF Position
  <2> QED
    BY <1>3, <2>1 DEF Position
<1>11. Shared!Move(p, d)
  BY <1>3, <1>4, <1>8, <1>9, <1>10 DEF Shared!Move
<1> QED
  BY <1>2, <1>11

(* fork: the child has its parent's table.                                 *)
LEMMA ForkForks ==
    ASSUME OpenFilesInv, RefcountExact, SeenInv, NEW p \in Proc, ForkDone(p)
    PROVE  \E child \in Proc : Shared!Fork(p, child)
<1> USE DEF OpenFilesInv
<1> DEFINE w == arg[p].whose
<1>1. /\ pc[p] = "copy" /\ ft' = ft /\ of' = of /\ arg[p].fd = OPEN_MAX
      /\ w \in Proc /\ w # p /\ pc[w] = "embryo"
  BY TableArg DEF ForkDone, TableInv
<1>2. \A q \in Proc : pc'[q] = IF q = w \/ q = p THEN "user" ELSE pc[q]
  BY <1>1 DEF ForkDone, TypeOK
<1>3. \A d \in Fd : d < arg[p].fd
  BY <1>1, ConstantsAssumption DEF Fd
<1>4. ft[w] = ft[p]
  BY <1>1, <1>3 DEF SeenInv, Copied, TypeOK
<1>5. Desc[w] = [d \in Fd |-> NULL] /\ Desc[p] = ft[p]
  BY <1>1 DEF Visible, Desc
<1>6. Desc' = [q \in Proc |-> IF q = w THEN Desc[p] ELSE Desc[q]]
  <2>1. pc'[w] # "embryo" /\ pc'[p] # "embryo" /\ pc[p] # "embryo"
    BY <1>1, <1>2
  <2>2. Desc' = [q \in Proc |-> IF pc'[q] = "embryo" THEN [d \in Fd |-> NULL] ELSE ft'[q]]
    BY DEF Desc, Visible
  <2>3. Desc'[w] = Desc[p]
    BY <1>1, <1>4, <1>5, <2>1, <2>2
  <2>4. Desc'[p] = Desc[p]
    BY <1>1, <1>5, <2>1, <2>2
  <2>5. \A q \in Proc \ {w, p} : Desc'[q] = Desc[q]
    BY <1>1, <1>2, <2>2 DEF Desc, Visible
  <2> QED
    BY <2>2, <2>3, <2>4, <2>5
<1>7. Desc' = [Desc EXCEPT ![w] = Desc[p]]
  BY <1>1, <1>6 DEF Desc
<1>8. \A f \in File : Reached(f)' <=> Reached(f)
  <2> SUFFICES ASSUME NEW f \in File PROVE Reached(f)' <=> Reached(f)
    OBVIOUS
  <2>1. f # NULL
    BY NullAssumption
  <2>2. /\ Reached(f) <=> \E q \in Proc, d \in Fd : Desc[q][d] = f
        /\ Reached(f)' <=> \E q \in Proc, d \in Fd : Desc'[q][d] = f
    BY DEF Reached, Desc
  <2>3. \A q \in Proc, d \in Fd : Desc'[q][d] = f => \E r \in Proc : Desc[r][d] = f
    BY <1>6
  <2>4. \A q \in Proc, d \in Fd : Desc[q][d] = f => q # w /\ Desc'[q][d] = f
    BY <1>5, <1>6, <2>1
  <2> QED
    BY <2>2, <2>3, <2>4
<1>9. Position' = Position
  BY <1>1, <1>8 DEF Position
<1>10. \A d \in Fd : Desc[w][d] = NULL
  BY <1>5
<1>11. Shared!Fork(p, w)
  BY <1>7, <1>9, <1>10 DEF Shared!Fork
<1> QED
  BY <1>1, <1>11

-----------------------------------------------------------------------------
LEMMA InitShared == Init => Shared!Init
<1> SUFFICES ASSUME Init PROVE Shared!Init
  OBVIOUS
<1>1. \A p \in Proc : Visible(p) = [d \in Fd |-> NULL]
  BY DEF Init, Visible
<1>2. \A f \in File : ~Reached(f)
  BY <1>1, NullAssumption DEF Reached
<1> QED
  BY <1>1, <1>2 DEF Shared!Init, Desc, Position

LEMMA StepShared ==
    ASSUME OpenFilesInv, RefcountExact, SeenInv, Next
    PROVE  Shared!Next \/ (Desc' = Desc /\ Position' = Position)
<1>1. PICK p \in Proc : StepOf(p)
  BY DEF Next, StepOf
<1>2. CASE \/ RunProgram(p) \/ Open(p) \/ PlaceFails(p)
           \/ Decref(p) \/ DecrefLast(p) \/ Destroy(p) \/ Dup2(p)
           \/ ReadWrite(p) \/ Lock(p) \/ Transfer(p) \/ ReadWriteEnds(p)
           \/ Lseek(p) \/ SeekLock(p) \/ SeekFails(p)
           \/ ForkFails(p) \/ Exit(p) \/ DropDestroy(p)
  BY <1>2, StepsUnseen
<1>3. CASE Fork(p) \/ Copy(p) \/ DropDone(p)
  BY <1>3, ForkUnseen, CopyUnseen, DropDoneUnseen
<1>4. CASE PlaceFile(p)
  <2>1. \E d \in Fd, f \in File : Shared!Open(p, d, f)
    BY <1>4, PlaceOpens
  <2> QED
    BY <2>1 DEF Shared!Next
<1>5. CASE Close(p) \/ Drop(p) \/ DropLast(p)
  <2>1. (\E d \in Fd : Shared!Close(p, d)) \/ (Desc' = Desc /\ Position' = Position)
    BY <1>5, CloseCloses, DropCloses
  <2> QED
    BY <2>1 DEF Shared!Next
<1>6. CASE DupPlace(p) \/ DupReplace(p)
  <2>1. \E old, new \in Fd : Shared!Dup(p, old, new)
    BY <1>6, DupDups
  <2> QED
    BY <2>1 DEF Shared!Next
<1>7. CASE Update(p) \/ Seek(p)
  <2>1. \E d \in Fd : Shared!Move(p, d)
    BY <1>7, MoveMoves
  <2> QED
    BY <2>1 DEF Shared!Next
<1>8. CASE ForkDone(p)
  <2>1. \E child \in Proc : Shared!Fork(p, child)
    BY <1>8, ForkForks
  <2> QED
    BY <2>1 DEF Shared!Next
<1> QED
  BY <1>1, <1>2, <1>3, <1>4, <1>5, <1>6, <1>7, <1>8 DEF StepOf

(* Open, close, dup2, read, write, lseek, fork and exit do to descriptors  *)
(* and seek positions what Unix says, and their other steps do nothing     *)
(* that a user program sees (file_syscalls.c, filetable.c, openfile.c).    *)
THEOREM SharedFilesImplemented == Spec => ImplementsSharedFiles
<1> DEFINE I == OpenFilesInv /\ RefcountExact
<1>1. Init => SeenInv
  BY DEF Init, SeenInv, Fresh, DupFrom, Copied
<1>2. I /\ SeenInv /\ [Next]_vars => SeenInv'
  <2>1. ASSUME I, SeenInv, Next PROVE SeenInv'
    <3>1. PICK p \in Proc : StepOf(p)
      BY <2>1 DEF Next, StepOf
    <3> QED
      BY <2>1, <3>1, SeenStep
  <2>2. ASSUME SeenInv, UNCHANGED vars PROVE SeenInv'
    BY <2>2 DEF vars, SeenInv, Fresh, DupFrom, Copied
  <2> QED
    BY <2>1, <2>2
<1>3. I /\ SeenInv /\ [Next]_vars => [Shared!Next]_<<Desc, Position>>
  <2>1. ASSUME I, SeenInv, Next PROVE [Shared!Next]_<<Desc, Position>>
    BY <2>1, StepShared
  <2>2. ASSUME UNCHANGED vars PROVE [Shared!Next]_<<Desc, Position>>
    BY <2>2 DEF vars, Desc, Position, Reached, Visible
  <2> QED
    BY <2>1, <2>2
<1>4. Spec => []I
  BY Safety, PTL
<1> QED
  BY <1>1, <1>2, <1>3, <1>4, InitShared, PTL DEF Spec, ImplementsSharedFiles, Shared!Spec
=============================================================================
