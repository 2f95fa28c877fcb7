------------------------ MODULE AddressSpacesProofs ------------------------
(***************************************************************************)
(* Who has which frame, and what the TLBs hold: the inductive invariant of *)
(* virtual memory, for any number of processes, processors, frames and     *)
(* pages, any program and any sizes of kernel blocks.  And, on top of it,  *)
(* what user programs see: that their memories are private.                *)
(*                                                                         *)
(* The operators below say the same as those of AddressSpaces whose names  *)
(* they have, of a memory that is given: a step compares two memories.     *)
(***************************************************************************)
EXTENDS AddressSpaces, TLAPS, WellFoundedInduction, FiniteSetTheorems

Cell == Value \cup {JUNK} \cup [Lsb -> PTE \cup {NULL}]

EntryIn(mm, sp, pg) ==
    IF pg[1] \in Live(sp) THEN mm[sp.as_pte[pg[1]]][pg[2]] ELSE NULL
PresentIn(mm, sp) == {pg \in Page : EntryIn(mm, sp, pg) # NULL}
FrameIn(mm, sp, pg) == EntryIn(mm, sp, pg).frame
TablesIn(mm, sp) ==
    /\ sp.gone \subseteq Tables(sp)
    /\ \A m \in Live(sp) : /\ mm[sp.as_pte[m]] \in [Lsb -> PTE \cup {NULL}]
                           /\ sp.as_pte[m] # sp.root
                           /\ \A n \in Live(sp) : sp.as_pte[m] = sp.as_pte[n] => m = n
PagesIn(mm, sp) ==
    \A x \in PresentIn(mm, sp) :
        /\ FrameIn(mm, sp, x) # sp.root
        /\ \A m \in Live(sp) : FrameIn(mm, sp, x) # sp.as_pte[m]
        /\ \A y \in PresentIn(mm, sp) : FrameIn(mm, sp, x) = FrameIn(mm, sp, y) => x = y
TidyIn(mm, sp) == sp.as_regions # <<>> /\ TablesIn(mm, sp) /\ PagesIn(mm, sp)
FramesIn(mm, sp) ==
    IF sp = NULL THEN {}
    ELSE {sp.root} \cup {sp.as_pte[m] : m \in Live(sp)}
                  \cup {FrameIn(mm, sp, pg) : pg \in PresentIn(mm, sp)}

(* What the pages of an address space hold, and address spaces that show   *)
(* the same, or the same but for one page.                                 *)
ContentIn(mm, sp, pg) ==
    IF EntryIn(mm, sp, pg) = NULL THEN Zero ELSE mm[FrameIn(mm, sp, pg)]
Looks(m1, sp, m2, new) ==
    /\ new # NULL /\ new.as_regions = sp.as_regions
    /\ \A pg \in Page : ContentIn(m2, new, pg) = ContentIn(m1, sp, pg)
Put(m1, m2, sp, pg, x) ==
    /\ ContentIn(m2, sp, pg) = x
    /\ \A y \in Page : y # pg => ContentIn(m2, sp, y) = ContentIn(m1, sp, y)

(* What holds of a process with the address spaces v and h, at the place   *)
(* k, with the arguments a and the pages t to do.                          *)
FaultIn(mm, v, h, a) ==
    /\ a.ret \in {"user", "load", "argv"}
    /\ a.ret # "load" => h = NULL
    /\ a.ret = "argv" => a.page = Argv
    /\ a.page[1] \in Tables(v) /\ EntryIn(mm, v, a.page) = NULL
    /\ a.flag => /\ a.page[1] \notin v.gone
                 /\ \A l \in Lsb : EntryIn(mm, v, <<a.page[1], l>>) = NULL
DestroyIn(v, a) ==
    /\ a.ret \in {"user", "argv", "exit", "none"}
    /\ a.ret \in {"user", "argv"} <=> v # NULL
CopyIn(mm, v, h, t) ==
    /\ h.gone = {}
    /\ t \subseteq PresentIn(mm, v)
    /\ \A pg \in t : EntryIn(mm, h, pg) = NULL
ProcIn(mm, v, h, k, a, t) ==
    /\ k \in {"none", "new"} => v = NULL
    /\ k \in {"user", "addpte", "load", "unload", "argv", "copy"} => v # NULL
    /\ k \in {"none", "new", "user", "argv", "exit"} => h = NULL
    /\ k \in {"copy", "destroy"} => h # NULL
    /\ k = "addpte" => FaultIn(mm, v, h, a)
    /\ k = "destroy" => DestroyIn(v, a)
    /\ k = "copy" => CopyIn(mm, v, h, t)
    /\ k \notin {"addpte", "destroy"} => a = NoArg

(* What a processor that runs a process with the address space v may have  *)
(* in its TLB.                                                             *)
CoherentIn(mm, v, T) ==
    v # NULL => \A e \in T : EntryIn(mm, v, e.page) = [frame |-> e.frame, dirty |-> e.dirty]

(* The frames of every address space, and the books that balance: O are    *)
(* the frames of each slot, B the blocks, ft the frame table.              *)
SpaceIn(v, h, s) == IF s[1] = "vm" THEN v[s[2]] ELSE h[s[2]]
OwnIn(mm, v, h) == [s \in Slot |-> FramesIn(mm, SpaceIn(v, h, s))]
Balanced(O, B, ft) ==
    /\ \A s \in Slot : O[s] \subseteq Ram
    /\ \A s, t \in Slot : s # t => O[s] \cap O[t] = {}
    /\ \A b \in B :
         /\ InBlock(b) \subseteq Ram
         /\ \A s \in Slot : InBlock(b) \cap O[s] = {}
         /\ \A d \in B : b # d => InBlock(b) \cap InBlock(d) = {}
    /\ \A f \in Ram :
         /\ ft[f].allocated <=> \/ \E s \in Slot : f \in O[s]
                               \/ \E b \in B : f \in InBlock(b)
         /\ ft[f].allocated => (ft[f].not_last <=>
                                  \E b \in B : f \in InBlock(b) /\ f + 1 \in InBlock(b))

(* The invariant in these terms.                                           *)
ProcsIn ==
    \A q \in Proc : /\ ProcIn(mem, vm[q], hand[q], pc[q], arg[q], todo[q])
                    /\ pc[q] = "none" => \A c \in Cpu : on[c] # q
TidyAll ==
    \A q \in Proc : /\ vm[q] # NULL => TidyIn(mem, vm[q])
                    /\ hand[q] # NULL => TidyIn(mem, hand[q])
Books == Balanced(OwnIn(mem, vm, hand), blocks, frame_table)
Coherent == \A c \in Cpu : on[c] # NULL => CoherentIn(mem, vm[on[c]], tlb[c])
Facts == TypeOK /\ ProcsIn /\ TidyAll /\ Books /\ Coherent

LEMMA EntryIs == \A sp : \A pg \in Page : Entry(sp, pg) = EntryIn(mem, sp, pg)
<1> SUFFICES ASSUME NEW sp, NEW pg \in Page PROVE Entry(sp, pg) = EntryIn(mem, sp, pg)
  OBVIOUS
<1>1. pg[1] \in Msb
  BY DEF Page
<1> QED BY <1>1 DEF Entry, EntryIn, Live, Tables

LEMMA PresentIs == \A sp : Present(sp) = PresentIn(mem, sp)
BY EntryIs DEF Present, PresentIn

LEMMA TidyIs == \A sp : Tidy(sp) <=> TidyIn(mem, sp)
<1> SUFFICES ASSUME NEW sp PROVE Tidy(sp) <=> TidyIn(mem, sp)
  OBVIOUS
<1>1. Present(sp) = PresentIn(mem, sp) /\ PresentIn(mem, sp) \subseteq Page
  BY PresentIs DEF PresentIn
<1>2. \A x \in PresentIn(mem, sp) : PageFrame(sp, x) = FrameIn(mem, sp, x)
  BY <1>1, EntryIs DEF PageFrame, FrameIn
<1>3. PagesTidy(sp) <=> PagesIn(mem, sp)
  BY <1>1, <1>2 DEF PagesTidy, PagesIn
<1>4. TablesTidy(sp) <=> TablesIn(mem, sp)
  BY DEF TablesTidy, TablesIn
<1> QED BY <1>3, <1>4 DEF Tidy, TidyIn

LEMMA FramesIs == \A sp : FramesOf(sp) = FramesIn(mem, sp)
<1> SUFFICES ASSUME NEW sp PROVE FramesOf(sp) = FramesIn(mem, sp)
  OBVIOUS
<1>1. Present(sp) = PresentIn(mem, sp) /\ PresentIn(mem, sp) \subseteq Page
  BY PresentIs DEF PresentIn
<1>2. \A x \in PresentIn(mem, sp) : PageFrame(sp, x) = FrameIn(mem, sp, x)
  BY <1>1, EntryIs DEF PageFrame, FrameIn
<1>3. {PageFrame(sp, pg) : pg \in Present(sp)} = {FrameIn(mem, sp, pg) : pg \in PresentIn(mem, sp)}
  BY <1>1, <1>2
<1> QED BY <1>3 DEF FramesOf, FramesIn

(* Every slot is one of a process's two.                                   *)
LEMMA Slots ==
    /\ \A q \in Proc : <<"vm", q>> \in Slot /\ <<"hand", q>> \in Slot
    /\ \A s \in Slot : \E q \in Proc : s = <<"vm", q>> \/ s = <<"hand", q>>
    /\ \A v, h, q : SpaceIn(v, h, <<"vm", q>>) = v[q] /\ SpaceIn(v, h, <<"hand", q>>) = h[q]
BY DEF Slot, SpaceIn

LEMMA Forms == MemoryInv <=> Facts
<1>1. SpacesTidy <=> TidyAll
  <2>1. \A s : Space(s) = SpaceIn(vm, hand, s)
    BY DEF Space, SpaceIn
  <2>2. \A q \in Proc : Space(<<"vm", q>>) = vm[q] /\ Space(<<"hand", q>>) = hand[q]
    BY DEF Space
  <2>3. SpacesTidy <=> \A s \in Slot : Space(s) # NULL => TidyIn(mem, Space(s))
    BY TidyIs DEF SpacesTidy
  <2>4. ASSUME SpacesTidy PROVE TidyAll
    BY <2>2, <2>3, <2>4, Slots DEF TidyAll
  <2>5. ASSUME TidyAll, NEW s \in Slot, Space(s) # NULL PROVE TidyIn(mem, Space(s))
    <3>1. PICK q \in Proc : s = <<"vm", q>> \/ s = <<"hand", q>>
      BY Slots
    <3> QED BY <2>2, <2>5, <3>1 DEF TidyAll
  <2> QED BY <2>3, <2>4, <2>5
<1>2. Accounts <=> Books
  <2> DEFINE O == OwnIn(mem, vm, hand)
  <2>1. \A s \in Slot : FramesOf(Space(s)) = O[s]
    BY FramesIs DEF OwnIn, Space, SpaceIn
  <2> HIDE DEF O
  <2>2. Accounts <=> Balanced(O, blocks, frame_table)
    BY <2>1 DEF Accounts, Balanced, IsFree
  <2> QED BY <2>2 DEF O, Books
<1>3. ASSUME TypeOK PROVE HasSpaces /\ Calling <=> ProcsIn
  <2>1. \A q \in Proc : InFault(q) <=> FaultIn(mem, vm[q], hand[q], arg[q])
    <3> SUFFICES ASSUME NEW q \in Proc
                 PROVE InFault(q) <=> FaultIn(mem, vm[q], hand[q], arg[q])
      OBVIOUS
    <3>1. arg[q].page \in Page /\ arg[q].page[1] \in Msb
      BY <1>3 DEF TypeOK, Page
    <3>2. \A l \in Lsb : <<arg[q].page[1], l>> \in Page
      BY <3>1 DEF Page
    <3> QED BY <3>1, <3>2, EntryIs DEF InFault, FaultIn
  <2>2. \A q \in Proc : InDestroy(q) <=> DestroyIn(vm[q], arg[q])
    BY DEF InDestroy, DestroyIn
  <2>3. \A q \in Proc : InCopy(q) <=> CopyIn(mem, vm[q], hand[q], todo[q])
    <3> SUFFICES ASSUME NEW q \in Proc
                 PROVE InCopy(q) <=> CopyIn(mem, vm[q], hand[q], todo[q])
      OBVIOUS
    <3>1. todo[q] \subseteq Page
      BY <1>3 DEF TypeOK
    <3> QED BY <3>1, EntryIs, PresentIs DEF InCopy, CopyIn
  <2> QED BY <2>1, <2>2, <2>3 DEF HasSpaces, Calling, ProcsIn, ProcIn
<1>4. ASSUME TypeOK PROVE TLBCoherent <=> Coherent
  <2>1. \A c \in Cpu : \A e \in tlb[c] : e.page \in Page
    BY <1>4 DEF TypeOK, TLBEntry
  <2> QED BY <2>1, EntryIs DEF TLBCoherent, Coherent, CoherentIn
<1> QED BY <1>1, <1>2, <1>3, <1>4 DEF MemoryInv, Facts

LEMMA FormsNext == MemoryInv' <=> Facts'
BY Forms, PTL

-----------------------------------------------------------------------------
(* A memory in which the tables of as are as they were shows the same      *)
(* address space.                                                          *)
SameTables(m1, m2, sp) == \A m \in Live(sp) : m2[sp.as_pte[m]] = m1[sp.as_pte[m]]

LEMMA Kept ==
    ASSUME NEW m1, NEW m2, NEW sp, SameTables(m1, m2, sp)
    PROVE  /\ \A pg : EntryIn(m2, sp, pg) = EntryIn(m1, sp, pg)
           /\ PresentIn(m2, sp) = PresentIn(m1, sp)
           /\ FramesIn(m2, sp) = FramesIn(m1, sp)
           /\ TidyIn(m1, sp) => TidyIn(m2, sp)
<1>1. \A pg : EntryIn(m2, sp, pg) = EntryIn(m1, sp, pg)
  BY DEF EntryIn, SameTables
<1>2. PresentIn(m2, sp) = PresentIn(m1, sp)
  BY <1>1 DEF PresentIn
<1>3. \A x : FrameIn(m2, sp, x) = FrameIn(m1, sp, x)
  BY <1>1 DEF FrameIn
<1>4. FramesIn(m2, sp) = FramesIn(m1, sp)
  BY <1>2, <1>3 DEF FramesIn
<1>5. TablesIn(m1, sp) => TablesIn(m2, sp)
  BY DEF TablesIn, SameTables
<1>6. PagesIn(m1, sp) => PagesIn(m2, sp)
  BY <1>2, <1>3 DEF PagesIn
<1> QED BY <1>1, <1>2, <1>4, <1>5, <1>6 DEF TidyIn

LEMMA ProcKept ==
    ASSUME NEW m1, NEW m2, NEW v, NEW h, NEW k, NEW a, NEW t,
           v # NULL => SameTables(m1, m2, v), h # NULL => SameTables(m1, m2, h),
           ProcIn(m1, v, h, k, a, t)
    PROVE  ProcIn(m2, v, h, k, a, t)
<1>1. v # NULL => /\ \A pg : EntryIn(m2, v, pg) = EntryIn(m1, v, pg)
                  /\ PresentIn(m2, v) = PresentIn(m1, v)
  BY Kept
<1>2. h # NULL => \A pg : EntryIn(m2, h, pg) = EntryIn(m1, h, pg)
  BY Kept
<1>3. k = "addpte" => FaultIn(m2, v, h, a)
  BY <1>1 DEF ProcIn, FaultIn
<1>4. k = "copy" => CopyIn(m2, v, h, t)
  BY <1>1, <1>2 DEF ProcIn, CopyIn
<1> QED BY <1>3, <1>4 DEF ProcIn

LEMMA CoherentKept ==
    ASSUME NEW m1, NEW m2, NEW v, NEW T, v # NULL => SameTables(m1, m2, v),
           CoherentIn(m1, v, T)
    PROVE  CoherentIn(m2, v, T)
<1>1. v # NULL => \A pg : EntryIn(m2, v, pg) = EntryIn(m1, v, pg)
  BY Kept
<1> QED BY <1>1 DEF CoherentIn

LEMMA LooksKept ==
    ASSUME NEW m1, NEW m2, NEW sp, NEW new, new # NULL, new.as_regions = sp.as_regions,
           \A x \in Page : EntryIn(m2, new, x) = EntryIn(m1, sp, x),
           \A x \in PresentIn(m1, sp) : m2[FrameIn(m1, sp, x)] = m1[FrameIn(m1, sp, x)]
    PROVE  Looks(m1, sp, m2, new)
<1> SUFFICES ASSUME NEW x \in Page PROVE ContentIn(m2, new, x) = ContentIn(m1, sp, x)
  BY DEF Looks
<1>1. EntryIn(m2, new, x) = EntryIn(m1, sp, x) /\ FrameIn(m2, new, x) = FrameIn(m1, sp, x)
  BY DEF FrameIn
<1>2. EntryIn(m1, sp, x) # NULL => x \in PresentIn(m1, sp)
  BY DEF PresentIn
<1> QED BY <1>1, <1>2 DEF ContentIn

LEMMA InFrames ==
    ASSUME NEW mm, NEW sp, sp # NULL
    PROVE  \A f : f \in FramesIn(mm, sp) <=>
                    \/ f = sp.root
                    \/ \E m \in Live(sp) : f = sp.as_pte[m]
                    \/ \E x \in PresentIn(mm, sp) : f = FrameIn(mm, sp, x)
BY DEF FramesIn

-----------------------------------------------------------------------------
(* A slot gets a frame, which is marked, or gives some of its frames back. *)
Gets(O, O2, s, f) == O2[s] = O[s] \cup {f} /\ \A t \in Slot : t # s => O2[t] = O[t]
GivesBack(O, O2, s, S) ==
    S \subseteq O[s] /\ O2[s] = O[s] \ S /\ \A t \in Slot : t # s => O2[t] = O[t]
Marks(ft, ft2, f) ==
    /\ ~ft[f].allocated /\ ft2[f].allocated /\ ~ft2[f].not_last
    /\ \A g \in Ram : g # f => ft2[g] = ft[g]
Frees(ft, ft2, S) ==
    /\ \A g \in Ram : g \in S => ~ft2[g].allocated
    /\ \A g \in Ram : g \notin S => ft2[g] = ft[g]

(* The books stay balanced when a slot gets a frame that was free...       *)
LEMMA BalancedTake ==
    ASSUME NEW O, NEW B, NEW ft, Balanced(O, B, ft), NEW O2, NEW ft2,
           NEW s \in Slot, NEW f \in Ram, Gets(O, O2, s, f), Marks(ft, ft2, f)
    PROVE  Balanced(O2, B, ft2)
<1> USE DEF Gets, Marks
<1>1. /\ \A t \in Slot : f \notin O[t]
      /\ \A b \in B : f \notin InBlock(b)
  BY DEF Balanced
<1>2. \A g \in Ram : (\E t \in Slot : g \in O2[t]) <=> g = f \/ \E t \in Slot : g \in O[t]
  OBVIOUS
<1>3. \A t \in Slot : O2[t] \subseteq Ram
  BY DEF Balanced
<1>4. \A t, u \in Slot : t # u => O2[t] \cap O2[u] = {}
  BY <1>1 DEF Balanced
<1>5. \A b \in B : \A t \in Slot : InBlock(b) \cap O2[t] = {}
  BY <1>1 DEF Balanced
<1>6. \A g \in Ram : ft2[g].allocated <=> \/ \E t \in Slot : g \in O2[t]
                                         \/ \E b \in B : g \in InBlock(b)
  BY <1>2 DEF Balanced
<1>7. \A g \in Ram : ft2[g].allocated =>
        (ft2[g].not_last <=> \E b \in B : g \in InBlock(b) /\ g + 1 \in InBlock(b))
  BY <1>1 DEF Balanced
<1> QED BY <1>3, <1>4, <1>5, <1>6, <1>7 DEF Balanced

(* ...when a slot gives some of its own back...                            *)
LEMMA BalancedGive ==
    ASSUME NEW O, NEW B, NEW ft, Balanced(O, B, ft), NEW O2, NEW ft2,
           NEW s \in Slot, NEW S, GivesBack(O, O2, s, S), Frees(ft, ft2, S)
    PROVE  Balanced(O2, B, ft2)
<1> USE DEF GivesBack, Frees
<1>1. \A g \in S : /\ \A t \in Slot : t # s => g \notin O[t]
                   /\ \A b \in B : g \notin InBlock(b)
  BY DEF Balanced
<1>2. \A g \in Ram : (\E t \in Slot : g \in O2[t]) <=> g \notin S /\ \E t \in Slot : g \in O[t]
  BY <1>1
<1>3. \A t \in Slot : O2[t] \subseteq O[t]
  OBVIOUS
<1>4. \A g \in Ram : ft2[g].allocated <=> \/ \E t \in Slot : g \in O2[t]
                                         \/ \E b \in B : g \in InBlock(b)
  BY <1>1, <1>2 DEF Balanced
<1>5. \A g \in Ram : ft2[g].allocated =>
        (ft2[g].not_last <=> \E b \in B : g \in InBlock(b) /\ g + 1 \in InBlock(b))
  BY DEF Balanced
<1>6. /\ \A t \in Slot : O2[t] \subseteq Ram
      /\ \A t, u \in Slot : t # u => O2[t] \cap O2[u] = {}
      /\ \A b \in B : \A t \in Slot : InBlock(b) \cap O2[t] = {}
  BY <1>3 DEF Balanced
<1> QED BY <1>4, <1>5, <1>6 DEF Balanced

(* ...and when two slots swap what they have.                              *)
LEMMA BalancedSwap ==
    ASSUME NEW O, NEW B, NEW ft, Balanced(O, B, ft), NEW O2,
           NEW s \in Slot, NEW r \in Slot, s # r,
           O2[s] = O[r], O2[r] = O[s],
           \A t \in Slot : t # s /\ t # r => O2[t] = O[t]
    PROVE  Balanced(O2, B, ft)
<1>1. \A g : (\E t \in Slot : g \in O2[t]) <=> \E t \in Slot : g \in O[t]
  OBVIOUS
<1>2. \A t \in Slot : \E u \in Slot : O2[t] = O[u]
  OBVIOUS
<1>3. \A t, u \in Slot : t # u => O2[t] \cap O2[u] = {}
  BY DEF Balanced
<1> QED BY <1>1, <1>2, <1>3 DEF Balanced

(* What somebody has is marked, and ends where it begins.                  *)
LEMMA Marked ==
    ASSUME NEW O, NEW B, NEW ft, Balanced(O, B, ft), NEW s \in Slot, NEW f \in O[s]
    PROVE  f \in Ram /\ ft[f].allocated /\ ~ft[f].not_last
BY DEF Balanced

-----------------------------------------------------------------------------
(* What the calls of the frame table find and do.                          *)
TableOK == frame_table \in [Frame -> [allocated : BOOLEAN, not_last : BOOLEAN]]

LEMMA LowestIn ==
    ASSUME NEW S \in SUBSET Nat, S # {}
    PROVE  Lowest(S) \in S /\ \A g \in S : Lowest(S) <= g
<1> DEFINE Less == {ss \in Nat \X Nat : ss[1] < ss[2]}
<1>1. OpToRel(<, Nat) = Less
  BY Zenon DEF OpToRel
<1>2. IsWellFoundedOn(Less, Nat)
  BY <1>1, NatLessThanWellFounded
<1>3. \A x, y \in Nat : <<x, y>> \notin Less => y <= x
  OBVIOUS
<1> HIDE DEF Less
<1>4. PICK f \in S : \A g \in S : <<g, f>> \notin Less
  BY <1>2, WFMin
<1>5. \A g \in S : f <= g
  BY <1>3, <1>4
<1> QED BY <1>5 DEF Lowest

LEMMA Rams == /\ Ram \subseteq Frame /\ Ram \subseteq Nat \ {0} /\ Frame \subseteq Nat
              /\ NoFrame \notin Ram /\ NULL \notin Frame
              /\ \A f \in Ram : f # NULL
BY FrameAssumption, SpacesAssumption DEF Ram, Frame, NoFrame

LEMMA AllocatesOne ==
    ASSUME alloc_kpages(1) # NoFrame
    PROVE  alloc_kpages(1) \in Ram /\ IsFree(alloc_kpages(1))
<1> DEFINE free == {f \in Ram : IsFree(f)}
<1>1. alloc_kpages(1) = IF free = {} THEN NoFrame ELSE Lowest(free)
  BY DEF alloc_kpages, alloc_one_frame
<1>2. free \in SUBSET Nat /\ free # {}
  BY <1>1, Rams
<1> HIDE DEF free
<1>3. alloc_kpages(1) \in free
  BY <1>1, <1>2, LowestIn
<1> QED BY <1>3 DEF free

LEMMA AllocatesRun ==
    ASSUME NEW n \in Nat \ {0}, alloc_kpages(n) # NoFrame
    PROVE  \A g \in alloc_kpages(n) .. alloc_kpages(n) + n - 1 : g \in Ram /\ IsFree(g)
<1> DEFINE f == alloc_kpages(n)
<1>1. CASE n = 1
  <2>1. f \in Ram /\ IsFree(f)
    BY <1>1, AllocatesOne
  <2> HIDE DEF f
  <2>2. f .. f + n - 1 = {f}
    BY <1>1, <2>1, Rams
  <2> QED BY <2>1, <2>2 DEF f
<1>2. CASE n > 1
  <2> DEFINE fits == {i \in Starts(n) : FreeRun(i, n)}
  <2>1. f = IF fits = {} THEN NoFrame ELSE Lowest(fits)
    BY <1>2 DEF alloc_kpages, alloc_multiple_frames
  <2>2. fits \in SUBSET Nat
    BY FrameAssumption DEF Starts
  <2> HIDE DEF fits
  <2>3. f \in fits
    BY <2>1, <2>2, LowestIn
  <2> HIDE DEF f
  <2>4. f \in first_frame .. last_frame - n - 1 /\ \A g \in f .. f + n - 1 : IsFree(g)
    BY <2>3 DEF fits, Starts, FreeRun
  <2>5. \A g \in f .. f + n - 1 : g \in Ram
    BY <2>4, FrameAssumption DEF Ram
  <2> QED BY <2>4, <2>5 DEF f
<1> QED BY <1>1, <1>2

LEMMA MarksRun ==
    ASSUME TableOK, NEW f \in Ram, NEW n \in Nat \ {0}, f + n - 1 \in Ram,
           frame_table' = Mark(f, n)
    PROVE  /\ TableOK'
           /\ \A g \in f .. f + n - 1 : /\ frame_table'[g].allocated
                                        /\ frame_table'[g].not_last <=> g # f + n - 1
           /\ \A g \in Ram : g \notin f .. f + n - 1 => frame_table'[g] = frame_table[g]
<1> DEFINE run == f .. f + n - 1
           inside(g) == g # f + n - 1
<1>1. \A g \in run : g \in Frame
  BY Rams, FrameAssumption DEF Ram, Frame
<1>2. frame_table' = [g \in Frame |-> IF g \in run
                        THEN [allocated |-> TRUE, not_last |-> inside(g)]
                        ELSE frame_table[g]]
  BY DEF Mark
<1>3. \A g : inside(g) \in BOOLEAN
  OBVIOUS
<1>4. \A g : inside(g) <=> g # f + n - 1
  OBVIOUS
<1> HIDE DEF run, inside
<1>5. \A g \in run : frame_table'[g].allocated /\ frame_table'[g].not_last = inside(g)
  BY <1>1, <1>2
<1>6. \A g \in Ram : g \notin run => frame_table'[g] = frame_table[g]
  BY <1>2, Rams
<1>7. TableOK'
  BY <1>2, <1>3 DEF TableOK
<1>8. \A g \in run : frame_table'[g].not_last <=> g # f + n - 1
  BY <1>3, <1>4, <1>5
<1> QED BY <1>5, <1>6, <1>7, <1>8 DEF run

LEMMA MarksOne ==
    ASSUME TableOK, NEW f, Take(f), f = alloc_kpages(1)
    PROVE  f \in Ram /\ TableOK' /\ Marks(frame_table, frame_table', f)
<1>1. f \in Ram /\ ~frame_table[f].allocated /\ frame_table' = Mark(f, 1)
  BY AllocatesOne DEF Take, IsFree
<1>2. f .. f + 1 - 1 = {f} /\ f + 1 - 1 = f
  BY <1>1, Rams
<1> QED BY <1>1, <1>2, MarksRun DEF Marks

(* Frames that are blocks of their own are freed, and nothing else.        *)
LEMMA Unmarks ==
    ASSUME TableOK, NEW S \in SUBSET Ram, Release(S),
           \A f \in S : frame_table[f].allocated /\ ~frame_table[f].not_last
    PROVE  /\ TableOK' /\ Frees(frame_table, frame_table', S)
           /\ mem' = [f \in Ram |-> IF f \in S THEN JUNK ELSE mem[f]]
<1>1. \A f \in S : Block(f) = {f}
  <2> SUFFICES ASSUME NEW f \in S, NEW g PROVE g \in Block(f) <=> g = f
    OBVIOUS
  <2>1. f \in f .. last_frame - 1 /\ f .. f - 1 = {} /\ f \in Nat
    BY FrameAssumption, Rams DEF Ram
  <2>2. f \in Block(f)
    BY <2>1 DEF Block, IsFree
  <2>3. ASSUME g \in Block(f), g # f PROVE FALSE
    <3>1. g \in f .. last_frame - 1 /\ f \in f .. g - 1
      BY <2>1, <2>3, FrameAssumption DEF Block
    <3>2. frame_table[f].not_last
      BY <2>3, <3>1 DEF Block
    <3> QED BY <3>2
  <2> QED BY <2>2, <2>3
<1>2. \A g : (\E f \in S : g \in Block(f)) <=> g \in S
  BY <1>1
<1>3. frame_table' = [g \in Frame |-> IF g \in S THEN [frame_table[g] EXCEPT !.allocated = FALSE]
                                      ELSE frame_table[g]]
  BY <1>2 DEF Release, Unmark
<1>4. mem' = [f \in Ram |-> IF f \in S THEN JUNK ELSE mem[f]]
  BY <1>2 DEF Release
<1> QED BY <1>3, <1>4, Rams DEF TableOK, Frees

-----------------------------------------------------------------------------
(* A step of p that writes no frames but those of W, none of which another *)
(* process has.                                                            *)
OnlyOf(p, W) ==
    /\ \A f \in Ram : f \notin W => mem'[f] = mem[f]
    /\ \A q \in Proc : q # p => /\ vm'[q] = vm[q] /\ hand'[q] = hand[q]
                                /\ pc'[q] = pc[q] /\ arg'[q] = arg[q] /\ todo'[q] = todo[q]
    /\ \A q \in Proc : q # p => /\ W \cap FramesIn(mem, vm[q]) = {}
                                /\ W \cap FramesIn(mem, hand[q]) = {}

Alone(p) == \E W : OnlyOf(p, W)

LEMMA SpaceKept ==
    ASSUME NEW m1, NEW m2, NEW x, x # NULL, FramesIn(m1, x) \subseteq Ram,
           NEW W, W \cap FramesIn(m1, x) = {}, \A f \in Ram : f \notin W => m2[f] = m1[f]
    PROVE  SameTables(m1, m2, x)
<1>1. \A m \in Live(x) : x.as_pte[m] \in FramesIn(m1, x)
  BY InFrames
<1> QED BY <1>1 DEF SameTables

LEMMA Owns ==
    ASSUME NEW q \in Proc
    PROVE  /\ OwnIn(mem, vm, hand)[<<"vm", q>>] = FramesIn(mem, vm[q])
           /\ OwnIn(mem, vm, hand)[<<"hand", q>>] = FramesIn(mem, hand[q])
           /\ OwnIn(mem', vm', hand')[<<"vm", q>>] = FramesIn(mem', vm'[q])
           /\ OwnIn(mem', vm', hand')[<<"hand", q>>] = FramesIn(mem', hand'[q])
<1>1. <<"vm", q>> \in Slot /\ <<"hand", q>> \in Slot
  BY Slots
<1>2. /\ SpaceIn(vm, hand, <<"vm", q>>) = vm[q]
      /\ SpaceIn(vm, hand, <<"hand", q>>) = hand[q]
      /\ SpaceIn(vm', hand', <<"vm", q>>) = vm'[q]
      /\ SpaceIn(vm', hand', <<"hand", q>>) = hand'[q]
  BY DEF SpaceIn
<1> QED BY <1>1, <1>2 DEF OwnIn

LEMMA InRam ==
    ASSUME Facts, NEW q \in Proc
    PROVE  FramesIn(mem, vm[q]) \subseteq Ram /\ FramesIn(mem, hand[q]) \subseteq Ram
<1> DEFINE O == OwnIn(mem, vm, hand)
<1>1. O[<<"vm", q>>] = FramesIn(mem, vm[q]) /\ O[<<"hand", q>>] = FramesIn(mem, hand[q])
  BY Owns
<1>2. Balanced(O, blocks, frame_table)
  BY DEF Facts, Books
<1> HIDE DEF O
<1>3. \A s \in Slot : O[s] \subseteq Ram
  BY <1>2 DEF Balanced
<1> QED BY <1>1, <1>3, Slots

(* What the others have is as it was.                                      *)
LEMMA Others ==
    ASSUME Facts, NEW p, NEW W, OnlyOf(p, W), NEW q \in Proc, q # p
    PROVE  /\ ProcIn(mem', vm'[q], hand'[q], pc'[q], arg'[q], todo'[q])
           /\ vm'[q] # NULL => TidyIn(mem', vm'[q])
           /\ hand'[q] # NULL => TidyIn(mem', hand'[q])
           /\ FramesIn(mem', vm'[q]) = FramesIn(mem, vm[q])
           /\ FramesIn(mem', hand'[q]) = FramesIn(mem, hand[q])
           /\ \A T : CoherentIn(mem, vm[q], T) => CoherentIn(mem', vm'[q], T)
<1>1. /\ vm'[q] = vm[q] /\ hand'[q] = hand[q]
      /\ pc'[q] = pc[q] /\ arg'[q] = arg[q] /\ todo'[q] = todo[q]
  BY DEF OnlyOf
<1>2. vm[q] # NULL => SameTables(mem, mem', vm[q])
  BY SpaceKept, InRam DEF OnlyOf
<1>3. hand[q] # NULL => SameTables(mem, mem', hand[q])
  BY SpaceKept, InRam DEF OnlyOf
<1>4. ProcIn(mem, vm[q], hand[q], pc[q], arg[q], todo[q])
  BY DEF Facts, ProcsIn
<1>5. ProcIn(mem', vm[q], hand[q], pc[q], arg[q], todo[q])
  BY <1>2, <1>3, <1>4, ProcKept
<1>6. /\ vm[q] # NULL => TidyIn(mem', vm[q])
      /\ hand[q] # NULL => TidyIn(mem', hand[q])
  BY <1>2, <1>3, Kept DEF Facts, TidyAll
<1>7. FramesIn(mem', vm[q]) = FramesIn(mem, vm[q])
  <2>1. CASE vm[q] = NULL
    BY <2>1 DEF FramesIn
  <2>2. CASE vm[q] # NULL
    BY <1>2, <2>2, Kept
  <2> QED BY <2>1, <2>2
<1>8. FramesIn(mem', hand[q]) = FramesIn(mem, hand[q])
  <2>1. CASE hand[q] = NULL
    BY <2>1 DEF FramesIn
  <2>2. CASE hand[q] # NULL
    BY <1>3, <2>2, Kept
  <2> QED BY <2>1, <2>2
<1>9. \A T : CoherentIn(mem, vm[q], T) => CoherentIn(mem', vm[q], T)
  BY <1>2, CoherentKept
<1> QED BY <1>1, <1>5, <1>6, <1>7, <1>8, <1>9

LEMMA OthersOwn ==
    ASSUME Facts, NEW p, NEW W, OnlyOf(p, W), NEW s \in Slot,
           s # <<"vm", p>>, s # <<"hand", p>>
    PROVE  OwnIn(mem', vm', hand')[s] = OwnIn(mem, vm, hand)[s]
<1>1. PICK q \in Proc : s = <<"vm", q>> \/ s = <<"hand", q>>
  BY Slots
<1>2. q # p
  BY <1>1
<1>3. FramesIn(mem', vm'[q]) = FramesIn(mem, vm[q])
  BY <1>2, Others
<1>4. FramesIn(mem', hand'[q]) = FramesIn(mem, hand[q])
  BY <1>2, Others
<1>5. /\ OwnIn(mem, vm, hand)[<<"vm", q>>] = FramesIn(mem, vm[q])
      /\ OwnIn(mem, vm, hand)[<<"hand", q>>] = FramesIn(mem, hand[q])
  BY Owns
<1>6. /\ OwnIn(mem', vm', hand')[<<"vm", q>>] = FramesIn(mem', vm'[q])
      /\ OwnIn(mem', vm', hand')[<<"hand", q>>] = FramesIn(mem', hand'[q])
  BY Owns
<1> QED BY <1>1, <1>3, <1>4, <1>5, <1>6

(* So it is enough to look at p, its processor and the books.              *)
TlbStep(p) ==
    \A c \in Cpu :
        /\ on'[c] \notin {p, NULL} => on'[c] = on[c] /\ tlb'[c] = tlb[c]
        /\ on'[c] = p => CoherentIn(mem', vm'[p], tlb'[c])
NoneRuns == \A q \in Proc : pc'[q] = "none" => \A c \in Cpu : on'[c] # q

LEMMA Assemble ==
    ASSUME Facts, TypeOK', NEW p \in Proc, NEW W, OnlyOf(p, W),
           ProcIn(mem', vm'[p], hand'[p], pc'[p], arg'[p], todo'[p]),
           vm'[p] # NULL => TidyIn(mem', vm'[p]),
           hand'[p] # NULL => TidyIn(mem', hand'[p]),
           NoneRuns, TlbStep(p),
           Balanced(OwnIn(mem', vm', hand'), blocks', frame_table')
    PROVE  MemoryInv'
<1>1. ProcsIn'
  BY Others DEF ProcsIn, NoneRuns
<1>2. TidyAll'
  BY Others DEF TidyAll
<1>3. Books'
  BY DEF Books
<1>4. Coherent'
  <2> SUFFICES ASSUME NEW c \in Cpu, on'[c] # NULL
               PROVE  CoherentIn(mem', vm'[on'[c]], tlb'[c])
    BY DEF Coherent
  <2>1. CASE on'[c] = p
    BY <2>1 DEF TlbStep
  <2>2. CASE on'[c] # p
    <3>1. on'[c] = on[c] /\ tlb'[c] = tlb[c] /\ on[c] \in Proc
      BY <2>2 DEF TlbStep, Facts, TypeOK
    <3>2. CoherentIn(mem, vm[on[c]], tlb[c])
      BY <3>1 DEF Facts, Coherent
    <3> QED BY <2>2, <3>1, <3>2, Others
  <2> QED BY <2>1, <2>2
<1> QED BY <1>1, <1>2, <1>3, <1>4, FormsNext DEF Facts

(* A step that leaves the address spaces alone.                            *)
LEMMA Quiet ==
    ASSUME Facts, TypeOK', NEW p \in Proc,
           UNCHANGED <<frame_table, mem, vm, hand, blocks>>,
           \A q \in Proc : q # p => /\ pc'[q] = pc[q] /\ arg'[q] = arg[q]
                                    /\ todo'[q] = todo[q],
           ProcIn(mem, vm[p], hand[p], pc'[p], arg'[p], todo'[p]),
           NoneRuns, TlbStep(p)
    PROVE  MemoryInv'
<1>1. OnlyOf(p, {})
  BY DEF OnlyOf
<1>2. /\ vm'[p] # NULL => TidyIn(mem', vm'[p])
      /\ hand'[p] # NULL => TidyIn(mem', hand'[p])
  BY DEF Facts, TidyAll
<1>3. Balanced(OwnIn(mem', vm', hand'), blocks', frame_table')
  BY DEF Facts, Books
<1> QED BY <1>1, <1>2, <1>3, Assemble

-----------------------------------------------------------------------------
(* The TLBs, when nothing happens to them, after an insertion and after a  *)
(* flush.                                                                  *)
StillCoherent(p) ==
    \A T \in SUBSET TLBEntry : CoherentIn(mem, vm[p], T) => CoherentIn(mem', vm'[p], T)

LEMMA TlbSame ==
    ASSUME Facts, NEW p \in Proc, UNCHANGED mmu, StillCoherent(p)
    PROVE  TlbStep(p)
<1> SUFFICES ASSUME NEW c \in Cpu, on'[c] = p
             PROVE  CoherentIn(mem', vm'[p], tlb'[c])
  BY DEF TlbStep, mmu
<1>1. on[c] = p /\ tlb'[c] = tlb[c] /\ p # NULL
  BY SpacesAssumption DEF mmu
<1>2. CoherentIn(mem, vm[p], tlb[c]) /\ tlb[c] \in SUBSET TLBEntry
  BY <1>1 DEF Facts, Coherent, TypeOK
<1> QED BY <1>1, <1>2 DEF StillCoherent

LEMMA TlbAdds ==
    ASSUME Facts, NEW p \in Proc, NEW pg \in Page, NEW pte \in PTE,
           TlbRandom(p, pg, pte), on' = on,
           EntryIn(mem', vm'[p], pg) = pte, StillCoherent(p)
    PROVE  TlbStep(p) /\ tlb' \in [Cpu -> SUBSET TLBEntry]
<1> DEFINE new == [page |-> pg, frame |-> pte.frame, dirty |-> pte.dirty]
<1>1. PICK c \in Cpu : \E old \in {{}} \cup {{e} : e \in tlb[c]} :
         on[c] = p /\ tlb' = [tlb EXCEPT ![c] = (tlb[c] \ old) \cup {new}]
  BY DEF TlbRandom
<1>2. PICK old : on[c] = p /\ tlb' = [tlb EXCEPT ![c] = (tlb[c] \ old) \cup {new}]
  BY <1>1
<1>3. tlb \in [Cpu -> SUBSET TLBEntry]
  BY DEF Facts, TypeOK
<1>4. new \in TLBEntry /\ new.page = pg /\ [frame |-> new.frame, dirty |-> new.dirty] = pte
  BY DEF TLBEntry, PTE
<1> HIDE DEF new
<1>5. tlb' \in [Cpu -> SUBSET TLBEntry]
  BY <1>2, <1>3, <1>4
<1>6. \A d \in Cpu : tlb'[d] \subseteq tlb[d] \cup {new}
  BY <1>2, <1>3
<1>7. \A d \in Cpu : d # c => tlb'[d] = tlb[d]
  BY <1>2, <1>3
<1>8. ASSUME NEW d \in Cpu, on[d] = p PROVE CoherentIn(mem', vm'[p], tlb'[d])
  <2>1. CoherentIn(mem, vm[p], tlb[d])
    BY <1>8, SpacesAssumption DEF Facts, Coherent
  <2>2. CoherentIn(mem', vm'[p], tlb[d])
    BY <1>3, <2>1 DEF StillCoherent
  <2> QED BY <1>4, <1>6, <2>2 DEF CoherentIn
<1>9. TlbStep(p)
  BY <1>2, <1>7, <1>8 DEF TlbStep
<1> QED BY <1>5, <1>9

LEMMA TlbFlushed ==
    ASSUME Facts, NEW p \in Proc, NEW sp, Activate(p, sp), on' = on,
           sp = NULL => vm'[p] = NULL
    PROVE  TlbStep(p) /\ tlb' \in [Cpu -> SUBSET TLBEntry]
<1>1. tlb \in [Cpu -> SUBSET TLBEntry]
  BY DEF Facts, TypeOK
<1>2. \A c \in Cpu : tlb'[c] = IF on[c] = p /\ sp # NULL THEN {} ELSE tlb[c]
  BY DEF Activate
<1>3. tlb' \in [Cpu -> SUBSET TLBEntry]
  BY <1>1 DEF Activate
<1>4. \A c \in Cpu : on[c] = p => CoherentIn(mem', vm'[p], tlb'[c])
  BY <1>2 DEF CoherentIn
<1> QED BY <1>2, <1>3, <1>4 DEF TlbStep

(* Nobody who is nowhere runs.                                             *)
LEMMA RunsOn ==
    ASSUME Facts, NEW p \in Proc, on' = on, pc[p] # "none",
           \A q \in Proc : q # p => pc'[q] = pc[q], pc'[p] # "none"
    PROVE  NoneRuns
BY DEF Facts, ProcsIn, NoneRuns

LEMMA Same ==
    ASSUME NEW p, mem' = mem, vm' = vm PROVE StillCoherent(p)
BY DEF StillCoherent

-----------------------------------------------------------------------------
(* The steps that only go from one place to another.                       *)
LEMMA SwitchInv ==
    ASSUME Facts, NEW c \in Cpu, NEW p \in Proc, Switch(c, p) PROVE MemoryInv'
<1> USE DEF Switch, Set
<1>1. \A d \in Cpu : d # c => on'[d] = on[d] /\ tlb'[d] = tlb[d]
  BY DEF Facts, TypeOK
<1>2. on'[c] = p /\ (vm[p] # NULL => tlb'[c] = {})
  BY DEF Facts, TypeOK
<1>3. TypeOK'
  BY DEF Facts, TypeOK, local
<1>4. TlbStep(p)
  BY <1>1, <1>2 DEF TlbStep, CoherentIn
<1>5. NoneRuns
  BY <1>1, <1>2 DEF NoneRuns, Facts, ProcsIn
<1>6. ProcIn(mem, vm[p], hand[p], pc'[p], arg'[p], todo'[p])
  BY DEF Facts, ProcsIn, local
<1> QED BY <1>3, <1>4, <1>5, <1>6, Quiet DEF local

(* A fault that fails ends the process, the load or the kernel.            *)
LEMMA FaultFailsTo ==
    ASSUME Facts, NEW p \in Proc, NEW from, FaultFails(p, from)
    PROVE  /\ pc' \in [Proc -> Place] /\ kernel' \in {"running"} \cup End
           /\ \A q \in Proc : q # p => pc'[q] = pc[q]
           /\ \/ from = "user" /\ pc'[p] \in {"user", "exit"}
              \/ from = "load" /\ pc'[p] = "unload"
              \/ from = "argv" /\ pc'[p] = pc[p]
<1>1. pc \in [Proc -> Place] /\ kernel \in {"running"} \cup End
  BY DEF Facts, TypeOK
<1>2. CASE from = "user" /\ UNCHANGED kernel /\ \E to \in {"user", "exit"} : To(p, to)
  BY <1>1, <1>2 DEF To, Place
<1>3. CASE from = "load" /\ UNCHANGED kernel /\ To(p, "unload")
  BY <1>1, <1>3 DEF To, Place
<1>4. CASE from = "argv" /\ kernel' = "copyout_failed" /\ UNCHANGED pc
  BY <1>1, <1>4 DEF End
<1> QED BY <1>2, <1>3, <1>4 DEF FaultFails

LEMMA FaultInvalidInv ==
    ASSUME Facts, NEW p \in Proc, NEW pg \in Page, FaultInvalid(p, pg) PROVE MemoryInv'
<1> USE DEF FaultInvalid, At, local, mmu
<1>1. /\ pc' \in [Proc -> Place] /\ kernel' \in {"running"} \cup End
      /\ \A q \in Proc : q # p => pc'[q] = pc[q]
      /\ pc'[p] \in {"user", "exit"}
  BY FaultFailsTo
<1>2. TypeOK'
  BY <1>1 DEF Facts, TypeOK
<1>3. TlbStep(p)
  BY TlbSame, Same
<1>4. NoneRuns
  BY <1>1, RunsOn
<1>5. ProcIn(mem, vm[p], hand[p], pc'[p], arg'[p], todo'[p])
  BY <1>1 DEF Facts, ProcsIn, ProcIn
<1> QED BY <1>1, <1>2, <1>3, <1>4, <1>5, Quiet

LEMMA FaultInitFailsInv ==
    ASSUME Facts, NEW p \in Proc, NEW from \in {"user", "load", "argv"}, NEW pg \in Page,
           FaultInitFails(p, from, pg)
    PROVE  MemoryInv'
<1> USE DEF FaultInitFails, Fault, At, local, mmu
<1>1. /\ pc' \in [Proc -> Place] /\ kernel' \in {"running"} \cup End
      /\ \A q \in Proc : q # p => pc'[q] = pc[q]
      /\ \/ from = "user" /\ pc'[p] \in {"user", "exit"}
         \/ from = "load" /\ pc'[p] = "unload"
         \/ from = "argv" /\ pc'[p] = "argv"
  BY FaultFailsTo
<1>2. TypeOK'
  BY <1>1 DEF Facts, TypeOK
<1>3. TlbStep(p)
  BY TlbSame, Same
<1>4. NoneRuns
  BY <1>1, RunsOn
<1>5. ProcIn(mem, vm[p], hand[p], pc'[p], arg'[p], todo'[p])
  BY <1>1 DEF Facts, ProcsIn, ProcIn
<1> QED BY <1>1, <1>2, <1>3, <1>4, <1>5, Quiet

(* An entry of an address space of p is one.                               *)
LEMMA EntryOK ==
    ASSUME NEW mm, NEW sp, TidyIn(mm, sp), NEW pg \in Page, EntryIn(mm, sp, pg) # NULL
    PROVE  EntryIn(mm, sp, pg) \in PTE
<1>1. pg[1] \in Live(sp) /\ pg[2] \in Lsb
  BY DEF EntryIn, Page
<1>2. mm[sp.as_pte[pg[1]]] \in [Lsb -> PTE \cup {NULL}]
  BY <1>1 DEF TidyIn, TablesIn
<1> QED BY <1>1, <1>2 DEF EntryIn

LEMMA FaultMappedInv ==
    ASSUME Facts, NEW p \in Proc, NEW from \in {"user", "load", "argv"}, NEW pg \in Page,
           FaultMapped(p, from, pg)
    PROVE  MemoryInv'
<1> USE DEF FaultMapped, Fault, At, local
<1>1. Entry(vm[p], pg) = EntryIn(mem, vm[p], pg) /\ EntryIn(mem, vm[p], pg) \in PTE
  BY EntryIs, EntryOK DEF Facts, TidyAll
<1>2. TlbStep(p) /\ tlb' \in [Cpu -> SUBSET TLBEntry]
  BY <1>1, TlbAdds, Same
<1>3. TypeOK'
  BY <1>2 DEF Facts, TypeOK
<1>4. NoneRuns
  BY RunsOn
<1>5. ProcIn(mem, vm[p], hand[p], pc'[p], arg'[p], todo'[p])
  BY DEF Facts, ProcsIn
<1> QED BY <1>2, <1>3, <1>4, <1>5, Quiet

LEMMA FaultAbsentInv ==
    ASSUME Facts, NEW p \in Proc, NEW from \in {"user", "load", "argv"}, NEW pg \in Page,
           from = "argv" => pg = Argv,
           FaultAbsent(p, from, pg)
    PROVE  MemoryInv'
<1> USE DEF FaultAbsent, Fault, At, To, Set, mmu
<1>1. pc[p] = from /\ pc'[p] = "addpte" /\ \A q \in Proc : q # p => pc'[q] = pc[q]
  BY DEF Facts, TypeOK
<1>2. /\ arg'[p] = [ret |-> from, page |-> pg, flag |-> FALSE]
      /\ \A q \in Proc : q # p => arg'[q] = arg[q]
  BY DEF Facts, TypeOK
<1>3. TypeOK'
  BY DEF Facts, TypeOK, Place
<1>4. TlbStep(p)
  BY TlbSame, Same
<1>5. NoneRuns
  BY <1>1, RunsOn
<1>6. EntryIn(mem, vm[p], pg) = NULL /\ pg[1] \in Tables(vm[p])
  BY EntryIs DEF Tables, Page
<1>7. ProcIn(mem, vm[p], hand[p], pc[p], arg[p], todo[p])
  BY DEF Facts, ProcsIn
<1>8. FaultIn(mem, vm[p], hand[p], arg'[p])
  BY <1>1, <1>2, <1>6, <1>7 DEF FaultIn, ProcIn
<1>9. ProcIn(mem, vm[p], hand[p], pc'[p], arg'[p], todo'[p])
  BY <1>1, <1>8 DEF ProcIn
<1> QED BY <1>1, <1>2, <1>3, <1>4, <1>5, <1>9, Quiet

LEMMA RunProgramInv ==
    ASSUME Facts, NEW p \in Proc, RunProgram(p) PROVE MemoryInv'
<1> USE DEF RunProgram, To, local, mmu
<1>1. pc[p] = "none" /\ pc'[p] = "new" /\ \A q \in Proc : q # p => pc'[q] = pc[q]
  BY DEF Facts, TypeOK
<1>2. TypeOK'
  BY DEF Facts, TypeOK, Place
<1>3. TlbStep(p)
  BY TlbSame, Same
<1>4. NoneRuns
  BY <1>1 DEF NoneRuns, Facts, ProcsIn
<1>5. ProcIn(mem, vm[p], hand[p], pc'[p], arg'[p], todo'[p])
  BY <1>1 DEF Facts, ProcsIn, ProcIn
<1> QED BY <1>1, <1>2, <1>3, <1>4, <1>5, Quiet

(* The kernel ends.                                                        *)
LEMMA EndsInv ==
    ASSUME Facts, kernel' \in End,
           UNCHANGED <<frame_table, mem, vm, hand, pc, local, mmu, blocks, made>>
    PROVE  MemoryInv'
<1> USE DEF local, mmu
<1>1. TypeOK'
  BY DEF Facts, TypeOK
<1>2. ProcsIn' /\ TidyAll' /\ Books' /\ Coherent'
  BY DEF Facts, ProcsIn, TidyAll, Books, Coherent
<1> QED BY <1>1, <1>2, FormsNext DEF Facts

LEMMA CopyPageFailsInv ==
    ASSUME Facts, NEW p \in Proc, CopyPageFails(p) PROVE MemoryInv'
<1> USE DEF CopyPageFails, At, To, Set, local, mmu
<1>1. /\ pc[p] = "copy" /\ pc'[p] \in {"copy", "destroy"}
      /\ \A q \in Proc : q # p => pc'[q] = pc[q]
  BY DEF Facts, TypeOK
<1>2. todo'[p] = {} /\ \A q \in Proc : q # p => todo'[q] = todo[q]
  BY DEF Facts, TypeOK
<1>3. TypeOK'
  BY DEF Facts, TypeOK, Place, End
<1>4. TlbStep(p)
  BY TlbSame, Same
<1>5. NoneRuns
  BY <1>1, RunsOn
<1>6. ProcIn(mem, vm[p], hand[p], "copy", arg[p], todo[p])
  BY <1>1 DEF Facts, ProcsIn
<1>7. ProcIn(mem, vm[p], hand[p], pc'[p], arg'[p], todo'[p])
  BY <1>1, <1>2, <1>6 DEF ProcIn, CopyIn, DestroyIn, NoArg
<1> QED BY <1>1, <1>2, <1>3, <1>4, <1>5, <1>7, Quiet

LEMMA ForkFailsInv ==
    ASSUME Facts, NEW p \in Proc, ForkFails(p) PROVE MemoryInv'
<1> USE DEF ForkFails, Go, At, To, Set, local, mmu
<1>1. pc[p] = "copy" /\ pc'[p] = "destroy" /\ \A q \in Proc : q # p => pc'[q] = pc[q]
  BY DEF Facts, TypeOK
<1>2. todo'[p] = {} /\ \A q \in Proc : q # p => todo'[q] = todo[q]
  BY DEF Facts, TypeOK
<1>3. TypeOK'
  BY DEF Facts, TypeOK, Place
<1>4. TlbStep(p)
  BY TlbSame, Same
<1>5. NoneRuns
  BY <1>1, RunsOn
<1>6. ProcIn(mem, vm[p], hand[p], "copy", arg[p], todo[p])
  BY <1>1 DEF Facts, ProcsIn
<1>7. ProcIn(mem, vm[p], hand[p], pc'[p], arg'[p], todo'[p])
  BY <1>1, <1>6 DEF ProcIn, DestroyIn, NoArg
<1> QED BY <1>1, <1>2, <1>3, <1>4, <1>5, <1>7, Quiet

-----------------------------------------------------------------------------
(* No frame belongs to two address spaces.                                 *)
LEMMA OneOwner ==
    ASSUME Facts, NEW p \in Proc, NEW q \in Proc
    PROVE  /\ p # q => /\ FramesIn(mem, vm[p]) \cap FramesIn(mem, vm[q]) = {}
                       /\ FramesIn(mem, hand[p]) \cap FramesIn(mem, hand[q]) = {}
           /\ FramesIn(mem, vm[p]) \cap FramesIn(mem, hand[q]) = {}
<1> DEFINE O == OwnIn(mem, vm, hand)
<1>1. /\ O[<<"vm", p>>] = FramesIn(mem, vm[p]) /\ O[<<"hand", p>>] = FramesIn(mem, hand[p])
      /\ O[<<"vm", q>>] = FramesIn(mem, vm[q]) /\ O[<<"hand", q>>] = FramesIn(mem, hand[q])
  BY Owns
<1>2. Balanced(O, blocks, frame_table)
  BY DEF Facts, Books
<1> HIDE DEF O
<1>3. \A s, t \in Slot : s # t => O[s] \cap O[t] = {}
  BY <1>2 DEF Balanced
<1>4. /\ <<"vm", p>> \in Slot /\ <<"hand", p>> \in Slot
      /\ <<"vm", q>> \in Slot /\ <<"hand", q>> \in Slot
  BY Slots
<1>5. <<"vm", p>> # <<"hand", q>> /\ (p # q => <<"vm", p>> # <<"vm", q>>
                                            /\ <<"hand", p>> # <<"hand", q>>)
  OBVIOUS
<1> QED BY <1>1, <1>3, <1>4, <1>5

(* Books in which only the two slots of p are other than they were.        *)
LEMMA BooksSame ==
    ASSUME Facts, NEW p \in Proc, NEW W, OnlyOf(p, W), UNCHANGED <<frame_table, blocks>>,
           FramesIn(mem', vm'[p]) = FramesIn(mem, vm[p]),
           FramesIn(mem', hand'[p]) = FramesIn(mem, hand[p])
    PROVE  Balanced(OwnIn(mem', vm', hand'), blocks', frame_table')
<1> DEFINE O == OwnIn(mem, vm, hand)  O2 == OwnIn(mem', vm', hand')
<1>1. \A s \in Slot : s # <<"vm", p>> /\ s # <<"hand", p>> => O2[s] = O[s]
  BY OthersOwn
<1>2. O2[<<"vm", p>>] = O[<<"vm", p>>] /\ O2[<<"hand", p>>] = O[<<"hand", p>>]
  BY Owns
<1>3. Balanced(O, blocks, frame_table)
  BY DEF Facts, Books
<1> HIDE DEF O, O2
<1>4. \A s \in Slot : O2[s] = O[s]
  BY <1>1, <1>2
<1>5. Balanced(O2, blocks, frame_table)
  BY <1>3, <1>4 DEF Balanced
<1> QED BY <1>5 DEF O2

LEMMA BooksSwap ==
    ASSUME Facts, NEW p \in Proc, NEW W, OnlyOf(p, W), UNCHANGED <<frame_table, blocks>>,
           FramesIn(mem', vm'[p]) = FramesIn(mem, hand[p]),
           FramesIn(mem', hand'[p]) = FramesIn(mem, vm[p])
    PROVE  Balanced(OwnIn(mem', vm', hand'), blocks', frame_table')
<1> DEFINE O == OwnIn(mem, vm, hand)  O2 == OwnIn(mem', vm', hand')
           s == <<"vm", p>>  r == <<"hand", p>>
<1>1. \A t \in Slot : t # s /\ t # r => O2[t] = O[t]
  BY OthersOwn
<1>2. O2[s] = O[r] /\ O2[r] = O[s]
  BY Owns
<1>3. Balanced(O, blocks, frame_table)
  BY DEF Facts, Books
<1>4. s \in Slot /\ r \in Slot /\ s # r
  BY Slots
<1> HIDE DEF O, O2, s, r
<1>5. Balanced(O2, blocks, frame_table)
  BY <1>1, <1>2, <1>3, <1>4, BalancedSwap
<1> QED BY <1>5 DEF O2

-----------------------------------------------------------------------------
(* An address space whose frames a step does not write is as it was.       *)
LEMMA Untouched ==
    ASSUME Facts, NEW p \in Proc, NEW x, x = vm[p] \/ x = hand[p],
           NEW W, W \cap FramesIn(mem, x) = {}, \A f \in Ram : f \notin W => mem'[f] = mem[f]
    PROVE  /\ FramesIn(mem', x) = FramesIn(mem, x)
           /\ x # NULL => /\ SameTables(mem, mem', x)
                          /\ TidyIn(mem', x)
                          /\ PresentIn(mem', x) = PresentIn(mem, x)
                          /\ \A pg : EntryIn(mem', x, pg) = EntryIn(mem, x, pg)
                          /\ Looks(mem, x, mem', x)
<1>1. CASE x = NULL
  BY <1>1 DEF FramesIn
<1>2. CASE x # NULL
  <2>1. FramesIn(mem, x) \subseteq Ram
    BY InRam
  <2>2. SameTables(mem, mem', x)
    BY <1>2, <2>1, SpaceKept
  <2>3. TidyIn(mem, x)
    BY <1>2 DEF Facts, TidyAll
  <2>4. \A pg : EntryIn(mem', x, pg) = EntryIn(mem, x, pg)
    BY <2>2, Kept
  <2>5. \A pg \in PresentIn(mem, x) : mem'[FrameIn(mem, x, pg)] = mem[FrameIn(mem, x, pg)]
    <3>1. \A pg \in PresentIn(mem, x) : FrameIn(mem, x, pg) \in FramesIn(mem, x)
      BY <1>2, InFrames
    <3> QED BY <2>1, <3>1
  <2>6. Looks(mem, x, mem', x)
    BY <1>2, <2>4, <2>5, LooksKept
  <2> QED BY <2>2, <2>3, <2>4, <2>6, Kept
<1> QED BY <1>1, <1>2

(* A store to a page of p.                                                 *)
LEMMA PageWritten ==
    ASSUME Facts, TypeOK', NEW p \in Proc, vm[p] # NULL, NEW pg \in PresentIn(mem, vm[p]),
           NEW v, Fill(FrameIn(mem, vm[p], pg), v),
           UNCHANGED <<frame_table, vm, hand, mmu, blocks>>,
           \A q \in Proc : q # p => /\ pc'[q] = pc[q] /\ arg'[q] = arg[q]
                                    /\ todo'[q] = todo[q],
           ProcIn(mem, vm[p], hand[p], pc'[p], arg'[p], todo'[p]),
           NoneRuns
    PROVE  /\ MemoryInv' /\ Alone(p) /\ Put(mem, mem', vm[p], pg, v)
           /\ hand[p] # NULL => Looks(mem, hand[p], mem', hand[p])
<1> DEFINE f == FrameIn(mem, vm[p], pg)
<1>1. f \in FramesIn(mem, vm[p]) /\ f \in Ram
  BY InFrames, InRam
<1>2. \A g \in Ram : g \notin {f} => mem'[g] = mem[g]
  BY DEF Fill, Set, Facts, TypeOK
<1>3. /\ \A q \in Proc : {f} \cap FramesIn(mem, hand[q]) = {}
      /\ \A q \in Proc : q # p => {f} \cap FramesIn(mem, vm[q]) = {}
  BY <1>1, OneOwner
<1>4. \A m \in Live(vm[p]) : vm[p].as_pte[m] \in Ram /\ vm[p].as_pte[m] # f
  <2>1. PagesIn(mem, vm[p])
    BY DEF Facts, TidyAll, TidyIn
  <2> QED BY <2>1, InFrames, InRam DEF PagesIn
<1>5. mem'[f] = v /\ \A x \in PresentIn(mem, vm[p]) : x # pg => FrameIn(mem, vm[p], x) # f
  <2>1. mem'[f] = v
    BY <1>1 DEF Fill, Set, Facts, TypeOK
  <2>2. PagesIn(mem, vm[p])
    BY DEF Facts, TidyAll, TidyIn
  <2> QED BY <2>1, <2>2 DEF PagesIn
<1>6. f = FrameIn(mem, vm[p], pg)
  OBVIOUS
<1> HIDE DEF f
<1>7. OnlyOf(p, {f})
  BY <1>2, <1>3 DEF OnlyOf
<1>8. SameTables(mem, mem', vm[p])
  BY <1>2, <1>4 DEF SameTables
<1>9. hand[p] # NULL => SameTables(mem, mem', hand[p])
  BY <1>2, <1>3, SpaceKept, InRam
<1>10. ProcIn(mem', vm'[p], hand'[p], pc'[p], arg'[p], todo'[p])
  BY <1>8, <1>9, ProcKept
<1>11. vm'[p] # NULL => TidyIn(mem', vm'[p])
  BY <1>8, Kept DEF Facts, TidyAll
<1>12. hand'[p] # NULL => TidyIn(mem', hand'[p])
  BY <1>9, Kept DEF Facts, TidyAll
<1>13. FramesIn(mem', vm'[p]) = FramesIn(mem, vm[p])
  BY <1>8, Kept
<1>14. FramesIn(mem', hand'[p]) = FramesIn(mem, hand[p])
  <2>1. CASE hand[p] = NULL
    BY <2>1 DEF FramesIn
  <2>2. CASE hand[p] # NULL
    BY <1>9, <2>2, Kept
  <2> QED BY <2>1, <2>2
<1>15. Balanced(OwnIn(mem', vm', hand'), blocks', frame_table')
  BY <1>7, <1>13, <1>14, BooksSame
<1>16. TlbStep(p)
  <2>1. StillCoherent(p)
    BY <1>8, CoherentKept DEF StillCoherent
  <2> QED BY <2>1, TlbSame
<1>17. \A x : EntryIn(mem', vm[p], x) = EntryIn(mem, vm[p], x)
               /\ FrameIn(mem', vm[p], x) = FrameIn(mem, vm[p], x)
  BY <1>8, Kept DEF FrameIn
<1>18. Put(mem, mem', vm[p], pg, v)
  <2>1. ContentIn(mem', vm[p], pg) = v
    BY <1>5, <1>6, <1>17 DEF ContentIn, PresentIn
  <2>2. ASSUME NEW x \in Page, x # pg
        PROVE  ContentIn(mem', vm[p], x) = ContentIn(mem, vm[p], x)
    <3>1. CASE EntryIn(mem, vm[p], x) = NULL
      BY <1>17, <3>1 DEF ContentIn
    <3>2. CASE EntryIn(mem, vm[p], x) # NULL
      <4>1. x \in PresentIn(mem, vm[p])
        BY <3>2 DEF PresentIn
      <4>2. FrameIn(mem, vm[p], x) \in Ram /\ FrameIn(mem, vm[p], x) # f
        BY <1>5, <2>2, <4>1, InFrames, InRam
      <4> QED BY <1>2, <1>17, <3>2, <4>2 DEF ContentIn
    <3> QED BY <3>1, <3>2
  <2> QED BY <2>1, <2>2 DEF Put
<1>19. hand[p] # NULL => Looks(mem, hand[p], mem', hand[p])
  BY <1>2, <1>3, Untouched
<1>20. MemoryInv'
  BY <1>7, <1>10, <1>11, <1>12, <1>15, <1>16, Assemble
<1> QED BY <1>7, <1>18, <1>19, <1>20 DEF Alone

(* What p can write to through the TLB is a page of its own.               *)
LEMMA HitsMine ==
    ASSUME Facts, NEW p \in Proc, vm[p] # NULL, NEW pg, NEW e \in Hits(p, pg)
    PROVE  /\ pg \in PresentIn(mem, vm[p]) /\ e.frame = FrameIn(mem, vm[p], pg)
           /\ e.frame \in Ram
<1>1. PICK c \in Cpu : on[c] = p /\ e \in tlb[c]
  BY DEF Hits
<1>2. e.page = pg /\ e \in TLBEntry
  BY <1>1 DEF Hits, Facts, TypeOK
<1>3. pg \in Page /\ [frame |-> e.frame, dirty |-> e.dirty] \in PTE
  BY <1>2 DEF TLBEntry, PTE
<1>4. CoherentIn(mem, vm[p], tlb[c])
  BY <1>1, SpacesAssumption DEF Facts, Coherent
<1>5. EntryIn(mem, vm[p], pg) = [frame |-> e.frame, dirty |-> e.dirty]
  BY <1>1, <1>2, <1>4 DEF CoherentIn
<1>6. pg \in PresentIn(mem, vm[p]) /\ e.frame = FrameIn(mem, vm[p], pg)
  BY <1>3, <1>5, NullAssumption DEF PresentIn, FrameIn
<1>7. e.frame \in FramesIn(mem, vm[p])
  BY <1>6, InFrames
<1> QED BY <1>6, <1>7, InRam

LEMMA StoreInv ==
    ASSUME Facts, NEW p \in Proc, NEW pg \in Page, NEW v \in Value, Store(p, pg, v)
    PROVE  MemoryInv' /\ Alone(p) /\ Put(mem, mem', vm[p], pg, v)
<1>1. PICK e \in Hits(p, pg) : e.dirty /\ Fill(e.frame, v)
  BY DEF Store
<1> USE DEF Store, At, local, mmu
<1>2. vm[p] # NULL
  BY DEF Facts, ProcsIn, ProcIn
<1>3. /\ pg \in PresentIn(mem, vm[p]) /\ e.frame = FrameIn(mem, vm[p], pg)
      /\ e.frame \in Ram
  BY <1>2, HitsMine
<1>4. TypeOK'
  BY <1>1, <1>3 DEF Facts, TypeOK, Fill, Set
<1>5. ProcIn(mem, vm[p], hand[p], pc'[p], arg'[p], todo'[p])
  BY DEF Facts, ProcsIn
<1>6. NoneRuns
  BY RunsOn
<1>7. Fill(FrameIn(mem, vm[p], pg), v)
  BY <1>1, <1>3
<1> QED BY <1>2, <1>3, <1>4, <1>5, <1>6, <1>7, PageWritten

LEMMA LoadPageInv ==
    ASSUME Facts, NEW p \in Proc, LoadPage(p)
    PROVE  /\ MemoryInv' /\ Alone(p)
           /\ Put(mem, mem', vm[p], Earliest(todo[p]), Image[Earliest(todo[p])])
           /\ hand[p] # NULL => Looks(mem, hand[p], mem', hand[p])
<1> DEFINE pg == Earliest(todo[p])
<1>1. PICK e \in Hits(p, pg) : e.dirty /\ Fill(e.frame, Image[pg])
  BY DEF LoadPage
<1> USE DEF LoadPage, At, local, mmu
<1>2. pc[p] = "load" /\ vm[p] # NULL
  BY DEF Facts, ProcsIn, ProcIn
<1>3. /\ pg \in PresentIn(mem, vm[p]) /\ e.frame = FrameIn(mem, vm[p], pg)
      /\ e.frame \in Ram
  BY <1>2, HitsMine
<1>4. todo' = [todo EXCEPT ![p] = todo[p] \ {pg}]
  BY DEF Set
<1> HIDE DEF pg
<1>5. Image[pg] \in Value
  BY <1>3, SpacesAssumption DEF PresentIn
<1>6. TypeOK'
  <2>1. mem' \in [Ram -> Value \cup {JUNK} \cup [Lsb -> PTE \cup {NULL}]]
    BY <1>1, <1>3, <1>5 DEF Facts, TypeOK, Fill, Set
  <2>2. todo' \in [Proc -> SUBSET Page]
    BY <1>4 DEF Facts, TypeOK
  <2> QED BY <2>1, <2>2 DEF Facts, TypeOK
<1>7. \A q \in Proc : q # p => todo'[q] = todo[q]
  BY <1>4 DEF Facts, TypeOK
<1>8. ProcIn(mem, vm[p], hand[p], pc'[p], arg'[p], todo'[p])
  BY <1>2 DEF Facts, ProcsIn, ProcIn
<1>9. NoneRuns
  BY <1>2, RunsOn
<1>10. Fill(FrameIn(mem, vm[p], pg), Image[pg])
  BY <1>1, <1>3
<1>11. /\ MemoryInv' /\ Alone(p) /\ Put(mem, mem', vm[p], pg, Image[pg])
       /\ hand[p] # NULL => Looks(mem, hand[p], mem', hand[p])
  BY <1>2, <1>3, <1>6, <1>7, <1>8, <1>9, <1>10, PageWritten
<1> QED BY <1>11 DEF pg

LEMMA CopyArgsInv ==
    ASSUME Facts, NEW p \in Proc, NEW v \in Value, CopyArgs(p, v)
    PROVE  /\ MemoryInv'
           /\ \/ UNCHANGED <<mem, pc>>
              \/ pc'[p] = "user" /\ Alone(p) /\ Put(mem, mem', vm[p], Argv, v)
<1>1. PICK e \in Hits(p, Argv) :
         \/ e.dirty /\ To(p, "user") /\ Fill(e.frame, v) /\ UNCHANGED kernel
         \/ kernel' = "copyout_failed" /\ UNCHANGED <<pc, mem>>
  BY DEF CopyArgs
<1> USE DEF CopyArgs, At, local, mmu
<1>2. CASE kernel' = "copyout_failed" /\ UNCHANGED <<pc, mem>>
  BY <1>2, EndsInv DEF End
<1>3. CASE e.dirty /\ To(p, "user") /\ Fill(e.frame, v) /\ UNCHANGED kernel
  <2>1. pc[p] = "argv" /\ vm[p] # NULL
    BY DEF Facts, ProcsIn, ProcIn
  <2>2. /\ Argv \in PresentIn(mem, vm[p]) /\ e.frame = FrameIn(mem, vm[p], Argv)
        /\ e.frame \in Ram
    BY <2>1, HitsMine
  <2>3. pc'[p] = "user" /\ \A q \in Proc : q # p => pc'[q] = pc[q]
    BY <1>3 DEF Facts, TypeOK, To
  <2>4. TypeOK'
    BY <1>3, <2>2 DEF Facts, TypeOK, Fill, Set, To, Place
  <2>5. ProcIn(mem, vm[p], hand[p], pc'[p], arg'[p], todo'[p])
    BY <2>1, <2>3 DEF Facts, ProcsIn, ProcIn
  <2>6. NoneRuns
    BY <2>1, <2>3, RunsOn
  <2>7. Fill(FrameIn(mem, vm[p], Argv), v)
    BY <1>3, <2>2
  <2> QED BY <2>1, <2>2, <2>3, <2>4, <2>5, <2>6, <2>7, PageWritten
<1> QED BY <1>1, <1>2, <1>3

-----------------------------------------------------------------------------
(* Address spaces change hands.                                            *)
LEMMA NoFrames == \A m : FramesIn(m, NULL) = {}
BY DEF FramesIn

(* The flags of the regions say nothing of the frames.                     *)
LEMMA Reflagged ==
    ASSUME NEW mm, NEW sp, NEW new, sp # NULL, new # NULL,
           new.root = sp.root, new.as_pte = sp.as_pte, new.gone = sp.gone
    PROVE  /\ \A pg : EntryIn(mm, new, pg) = EntryIn(mm, sp, pg)
           /\ FramesIn(mm, new) = FramesIn(mm, sp)
           /\ new.as_regions # <<>> /\ TidyIn(mm, sp) => TidyIn(mm, new)
<1>1. Live(new) = Live(sp) /\ Tables(new) = Tables(sp)
  BY DEF Live, Tables
<1>2. \A pg : EntryIn(mm, new, pg) = EntryIn(mm, sp, pg)
  BY <1>1 DEF EntryIn
<1>3. PresentIn(mm, new) = PresentIn(mm, sp)
  BY <1>2 DEF PresentIn
<1>4. \A pg : FrameIn(mm, new, pg) = FrameIn(mm, sp, pg)
  BY <1>2 DEF FrameIn
<1>5. TablesIn(mm, sp) => TablesIn(mm, new)
  BY <1>1 DEF TablesIn
<1>6. ASSUME PagesIn(mm, sp) PROVE PagesIn(mm, new)
  BY <1>1, <1>3, <1>4, <1>6 DEF PagesIn
<1>7. FramesIn(mm, new) = FramesIn(mm, sp)
  <2>1. {FrameIn(mm, new, pg) : pg \in PresentIn(mm, new)}
          = {FrameIn(mm, sp, pg) : pg \in PresentIn(mm, sp)}
    BY <1>3, <1>4
  <2>2. {new.as_pte[m] : m \in Live(new)} = {sp.as_pte[m] : m \in Live(sp)}
    BY <1>1
  <2> QED BY <2>1, <2>2 DEF FramesIn
<1> QED BY <1>2, <1>5, <1>6, <1>7 DEF TidyIn

LEMMA RestoredSeq ==
    ASSUME NEW rs \in Seq(Region), rs # <<>>
    PROVE  /\ [i \in DOMAIN rs |-> Restored(rs[i])] \in Seq(Region)
           /\ [i \in DOMAIN rs |-> Restored(rs[i])] # <<>>
<1>1. DOMAIN rs = 1 .. Len(rs) /\ Len(rs) \in Nat /\ Len(rs) # 0
  OBVIOUS
<1>2. \A i \in 1 .. Len(rs) : Restored(rs[i]) \in Region
  <2> SUFFICES ASSUME NEW i \in 1 .. Len(rs) PROVE Restored(rs[i]) \in Region
    OBVIOUS
  <2>1. rs[i] \in Region
    BY <1>1
  <2>2. [rs[i] EXCEPT !.write = rs[i].was] \in Region
    BY <2>1 DEF Region
  <2> QED BY <2>2 DEF Restored
<1> DEFINE new == [i \in 1 .. Len(rs) |-> Restored(rs[i])]
<1>3. new \in [1 .. Len(rs) -> Region]
  BY <1>2
<1> HIDE DEF new
<1>4. new \in Seq(Region) /\ new # <<>>
  BY <1>1, <1>3
<1> QED BY <1>1, <1>4 DEF new

LEMMA LoadDoneInv ==
    ASSUME Facts, NEW p \in Proc, LoadDone(p) PROVE MemoryInv'
<1> DEFINE rs == [i \in DOMAIN vm[p].as_regions |-> Restored(vm[p].as_regions[i])]
           new == [vm[p] EXCEPT !.as_regions = rs]
<1> USE DEF LoadDone, At
<1>1. pc[p] = "load" /\ ProcIn(mem, vm[p], hand[p], "load", arg[p], todo[p])
  BY DEF Facts, ProcsIn
<1>2. vm[p] \in Addrspace /\ vm[p] # NULL /\ TidyIn(mem, vm[p])
  BY <1>1 DEF Facts, TypeOK, TidyAll, ProcIn
<1>3. vm' = [vm EXCEPT ![p] = new]
  OBVIOUS
<1>4. rs \in Seq(Region) /\ rs # <<>>
  BY <1>2, RestoredSeq DEF Addrspace, TidyIn
<1> HIDE DEF rs
<1>5. new \in Addrspace
  BY <1>2, <1>4 DEF Addrspace
<1>6. vm'[p] = new /\ \A q \in Proc : q # p => vm'[q] = vm[q]
  BY <1>3 DEF Facts, TypeOK
<1>7. new # NULL
  BY <1>5, NullAssumption
<1>8. /\ new.root = vm[p].root /\ new.as_pte = vm[p].as_pte /\ new.gone = vm[p].gone
       /\ new.as_regions = rs
  BY <1>2 DEF Addrspace
<1> HIDE DEF new
<1>9. /\ \A pg : EntryIn(mem, new, pg) = EntryIn(mem, vm[p], pg)
      /\ FramesIn(mem, new) = FramesIn(mem, vm[p])
      /\ TidyIn(mem, new)
  BY <1>2, <1>4, <1>7, <1>8, Reflagged
<1>10. /\ pc'[p] = IF hand[p] = NULL THEN "argv" ELSE "destroy"
      /\ \A q \in Proc : q # p => pc'[q] = pc[q]
  BY DEF To, Facts, TypeOK
<1>11. /\ hand[p] = NULL => arg'[p] = arg[p]
       /\ hand[p] # NULL => arg'[p].ret = "argv"
       /\ \A q \in Proc : q # p => arg'[q] = arg[q]
       /\ arg' \in [Proc -> [ret : {"user", "load", "argv", "exit", "none"},
                             page : Page, flag : BOOLEAN]]
  BY DEF Facts, TypeOK
<1>12. TlbStep(p) /\ tlb' \in [Cpu -> SUBSET TLBEntry]
  BY <1>2, TlbFlushed
<1>13. TypeOK'
  <2>1. vm' \in [Proc -> Addrspace \cup {NULL}]
    BY <1>3, <1>5 DEF Facts, TypeOK
  <2>2. pc' \in [Proc -> Place]
    BY DEF To, Place, Facts, TypeOK
  <2> QED BY <1>11, <1>12, <2>1, <2>2 DEF Facts, TypeOK
<1>14. OnlyOf(p, {})
  BY <1>6, <1>10, <1>11 DEF OnlyOf
<1>15. ProcIn(mem', vm'[p], hand'[p], pc'[p], arg'[p], todo'[p])
  BY <1>1, <1>6, <1>7, <1>10, <1>11 DEF ProcIn, DestroyIn
<1>16. NoneRuns
  BY <1>1, <1>10, RunsOn
<1>17. TidyIn(mem', vm'[p]) /\ (hand'[p] # NULL => TidyIn(mem', hand'[p]))
  BY <1>6, <1>9 DEF Facts, TidyAll
<1>18. Balanced(OwnIn(mem', vm', hand'), blocks', frame_table')
  BY <1>6, <1>9, <1>14, BooksSame
<1> QED BY <1>12, <1>13, <1>14, <1>15, <1>16, <1>17, <1>18, Assemble

LEMMA LoadFailsInv ==
    ASSUME Facts, NEW p \in Proc, LoadFails(p) PROVE MemoryInv'
<1> USE DEF LoadFails, At, Set
<1>1. /\ pc[p] \in {"load", "unload"} /\ vm[p] # NULL
      /\ ProcIn(mem, vm[p], hand[p], pc[p], arg[p], todo[p])
  BY DEF Facts, ProcsIn, ProcIn
<1>2. /\ vm'[p] = hand[p] /\ hand'[p] = vm[p] /\ pc'[p] = "destroy"
      /\ arg'[p].ret = (IF hand[p] = NULL THEN "exit" ELSE "user")
  BY DEF To, Facts, TypeOK
<1>3. \A q \in Proc : q # p => /\ vm'[q] = vm[q] /\ hand'[q] = hand[q] /\ pc'[q] = pc[q]
                               /\ arg'[q] = arg[q] /\ todo'[q] = todo[q]
  BY DEF To, Facts, TypeOK
<1>4. TlbStep(p) /\ tlb' \in [Cpu -> SUBSET TLBEntry]
  BY <1>2, TlbFlushed
<1>5. TypeOK'
  <2>1. vm' \in [Proc -> Addrspace \cup {NULL}] /\ hand' \in [Proc -> Addrspace \cup {NULL}]
    BY DEF Facts, TypeOK
  <2>2. pc' \in [Proc -> Place]
    BY DEF To, Place, Facts, TypeOK
  <2>3. arg' \in [Proc -> [ret : {"user", "load", "argv", "exit", "none"},
                          page : Page, flag : BOOLEAN]]
    BY DEF Facts, TypeOK
  <2>4. todo' \in [Proc -> SUBSET Page]
    BY DEF Facts, TypeOK
  <2> QED BY <1>4, <2>1, <2>2, <2>3, <2>4 DEF Facts, TypeOK
<1>6. OnlyOf(p, {})
  BY <1>3 DEF OnlyOf
<1>7. ProcIn(mem', vm'[p], hand'[p], pc'[p], arg'[p], todo'[p])
  BY <1>1, <1>2 DEF ProcIn, DestroyIn
<1>8. NoneRuns
  BY <1>1, <1>2, <1>3, RunsOn
<1>9. (vm'[p] # NULL => TidyIn(mem', vm'[p])) /\ (hand'[p] # NULL => TidyIn(mem', hand'[p]))
  BY <1>2 DEF Facts, TidyAll
<1>10. Balanced(OwnIn(mem', vm', hand'), blocks', frame_table')
  BY <1>2, <1>6, BooksSwap
<1> QED BY <1>4, <1>5, <1>6, <1>7, <1>8, <1>9, <1>10, Assemble

(* A thread that ends leaves its processor.                                *)
LEMMA TlbLeft ==
    ASSUME Facts, NEW p \in Proc, NEW to, Leaves(p, to), tlb' = tlb, StillCoherent(p)
    PROVE  /\ TlbStep(p) /\ on' \in [Cpu -> Proc \cup {NULL}]
           /\ \A c \in Cpu : on'[c] \in {on[c], NULL}
           /\ to = "none" => \A c \in Cpu : on'[c] # p
<1>1. p # NULL
  BY SpacesAssumption
<1>2. \A c \in Cpu : /\ on'[c] \in {on[c], NULL}
                     /\ on'[c] # NULL => on'[c] = on[c]
                     /\ to = "none" => on'[c] # p
  BY <1>1 DEF Leaves
<1>3. on' \in [Cpu -> Proc \cup {NULL}]
  BY DEF Leaves, Facts, TypeOK
<1>4. ASSUME NEW c \in Cpu, on'[c] = p PROVE CoherentIn(mem', vm'[p], tlb'[c])
  <2>1. on[c] = p /\ p # NULL
    BY <1>1, <1>2, <1>4
  <2>2. CoherentIn(mem, vm[p], tlb[c]) /\ tlb[c] \in SUBSET TLBEntry
    BY <2>1 DEF Facts, Coherent, TypeOK
  <2> QED BY <2>2 DEF StillCoherent
<1>5. TlbStep(p)
  BY <1>2, <1>4 DEF TlbStep
<1> QED BY <1>2, <1>3, <1>5

LEMMA ExitInv ==
    ASSUME Facts, NEW p \in Proc, Exit(p) PROVE MemoryInv'
<1> USE DEF Exit, At, Set
<1>1. /\ pc[p] \in {"user", "exit", "new"} /\ hand[p] = NULL /\ arg[p] = NoArg
      /\ pc[p] # "none"
  BY DEF Facts, ProcsIn, ProcIn
<1>2. /\ vm'[p] = NULL /\ hand'[p] = vm[p]
      /\ pc'[p] = IF vm[p] = NULL THEN "none" ELSE "destroy"
      /\ vm[p] = NULL => arg'[p] = arg[p]
      /\ vm[p] # NULL => arg'[p].ret = "none"
  BY DEF To, Facts, TypeOK
<1>3. \A q \in Proc : q # p => /\ vm'[q] = vm[q] /\ hand'[q] = hand[q] /\ pc'[q] = pc[q]
                               /\ arg'[q] = arg[q] /\ todo'[q] = todo[q]
  BY DEF To, Facts, TypeOK
<1>4. StillCoherent(p)
  BY <1>2 DEF StillCoherent, CoherentIn
<1>5. /\ TlbStep(p) /\ on' \in [Cpu -> Proc \cup {NULL}]
      /\ \A c \in Cpu : on'[c] \in {on[c], NULL}
      /\ pc'[p] = "none" => \A c \in Cpu : on'[c] # p
  BY <1>4, TlbLeft
<1>6. TypeOK'
  <2>1. vm' \in [Proc -> Addrspace \cup {NULL}] /\ hand' \in [Proc -> Addrspace \cup {NULL}]
    BY DEF Facts, TypeOK
  <2>2. pc' \in [Proc -> Place]
    BY DEF To, Place, Facts, TypeOK
  <2>3. arg' \in [Proc -> [ret : {"user", "load", "argv", "exit", "none"},
                          page : Page, flag : BOOLEAN]]
    BY DEF Facts, TypeOK
  <2> QED BY <1>5, <2>1, <2>2, <2>3 DEF Facts, TypeOK
<1>7. OnlyOf(p, {})
  BY <1>3 DEF OnlyOf
<1>8. ProcIn(mem', vm'[p], hand'[p], pc'[p], arg'[p], todo'[p])
  BY <1>1, <1>2 DEF ProcIn, DestroyIn
<1>9. NoneRuns
  <2> SUFFICES ASSUME NEW q \in Proc, pc'[q] = "none", NEW c \in Cpu PROVE on'[c] # q
    BY DEF NoneRuns
  <2>1. CASE q = p
    BY <1>5, <2>1
  <2>2. CASE q # p
    <3>1. on[c] # q /\ q # NULL
      BY <1>3, <2>2, SpacesAssumption DEF Facts, ProcsIn
    <3> QED BY <1>5, <3>1
  <2> QED BY <2>1, <2>2
<1>10. (vm'[p] # NULL => TidyIn(mem', vm'[p])) /\ (hand'[p] # NULL => TidyIn(mem', hand'[p]))
  BY <1>2 DEF Facts, TidyAll
<1>11. Balanced(OwnIn(mem', vm', hand'), blocks', frame_table')
  BY <1>1, <1>2, <1>7, BooksSwap
<1> QED BY <1>5, <1>6, <1>7, <1>8, <1>9, <1>10, <1>11, Assemble

-----------------------------------------------------------------------------
(* An address space gets a table, which is empty...                        *)
LEMMA AddsTable ==
    ASSUME NEW m1, NEW m2, NEW sp, sp # NULL, TidyIn(m1, sp), NEW new, new # NULL,
           NEW m \in Msb, NEW f, f # NULL, sp.as_pte[m] = NULL, f \notin FramesIn(m1, sp),
           new.root = sp.root, new.as_regions = sp.as_regions, new.gone = sp.gone,
           new.as_pte[m] = f, \A n \in Msb : n # m => new.as_pte[n] = sp.as_pte[n],
           m2[f] = NoTable, SameTables(m1, m2, sp)
    PROVE  /\ TidyIn(m2, new)
           /\ FramesIn(m2, new) = FramesIn(m1, sp) \cup {f}
           /\ \A x \in Page : EntryIn(m2, new, x) = EntryIn(m1, sp, x)
           /\ Tables(new) = Tables(sp) \cup {m}
<1>1. Tables(new) = Tables(sp) \cup {m} /\ m \notin sp.gone /\ m \notin Live(sp)
  BY DEF Tables, Live, TidyIn, TablesIn
<1>2. Live(new) = Live(sp) \cup {m}
  BY <1>1 DEF Live
<1>3. \A n \in Live(sp) : n \in Msb /\ n # m /\ new.as_pte[n] = sp.as_pte[n]
  BY <1>1 DEF Live, Tables
<1>4. \A x \in Page : EntryIn(m2, new, x) = EntryIn(m1, sp, x)
  <2> SUFFICES ASSUME NEW x \in Page PROVE EntryIn(m2, new, x) = EntryIn(m1, sp, x)
    OBVIOUS
  <2>1. x[2] \in Lsb
    BY DEF Page
  <2>2. CASE x[1] = m
    <3>1. EntryIn(m2, new, x) = NoTable[x[2]] /\ EntryIn(m1, sp, x) = NULL
      BY <1>1, <1>2, <2>2 DEF EntryIn
    <3> QED BY <2>1, <3>1 DEF NoTable
  <2>3. CASE x[1] # m
    BY <1>2, <1>3, <2>3 DEF EntryIn, SameTables
  <2> QED BY <2>2, <2>3
<1>5. PresentIn(m2, new) = PresentIn(m1, sp) /\ PresentIn(m1, sp) \subseteq Page
  BY <1>4 DEF PresentIn
<1>6. \A x \in Page : FrameIn(m2, new, x) = FrameIn(m1, sp, x)
  BY <1>4 DEF FrameIn
<1>7. \A n \in Live(sp) : sp.as_pte[n] # f
  BY InFrames
<1>8. f # sp.root /\ \A x \in PresentIn(m1, sp) : FrameIn(m1, sp, x) # f
  BY InFrames
<1>9. TablesIn(m2, new)
  <2>1. m2[f] \in [Lsb -> PTE \cup {NULL}]
    BY DEF NoTable
  <2>2. TablesIn(m1, sp)
    BY DEF TidyIn
  <2>3. \A n \in Live(new) : /\ m2[new.as_pte[n]] \in [Lsb -> PTE \cup {NULL}]
                             /\ new.as_pte[n] # new.root
    BY <1>2, <1>3, <1>8, <2>1, <2>2 DEF TablesIn, SameTables
  <2>4. \A n, k \in Live(new) : new.as_pte[n] = new.as_pte[k] => n = k
    BY <1>2, <1>3, <1>7, <2>2 DEF TablesIn
  <2>5. new.gone \subseteq Tables(new)
    BY <1>1, <2>2 DEF TablesIn
  <2> QED BY <2>3, <2>4, <2>5 DEF TablesIn
<1>10. PagesIn(m2, new)
  <2>1. PagesIn(m1, sp)
    BY DEF TidyIn
  <2>2. \A x \in PresentIn(m1, sp) : \A n \in Live(new) : FrameIn(m1, sp, x) # new.as_pte[n]
    BY <1>2, <1>3, <1>8, <2>1 DEF PagesIn
  <2> QED BY <1>5, <1>6, <2>1, <2>2 DEF PagesIn
<1>11. \A g : g \in FramesIn(m2, new) <=> g \in FramesIn(m1, sp) \cup {f}
  <2>1. \A g : (\E n \in Live(new) : g = new.as_pte[n]) <=> g = f \/ \E n \in Live(sp) : g = sp.as_pte[n]
    BY <1>2, <1>3
  <2>2. \A g : (\E x \in PresentIn(m2, new) : g = FrameIn(m2, new, x))
                 <=> \E x \in PresentIn(m1, sp) : g = FrameIn(m1, sp, x)
    BY <1>5, <1>6
  <2> QED BY <2>1, <2>2, InFrames
<1>12. FramesIn(m2, new) = FramesIn(m1, sp) \cup {f}
  BY <1>11
<1> QED BY <1>1, <1>4, <1>9, <1>10, <1>12 DEF TidyIn

(* ...a page, in a table that it has...                                    *)
EntrySet(m1, m2, t, l, pte) == m2[t] = [m1[t] EXCEPT ![l] = pte]

LEMMA AddsPage ==
    ASSUME NEW m1, NEW m2, NEW sp, sp # NULL, TidyIn(m1, sp), NEW pg \in Page,
           pg[1] \in Live(sp), EntryIn(m1, sp, pg) = NULL,
           NEW pte \in PTE, pte.frame \notin FramesIn(m1, sp),
           NEW t, t = sp.as_pte[pg[1]], EntrySet(m1, m2, t, pg[2], pte),
           \A n \in Live(sp) : sp.as_pte[n] # t => m2[sp.as_pte[n]] = m1[sp.as_pte[n]]
    PROVE  /\ TidyIn(m2, sp)
           /\ FramesIn(m2, sp) = FramesIn(m1, sp) \cup {pte.frame}
           /\ EntryIn(m2, sp, pg) = pte
           /\ \A x \in Page : x # pg => EntryIn(m2, sp, x) = EntryIn(m1, sp, x)
<1> USE DEF EntrySet
<1>1. TablesIn(m1, sp) /\ PagesIn(m1, sp)
  BY DEF TidyIn
<1>2. m1[t] \in [Lsb -> PTE \cup {NULL}] /\ pg[2] \in Lsb /\ pg = <<pg[1], pg[2]>>
  BY <1>1 DEF TablesIn, Page
<1>3. EntryIn(m2, sp, pg) = pte
  BY <1>2 DEF EntryIn
<1>4. \A n \in Live(sp) : n # pg[1] => m2[sp.as_pte[n]] = m1[sp.as_pte[n]]
  BY <1>1 DEF TablesIn
<1>5. \A x \in Page : x # pg => EntryIn(m2, sp, x) = EntryIn(m1, sp, x)
  <2> SUFFICES ASSUME NEW x \in Page, x # pg PROVE EntryIn(m2, sp, x) = EntryIn(m1, sp, x)
    OBVIOUS
  <2>1. x = <<x[1], x[2]>> /\ x[2] \in Lsb
    BY DEF Page
  <2>2. CASE x[1] = pg[1]
    <3>1. x[2] # pg[2]
      BY <1>2, <2>1, <2>2
    <3>2. m2[t][x[2]] = m1[t][x[2]]
      BY <1>2, <2>1, <3>1
    <3> QED BY <2>2, <3>2 DEF EntryIn
  <2>3. CASE x[1] # pg[1]
    BY <1>4, <2>3 DEF EntryIn
  <2> QED BY <2>2, <2>3
<1>6. pte # NULL
  BY NullAssumption
<1>7. PresentIn(m2, sp) = PresentIn(m1, sp) \cup {pg} /\ pg \notin PresentIn(m1, sp)
  BY <1>3, <1>5, <1>6 DEF PresentIn
<1>8. FrameIn(m2, sp, pg) = pte.frame
  BY <1>3 DEF FrameIn
<1>9. \A x \in PresentIn(m1, sp) : FrameIn(m2, sp, x) = FrameIn(m1, sp, x)
  BY <1>5, <1>7 DEF FrameIn, PresentIn
<1>10. /\ pte.frame # sp.root
       /\ \A n \in Live(sp) : pte.frame # sp.as_pte[n]
       /\ \A x \in PresentIn(m1, sp) : pte.frame # FrameIn(m1, sp, x)
  BY InFrames
<1>11. PagesIn(m2, sp)
  <2>1. \A x \in PresentIn(m2, sp) : /\ FrameIn(m2, sp, x) # sp.root
                                     /\ \A n \in Live(sp) : FrameIn(m2, sp, x) # sp.as_pte[n]
    BY <1>1, <1>7, <1>8, <1>9, <1>10 DEF PagesIn
  <2>2. \A x, y \in PresentIn(m2, sp) : FrameIn(m2, sp, x) = FrameIn(m2, sp, y) => x = y
    BY <1>1, <1>7, <1>8, <1>9, <1>10 DEF PagesIn
  <2> QED BY <2>1, <2>2 DEF PagesIn
<1>12. TablesIn(m2, sp)
  <2>1. m2[t] \in [Lsb -> PTE \cup {NULL}]
    BY <1>2
  <2>2. \A n \in Live(sp) : m2[sp.as_pte[n]] \in [Lsb -> PTE \cup {NULL}]
    BY <1>1, <1>4, <2>1 DEF TablesIn
  <2> QED BY <1>1, <2>2 DEF TablesIn
<1>13. \A g : g \in FramesIn(m2, sp) <=> g \in FramesIn(m1, sp) \cup {pte.frame}
  <2>1. \A g : (\E x \in PresentIn(m2, sp) : g = FrameIn(m2, sp, x))
                 <=> g = pte.frame \/ \E x \in PresentIn(m1, sp) : g = FrameIn(m1, sp, x)
    BY <1>7, <1>8, <1>9
  <2> QED BY <2>1, InFrames
<1>14. FramesIn(m2, sp) = FramesIn(m1, sp) \cup {pte.frame}
  BY <1>13
<1> QED BY <1>3, <1>5, <1>11, <1>12, <1>14 DEF TidyIn

(* ...and loses a table, with its pages.                                   *)
OfTable(mm, sp, m, S) ==
    \A g : g \in S <=> \/ g = sp.as_pte[m]
                       \/ \E x \in PresentIn(mm, sp) : x[1] = m /\ g = FrameIn(mm, sp, x)
Shrinks(m1, m2, sp, new, m) ==
    /\ m \in Live(sp) /\ Live(new) = Live(sp) \ {m}
    /\ new.root = sp.root /\ new.as_regions = sp.as_regions
    /\ new.gone \subseteq Tables(new)
    /\ \A n \in Live(new) : /\ new.as_pte[n] = sp.as_pte[n]
                             /\ m2[sp.as_pte[n]] = m1[sp.as_pte[n]]

Loses(A, B, S) == S \subseteq A /\ B = A \ S

LEMMA DropsTable ==
    ASSUME NEW m1, NEW m2, NEW sp, sp # NULL, TidyIn(m1, sp), NEW new, new # NULL,
           NEW m, Shrinks(m1, m2, sp, new, m),
           NEW S, OfTable(m1, sp, m, S)
    PROVE  /\ TidyIn(m2, new)
           /\ Loses(FramesIn(m1, sp), FramesIn(m2, new), S)
           /\ \A x : x[1] # m => EntryIn(m2, new, x) = EntryIn(m1, sp, x)
           /\ \A x : x[1] = m => EntryIn(m2, new, x) = NULL
<1> USE DEF Shrinks, OfTable
<1>1. TablesIn(m1, sp) /\ PagesIn(m1, sp)
  BY DEF TidyIn
<1>2. \A x : x[1] # m => EntryIn(m2, new, x) = EntryIn(m1, sp, x)
  BY DEF EntryIn
<1>3. \A x : x[1] = m => EntryIn(m2, new, x) = NULL
  BY DEF EntryIn
<1>4. \A x : x \in PresentIn(m2, new) <=> x \in PresentIn(m1, sp) /\ x[1] # m
  BY <1>2, <1>3 DEF PresentIn
<1>5. \A x \in PresentIn(m2, new) : FrameIn(m2, new, x) = FrameIn(m1, sp, x)
  BY <1>2, <1>4 DEF FrameIn
<1>6. TablesIn(m2, new)
  BY <1>1 DEF TablesIn
<1>7. PagesIn(m2, new)
  <2>1. \A x \in PresentIn(m2, new) :
           /\ FrameIn(m1, sp, x) # new.root
           /\ \A n \in Live(new) : FrameIn(m1, sp, x) # new.as_pte[n]
    BY <1>1, <1>4 DEF PagesIn
  <2>2. \A x, y \in PresentIn(m2, new) : FrameIn(m1, sp, x) = FrameIn(m1, sp, y) => x = y
    BY <1>1, <1>4 DEF PagesIn
  <2> QED BY <1>5, <2>1, <2>2 DEF PagesIn
<1>8. ASSUME NEW g PROVE g \in FramesIn(m2, new) <=> g \in FramesIn(m1, sp) \ S
  <2>1. g = sp.root => g \notin S
    BY <1>1 DEF TablesIn, PagesIn
  <2>2. \A n \in Live(sp) : g = sp.as_pte[n] => (g \in S <=> n = m)
    BY <1>1 DEF TablesIn, PagesIn
  <2>3. \A x \in PresentIn(m1, sp) : g = FrameIn(m1, sp, x) => (g \in S <=> x[1] = m)
    BY <1>1 DEF TablesIn, PagesIn
  <2>4. (\E n \in Live(new) : g = new.as_pte[n])
           <=> g \notin S /\ \E n \in Live(sp) : g = sp.as_pte[n]
    BY <2>2
  <2>5. (\E x \in PresentIn(m2, new) : g = FrameIn(m2, new, x))
           <=> g \notin S /\ \E x \in PresentIn(m1, sp) : g = FrameIn(m1, sp, x)
    BY <1>4, <1>5, <2>3
  <2> QED BY <2>1, <2>4, <2>5, InFrames
<1>9. FramesIn(m2, new) = FramesIn(m1, sp) \ S
  BY <1>8
<1>10. S \subseteq FramesIn(m1, sp)
  BY InFrames
<1> QED BY <1>2, <1>3, <1>6, <1>7, <1>9, <1>10 DEF TidyIn, Loses

-----------------------------------------------------------------------------
(* A frame that is taken was nobody's.                                     *)
LEMMA Fresh ==
    ASSUME Facts, NEW f, Take(f), f = alloc_kpages(1)
    PROVE  /\ f \in Ram /\ f \in Frame /\ f # NULL /\ TableOK'
           /\ \A q \in Proc : f \notin FramesIn(mem, vm[q]) /\ f \notin FramesIn(mem, hand[q])
<1> DEFINE O == OwnIn(mem, vm, hand)
<1>1. f \in Ram /\ ~frame_table[f].allocated /\ TableOK'
  BY MarksOne DEF Facts, TypeOK, TableOK, Marks
<1>2. \A q \in Proc : O[<<"vm", q>>] = FramesIn(mem, vm[q]) /\ O[<<"hand", q>>] = FramesIn(mem, hand[q])
  BY Owns
<1>3. Balanced(O, blocks, frame_table)
  BY DEF Facts, Books
<1> HIDE DEF O
<1>4. \A s \in Slot : f \notin O[s]
  BY <1>1, <1>3 DEF Balanced
<1> QED BY <1>1, <1>2, <1>4, Slots, Rams

(* The books when p takes a frame for one of its address spaces.           *)
LEMMA BooksTake ==
    ASSUME Facts, NEW p \in Proc, NEW W, OnlyOf(p, W), UNCHANGED blocks,
           NEW f, Take(f), f = alloc_kpages(1),
           \/ /\ FramesIn(mem', vm'[p]) = FramesIn(mem, vm[p]) \cup {f}
              /\ FramesIn(mem', hand'[p]) = FramesIn(mem, hand[p])
           \/ /\ FramesIn(mem', vm'[p]) = FramesIn(mem, vm[p])
              /\ FramesIn(mem', hand'[p]) = FramesIn(mem, hand[p]) \cup {f}
    PROVE  Balanced(OwnIn(mem', vm', hand'), blocks', frame_table')
<1> DEFINE O == OwnIn(mem, vm, hand)  O2 == OwnIn(mem', vm', hand')
           s == <<"vm", p>>  r == <<"hand", p>>
<1>1. \A t \in Slot : t # s /\ t # r => O2[t] = O[t]
  BY OthersOwn
<1>2. \/ O2[s] = O[s] \cup {f} /\ O2[r] = O[r]
      \/ O2[s] = O[s] /\ O2[r] = O[r] \cup {f}
  BY Owns
<1>3. Balanced(O, blocks, frame_table)
  BY DEF Facts, Books
<1>4. s \in Slot /\ r \in Slot /\ s # r
  BY Slots
<1>5. f \in Ram /\ Marks(frame_table, frame_table', f)
  BY MarksOne DEF Facts, TypeOK, TableOK
<1> HIDE DEF O, O2, s, r
<1>6. \E z \in Slot : Gets(O, O2, z, f)
  BY <1>1, <1>2, <1>4 DEF Gets
<1>7. Balanced(O2, blocks, frame_table')
  BY <1>3, <1>5, <1>6, BalancedTake
<1> QED BY <1>7 DEF O2

(* The books when p gives frames of one of its address spaces back.        *)
LEMMA BooksGive ==
    ASSUME Facts, NEW p \in Proc, NEW W, OnlyOf(p, W), UNCHANGED blocks,
           NEW S, Frees(frame_table, frame_table', S),
           \/ /\ S \subseteq FramesIn(mem, vm[p])
              /\ FramesIn(mem', vm'[p]) = FramesIn(mem, vm[p]) \ S
              /\ FramesIn(mem', hand'[p]) = FramesIn(mem, hand[p])
           \/ /\ S \subseteq FramesIn(mem, hand[p])
              /\ FramesIn(mem', vm'[p]) = FramesIn(mem, vm[p])
              /\ FramesIn(mem', hand'[p]) = FramesIn(mem, hand[p]) \ S
    PROVE  Balanced(OwnIn(mem', vm', hand'), blocks', frame_table')
<1> DEFINE O == OwnIn(mem, vm, hand)  O2 == OwnIn(mem', vm', hand')
           s == <<"vm", p>>  r == <<"hand", p>>
<1>1. \A t \in Slot : t # s /\ t # r => O2[t] = O[t]
  BY OthersOwn
<1>2. \/ S \subseteq O[s] /\ O2[s] = O[s] \ S /\ O2[r] = O[r]
      \/ S \subseteq O[r] /\ O2[s] = O[s] /\ O2[r] = O[r] \ S
  BY Owns
<1>3. Balanced(O, blocks, frame_table)
  BY DEF Facts, Books
<1>4. s \in Slot /\ r \in Slot /\ s # r
  BY Slots
<1> HIDE DEF O, O2, s, r
<1>5. \E z \in Slot : GivesBack(O, O2, z, S)
  BY <1>1, <1>2, <1>4 DEF GivesBack
<1>6. Balanced(O2, blocks, frame_table')
  BY <1>3, <1>5, BalancedGive
<1> QED BY <1>6 DEF O2

(* Frames of p are marked, and freed by Release without their neighbours.  *)
LEMMA Releases ==
    ASSUME Facts, NEW p \in Proc, NEW S, Release(S),
           S \subseteq FramesIn(mem, vm[p]) \/ S \subseteq FramesIn(mem, hand[p])
    PROVE  /\ S \subseteq Ram /\ TableOK' /\ Frees(frame_table, frame_table', S)
           /\ mem' = [f \in Ram |-> IF f \in S THEN JUNK ELSE mem[f]]
<1> DEFINE O == OwnIn(mem, vm, hand)
<1>1. O[<<"vm", p>>] = FramesIn(mem, vm[p]) /\ O[<<"hand", p>>] = FramesIn(mem, hand[p])
  BY Owns
<1>2. Balanced(O, blocks, frame_table)
  BY DEF Facts, Books
<1>3. <<"vm", p>> \in Slot /\ <<"hand", p>> \in Slot
  BY Slots
<1> HIDE DEF O
<1>4. \A f \in S : f \in Ram /\ frame_table[f].allocated /\ ~frame_table[f].not_last
  BY <1>1, <1>2, <1>3, Marked
<1>5. S \in SUBSET Ram
  BY <1>4
<1>6. TableOK
  BY DEF Facts, TypeOK, TableOK
<1> QED BY <1>4, <1>5, <1>6, Unmarks

-----------------------------------------------------------------------------
(* An address space that as_create has made.                               *)
LEMMA Created ==
    ASSUME NEW f \in Frame, NEW rs \in Seq(Region), rs # <<>>, NEW new, new = NewSpace(f, rs)
    PROVE  /\ new \in Addrspace /\ new # NULL /\ new.gone = {}
           /\ \A m : TidyIn(m, new) /\ FramesIn(m, new) = {f}
           /\ \A m : \A pg : EntryIn(m, new, pg) = NULL
<1>1. new \in Addrspace
  BY DEF NewSpace, Addrspace
<1>2. new # NULL
  BY <1>1, NullAssumption
<1>3. /\ new.root = f /\ new.gone = {} /\ new.as_regions = rs
      /\ \A m \in Msb : new.as_pte[m] = NULL
  BY DEF NewSpace
<1>4. Tables(new) = {} /\ Live(new) = {}
  BY <1>3 DEF Tables, Live
<1>5. \A m : \A pg : EntryIn(m, new, pg) = NULL
  BY <1>4 DEF EntryIn
<1>6. \A m : PresentIn(m, new) = {}
  BY <1>5 DEF PresentIn
<1>7. \A m : FramesIn(m, new) = {f}
  <2> SUFFICES ASSUME NEW m PROVE FramesIn(m, new) = {f}
    OBVIOUS
  <2>1. \A g : g \in FramesIn(m, new) <=> g = f
    BY <1>2, <1>3, <1>4, <1>6, InFrames
  <2> QED BY <2>1
<1>8. \A m : TidyIn(m, new)
  BY <1>3, <1>4, <1>6 DEF TidyIn, TablesIn, PagesIn
<1> QED BY <1>1, <1>2, <1>3, <1>5, <1>7, <1>8

(* One of whose table pointers changes.                                    *)
With(sp, m, f) == [sp EXCEPT !.as_pte[m] = f]

LEMMA Extended ==
    ASSUME NEW sp \in Addrspace, NEW m \in Msb, NEW f \in Frame \cup {NULL},
           NEW new, new = With(sp, m, f)
    PROVE  /\ new \in Addrspace /\ new # NULL
           /\ new.root = sp.root /\ new.as_regions = sp.as_regions /\ new.gone = sp.gone
           /\ new.as_pte[m] = f /\ \A n \in Msb : n # m => new.as_pte[n] = sp.as_pte[n]
<1> USE DEF With
<1>1. sp.as_pte \in [Msb -> Frame \cup {NULL}]
  BY DEF Addrspace
<1>2. new.as_pte = [sp.as_pte EXCEPT ![m] = f] /\ new.as_pte \in [Msb -> Frame \cup {NULL}]
  BY <1>1 DEF Addrspace
<1>3. new.root = sp.root /\ new.as_regions = sp.as_regions /\ new.gone = sp.gone
  BY DEF Addrspace
<1>4. new \in Addrspace
  BY <1>2 DEF Addrspace
<1> QED BY <1>1, <1>2, <1>3, <1>4, NullAssumption

LEMMA NewTable == NoTable \in [Lsb -> PTE \cup {NULL}]
BY DEF NoTable

(* vm_initPT.                                                              *)
LEMMA FaultInitPTInv ==
    ASSUME Facts, NEW p \in Proc, NEW from \in {"user", "load", "argv"}, NEW pg \in Page,
           from = "argv" => pg = Argv,
           FaultInitPT(p, from, pg)
    PROVE  /\ MemoryInv' /\ Alone(p) /\ Looks(mem, vm[p], mem', vm'[p])
           /\ hand[p] # NULL => Looks(mem, hand[p], mem', hand[p])
<1> DEFINE f == alloc_kpages(1)  new == With(vm[p], pg[1], f)
           a == [ret |-> from, page |-> pg, flag |-> TRUE]
<1>1. /\ pc[p] = from /\ vm[p] # NULL /\ vm[p].as_pte[pg[1]] = NULL
      /\ Take(f) /\ Fill(f, NoTable) /\ To(p, "addpte") /\ arg' = [arg EXCEPT ![p] = a]
      /\ UNCHANGED <<hand, todo, mmu, blocks, made, kernel>>
      /\ vm' = [vm EXCEPT ![p] = new]
  BY DEF FaultInitPT, Fault, At, Set, With
<1> HIDE DEF f
<1>2. f \in Ram /\ f \in Frame /\ f # NULL /\ TableOK' /\ f = alloc_kpages(1)
      /\ \A q \in Proc : f \notin FramesIn(mem, vm[q]) /\ f \notin FramesIn(mem, hand[q])
  BY <1>1, Fresh DEF f
<1>3. pg[1] \in Msb /\ vm[p] \in Addrspace /\ TidyIn(mem, vm[p])
  BY <1>1 DEF Page, Facts, TypeOK, TidyAll
<1>4. /\ new \in Addrspace /\ new # NULL
      /\ new.root = vm[p].root /\ new.as_regions = vm[p].as_regions /\ new.gone = vm[p].gone
      /\ new.as_pte[pg[1]] = f
      /\ \A n \in Msb : n # pg[1] => new.as_pte[n] = vm[p].as_pte[n]
  BY <1>2, <1>3, Extended
<1> HIDE DEF new
<1>5. /\ vm'[p] = new /\ pc'[p] = "addpte" /\ arg'[p] = a
      /\ hand'[p] = hand[p] /\ todo'[p] = todo[p]
      /\ \A q \in Proc : q # p => vm'[q] = vm[q] /\ pc'[q] = pc[q] /\ arg'[q] = arg[q]
                                  /\ hand'[q] = hand[q] /\ todo'[q] = todo[q]
  BY <1>1 DEF Facts, TypeOK, To
<1>6. mem'[f] = NoTable /\ \A g \in Ram : g \notin {f} => mem'[g] = mem[g]
  BY <1>1, <1>2 DEF Fill, Set, Facts, TypeOK
<1>7. OnlyOf(p, {f})
  BY <1>2, <1>5, <1>6 DEF OnlyOf
<1>8. SameTables(mem, mem', vm[p])
  BY <1>1, <1>2, <1>6, Untouched
<1>9. /\ TidyIn(mem', new)
      /\ FramesIn(mem', new) = FramesIn(mem, vm[p]) \cup {f}
      /\ \A x \in Page : EntryIn(mem', new, x) = EntryIn(mem, vm[p], x)
      /\ Tables(new) = Tables(vm[p]) \cup {pg[1]}
  BY <1>1, <1>2, <1>3, <1>4, <1>6, <1>8, AddsTable
<1>10. /\ FramesIn(mem', hand[p]) = FramesIn(mem, hand[p])
       /\ hand[p] # NULL => TidyIn(mem', hand[p]) /\ Looks(mem, hand[p], mem', hand[p])
  BY <1>2, <1>6, Untouched
<1>11. Balanced(OwnIn(mem', vm', hand'), blocks', frame_table')
  <2>1. /\ FramesIn(mem', vm'[p]) = FramesIn(mem, vm[p]) \cup {f}
        /\ FramesIn(mem', hand'[p]) = FramesIn(mem, hand[p])
    BY <1>5, <1>9, <1>10
  <2> QED BY <1>1, <1>2, <1>7, <2>1, BooksTake
<1>12. TypeOK'
  <2>1. mem' \in [Ram -> Value \cup {JUNK} \cup [Lsb -> PTE \cup {NULL}]]
    BY <1>1, NewTable DEF Fill, Set, Facts, TypeOK
  <2>2. vm' \in [Proc -> Addrspace \cup {NULL}]
    BY <1>1, <1>4 DEF Facts, TypeOK
  <2>3. pc' \in [Proc -> Place]
    BY <1>1 DEF Facts, TypeOK, To, Place
  <2>4. arg' \in [Proc -> [ret : {"user", "load", "argv", "exit", "none"},
                           page : Page, flag : BOOLEAN]]
    BY <1>1 DEF Facts, TypeOK
  <2> QED BY <1>1, <1>2, <2>1, <2>2, <2>3, <2>4 DEF Facts, TypeOK, TableOK, mmu
<1>13. FaultIn(mem', new, hand[p], a)
  <2>1. from # "load" => hand[p] = NULL
    BY <1>1 DEF Facts, ProcsIn, ProcIn
  <2>2. pg[1] \notin Live(vm[p])
    BY <1>1 DEF Live, Tables
  <2>3. \A l \in Lsb : <<pg[1], l>> \in Page /\ <<pg[1], l>>[1] = pg[1]
    BY <1>3 DEF Page
  <2>4. EntryIn(mem', new, pg) = NULL
    BY <1>9, <2>2 DEF EntryIn
  <2>5. \A l \in Lsb : EntryIn(mem', new, <<pg[1], l>>) = NULL
    BY <1>9, <2>2, <2>3 DEF EntryIn
  <2>6. pg[1] \notin new.gone
    BY <1>1, <1>3, <1>4 DEF TidyIn, TablesIn, Tables
  <2> QED BY <1>9, <2>1, <2>4, <2>5, <2>6 DEF FaultIn
<1>14. ProcIn(mem', vm'[p], hand'[p], pc'[p], arg'[p], todo'[p])
  BY <1>4, <1>5, <1>13 DEF ProcIn
<1>15. NoneRuns
  BY <1>1, <1>5, RunsOn DEF mmu
<1>16. TlbStep(p)
  <2>1. StillCoherent(p)
    <3> SUFFICES ASSUME NEW T \in SUBSET TLBEntry, CoherentIn(mem, vm[p], T)
                 PROVE  CoherentIn(mem', new, T)
      BY <1>5 DEF StillCoherent
    <3>1. \A e \in T : e.page \in Page
      BY DEF TLBEntry
    <3> QED BY <1>1, <1>9, <3>1 DEF CoherentIn
  <2> QED BY <1>1, <2>1, TlbSame
<1>17. Looks(mem, vm[p], mem', new)
  <2>1. \A x \in PresentIn(mem, vm[p]) :
           FrameIn(mem, vm[p], x) \in Ram /\ FrameIn(mem, vm[p], x) # f
    BY <1>1, <1>2, InFrames, InRam
  <2> QED BY <1>4, <1>6, <1>9, <2>1, LooksKept
<1>18. MemoryInv'
  BY <1>5, <1>7, <1>9, <1>10, <1>11, <1>12, <1>14, <1>15, <1>16, Assemble
<1> QED BY <1>5, <1>7, <1>10, <1>17, <1>18 DEF Alone

-----------------------------------------------------------------------------
(* A new page: its frame is filled, and an entry of a table is written.    *)
Writes(f, x, t, l, pte) == mem' = [mem EXCEPT ![f] = x, ![t][l] = pte]

LEMMA Written ==
    ASSUME TypeOK, NEW f \in Ram, NEW t \in Ram, f # t, NEW l \in Lsb, NEW pte \in PTE,
           mem[t] \in [Lsb -> PTE \cup {NULL}], NEW x \in Cell, Writes(f, x, t, l, pte)
    PROVE  /\ mem' \in [Ram -> Cell] /\ mem'[f] = x
           /\ EntrySet(mem, mem', t, l, pte)
           /\ \A g \in Ram : g \notin {f, t} => mem'[g] = mem[g]
<1>1. mem \in [Ram -> Cell]
  BY DEF TypeOK, Cell
<1> DEFINE new == [mem[t] EXCEPT ![l] = pte]
<1>2. new \in Cell
  BY DEF Cell
<1>3. mem' = [mem EXCEPT ![f] = x, ![t] = new]
  BY DEF Writes
<1> HIDE DEF new
<1>4. mem'[t] = new /\ mem'[f] = x /\ mem' \in [Ram -> Cell]
  BY <1>1, <1>2, <1>3
<1>5. \A g \in Ram : g \notin {f, t} => mem'[g] = mem[g]
  BY <1>1, <1>3
<1> QED BY <1>4, <1>5 DEF new, EntrySet

(* What is coherent is so with one more page.                              *)
LEMMA OneMore ==
    ASSUME NEW m1, NEW m2, NEW v, NEW pg, EntryIn(m1, v, pg) = NULL,
           \A x \in Page : x # pg => EntryIn(m2, v, x) = EntryIn(m1, v, x),
           NEW T \in SUBSET TLBEntry, CoherentIn(m1, v, T)
    PROVE  CoherentIn(m2, v, T)
<1> SUFFICES ASSUME v # NULL, NEW e \in T
             PROVE  EntryIn(m2, v, e.page) = [frame |-> e.frame, dirty |-> e.dirty]
  BY DEF CoherentIn
<1>1. e.page \in Page /\ [frame |-> e.frame, dirty |-> e.dirty] \in PTE
  BY DEF TLBEntry, PTE
<1>2. EntryIn(m1, v, e.page) = [frame |-> e.frame, dirty |-> e.dirty]
  BY DEF CoherentIn
<1>3. EntryIn(m1, v, e.page) # NULL
  BY <1>1, <1>2, NullAssumption
<1> QED BY <1>1, <1>2, <1>3

LEMMA FirstRegion == \A rs \in Seq(Region) : rs # <<>> => rs[1].write \in BOOLEAN
<1> SUFFICES ASSUME NEW rs \in Seq(Region), rs # <<>> PROVE rs[1].write \in BOOLEAN
  OBVIOUS
<1>1. rs[1] \in Region
  OBVIOUS
<1> QED BY <1>1 DEF Region

(* vm_addPTE.                                                              *)
LEMMA FaultAddPTEInv ==
    ASSUME Facts, NEW p \in Proc, FaultAddPTE(p)
    PROVE  /\ MemoryInv' /\ Alone(p) /\ Looks(mem, vm[p], mem', vm'[p])
           /\ hand[p] # NULL => Looks(mem, hand[p], mem', hand[p])
<1> DEFINE f == alloc_kpages(1)  pg == arg[p].page  t == vm[p].as_pte[pg[1]]
           pte == [frame |-> f, dirty |-> vm[p].as_regions[1].write]
<1>1. /\ pc[p] = "addpte" /\ To(p, arg[p].ret) /\ pg[1] \notin vm[p].gone
      /\ Take(f) /\ Writes(f, Bzeroed(f), t, pg[2], pte) /\ TlbRandom(p, pg, pte)
      /\ arg' = [arg EXCEPT ![p] = NoArg]
      /\ UNCHANGED <<vm, hand, todo, on, blocks, made, kernel>>
  BY DEF FaultAddPTE, Go, At, Set, Writes
<1>2. f \in Ram /\ f \in Frame /\ TableOK'
      /\ \A q \in Proc : f \notin FramesIn(mem, vm[q]) /\ f \notin FramesIn(mem, hand[q])
  BY <1>1, Fresh
<1>3. FaultIn(mem, vm[p], hand[p], arg[p]) /\ vm[p] # NULL
  BY <1>1 DEF Facts, ProcsIn, ProcIn
<1>4. /\ pg \in Page /\ pg[1] \in Msb /\ pg[2] \in Lsb
      /\ vm[p] \in Addrspace /\ TidyIn(mem, vm[p])
      /\ arg[p].ret \in {"user", "load", "argv"} /\ (arg[p].ret # "load" => hand[p] = NULL)
  BY <1>3 DEF Facts, TypeOK, TidyAll, Page, FaultIn
<1>5. pg[1] \in Live(vm[p]) /\ EntryIn(mem, vm[p], pg) = NULL
  BY <1>1, <1>3 DEF FaultIn, Live
<1>6. pte \in PTE /\ pte.frame = f
  <2>1. vm[p].as_regions \in Seq(Region) /\ vm[p].as_regions # <<>>
    BY <1>4 DEF Addrspace, TidyIn
  <2> QED BY <1>2, <2>1, FirstRegion DEF PTE
<1> HIDE DEF f, pte
<1>7. t \in FramesIn(mem, vm[p]) /\ t \in Ram /\ t # f
  BY <1>2, <1>3, <1>5, InFrames, InRam
<1>8. mem[t] \in [Lsb -> PTE \cup {NULL}] /\ t = vm[p].as_pte[pg[1]]
  BY <1>4, <1>5 DEF TidyIn, TablesIn
<1> HIDE DEF t, pg
<1>9. /\ mem' \in [Ram -> Cell] /\ mem'[f] = Zero /\ EntrySet(mem, mem', t, pg[2], pte)
       /\ \A g \in Ram : g \notin {f, t} => mem'[g] = mem[g]
  <2>1. Bzeroed(f) \in Cell /\ Bzeroed(f) = Zero
    BY SpacesAssumption DEF Bzeroed, Cell
  <2>2. TypeOK
    BY DEF Facts
  <2> QED BY <1>1, <1>2, <1>4, <1>6, <1>7, <1>8, <2>1, <2>2, Written
<1>10. /\ mem' \in [Ram -> Cell] /\ EntrySet(mem, mem', t, pg[2], pte)
      /\ \A g \in Ram : g \notin {f, t} => mem'[g] = mem[g]
  BY <1>9
<1>11. \A n \in Live(vm[p]) : vm[p].as_pte[n] # t => mem'[vm[p].as_pte[n]] = mem[vm[p].as_pte[n]]
  <2>1. \A n \in Live(vm[p]) : vm[p].as_pte[n] \in FramesIn(mem, vm[p])
    BY <1>3, InFrames
  <2>2. \A n \in Live(vm[p]) : vm[p].as_pte[n] \in Ram /\ vm[p].as_pte[n] # f
    BY <1>2, <2>1, InRam
  <2> QED BY <1>10, <2>2
<1>12. /\ TidyIn(mem', vm[p])
       /\ FramesIn(mem', vm[p]) = FramesIn(mem, vm[p]) \cup {f}
       /\ EntryIn(mem', vm[p], pg) = pte
       /\ \A x \in Page : x # pg => EntryIn(mem', vm[p], x) = EntryIn(mem, vm[p], x)
  BY <1>2, <1>3, <1>4, <1>5, <1>6, <1>8, <1>10, <1>11, AddsPage
<1>13. /\ pc'[p] = arg[p].ret /\ arg'[p] = NoArg
       /\ vm'[p] = vm[p] /\ hand'[p] = hand[p] /\ todo'[p] = todo[p]
       /\ \A q \in Proc : q # p => vm'[q] = vm[q] /\ pc'[q] = pc[q] /\ arg'[q] = arg[q]
                                   /\ hand'[q] = hand[q] /\ todo'[q] = todo[q]
  BY <1>1 DEF Facts, TypeOK, To
<1>14. \A q \in Proc : /\ {f, t} \cap FramesIn(mem, hand[q]) = {}
                       /\ q # p => {f, t} \cap FramesIn(mem, vm[q]) = {}
  BY <1>2, <1>7, OneOwner
<1>15. OnlyOf(p, {f, t})
  BY <1>10, <1>13, <1>14 DEF OnlyOf
<1>16. /\ FramesIn(mem', hand[p]) = FramesIn(mem, hand[p])
       /\ hand[p] # NULL => TidyIn(mem', hand[p]) /\ Looks(mem, hand[p], mem', hand[p])
  BY <1>10, <1>14, Untouched
<1>17. Balanced(OwnIn(mem', vm', hand'), blocks', frame_table')
  <2>1. /\ FramesIn(mem', vm'[p]) = FramesIn(mem, vm[p]) \cup {f}
        /\ FramesIn(mem', hand'[p]) = FramesIn(mem, hand[p])
    BY <1>12, <1>13, <1>16
  <2>2. f = alloc_kpages(1)
    BY DEF f
  <2> QED BY <1>1, <1>15, <2>1, <2>2, BooksTake
<1>18. StillCoherent(p)
  BY <1>5, <1>12, <1>13, OneMore DEF StillCoherent
<1>19. TlbStep(p) /\ tlb' \in [Cpu -> SUBSET TLBEntry]
  BY <1>1, <1>4, <1>6, <1>12, <1>13, <1>18, TlbAdds
<1>20. TypeOK'
  <2>1. pc' \in [Proc -> Place]
    BY <1>1, <1>4 DEF Facts, TypeOK, To, Place
  <2>2. arg' \in [Proc -> [ret : {"user", "load", "argv", "exit", "none"},
                           page : Page, flag : BOOLEAN]]
    BY <1>1, SpacesAssumption DEF Facts, TypeOK, NoArg
  <2> QED BY <1>1, <1>2, <1>10, <1>19, <2>1, <2>2 DEF Facts, TypeOK, TableOK, Cell
<1>21. ProcIn(mem', vm'[p], hand'[p], pc'[p], arg'[p], todo'[p])
  BY <1>3, <1>4, <1>13 DEF ProcIn
<1>22. NoneRuns
  BY <1>1, <1>4, <1>13, RunsOn
<1>23. Looks(mem, vm[p], mem', vm[p])
  <2>1. ContentIn(mem, vm[p], pg) = Zero /\ ContentIn(mem', vm[p], pg) = Zero
    BY <1>5, <1>6, <1>12, <1>9, NullAssumption DEF ContentIn, FrameIn
  <2>2. ASSUME NEW x \in Page, x # pg
        PROVE  ContentIn(mem', vm[p], x) = ContentIn(mem, vm[p], x)
    <3>1. EntryIn(mem', vm[p], x) = EntryIn(mem, vm[p], x)
      BY <1>12, <2>2
    <3>2. CASE EntryIn(mem, vm[p], x) = NULL
      BY <3>1, <3>2 DEF ContentIn
    <3>3. CASE EntryIn(mem, vm[p], x) # NULL
      <4>1. x \in PresentIn(mem, vm[p])
        BY <3>3 DEF PresentIn
      <4>2. FrameIn(mem, vm[p], x) \in FramesIn(mem, vm[p])
        BY <1>3, <4>1, InFrames
      <4>3. FrameIn(mem, vm[p], x) \in Ram /\ FrameIn(mem, vm[p], x) # f
        BY <1>2, <4>2, InRam
      <4>4. FrameIn(mem, vm[p], x) # t
        BY <1>4, <1>5, <1>8, <4>1 DEF TidyIn, PagesIn
      <4> QED BY <1>10, <3>1, <4>3, <4>4 DEF ContentIn, FrameIn
    <3> QED BY <3>2, <3>3
  <2>3. \A x \in Page : ContentIn(mem', vm[p], x) = ContentIn(mem, vm[p], x)
    BY <2>1, <2>2
  <2> QED BY <1>3, <2>3 DEF Looks
<1>24. MemoryInv'
  BY <1>12, <1>13, <1>15, <1>16, <1>17, <1>19, <1>20, <1>21, <1>22, Assemble
<1> QED BY <1>13, <1>15, <1>16, <1>23, <1>24 DEF Alone

-----------------------------------------------------------------------------
(* No frame for the page of a fault.                                       *)
Freed(sp, m) == [sp EXCEPT !.gone = @ \cup {m}]

LEMMA FreedSpace ==
    ASSUME NEW sp \in Addrspace, NEW m \in Msb, NEW new, new = Freed(sp, m)
    PROVE  /\ new \in Addrspace /\ new # NULL
           /\ new.root = sp.root /\ new.as_regions = sp.as_regions
           /\ new.as_pte = sp.as_pte /\ new.gone = sp.gone \cup {m}
           /\ Tables(new) = Tables(sp) /\ Live(new) = Live(sp) \ {m}
<1> USE DEF Freed
<1>1. /\ new.root = sp.root /\ new.as_regions = sp.as_regions
      /\ new.as_pte = sp.as_pte /\ new.gone = sp.gone \cup {m}
  BY DEF Addrspace
<1>2. new \in Addrspace
  BY DEF Addrspace
<1>3. Tables(new) = Tables(sp)
  BY <1>1 DEF Tables
<1> QED BY <1>1, <1>2, <1>3, NullAssumption DEF Live

LEMMA FaultAddFailsInv ==
    ASSUME Facts, NEW p \in Proc, FaultAddFails(p)
    PROVE  /\ MemoryInv' /\ Alone(p) /\ Looks(mem, vm[p], mem', vm'[p])
           /\ hand[p] # NULL => Looks(mem, hand[p], mem', hand[p])
<1> DEFINE a == arg[p]  m == a.page[1]  t == vm[p].as_pte[m]
<1>1. /\ pc[p] = "addpte" /\ FaultFails(p, a.ret) /\ arg' = [arg EXCEPT ![p] = NoArg]
      /\ UNCHANGED <<hand, todo, mmu, blocks, made>>
  BY DEF FaultAddFails, At, Set
<1>2. FaultIn(mem, vm[p], hand[p], a) /\ vm[p] # NULL
  BY <1>1 DEF Facts, ProcsIn, ProcIn
<1>3. /\ a.page \in Page /\ m \in Msb /\ vm[p] \in Addrspace /\ TidyIn(mem, vm[p])
  BY <1>2 DEF Facts, TypeOK, TidyAll, Page
<1>4. /\ pc' \in [Proc -> Place] /\ kernel' \in {"running"} \cup End
      /\ \A q \in Proc : q # p => pc'[q] = pc[q]
      /\ \/ a.ret = "user" /\ pc'[p] \in {"user", "exit"}
         \/ a.ret = "load" /\ pc'[p] = "unload"
         \/ a.ret = "argv" /\ pc'[p] = "addpte"
  BY <1>1, FaultFailsTo
<1>5. arg'[p] = NoArg /\ \A q \in Proc : q # p => arg'[q] = arg[q]
  BY <1>1 DEF Facts, TypeOK
<1>6. arg' \in [Proc -> [ret : {"user", "load", "argv", "exit", "none"},
                         page : Page, flag : BOOLEAN]]
  BY <1>1, SpacesAssumption DEF Facts, TypeOK, NoArg
<1>7. NoneRuns
  BY <1>1, <1>4, RunsOn DEF mmu
<1>8. \A mm, v : /\ v # NULL
                 /\ a.page[1] \in Tables(v) /\ EntryIn(mm, v, a.page) = NULL
                 => ProcIn(mm, v, hand[p], pc'[p], NoArg, todo[p])
  <2>1. a.ret # "load" => hand[p] = NULL
    BY <1>2 DEF FaultIn
  <2>2. a.ret = "argv" => a.page = Argv
    BY <1>2 DEF FaultIn
  <2>3. /\ NoArg.ret = "user" /\ NoArg.page = Argv /\ NoArg.flag = FALSE
    BY DEF NoArg
  <2> QED BY <1>4, <2>1, <2>2, <2>3 DEF ProcIn, FaultIn
<1>9. CASE ~a.flag
  <2>1. UNCHANGED <<frame_table, mem, vm>>
    BY <1>9 DEF FaultAddFails
  <2>2. TypeOK'
    BY <1>1, <1>4, <1>6, <2>1 DEF Facts, TypeOK, mmu
  <2>3. ProcIn(mem, vm[p], hand[p], pc'[p], arg'[p], todo'[p])
    BY <1>1, <1>2, <1>5, <1>8 DEF FaultIn
  <2>4. TlbStep(p)
    BY <1>1, <2>1, TlbSame, Same
  <2>5. OnlyOf(p, {})
    BY <1>1, <1>4, <1>5, <2>1 DEF OnlyOf
  <2>6. MemoryInv'
    BY <1>1, <1>4, <1>5, <1>7, <2>1, <2>2, <2>3, <2>4, Quiet
  <2>7. /\ Looks(mem, vm[p], mem', vm'[p])
        /\ hand[p] # NULL => Looks(mem, hand[p], mem', hand[p])
    BY <1>2, <2>1 DEF Looks
  <2> QED BY <2>5, <2>6, <2>7 DEF Alone
<1>10. CASE a.flag
  <2> DEFINE new == Freed(vm[p], m)
  <2>1. Release({t}) /\ vm' = [vm EXCEPT ![p] = new]
    BY <1>10 DEF FaultAddFails, Freed
  <2>2. /\ m \in Live(vm[p]) /\ m \in Tables(vm[p])
        /\ \A l \in Lsb : EntryIn(mem, vm[p], <<m, l>>) = NULL
    BY <1>2, <1>10 DEF FaultIn, Live
  <2>3. /\ new \in Addrspace /\ new # NULL
        /\ new.root = vm[p].root /\ new.as_regions = vm[p].as_regions
        /\ new.as_pte = vm[p].as_pte /\ new.gone = vm[p].gone \cup {m}
        /\ Tables(new) = Tables(vm[p]) /\ Live(new) = Live(vm[p]) \ {m}
    BY <1>3, FreedSpace
  <2> HIDE DEF new, m
  <2>4. t \in FramesIn(mem, vm[p]) /\ t \in Ram /\ {t} \subseteq FramesIn(mem, vm[p])
    BY <1>2, <2>2, InFrames, InRam
  <2>5. \A x \in PresentIn(mem, vm[p]) : x[1] # m
    BY <2>2 DEF PresentIn, Page
  <2>6. /\ TableOK' /\ Frees(frame_table, frame_table', {t})
        /\ mem' = [f \in Ram |-> IF f \in {t} THEN JUNK ELSE mem[f]]
    BY <2>1, <2>4, Releases
  <2>7. \A g \in Ram : g \notin {t} => mem'[g] = mem[g]
    BY <2>6
  <2>8. \A n \in Live(new) : new.as_pte[n] = vm[p].as_pte[n]
                             /\ mem'[vm[p].as_pte[n]] = mem[vm[p].as_pte[n]]
    <3> SUFFICES ASSUME NEW n \in Live(new)
                 PROVE  mem'[vm[p].as_pte[n]] = mem[vm[p].as_pte[n]]
      BY <2>3
    <3>1. n \in Live(vm[p]) /\ n # m
      BY <2>3
    <3>2. vm[p].as_pte[n] # t
      BY <1>3, <2>2, <3>1 DEF TidyIn, TablesIn
    <3>3. vm[p].as_pte[n] \in Ram
      BY <1>2, <3>1, InFrames, InRam
    <3> QED BY <2>7, <3>2, <3>3
  <2>9. OfTable(mem, vm[p], m, {t})
    BY <2>5 DEF OfTable
  <2>10. Shrinks(mem, mem', vm[p], new, m)
    BY <1>3, <2>2, <2>3, <2>8 DEF TidyIn, TablesIn, Shrinks
  <2> HIDE DEF t
  <2>11. /\ TidyIn(mem', new)
         /\ Loses(FramesIn(mem, vm[p]), FramesIn(mem', new), {t})
         /\ \A x : x[1] # m => EntryIn(mem', new, x) = EntryIn(mem, vm[p], x)
         /\ \A x : x[1] = m => EntryIn(mem', new, x) = NULL
    BY <1>2, <1>3, <2>3, <2>9, <2>10, DropsTable
  <2>12. /\ vm'[p] = new /\ hand'[p] = hand[p] /\ todo'[p] = todo[p]
         /\ \A q \in Proc : q # p => vm'[q] = vm[q] /\ hand'[q] = hand[q] /\ todo'[q] = todo[q]
    BY <1>1, <2>1 DEF Facts, TypeOK
  <2>13. \A q \in Proc : /\ {t} \cap FramesIn(mem, hand[q]) = {}
                         /\ q # p => {t} \cap FramesIn(mem, vm[q]) = {}
    BY <2>4, OneOwner
  <2>14. OnlyOf(p, {t})
    BY <1>4, <1>5, <2>7, <2>12, <2>13 DEF OnlyOf
  <2>15. /\ FramesIn(mem', hand[p]) = FramesIn(mem, hand[p])
         /\ hand[p] # NULL => TidyIn(mem', hand[p]) /\ Looks(mem, hand[p], mem', hand[p])
    BY <2>7, <2>13, Untouched
  <2>16. Balanced(OwnIn(mem', vm', hand'), blocks', frame_table')
    <3>1. /\ FramesIn(mem', vm'[p]) = FramesIn(mem, vm[p]) \ {t}
          /\ FramesIn(mem', hand'[p]) = FramesIn(mem, hand[p])
      BY <2>11, <2>12, <2>15 DEF Loses
    <3> QED BY <1>1, <2>4, <2>6, <2>14, <3>1, BooksGive
  <2>17. TypeOK'
    <3>1. mem' \in [Ram -> Value \cup {JUNK} \cup [Lsb -> PTE \cup {NULL}]]
      BY <2>6 DEF Facts, TypeOK
    <3>2. vm' \in [Proc -> Addrspace \cup {NULL}]
      BY <2>1, <2>3 DEF Facts, TypeOK
    <3> QED BY <1>1, <1>4, <1>6, <2>6, <3>1, <3>2 DEF Facts, TypeOK, TableOK, mmu
  <2>18. ProcIn(mem', vm'[p], hand'[p], pc'[p], arg'[p], todo'[p])
    <3>1. a.page[1] \in Tables(new) /\ EntryIn(mem', new, a.page) = NULL
      BY <2>2, <2>3, <2>11 DEF m
    <3> QED BY <1>5, <1>8, <2>3, <2>12, <3>1
  <2>19. \A x \in Page : EntryIn(mem', new, x) = EntryIn(mem, vm[p], x)
    <3> SUFFICES ASSUME NEW x \in Page PROVE EntryIn(mem', new, x) = EntryIn(mem, vm[p], x)
      OBVIOUS
    <3>1. CASE x[1] = m
      <4>1. x \notin PresentIn(mem, vm[p])
        BY <2>5, <3>1
      <4> QED BY <2>11, <3>1, <4>1 DEF PresentIn
    <3> QED BY <2>11, <3>1
  <2>20. TlbStep(p)
    <3>1. StillCoherent(p)
      <4> SUFFICES ASSUME NEW T \in SUBSET TLBEntry, CoherentIn(mem, vm[p], T)
                   PROVE  CoherentIn(mem', new, T)
        BY <2>12 DEF StillCoherent
      <4>1. \A e \in T : e.page \in Page
        BY DEF TLBEntry
      <4> QED BY <1>2, <2>19, <4>1 DEF CoherentIn
    <3> QED BY <1>1, <3>1, TlbSame
  <2>21. Looks(mem, vm[p], mem', new)
    <3>1. \A x \in PresentIn(mem, vm[p]) :
             FrameIn(mem, vm[p], x) \in Ram /\ FrameIn(mem, vm[p], x) # t
      <4>1. PagesIn(mem, vm[p])
        BY <1>3 DEF TidyIn
      <4> QED BY <1>2, <2>2, <4>1, InFrames, InRam DEF PagesIn, t
    <3> QED BY <2>3, <2>7, <2>19, <3>1, LooksKept
  <2>22. MemoryInv'
    BY <1>7, <2>11, <2>12, <2>14, <2>15, <2>16, <2>17, <2>18, <2>20, Assemble
  <2> QED BY <2>12, <2>14, <2>15, <2>21, <2>22 DEF Alone
<1> QED BY <1>9, <1>10

-----------------------------------------------------------------------------
(* as_create for fork...                                                   *)
LEMMA CopiedRegions ==
    ASSUME NEW rs \in Seq(Region), rs # <<>>
    PROVE  CopyRegions(rs) \in Seq(Region) /\ CopyRegions(rs) # <<>>
<1>1. CASE Len(rs) <= 2
  BY <1>1 DEF CopyRegions
<1>2. CASE Len(rs) > 2
  <2>1. CopyRegions(rs) = <<rs[1], rs[Len(rs)]>> /\ rs[1] \in Region /\ rs[Len(rs)] \in Region
    BY <1>2 DEF CopyRegions
  <2> QED BY <2>1
<1> QED BY <1>1, <1>2

LEMMA ForkInv ==
    ASSUME Facts, NEW p \in Proc, Fork(p) PROVE MemoryInv'
<1> DEFINE f == alloc_kpages(1)  new == NewSpace(f, CopyRegions(vm[p].as_regions))
           pages == Present(vm[p])
<1>1. /\ vm[p] # NULL /\ pc[p] = "user" /\ To(p, "copy")
      /\ made < MaxSpaces /\ made' = made + 1 /\ Take(f)
      /\ hand' = [hand EXCEPT ![p] = new] /\ todo' = [todo EXCEPT ![p] = pages]
      /\ UNCHANGED <<mem, vm, arg, mmu, blocks, kernel>>
  BY DEF Fork, Go, At, Create, Set
<1>2. f \in Ram /\ f \in Frame /\ TableOK' /\ f = alloc_kpages(1)
  BY <1>1, Fresh
<1>3. vm[p] \in Addrspace /\ TidyIn(mem, vm[p]) /\ hand[p] = NULL /\ arg[p] = NoArg
  BY <1>1 DEF Facts, TypeOK, TidyAll, ProcsIn, ProcIn
<1>4. CopyRegions(vm[p].as_regions) \in Seq(Region) /\ CopyRegions(vm[p].as_regions) # <<>>
  BY <1>3, CopiedRegions DEF Addrspace, TidyIn
<1>5. pages = PresentIn(mem, vm[p]) /\ pages \subseteq Page
  BY PresentIs DEF PresentIn
<1> HIDE DEF f, pages
<1>6. /\ new \in Addrspace /\ new # NULL /\ new.gone = {}
      /\ \A m : TidyIn(m, new) /\ FramesIn(m, new) = {f}
      /\ \A m : \A pg : EntryIn(m, new, pg) = NULL
  BY <1>2, <1>4, Created
<1> HIDE DEF new
<1>7. /\ hand'[p] = new /\ pc'[p] = "copy" /\ todo'[p] = pages /\ arg'[p] = NoArg /\ vm'[p] = vm[p]
      /\ \A q \in Proc : q # p => vm'[q] = vm[q] /\ pc'[q] = pc[q] /\ arg'[q] = arg[q]
                                  /\ hand'[q] = hand[q] /\ todo'[q] = todo[q]
  BY <1>1, <1>3 DEF Facts, TypeOK, To
<1>8. OnlyOf(p, {})
  BY <1>1, <1>7 DEF OnlyOf
<1>9. Balanced(OwnIn(mem', vm', hand'), blocks', frame_table')
  <2>1. /\ FramesIn(mem', vm'[p]) = FramesIn(mem, vm[p])
        /\ FramesIn(mem', hand'[p]) = FramesIn(mem, hand[p]) \cup {f}
    BY <1>1, <1>3, <1>6, <1>7, NoFrames
  <2> QED BY <1>1, <1>2, <1>8, <2>1, BooksTake
<1>10. TypeOK'
  <2>1. hand' \in [Proc -> Addrspace \cup {NULL}]
    BY <1>1, <1>6 DEF Facts, TypeOK
  <2>2. todo' \in [Proc -> SUBSET Page]
    BY <1>1, <1>5 DEF Facts, TypeOK
  <2>3. pc' \in [Proc -> Place]
    BY <1>1 DEF Facts, TypeOK, To, Place
  <2>4. made' \in 0 .. MaxSpaces
    BY <1>1, SpacesAssumption DEF Facts, TypeOK
  <2> QED BY <1>1, <1>2, <2>1, <2>2, <2>3, <2>4 DEF Facts, TypeOK, TableOK, mmu
<1>11. ProcIn(mem', vm'[p], hand'[p], pc'[p], arg'[p], todo'[p])
  <2>1. CopyIn(mem, vm[p], new, pages)
    BY <1>5, <1>6 DEF CopyIn
  <2> QED BY <1>1, <1>6, <1>7, <2>1 DEF ProcIn
<1>12. NoneRuns
  BY <1>1, <1>7, RunsOn DEF mmu
<1>13. TlbStep(p)
  BY <1>1, TlbSame, Same
<1> QED BY <1>1, <1>3, <1>6, <1>7, <1>8, <1>9, <1>10, <1>11, <1>12, <1>13, Assemble

(* ...and for loadexec.                                                    *)
Header == [pages : SUBSET Page, filled : SUBSET Page, write : BOOLEAN]

LEMMA Headers == \A i \in DOMAIN Segments : Segments[i] \in Header
<1>1. Segments \in Seq(Header)
  BY SpacesAssumption DEF Header
<1> QED BY <1>1

LEMMA RegionsOK == DefineRegions \in Seq(Region) /\ DefineRegions # <<>>
<1> DEFINE n == Len(Segments)
<1>1. n \in Nat /\ n # 0 /\ DOMAIN Segments = 1 .. n
  BY SpacesAssumption
<1>2. \A i \in 1 .. n : Segments[i] \in Header
  BY <1>1, Headers
<1> HIDE DEF n
<1>3. DefineRegions = [i \in 1 .. n |-> [pages |-> Segments[n + 1 - i].pages, write |-> TRUE,
                                         was |-> Segments[n + 1 - i].write]]
  BY <1>1 DEF DefineRegions, n
<1>4. \A i \in 1 .. n : [pages |-> Segments[n + 1 - i].pages, write |-> TRUE,
                         was |-> Segments[n + 1 - i].write] \in Region
  <2> SUFFICES ASSUME NEW i \in 1 .. n
               PROVE  [pages |-> Segments[n + 1 - i].pages, write |-> TRUE,
                       was |-> Segments[n + 1 - i].write] \in Region
    OBVIOUS
  <2>1. n + 1 - i \in 1 .. n
    BY <1>1
  <2>2. Segments[n + 1 - i] \in Header
    BY <1>2, <2>1
  <2> QED BY <2>2 DEF Region, Header
<1>5. DefineRegions \in [1 .. n -> Region]
  BY <1>3, <1>4
<1> HIDE DEF DefineRegions
<1> QED BY <1>1, <1>5

LEMMA FilledOK == (UNION {Segments[i].filled : i \in DOMAIN Segments}) \subseteq Page
<1>1. \A i \in DOMAIN Segments : Segments[i].filled \subseteq Page
  <2> SUFFICES ASSUME NEW i \in DOMAIN Segments PROVE Segments[i].filled \subseteq Page
    OBVIOUS
  <2>1. Segments[i] \in Header
    BY Headers
  <2> QED BY <2>1 DEF Header
<1> QED BY <1>1

(* What vm has goes to hand, which has nothing, and vm gets a frame.       *)
LEMMA BooksExec ==
    ASSUME Facts, NEW p \in Proc, OnlyOf(p, {}), UNCHANGED blocks,
           NEW f, Take(f), f = alloc_kpages(1), hand[p] = NULL,
           FramesIn(mem', vm'[p]) = {f}, FramesIn(mem', hand'[p]) = FramesIn(mem, vm[p])
    PROVE  Balanced(OwnIn(mem', vm', hand'), blocks', frame_table')
<1> DEFINE O == OwnIn(mem, vm, hand)  O2 == OwnIn(mem', vm', hand')
           s == <<"vm", p>>  r == <<"hand", p>>
           O1 == [t \in Slot |-> IF t = s THEN O[r] ELSE IF t = r THEN O[s] ELSE O[t]]
<1>1. \A t \in Slot : t # s /\ t # r => O2[t] = O[t]
  BY OthersOwn
<1>2. O[r] = {} /\ O2[s] = {f} /\ O2[r] = O[s]
  BY Owns, NoFrames
<1>3. Balanced(O, blocks, frame_table)
  BY DEF Facts, Books
<1>4. s \in Slot /\ r \in Slot /\ s # r
  BY Slots
<1>5. f \in Ram /\ Marks(frame_table, frame_table', f)
  BY MarksOne DEF Facts, TypeOK, TableOK
<1> HIDE DEF O, O2, s, r
<1>6. O1[s] = O[r] /\ O1[r] = O[s] /\ \A t \in Slot : t # s /\ t # r => O1[t] = O[t]
  BY <1>4
<1> HIDE DEF O1
<1>7. Balanced(O1, blocks, frame_table)
  BY <1>3, <1>4, <1>6, BalancedSwap
<1>8. Gets(O1, O2, s, f)
  BY <1>1, <1>2, <1>6 DEF Gets
<1>9. Balanced(O2, blocks, frame_table')
  BY <1>4, <1>5, <1>7, <1>8, BalancedTake
<1> QED BY <1>9 DEF O2

LEMMA ExecInv ==
    ASSUME Facts, NEW p \in Proc, Exec(p) PROVE MemoryInv'
<1> DEFINE f == alloc_kpages(1)  new == NewSpace(f, DefineRegions)
           pages == UNION {Segments[i].filled : i \in DOMAIN Segments}
<1>1. /\ pc[p] \in {"user", "new"} /\ To(p, "load")
      /\ made < MaxSpaces /\ made' = made + 1 /\ Take(f)
      /\ vm' = [vm EXCEPT ![p] = new] /\ hand' = [hand EXCEPT ![p] = vm[p]]
      /\ todo' = [todo EXCEPT ![p] = pages] /\ Activate(p, vm'[p])
      /\ UNCHANGED <<mem, arg, on, blocks, kernel>>
  BY DEF Exec, At, Create, Set
<1>2. f \in Ram /\ f \in Frame /\ TableOK' /\ f = alloc_kpages(1)
  BY <1>1, Fresh
<1>3. hand[p] = NULL /\ arg[p] = NoArg
  BY <1>1 DEF Facts, ProcsIn, ProcIn
<1>4. pages \subseteq Page
  BY FilledOK
<1> HIDE DEF f, pages
<1>5. /\ new \in Addrspace /\ new # NULL
      /\ \A m : TidyIn(m, new) /\ FramesIn(m, new) = {f}
  BY <1>2, RegionsOK, Created
<1> HIDE DEF new
<1>6. /\ vm'[p] = new /\ hand'[p] = vm[p] /\ pc'[p] = "load" /\ arg'[p] = NoArg
      /\ \A q \in Proc : q # p => vm'[q] = vm[q] /\ pc'[q] = pc[q] /\ arg'[q] = arg[q]
                                  /\ hand'[q] = hand[q] /\ todo'[q] = todo[q]
  BY <1>1, <1>3 DEF Facts, TypeOK, To
<1>7. OnlyOf(p, {})
  BY <1>1, <1>6 DEF OnlyOf
<1>8. Balanced(OwnIn(mem', vm', hand'), blocks', frame_table')
  <2>1. FramesIn(mem', vm'[p]) = {f} /\ FramesIn(mem', hand'[p]) = FramesIn(mem, vm[p])
    BY <1>1, <1>5, <1>6
  <2> QED BY <1>1, <1>2, <1>3, <1>7, <2>1, BooksExec
<1>9. TlbStep(p) /\ tlb' \in [Cpu -> SUBSET TLBEntry]
  BY <1>1, TlbFlushed
<1>10. TypeOK'
  <2>1. vm' \in [Proc -> Addrspace \cup {NULL}] /\ hand' \in [Proc -> Addrspace \cup {NULL}]
    BY <1>1, <1>5 DEF Facts, TypeOK
  <2>2. todo' \in [Proc -> SUBSET Page]
    BY <1>1, <1>4 DEF Facts, TypeOK
  <2>3. pc' \in [Proc -> Place]
    BY <1>1 DEF Facts, TypeOK, To, Place
  <2>4. made' \in 0 .. MaxSpaces
    BY <1>1, SpacesAssumption DEF Facts, TypeOK
  <2> QED BY <1>1, <1>2, <1>9, <2>1, <2>2, <2>3, <2>4 DEF Facts, TypeOK, TableOK
<1>11. ProcIn(mem', vm'[p], hand'[p], pc'[p], arg'[p], todo'[p])
  BY <1>5, <1>6 DEF ProcIn
<1>12. NoneRuns
  BY <1>1, <1>6, RunsOn
<1>13. TidyIn(mem', vm'[p]) /\ (hand'[p] # NULL => TidyIn(mem', hand'[p]))
  BY <1>1, <1>5, <1>6 DEF Facts, TidyAll
<1> QED BY <1>7, <1>8, <1>9, <1>10, <1>11, <1>12, <1>13, Assemble

-----------------------------------------------------------------------------
(* vm_copyPTE: a table...                                                  *)
LEMMA CopyTableInv ==
    ASSUME Facts, NEW p \in Proc, CopyTable(p)
    PROVE  /\ MemoryInv' /\ Alone(p) /\ Looks(mem, vm[p], mem', vm[p])
           /\ Looks(mem, hand[p], mem', hand'[p])
<1> DEFINE f == alloc_kpages(1)
<1>1. PICK m \in Msb : /\ NextTable(p, m) /\ Take(f) /\ Fill(f, NoTable)
                       /\ hand' = [hand EXCEPT ![p] = With(hand[p], m, f)]
  BY DEF CopyTable, With
<1>2. pc[p] = "copy" /\ UNCHANGED <<vm, pc, arg, todo, mmu, blocks, made, kernel>>
  BY DEF CopyTable, At, local
<1>3. f \in Ram /\ f \in Frame /\ f # NULL /\ TableOK' /\ f = alloc_kpages(1)
      /\ \A q \in Proc : f \notin FramesIn(mem, vm[q]) /\ f \notin FramesIn(mem, hand[q])
  BY <1>1, Fresh
<1>4. /\ vm[p] # NULL /\ hand[p] # NULL /\ arg[p] = NoArg
      /\ CopyIn(mem, vm[p], hand[p], todo[p])
      /\ hand[p] \in Addrspace /\ TidyIn(mem, hand[p]) /\ TidyIn(mem, vm[p])
      /\ todo[p] \subseteq Page
  BY <1>2 DEF Facts, ProcsIn, ProcIn, TypeOK, TidyAll
<1>5. hand[p].as_pte[m] = NULL
  BY <1>1 DEF NextTable, Tables
<1> DEFINE new == With(hand[p], m, f)
<1> HIDE DEF f
<1>6. /\ new \in Addrspace /\ new # NULL
      /\ new.root = hand[p].root /\ new.as_regions = hand[p].as_regions
      /\ new.gone = hand[p].gone /\ new.as_pte[m] = f
      /\ \A n \in Msb : n # m => new.as_pte[n] = hand[p].as_pte[n]
  BY <1>3, <1>4, Extended
<1>7. hand' = [hand EXCEPT ![p] = new]
  BY <1>1
<1> HIDE DEF new
<1>8. mem'[f] = NoTable /\ \A g \in Ram : g \notin {f} => mem'[g] = mem[g]
  BY <1>1, <1>3 DEF Fill, Set, Facts, TypeOK
<1>9. /\ vm'[p] = vm[p] /\ pc'[p] = "copy" /\ arg'[p] = arg[p]
      /\ hand'[p] = new /\ todo'[p] = todo[p]
      /\ \A q \in Proc : q # p => vm'[q] = vm[q] /\ pc'[q] = pc[q] /\ arg'[q] = arg[q]
                                  /\ hand'[q] = hand[q] /\ todo'[q] = todo[q]
  BY <1>2, <1>7 DEF Facts, TypeOK
<1>10. OnlyOf(p, {f})
  BY <1>3, <1>8, <1>9 DEF OnlyOf
<1>11. SameTables(mem, mem', hand[p])
  BY <1>3, <1>4, <1>8, Untouched
<1>12. /\ TidyIn(mem', new)
       /\ FramesIn(mem', new) = FramesIn(mem, hand[p]) \cup {f}
       /\ \A x \in Page : EntryIn(mem', new, x) = EntryIn(mem, hand[p], x)
  BY <1>3, <1>4, <1>5, <1>6, <1>8, <1>11, AddsTable
<1>13. /\ FramesIn(mem', vm[p]) = FramesIn(mem, vm[p])
       /\ SameTables(mem, mem', vm[p])
       /\ TidyIn(mem', vm[p])
       /\ PresentIn(mem', vm[p]) = PresentIn(mem, vm[p])
       /\ Looks(mem, vm[p], mem', vm[p])
  BY <1>3, <1>4, <1>8, Untouched
<1>14. Balanced(OwnIn(mem', vm', hand'), blocks', frame_table')
  <2>1. /\ FramesIn(mem', vm'[p]) = FramesIn(mem, vm[p])
        /\ FramesIn(mem', hand'[p]) = FramesIn(mem, hand[p]) \cup {f}
    BY <1>9, <1>12, <1>13
  <2> QED BY <1>1, <1>2, <1>3, <1>10, <2>1, BooksTake
<1>15. TypeOK'
  <2>1. mem' \in [Ram -> Value \cup {JUNK} \cup [Lsb -> PTE \cup {NULL}]]
    BY <1>1, NewTable DEF Fill, Set, Facts, TypeOK
  <2>2. hand' \in [Proc -> Addrspace \cup {NULL}]
    BY <1>6, <1>7 DEF Facts, TypeOK
  <2> QED BY <1>2, <1>3, <2>1, <2>2 DEF Facts, TypeOK, TableOK, mmu
<1>16. ProcIn(mem', vm'[p], hand'[p], pc'[p], arg'[p], todo'[p])
  <2>1. CopyIn(mem', vm[p], new, todo[p])
    BY <1>4, <1>6, <1>12, <1>13 DEF CopyIn
  <2> QED BY <1>4, <1>6, <1>9, <2>1 DEF ProcIn
<1>17. NoneRuns
  BY <1>2, <1>9, RunsOn DEF mmu
<1>18. TlbStep(p)
  <2>1. StillCoherent(p)
    BY <1>9, <1>13, CoherentKept DEF StillCoherent
  <2> QED BY <1>2, <2>1, TlbSame
<1>19. Looks(mem, hand[p], mem', new)
  <2>1. \A x \in PresentIn(mem, hand[p]) :
           FrameIn(mem, hand[p], x) \in Ram /\ FrameIn(mem, hand[p], x) # f
    BY <1>3, <1>4, InFrames, InRam
  <2> QED BY <1>6, <1>8, <1>12, <2>1, LooksKept
<1>20. MemoryInv'
  BY <1>9, <1>10, <1>12, <1>13, <1>14, <1>15, <1>16, <1>17, <1>18, Assemble
<1> QED BY <1>9, <1>10, <1>13, <1>19, <1>20 DEF Alone

(* ...and a page.                                                          *)
LEMMA EarliestIn == ASSUME NEW S \in SUBSET Page, S # {} PROVE Earliest(S) \in S
<1> DEFINE Firsts == {a[1] : a \in S}
<1>1. \A a \in S : a[1] \in Nat /\ a[2] \in Nat
  BY SpacesAssumption DEF Page
<1>2. Firsts \in SUBSET Nat /\ Firsts # {}
  BY <1>1
<1> DEFINE i == Lowest(Firsts)
<1> HIDE DEF Firsts
<1>3. i \in Firsts /\ \A k \in Firsts : i <= k
  BY <1>2, LowestIn
<1> HIDE DEF i
<1> DEFINE Seconds == {a[2] : a \in {b \in S : b[1] = i}}
<1>4. Seconds \in SUBSET Nat /\ Seconds # {}
  BY <1>1, <1>3 DEF Firsts
<1> DEFINE j == Lowest(Seconds)
<1> HIDE DEF Seconds
<1>5. j \in Seconds /\ \A k \in Seconds : j <= k
  BY <1>4, LowestIn
<1> HIDE DEF j
<1>6. PICK a \in S : a[1] = i /\ a[2] = j
  BY <1>5 DEF Seconds
<1>7. \A b \in S : a[1] < b[1] \/ (a[1] = b[1] /\ a[2] <= b[2])
  <2> SUFFICES ASSUME NEW b \in S PROVE i < b[1] \/ (i = b[1] /\ j <= b[2])
    BY <1>6
  <2>1. i <= b[1]
    BY <1>3 DEF Firsts
  <2>2. b[1] = i => j <= b[2]
    BY <1>5 DEF Seconds
  <2>3. i \in Nat /\ b[1] \in Nat
    BY <1>1, <1>6
  <2> QED BY <2>1, <2>2, <2>3
<1>8. \E x \in S : \A b \in S : x[1] < b[1] \/ (x[1] = b[1] /\ x[2] <= b[2])
  BY <1>7
<1> QED BY <1>8 DEF Earliest

LEMMA CopyPageInv ==
    ASSUME Facts, NEW p \in Proc, CopyPage(p)
    PROVE  /\ MemoryInv' /\ Alone(p) /\ Looks(mem, vm[p], mem', vm[p])
           /\ Earliest(todo[p]) \in Page
           /\ Put(mem, mem', hand[p], Earliest(todo[p]), ContentIn(mem, vm[p], Earliest(todo[p])))
<1> DEFINE f == alloc_kpages(1)  pg == Earliest(todo[p])  t == hand[p].as_pte[pg[1]]
           pte == [frame |-> f, dirty |-> Entry(vm[p], pg).dirty]  x == Contents(p, pg)
<1>1. /\ pc[p] = "copy" /\ todo[p] # {} /\ pg[1] \in Tables(hand[p])
      /\ Take(f) /\ Writes(f, x, t, pg[2], pte)
      /\ todo' = [todo EXCEPT ![p] = todo[p] \ {pg}]
      /\ UNCHANGED <<vm, hand, pc, arg, mmu, blocks, made, kernel>>
  BY DEF CopyPage, At, Set, Writes
<1>2. f \in Ram /\ f \in Frame /\ TableOK'
      /\ \A q \in Proc : f \notin FramesIn(mem, vm[q]) /\ f \notin FramesIn(mem, hand[q])
  BY <1>1, Fresh
<1>3. /\ vm[p] # NULL /\ hand[p] # NULL /\ arg[p] = NoArg
      /\ CopyIn(mem, vm[p], hand[p], todo[p])
      /\ hand[p] \in Addrspace /\ TidyIn(mem, hand[p]) /\ TidyIn(mem, vm[p])
      /\ todo[p] \in SUBSET Page
  BY <1>1 DEF Facts, ProcsIn, ProcIn, TypeOK, TidyAll
<1>4. pg \in todo[p]
  BY <1>1, <1>3, EarliestIn
<1> HIDE DEF pg
<1>5. pg \in Page /\ pg[1] \in Msb /\ pg[2] \in Lsb
  BY <1>3, <1>4 DEF Page
<1>6. /\ pg[1] \in Live(hand[p]) /\ EntryIn(mem, hand[p], pg) = NULL
      /\ pg \in PresentIn(mem, vm[p])
  BY <1>1, <1>3, <1>4 DEF CopyIn, Live
<1>7. /\ Entry(vm[p], pg) = EntryIn(mem, vm[p], pg) /\ EntryIn(mem, vm[p], pg) \in PTE
  BY <1>3, <1>5, <1>6, EntryIs, EntryOK DEF PresentIn
<1>8. pte \in PTE /\ pte.frame = f
  BY <1>2, <1>7 DEF PTE
<1>9. x \in Cell
  <2>1. FrameIn(mem, vm[p], pg) \in Ram
    BY <1>3, <1>6, InFrames, InRam
  <2>2. Contents(p, pg) = mem[FrameIn(mem, vm[p], pg)]
    BY <1>7 DEF Contents, FrameIn
  <2> QED BY <2>1, <2>2 DEF Facts, TypeOK, Cell
<1>10. x = ContentIn(mem, vm[p], pg)
  BY <1>6, <1>7 DEF Contents, FrameIn, ContentIn, PresentIn
<1> HIDE DEF f, pte, x
<1>11. t \in FramesIn(mem, hand[p]) /\ t \in Ram /\ t # f
  BY <1>2, <1>3, <1>6, InFrames, InRam
<1>12. mem[t] \in [Lsb -> PTE \cup {NULL}] /\ t = hand[p].as_pte[pg[1]]
  BY <1>3, <1>6 DEF TidyIn, TablesIn
<1> HIDE DEF t
<1>13. /\ mem' \in [Ram -> Cell] /\ mem'[f] = x /\ EntrySet(mem, mem', t, pg[2], pte)
       /\ \A g \in Ram : g \notin {f, t} => mem'[g] = mem[g]
  <2>1. TypeOK
    BY DEF Facts
  <2> QED BY <1>1, <1>2, <1>5, <1>8, <1>9, <1>11, <1>12, <2>1, Written
<1>14. /\ mem' \in [Ram -> Cell] /\ EntrySet(mem, mem', t, pg[2], pte)
       /\ \A g \in Ram : g \notin {f, t} => mem'[g] = mem[g]
  BY <1>13
<1>15. \A n \in Live(hand[p]) :
          hand[p].as_pte[n] # t => mem'[hand[p].as_pte[n]] = mem[hand[p].as_pte[n]]
  <2>1. \A n \in Live(hand[p]) : hand[p].as_pte[n] \in FramesIn(mem, hand[p])
    BY <1>3, InFrames
  <2>2. \A n \in Live(hand[p]) : hand[p].as_pte[n] \in Ram /\ hand[p].as_pte[n] # f
    BY <1>2, <2>1, InRam
  <2> QED BY <1>14, <2>2
<1>16. /\ TidyIn(mem', hand[p])
       /\ FramesIn(mem', hand[p]) = FramesIn(mem, hand[p]) \cup {f}
       /\ \A y \in Page : y # pg => EntryIn(mem', hand[p], y) = EntryIn(mem, hand[p], y)
  <2>1. pte.frame \notin FramesIn(mem, hand[p])
    BY <1>2, <1>8
  <2>2. EntryIn(mem, hand[p], pg) = NULL /\ pg[1] \in Live(hand[p])
    BY <1>6
  <2> QED BY <1>3, <1>5, <1>8, <1>12, <1>14, <1>15, <2>1, <2>2, AddsPage
<1>17. EntryIn(mem', hand[p], pg) = pte
  <2>1. mem[t] \in [Lsb -> PTE \cup {NULL}] /\ mem'[t] = [mem[t] EXCEPT ![pg[2]] = pte]
    BY <1>12, <1>14 DEF EntrySet
  <2> QED BY <1>5, <1>6, <1>12, <2>1 DEF EntryIn
<1>18. /\ todo'[p] = todo[p] \ {pg} /\ pc'[p] = "copy" /\ arg'[p] = arg[p]
       /\ vm'[p] = vm[p] /\ hand'[p] = hand[p]
       /\ \A q \in Proc : q # p => vm'[q] = vm[q] /\ pc'[q] = pc[q] /\ arg'[q] = arg[q]
                                   /\ hand'[q] = hand[q] /\ todo'[q] = todo[q]
  BY <1>1 DEF Facts, TypeOK
<1>19. \A q \in Proc : /\ {f, t} \cap FramesIn(mem, vm[q]) = {}
                       /\ q # p => {f, t} \cap FramesIn(mem, hand[q]) = {}
  BY <1>2, <1>11, OneOwner
<1>20. OnlyOf(p, {f, t})
  BY <1>14, <1>18, <1>19 DEF OnlyOf
<1>21. /\ FramesIn(mem', vm[p]) = FramesIn(mem, vm[p])
       /\ SameTables(mem, mem', vm[p]) /\ TidyIn(mem', vm[p])
       /\ PresentIn(mem', vm[p]) = PresentIn(mem, vm[p])
       /\ Looks(mem, vm[p], mem', vm[p])
  BY <1>3, <1>14, <1>19, Untouched
<1>22. Balanced(OwnIn(mem', vm', hand'), blocks', frame_table')
  <2>1. /\ FramesIn(mem', vm'[p]) = FramesIn(mem, vm[p])
        /\ FramesIn(mem', hand'[p]) = FramesIn(mem, hand[p]) \cup {f}
    BY <1>16, <1>18, <1>21
  <2>2. f = alloc_kpages(1)
    BY DEF f
  <2> QED BY <1>1, <1>20, <2>1, <2>2, BooksTake
<1>23. TypeOK'
  <2>1. todo' \in [Proc -> SUBSET Page]
    BY <1>1 DEF Facts, TypeOK
  <2> QED BY <1>1, <1>2, <1>14, <2>1 DEF Facts, TypeOK, TableOK, Cell, mmu
<1>24. ProcIn(mem', vm'[p], hand'[p], pc'[p], arg'[p], todo'[p])
  <2>1. CopyIn(mem', vm[p], hand[p], todo[p] \ {pg})
    BY <1>3, <1>16, <1>21 DEF CopyIn
  <2> QED BY <1>3, <1>18, <2>1 DEF ProcIn
<1>25. NoneRuns
  BY <1>1, <1>18, RunsOn DEF mmu
<1>26. TlbStep(p)
  <2>1. StillCoherent(p)
    BY <1>18, <1>21, CoherentKept DEF StillCoherent
  <2> QED BY <1>1, <2>1, TlbSame
<1>27. Put(mem, mem', hand[p], pg, x)
  <2>1. ContentIn(mem', hand[p], pg) = x
    BY <1>8, <1>13, <1>17, NullAssumption DEF ContentIn, FrameIn
  <2>2. ASSUME NEW y \in Page, y # pg
        PROVE  ContentIn(mem', hand[p], y) = ContentIn(mem, hand[p], y)
    <3>1. EntryIn(mem', hand[p], y) = EntryIn(mem, hand[p], y)
      BY <1>16, <2>2
    <3>2. CASE EntryIn(mem, hand[p], y) = NULL
      BY <3>1, <3>2 DEF ContentIn
    <3>3. CASE EntryIn(mem, hand[p], y) # NULL
      <4>1. y \in PresentIn(mem, hand[p])
        BY <3>3 DEF PresentIn
      <4>2. FrameIn(mem, hand[p], y) \in FramesIn(mem, hand[p])
        BY <1>3, <4>1, InFrames
      <4>3. FrameIn(mem, hand[p], y) \in Ram /\ FrameIn(mem, hand[p], y) # f
        BY <1>2, <4>2, InRam
      <4>4. FrameIn(mem, hand[p], y) # t
        BY <1>3, <1>6, <1>12, <4>1 DEF TidyIn, PagesIn
      <4> QED BY <1>14, <3>1, <4>3, <4>4 DEF ContentIn, FrameIn
    <3> QED BY <3>2, <3>3
  <2> QED BY <2>1, <2>2 DEF Put
<1>28. MemoryInv'
  BY <1>16, <1>18, <1>20, <1>21, <1>22, <1>23, <1>24, <1>25, <1>26, Assemble
<1> QED BY <1>5, <1>20, <1>21, <1>27, <1>28, <1>10 DEF Alone, pg

-----------------------------------------------------------------------------
(* vm_freePTE: a table and its pages...                                    *)
LEMMA DestroyTableInv ==
    ASSUME Facts, NEW p \in Proc, DestroyTable(p)
    PROVE  /\ MemoryInv' /\ Alone(p)
           /\ vm[p] # NULL => Looks(mem, vm[p], mem', vm[p])
<1> DEFINE pages(m) == {Entry(hand[p], <<m, l>>) : l \in Lsb} \ {NULL}
           freed(m) == {e.frame : e \in pages(m)} \cup {hand[p].as_pte[m]}
<1>1. /\ pc[p] = "destroy"
      /\ UNCHANGED <<vm, pc, arg, todo, mmu, blocks, made>>
      /\ \E m \in Msb :
           /\ FirstTable(p, m)
           /\ \/ /\ m \notin hand[p].gone /\ Release(freed(m))
                 /\ hand' = [hand EXCEPT ![p] = With(hand[p], m, NULL)]
                 /\ UNCHANGED kernel
              \/ kernel' = "double_free" /\ UNCHANGED <<frame_table, mem, hand>>
  BY DEF DestroyTable, At, local, With
<1>2. PICK m \in Msb :
           /\ FirstTable(p, m)
           /\ \/ /\ m \notin hand[p].gone /\ Release(freed(m))
                 /\ hand' = [hand EXCEPT ![p] = With(hand[p], m, NULL)]
                 /\ UNCHANGED kernel
              \/ kernel' = "double_free" /\ UNCHANGED <<frame_table, mem, hand>>
  BY <1>1
<1>3. CASE kernel' = "double_free" /\ UNCHANGED <<frame_table, mem, hand>>
  <2>1. MemoryInv'
    BY <1>1, <1>3, EndsInv DEF End, local
  <2>2. OnlyOf(p, {})
    BY <1>1, <1>3 DEF OnlyOf
  <2> QED BY <1>3, <2>1, <2>2 DEF Alone, Looks
<1> DEFINE new == With(hand[p], m, NULL)  S == freed(m)
<1>4. CASE /\ m \notin hand[p].gone /\ Release(S)
           /\ hand' = [hand EXCEPT ![p] = new]
           /\ UNCHANGED kernel
  <2>1. /\ hand[p] # NULL /\ DestroyIn(vm[p], arg[p])
        /\ hand[p] \in Addrspace /\ TidyIn(mem, hand[p])
    BY <1>1 DEF Facts, ProcsIn, ProcIn, TypeOK, TidyAll
  <2>2. m \in Live(hand[p])
    BY <1>2, <1>4 DEF FirstTable, Live
  <2>3. OfTable(mem, hand[p], m, S)
    <3> SUFFICES ASSUME NEW g
                 PROVE  g \in S <=> \/ g = hand[p].as_pte[m]
                                    \/ \E x \in PresentIn(mem, hand[p]) :
                                          x[1] = m /\ g = FrameIn(mem, hand[p], x)
      BY DEF OfTable
    <3>1. \A l \in Lsb : <<m, l>> \in Page /\ <<m, l>>[1] = m
                         /\ Entry(hand[p], <<m, l>>) = EntryIn(mem, hand[p], <<m, l>>)
      BY EntryIs DEF Page
    <3>2. ASSUME NEW e \in pages(m), g = e.frame
          PROVE  \E x \in PresentIn(mem, hand[p]) : x[1] = m /\ g = FrameIn(mem, hand[p], x)
      <4>1. PICK l \in Lsb : e = Entry(hand[p], <<m, l>>) /\ e # NULL
        BY <3>2
      <4>2. <<m, l>> \in PresentIn(mem, hand[p]) /\ g = FrameIn(mem, hand[p], <<m, l>>)
        BY <3>1, <3>2, <4>1 DEF PresentIn, FrameIn
      <4> QED BY <3>1, <4>2
    <3>3. ASSUME NEW x \in PresentIn(mem, hand[p]), x[1] = m, g = FrameIn(mem, hand[p], x)
          PROVE  \E e \in pages(m) : g = e.frame
      <4>1. x = <<m, x[2]>> /\ x[2] \in Lsb
        BY <3>3 DEF PresentIn, Page
      <4>2. EntryIn(mem, hand[p], x) \in pages(m)
        BY <3>1, <3>3, <4>1 DEF PresentIn
      <4> QED BY <3>3, <4>2 DEF FrameIn
    <3> HIDE DEF pages
    <3> QED BY <3>2, <3>3
  <2> HIDE DEF S
  <2>4. /\ new \in Addrspace /\ new # NULL
        /\ new.root = hand[p].root /\ new.as_regions = hand[p].as_regions
        /\ new.gone = hand[p].gone /\ new.as_pte[m] = NULL
        /\ \A n \in Msb : n # m => new.as_pte[n] = hand[p].as_pte[n]
    BY <2>1, Extended
  <2> HIDE DEF new
  <2>5. Tables(new) = Tables(hand[p]) \ {m} /\ Live(new) = Live(hand[p]) \ {m}
    BY <2>4 DEF Tables, Live
  <2>6. S \subseteq FramesIn(mem, hand[p])
    BY <2>1, <2>2, <2>3, InFrames DEF OfTable
  <2>7. /\ S \subseteq Ram /\ TableOK' /\ Frees(frame_table, frame_table', S)
        /\ mem' = [f \in Ram |-> IF f \in S THEN JUNK ELSE mem[f]]
    BY <1>4, <2>6, Releases
  <2>8. \A g \in Ram : g \notin S => mem'[g] = mem[g]
    BY <2>7
  <2>9. Shrinks(mem, mem', hand[p], new, m)
    <3>1. \A n \in Live(new) : n \in Msb /\ n # m /\ n \in Live(hand[p])
      BY <2>5 DEF Live, Tables
    <3>2. \A n \in Live(new) : hand[p].as_pte[n] \in Ram
      BY <2>1, <3>1, InFrames, InRam
    <3>3. \A n \in Live(new) : hand[p].as_pte[n] \notin S
      BY <2>1, <2>2, <2>3, <3>1 DEF OfTable, TidyIn, TablesIn, PagesIn
    <3>4. new.gone \subseteq Tables(new)
      BY <1>4, <2>1, <2>4, <2>5 DEF TidyIn, TablesIn
    <3> QED BY <2>2, <2>4, <2>5, <2>8, <3>1, <3>2, <3>3, <3>4 DEF Shrinks
  <2>10. TidyIn(mem', new) /\ Loses(FramesIn(mem, hand[p]), FramesIn(mem', new), S)
    BY <2>1, <2>3, <2>4, <2>9, DropsTable
  <2>11. /\ vm'[p] = vm[p] /\ hand'[p] = new /\ pc'[p] = pc[p] /\ arg'[p] = arg[p]
         /\ \A q \in Proc : q # p => vm'[q] = vm[q] /\ pc'[q] = pc[q] /\ arg'[q] = arg[q]
                                     /\ hand'[q] = hand[q] /\ todo'[q] = todo[q]
    BY <1>1, <1>4 DEF Facts, TypeOK
  <2>12. \A q \in Proc : /\ S \cap FramesIn(mem, vm[q]) = {}
                         /\ q # p => S \cap FramesIn(mem, hand[q]) = {}
    BY <2>6, OneOwner
  <2>13. OnlyOf(p, S)
    BY <1>1, <2>8, <2>11, <2>12 DEF OnlyOf
  <2>14. /\ FramesIn(mem', vm[p]) = FramesIn(mem, vm[p])
         /\ vm[p] # NULL => /\ TidyIn(mem', vm[p]) /\ SameTables(mem, mem', vm[p])
                           /\ Looks(mem, vm[p], mem', vm[p])
    BY <2>8, <2>12, Untouched
  <2>15. Balanced(OwnIn(mem', vm', hand'), blocks', frame_table')
    <3>1. /\ FramesIn(mem', vm'[p]) = FramesIn(mem, vm[p])
          /\ FramesIn(mem', hand'[p]) = FramesIn(mem, hand[p]) \ S
      BY <2>10, <2>11, <2>14 DEF Loses
    <3> QED BY <1>1, <2>6, <2>7, <2>13, <3>1, BooksGive
  <2>16. TypeOK'
    <3>1. mem' \in [Ram -> Value \cup {JUNK} \cup [Lsb -> PTE \cup {NULL}]]
      BY <2>7 DEF Facts, TypeOK
    <3>2. hand' \in [Proc -> Addrspace \cup {NULL}]
      BY <1>4, <2>4 DEF Facts, TypeOK
    <3> QED BY <1>1, <1>4, <2>7, <3>1, <3>2 DEF Facts, TypeOK, TableOK, mmu
  <2>17. ProcIn(mem', vm'[p], hand'[p], pc'[p], arg'[p], todo'[p])
    BY <1>1, <2>1, <2>4, <2>11 DEF ProcIn
  <2>18. NoneRuns
    BY <1>1, <2>11, RunsOn DEF mmu
  <2>19. TlbStep(p)
    <3>1. StillCoherent(p)
      BY <2>11, <2>14, CoherentKept DEF StillCoherent
    <3> QED BY <1>1, <3>1, TlbSame
  <2>20. MemoryInv'
    BY <2>10, <2>11, <2>13, <2>14, <2>15, <2>16, <2>17, <2>18, <2>19, Assemble
  <2> QED BY <2>13, <2>14, <2>20 DEF Alone
<1> QED BY <1>2, <1>3, <1>4

(* ...and the first level.                                                 *)
LEMMA DestroyRootInv ==
    ASSUME Facts, NEW p \in Proc, DestroyRoot(p)
    PROVE  /\ MemoryInv' /\ Alone(p)
           /\ vm[p] # NULL => Looks(mem, vm[p], mem', vm[p])
<1> DEFINE r == hand[p].root
<1>1. /\ pc[p] = "destroy" /\ To(p, arg[p].ret) /\ Leaves(p, arg[p].ret)
      /\ arg' = [arg EXCEPT ![p] = NoArg] /\ Tables(hand[p]) = {}
      /\ Release({r}) /\ hand' = [hand EXCEPT ![p] = NULL]
      /\ UNCHANGED <<vm, todo, tlb, blocks, made, kernel>>
  BY DEF DestroyRoot, Go, At, Set
<1>2. hand[p] # NULL /\ DestroyIn(vm[p], arg[p])
  BY <1>1 DEF Facts, ProcsIn, ProcIn
<1>3. FramesIn(mem, hand[p]) = {r}
  <2>1. Live(hand[p]) = {}
    BY <1>1 DEF Live
  <2>2. PresentIn(mem, hand[p]) = {}
    BY <2>1 DEF PresentIn, EntryIn
  <2>3. \A g : g \in FramesIn(mem, hand[p]) <=> g = r
    BY <1>2, <2>1, <2>2, InFrames
  <2> QED BY <2>3
<1> HIDE DEF r
<1>4. /\ {r} \subseteq Ram /\ TableOK' /\ Frees(frame_table, frame_table', {r})
      /\ mem' = [f \in Ram |-> IF f \in {r} THEN JUNK ELSE mem[f]]
  <2>1. {r} \subseteq FramesIn(mem, hand[p])
    BY <1>3
  <2> QED BY <1>1, <2>1, Releases
<1>5. \A g \in Ram : g \notin {r} => mem'[g] = mem[g]
  BY <1>4
<1>6. /\ vm'[p] = vm[p] /\ hand'[p] = NULL /\ pc'[p] = arg[p].ret /\ arg'[p] = NoArg
      /\ \A q \in Proc : q # p => vm'[q] = vm[q] /\ pc'[q] = pc[q] /\ arg'[q] = arg[q]
                                  /\ hand'[q] = hand[q] /\ todo'[q] = todo[q]
  BY <1>1 DEF Facts, TypeOK, To
<1>7. \A q \in Proc : /\ {r} \cap FramesIn(mem, vm[q]) = {}
                      /\ q # p => {r} \cap FramesIn(mem, hand[q]) = {}
  BY <1>3, OneOwner
<1>8. OnlyOf(p, {r})
  BY <1>5, <1>6, <1>7 DEF OnlyOf
<1>9. /\ FramesIn(mem', vm[p]) = FramesIn(mem, vm[p])
      /\ vm[p] # NULL => /\ TidyIn(mem', vm[p]) /\ SameTables(mem, mem', vm[p])
                         /\ Looks(mem, vm[p], mem', vm[p])
  BY <1>5, <1>7, Untouched
<1>10. Balanced(OwnIn(mem', vm', hand'), blocks', frame_table')
  <2>1. /\ {r} \subseteq FramesIn(mem, hand[p])
        /\ FramesIn(mem', vm'[p]) = FramesIn(mem, vm[p])
        /\ FramesIn(mem', hand'[p]) = FramesIn(mem, hand[p]) \ {r}
    BY <1>3, <1>6, <1>9, NoFrames
  <2> QED BY <1>1, <1>4, <1>8, <2>1, BooksGive
<1>11. StillCoherent(p)
  BY <1>6, <1>9, CoherentKept DEF StillCoherent
<1>12. /\ TlbStep(p) /\ on' \in [Cpu -> Proc \cup {NULL}]
       /\ \A c \in Cpu : on'[c] \in {on[c], NULL}
       /\ arg[p].ret = "none" => \A c \in Cpu : on'[c] # p
  BY <1>1, <1>11, TlbLeft
<1>13. TypeOK'
  <2>1. mem' \in [Ram -> Value \cup {JUNK} \cup [Lsb -> PTE \cup {NULL}]]
    BY <1>4 DEF Facts, TypeOK
  <2>2. hand' \in [Proc -> Addrspace \cup {NULL}]
    BY <1>1 DEF Facts, TypeOK
  <2>3. pc' \in [Proc -> Place]
    BY <1>1, <1>2 DEF Facts, TypeOK, To, Place, DestroyIn
  <2>4. arg' \in [Proc -> [ret : {"user", "load", "argv", "exit", "none"},
                           page : Page, flag : BOOLEAN]]
    BY <1>1, SpacesAssumption DEF Facts, TypeOK, NoArg
  <2> QED BY <1>1, <1>4, <1>12, <2>1, <2>2, <2>3, <2>4 DEF Facts, TypeOK, TableOK
<1>14. ProcIn(mem', vm'[p], hand'[p], pc'[p], arg'[p], todo'[p])
  BY <1>2, <1>6 DEF ProcIn, DestroyIn
<1>15. NoneRuns
  <2> SUFFICES ASSUME NEW q \in Proc, pc'[q] = "none", NEW c \in Cpu PROVE on'[c] # q
    BY DEF NoneRuns
  <2>1. CASE q = p
    BY <1>6, <1>12, <2>1
  <2>2. CASE q # p
    <3>1. on[c] # q /\ q # NULL
      BY <1>6, <2>2, SpacesAssumption DEF Facts, ProcsIn
    <3> QED BY <1>12, <3>1
  <2> QED BY <2>1, <2>2
<1>16. MemoryInv'
  BY <1>6, <1>8, <1>9, <1>10, <1>12, <1>13, <1>14, <1>15, Assemble
<1> QED BY <1>8, <1>9, <1>16 DEF Alone

-----------------------------------------------------------------------------
(* The child gets the copy.                                                *)
LEMMA ForkDoneInv ==
    ASSUME Facts, NEW p \in Proc, NEW q \in Proc, ForkDone(p, q) PROVE MemoryInv'
<1>1. /\ pc[p] = "copy" /\ pc[q] = "none" /\ pc' = [pc EXCEPT ![p] = "user", ![q] = "user"]
      /\ vm' = [vm EXCEPT ![q] = hand[p]] /\ hand' = [hand EXCEPT ![p] = NULL]
      /\ UNCHANGED <<frame_table, mem, arg, todo, on, tlb, blocks, made, kernel>>
  BY DEF ForkDone, At, Set, local, mmu
<1>2. /\ p # q /\ vm[p] # NULL /\ hand[p] # NULL /\ arg[p] = NoArg
      /\ vm[q] = NULL /\ hand[q] = NULL /\ arg[q] = NoArg /\ \A c \in Cpu : on[c] # q
  BY <1>1 DEF Facts, ProcsIn, ProcIn
<1>3. /\ pc'[p] = "user" /\ vm'[p] = vm[p] /\ hand'[p] = NULL
      /\ pc'[q] = "user" /\ vm'[q] = hand[p] /\ hand'[q] = NULL
  BY <1>1, <1>2 DEF Facts, TypeOK
<1>4. \A z \in Proc : z # p /\ z # q => pc'[z] = pc[z] /\ vm'[z] = vm[z] /\ hand'[z] = hand[z]
  BY <1>1 DEF Facts, TypeOK
<1>5. TypeOK'
  <2>1. vm' \in [Proc -> Addrspace \cup {NULL}] /\ hand' \in [Proc -> Addrspace \cup {NULL}]
    BY <1>1 DEF Facts, TypeOK
  <2>2. pc' \in [Proc -> Place]
    BY <1>1 DEF Facts, TypeOK, Place
  <2> QED BY <1>1, <2>1, <2>2 DEF Facts, TypeOK
<1>6. ProcsIn'
  <2> SUFFICES ASSUME NEW z \in Proc
               PROVE  /\ ProcIn(mem', vm'[z], hand'[z], pc'[z], arg'[z], todo'[z])
                      /\ pc'[z] = "none" => \A c \in Cpu : on'[c] # z
    BY DEF ProcsIn
  <2>1. CASE z = p
    BY <1>1, <1>2, <1>3, <2>1 DEF ProcIn
  <2>2. CASE z = q
    BY <1>1, <1>2, <1>3, <2>2 DEF ProcIn
  <2>3. CASE z # p /\ z # q
    BY <1>1, <1>4, <2>3 DEF Facts, ProcsIn
  <2> QED BY <2>1, <2>2, <2>3
<1>7. TidyAll'
  <2> SUFFICES ASSUME NEW z \in Proc
               PROVE  /\ vm'[z] # NULL => TidyIn(mem', vm'[z])
                      /\ hand'[z] # NULL => TidyIn(mem', hand'[z])
    BY DEF TidyAll
  <2>1. \A y \in Proc : /\ vm[y] # NULL => TidyIn(mem, vm[y])
                        /\ hand[y] # NULL => TidyIn(mem, hand[y])
    BY DEF Facts, TidyAll
  <2>2. mem' = mem
    BY <1>1
  <2> QED BY <1>3, <1>4, <2>1, <2>2
<1>8. Coherent'
  <2> SUFFICES ASSUME NEW c \in Cpu, on'[c] # NULL
               PROVE  CoherentIn(mem', vm'[on'[c]], tlb'[c])
    BY DEF Coherent
  <2>1. on'[c] = on[c] /\ tlb'[c] = tlb[c] /\ mem' = mem /\ on[c] # q /\ on[c] \in Proc
    BY <1>1, <1>2 DEF Facts, TypeOK
  <2>2. vm'[on[c]] = vm[on[c]]
    BY <1>3, <1>4, <2>1
  <2>3. CoherentIn(mem, vm[on[c]], tlb[c])
    BY <2>1 DEF Facts, Coherent
  <2> QED BY <2>1, <2>2, <2>3
<1>9. Books'
  <2> DEFINE O == OwnIn(mem, vm, hand)  O2 == OwnIn(mem', vm', hand')
             s == <<"vm", q>>  r == <<"hand", p>>
  <2>1. O2[s] = O[r] /\ O2[r] = O[s]
    <3>1. /\ FramesIn(mem', vm'[q]) = FramesIn(mem, hand[p])
          /\ FramesIn(mem', hand'[p]) = FramesIn(mem, vm[q])
      BY <1>1, <1>2, <1>3
    <3> QED BY <3>1, Owns
  <2>2. \A t \in Slot : t # s /\ t # r => O2[t] = O[t]
    <3> SUFFICES ASSUME NEW t \in Slot, t # s, t # r PROVE O2[t] = O[t]
      OBVIOUS
    <3>1. PICK z \in Proc : t = <<"vm", z>> \/ t = <<"hand", z>>
      BY Slots
    <3>2. CASE t = <<"vm", z>>
      <4>1. vm'[z] = vm[z] /\ mem' = mem
        BY <1>1, <1>3, <1>4, <3>2
      <4> QED BY <3>2, <4>1, Owns
    <3>3. CASE t = <<"hand", z>>
      <4>1. hand'[z] = hand[z] /\ mem' = mem
        BY <1>1, <1>2, <1>3, <1>4, <3>3
      <4> QED BY <3>3, <4>1, Owns
    <3> QED BY <3>1, <3>2, <3>3
  <2>3. Balanced(O, blocks, frame_table)
    BY DEF Facts, Books
  <2>4. s \in Slot /\ r \in Slot /\ s # r
    BY Slots
  <2> HIDE DEF O, O2, s, r
  <2>5. Balanced(O2, blocks, frame_table)
    BY <2>1, <2>2, <2>3, <2>4, BalancedSwap
  <2>6. blocks' = blocks /\ frame_table' = frame_table
    BY <1>1
  <2> QED BY <2>5, <2>6 DEF O2, Books
<1> QED BY <1>5, <1>6, <1>7, <1>8, <1>9, FormsNext DEF Facts

-----------------------------------------------------------------------------
(* The blocks of the rest of the kernel.                                   *)
MarksBlock(ft, ft2, b) ==
    /\ \A g \in InBlock(b) : /\ g \in Ram /\ ~ft[g].allocated /\ ft2[g].allocated
                             /\ ft2[g].not_last <=> g + 1 \in InBlock(b)
    /\ \A g \in Ram : g \notin InBlock(b) => ft2[g] = ft[g]

LEMMA BalancedNew ==
    ASSUME NEW O, NEW B, NEW ft, Balanced(O, B, ft), NEW b, NEW ft2, MarksBlock(ft, ft2, b)
    PROVE  Balanced(O, B \cup {b}, ft2)
<1>1. \A g \in InBlock(b) : /\ g \in Ram
                            /\ \A s \in Slot : g \notin O[s]
                            /\ \A d \in B : g \notin InBlock(d)
  BY DEF Balanced, MarksBlock
<1>2. /\ InBlock(b) \subseteq Ram
      /\ \A s \in Slot : InBlock(b) \cap O[s] = {}
      /\ \A d \in B : InBlock(b) \cap InBlock(d) = {}
  BY <1>1
<1>3. \A d \in B \cup {b} :
         /\ InBlock(d) \subseteq Ram
         /\ \A s \in Slot : InBlock(d) \cap O[s] = {}
         /\ \A e \in B \cup {b} : d # e => InBlock(d) \cap InBlock(e) = {}
  BY <1>2 DEF Balanced
<1>4. \A g \in Ram : ft2[g].allocated <=> \/ \E s \in Slot : g \in O[s]
                                         \/ \E d \in B \cup {b} : g \in InBlock(d)
  BY DEF Balanced, MarksBlock
<1>5. \A g \in Ram : ft2[g].allocated =>
        (ft2[g].not_last <=> \E d \in B \cup {b} : g \in InBlock(d) /\ g + 1 \in InBlock(d))
  BY <1>1 DEF Balanced, MarksBlock
<1> QED BY <1>3, <1>4, <1>5 DEF Balanced

LEMMA BalancedOld ==
    ASSUME NEW O, NEW B, NEW ft, Balanced(O, B, ft), NEW b \in B, NEW ft2,
           Frees(ft, ft2, InBlock(b))
    PROVE  Balanced(O, B \ {b}, ft2)
<1>1. \A g \in InBlock(b) : /\ \A s \in Slot : g \notin O[s]
                            /\ \A d \in B \ {b} : g \notin InBlock(d)
  BY DEF Balanced
<1>2. \A g \in Ram : ft2[g].allocated <=> \/ \E s \in Slot : g \in O[s]
                                         \/ \E d \in B \ {b} : g \in InBlock(d)
  BY <1>1 DEF Balanced, Frees
<1>3. \A g \in Ram : ft2[g].allocated =>
        (ft2[g].not_last <=> \E d \in B \ {b} : g \in InBlock(d) /\ g + 1 \in InBlock(d))
  BY <1>1 DEF Balanced, Frees
<1> QED BY <1>2, <1>3 DEF Balanced

(* Nothing but blocks changes.                                             *)
LEMMA NoSpaceChanges ==
    ASSUME Facts, TypeOK', UNCHANGED <<vm, hand, pc, arg, todo, on, tlb>>,
           NEW W, \A q \in Proc : W \cap FramesIn(mem, vm[q]) = {} /\ W \cap FramesIn(mem, hand[q]) = {},
           \A f \in Ram : f \notin W => mem'[f] = mem[f],
           Balanced(OwnIn(mem, vm, hand), blocks', frame_table')
    PROVE  MemoryInv' /\ Alone(NULL)
<1>1. OnlyOf(NULL, W)
  BY DEF OnlyOf
<1>2. \A q \in Proc : q # NULL
  BY SpacesAssumption
<1>3. ProcsIn'
  <2>1. \A q \in Proc : ProcIn(mem', vm'[q], hand'[q], pc'[q], arg'[q], todo'[q])
    BY <1>1, <1>2, Others
  <2>2. \A q \in Proc : pc'[q] = "none" => \A c \in Cpu : on'[c] # q
    BY DEF Facts, ProcsIn
  <2> QED BY <2>1, <2>2 DEF ProcsIn
<1>4. TidyAll'
  BY <1>1, <1>2, Others DEF TidyAll
<1>5. Coherent'
  <2> SUFFICES ASSUME NEW c \in Cpu, on[c] # NULL
               PROVE  CoherentIn(mem', vm'[on[c]], tlb[c])
    BY DEF Coherent
  <2>1. on[c] \in Proc /\ CoherentIn(mem, vm[on[c]], tlb[c])
    BY DEF Facts, TypeOK, Coherent
  <2> QED BY <1>1, <1>2, <2>1, Others
<1>6. Books'
  <2> DEFINE O == OwnIn(mem, vm, hand)  O2 == OwnIn(mem', vm', hand')
  <2>1. \A s \in Slot : O2[s] = O[s]
    <3> SUFFICES ASSUME NEW s \in Slot PROVE O2[s] = O[s]
      OBVIOUS
    <3>1. s # <<"vm", NULL>> /\ s # <<"hand", NULL>>
      BY <1>2, Slots
    <3> QED BY <1>1, <3>1, OthersOwn
  <2>2. Balanced(O, blocks', frame_table')
    OBVIOUS
  <2> HIDE DEF O, O2
  <2>3. Balanced(O2, blocks', frame_table')
    BY <2>1, <2>2 DEF Balanced
  <2> QED BY <2>3 DEF O2, Books
<1> QED BY <1>1, <1>3, <1>4, <1>5, <1>6, FormsNext DEF Facts, Alone

LEMMA KernelAllocInv ==
    ASSUME Facts, NEW n \in KernelSizes, KernelAlloc(n) PROVE MemoryInv'
<1> DEFINE f == alloc_kpages(n)  b == <<f, n>>  O == OwnIn(mem, vm, hand)
<1>1. n \in Nat \ {0}
  BY FrameAssumption, SpacesAssumption
<1>2. /\ f # NoFrame /\ frame_table' = Mark(f, n) /\ blocks' = blocks \cup {b}
      /\ UNCHANGED <<mem, vm, hand, pc, arg, todo, on, tlb, made, kernel>>
  BY DEF KernelAlloc, local, mmu
<1>3. \A g \in f .. f + n - 1 : g \in Ram /\ IsFree(g)
  BY <1>1, <1>2, AllocatesRun
<1>4. f \in Ram \cup {NoFrame}
  <2>1. ASSUME NEW S \in SUBSET Nat PROVE S # {} => Lowest(S) \in S
    BY <2>1, LowestIn
  <2>2. alloc_one_frame \in Ram \cup {NoFrame}
    <3> DEFINE free == {g \in Ram : IsFree(g)}
    <3>1. free \in SUBSET Nat /\ free \subseteq Ram
      BY Rams
    <3>2. alloc_one_frame = IF free = {} THEN NoFrame ELSE Lowest(free)
      BY DEF alloc_one_frame
    <3> HIDE DEF free
    <3> QED BY <2>1, <3>1, <3>2
  <2>3. alloc_multiple_frames(n) \in Ram \cup {NoFrame}
    <3> DEFINE fits == {i \in Starts(n) : FreeRun(i, n)}
    <3>1. fits \in SUBSET Nat /\ fits \subseteq Ram
      BY <1>1, FrameAssumption DEF Starts, Ram
    <3>2. alloc_multiple_frames(n) = IF fits = {} THEN NoFrame ELSE Lowest(fits)
      BY DEF alloc_multiple_frames
    <3> HIDE DEF fits
    <3> QED BY <2>1, <3>1, <3>2
  <2> QED BY <2>2, <2>3 DEF alloc_kpages
<1> HIDE DEF f
<1>5. f \in Ram /\ f \in Nat
  BY <1>2, <1>4, Rams
<1>6. f + n - 1 \in f .. f + n - 1
  BY <1>1, <1>5
<1>7. /\ TableOK'
      /\ \A g \in f .. f + n - 1 : /\ frame_table'[g].allocated
                                   /\ frame_table'[g].not_last <=> g # f + n - 1
      /\ \A g \in Ram : g \notin f .. f + n - 1 => frame_table'[g] = frame_table[g]
  <2>1. TableOK
    BY DEF Facts, TypeOK, TableOK
  <2> QED BY <1>1, <1>2, <1>3, <1>5, <1>6, <2>1, MarksRun
<1>8. InBlock(b) = f .. f + n - 1
  BY DEF InBlock
<1>9. \A g \in f .. f + n - 1 : g # f + n - 1 <=> g + 1 \in f .. f + n - 1
  BY <1>1, <1>5
<1>10. MarksBlock(frame_table, frame_table', b)
  BY <1>3, <1>7, <1>8, <1>9 DEF MarksBlock, IsFree
<1>11. TypeOK'
  <2>1. blocks' \subseteq Ram \X KernelSizes
    BY <1>2, <1>5 DEF Facts, TypeOK
  <2> QED BY <1>2, <1>7, <2>1 DEF Facts, TypeOK, TableOK
<1>12. Balanced(O, blocks', frame_table')
  <2>1. Balanced(O, blocks, frame_table)
    BY DEF Facts, Books
  <2> HIDE DEF O, b
  <2> QED BY <1>2, <1>10, <2>1, BalancedNew
<1>13. \A q \in Proc : /\ {} \cap FramesIn(mem, vm[q]) = {}
                       /\ {} \cap FramesIn(mem, hand[q]) = {}
  OBVIOUS
<1>14. \A g \in Ram : g \notin {} => mem'[g] = mem[g]
  BY <1>2
<1> QED BY <1>2, <1>11, <1>12, <1>13, <1>14, NoSpaceChanges

(* The flags of a block are those of its frames: it is what is freed.      *)
LEMMA BlockIs ==
    ASSUME Facts, NEW b \in blocks
    PROVE  /\ InBlock(b) \subseteq Ram /\ Block(b[1]) = InBlock(b)
           /\ \A q \in Proc : /\ InBlock(b) \cap FramesIn(mem, vm[q]) = {}
                              /\ InBlock(b) \cap FramesIn(mem, hand[q]) = {}
<1> DEFINE f == b[1]  n == b[2]  O == OwnIn(mem, vm, hand)
<1>1. f \in Ram /\ n \in Nat \ {0} /\ InBlock(b) = f .. f + n - 1
  <2>1. b \in Ram \X KernelSizes
    BY DEF Facts, TypeOK
  <2>2. \A k \in KernelSizes : k \in Nat \ {0}
    BY FrameAssumption, SpacesAssumption
  <2>3. b[1] \in Ram /\ b[2] \in KernelSizes
    BY <2>1
  <2> QED BY <2>2, <2>3 DEF InBlock
<1>2. Balanced(O, blocks, frame_table)
  BY DEF Facts, Books
<1>3. \A q \in Proc : /\ InBlock(b) \cap FramesIn(mem, vm[q]) = {}
                      /\ InBlock(b) \cap FramesIn(mem, hand[q]) = {}
  <2> SUFFICES ASSUME NEW q \in Proc
               PROVE  /\ InBlock(b) \cap FramesIn(mem, vm[q]) = {}
                      /\ InBlock(b) \cap FramesIn(mem, hand[q]) = {}
    OBVIOUS
  <2>1. O[<<"vm", q>>] = FramesIn(mem, vm[q]) /\ O[<<"hand", q>>] = FramesIn(mem, hand[q])
    BY Owns
  <2> HIDE DEF O
  <2>2. \A s \in Slot : InBlock(b) \cap O[s] = {}
    BY <1>2 DEF Balanced
  <2> QED BY <2>1, <2>2, Slots
<1> HIDE DEF O
<1>4. InBlock(b) \subseteq Ram
  BY <1>2 DEF Balanced
<1>5. \A g \in InBlock(b) : /\ frame_table[g].allocated
                            /\ frame_table[g].not_last <=> g + 1 \in InBlock(b)
  BY <1>2, <1>4 DEF Balanced
<1> HIDE DEF f, n
<1>6. f \in Nat /\ \A g \in f .. f + n - 1 : g + 1 \in f .. f + n - 1 <=> g # f + n - 1
  BY <1>1, Rams
<1>7. \A g \in f .. f + n - 1 : /\ ~IsFree(g)
                                /\ frame_table[g].not_last <=> g # f + n - 1
  BY <1>1, <1>5, <1>6 DEF IsFree
<1>8. f + n - 1 \in Ram /\ f + n - 1 \in f .. f + n - 1
  BY <1>1, <1>4, <1>6
<1>9. ASSUME NEW g PROVE g \in Block(f) <=> g \in f .. f + n - 1
  <2>1. ASSUME g \in f .. f + n - 1 PROVE g \in Block(f)
    <3>1. g \in f .. last_frame - 1
      BY <1>1, <1>6, <1>8, <2>1, FrameAssumption DEF Ram
    <3>2. \A h \in f .. g - 1 : h \in f .. f + n - 1 /\ h # f + n - 1
      BY <1>1, <1>6, <2>1
    <3> QED BY <1>7, <2>1, <3>1, <3>2 DEF Block
  <2>2. ASSUME g \in Block(f), g \notin f .. f + n - 1 PROVE FALSE
    <3>1. g \in f .. last_frame - 1
      BY <2>2 DEF Block
    <3>2. f + n - 1 \in f .. g - 1
      BY <1>1, <1>6, <2>2, <3>1, FrameAssumption
    <3>3. frame_table[f + n - 1].not_last
      BY <2>2, <3>2 DEF Block
    <3> QED BY <1>7, <1>8, <3>3
  <2> QED BY <2>1, <2>2
<1> QED BY <1>1, <1>3, <1>4, <1>9 DEF f

LEMMA KernelFreeInv ==
    ASSUME Facts, NEW b \in blocks, KernelFree(b) PROVE MemoryInv' /\ Alone(NULL)
<1> DEFINE W == InBlock(b)  O == OwnIn(mem, vm, hand)
<1>1. /\ Release({b[1]}) /\ blocks' = blocks \ {b}
      /\ UNCHANGED <<vm, hand, pc, arg, todo, on, tlb, made, kernel>>
  BY DEF KernelFree, local, mmu
<1>2. /\ W \subseteq Ram /\ Block(b[1]) = W
      /\ \A q \in Proc : W \cap FramesIn(mem, vm[q]) = {} /\ W \cap FramesIn(mem, hand[q]) = {}
  BY BlockIs
<1> HIDE DEF W
<1>3. \A g : (\E f \in {b[1]} : g \in Block(f)) <=> g \in W
  BY <1>2
<1>4. frame_table' = [g \in Frame |-> IF g \in W THEN [frame_table[g] EXCEPT !.allocated = FALSE]
                                      ELSE frame_table[g]]
  BY <1>1, <1>3 DEF Release, Unmark
<1>5. mem' = [f \in Ram |-> IF f \in W THEN JUNK ELSE mem[f]]
  BY <1>1, <1>3 DEF Release
<1>6. TableOK' /\ Frees(frame_table, frame_table', W)
  BY <1>4, Rams DEF Facts, TypeOK, TableOK, Frees
<1>7. TypeOK'
  <2>1. mem' \in [Ram -> Value \cup {JUNK} \cup [Lsb -> PTE \cup {NULL}]]
    BY <1>5 DEF Facts, TypeOK
  <2>2. blocks' \subseteq Ram \X KernelSizes
    BY <1>1 DEF Facts, TypeOK
  <2> QED BY <1>1, <1>6, <2>1, <2>2 DEF Facts, TypeOK, TableOK
<1>8. Balanced(O, blocks', frame_table')
  <2>1. Balanced(O, blocks, frame_table)
    BY DEF Facts, Books
  <2> HIDE DEF O
  <2> QED BY <1>1, <1>6, <2>1, BalancedOld DEF W
<1>9. \A f \in Ram : f \notin W => mem'[f] = mem[f]
  BY <1>5
<1> QED BY <1>1, <1>2, <1>7, <1>8, <1>9, NoSpaceChanges

-----------------------------------------------------------------------------
(* After ram_bootstrap nobody has anything.                                *)
LEMMA InitInv == Init => MemoryInv
<1> SUFFICES ASSUME Init PROVE Facts
  BY Forms
<1> DEFINE O == OwnIn(mem, vm, hand)
<1>1. TableOK /\ \A f \in Ram : ~frame_table[f].allocated
  <2>1. PICK b \in [Ram -> BootFlags] :
           frame_table = [f \in Frame |->
              IF f \in Ram THEN [allocated |-> FALSE, not_last |-> b[f]]
                           ELSE [allocated |-> TRUE, not_last |-> FALSE]]
    BY DEF Init, ram_bootstrap
  <2>2. \A f \in Ram : b[f] \in BOOLEAN /\ f \in Frame
    BY FrameAssumption, Rams
  <2> QED BY <2>1, <2>2 DEF TableOK
<1>2. TypeOK
  <2>1. NoArg \in [ret : {"user", "load", "argv", "exit", "none"}, page : Page, flag : BOOLEAN]
    BY SpacesAssumption DEF NoArg
  <2>2. made \in 0 .. MaxSpaces
    BY SpacesAssumption DEF Init
  <2> QED BY <1>1, <2>1, <2>2 DEF Init, TypeOK, TableOK, Place
<1>3. ProcsIn
  <2>1. \A q \in Proc, c \in Cpu : on[c] # q
    BY SpacesAssumption DEF Init
  <2> QED BY <2>1 DEF Init, ProcsIn, ProcIn
<1>4. TidyAll
  BY DEF Init, TidyAll
<1>5. Books
  <2>1. \A s \in Slot : O[s] = {}
    BY NoFrames DEF Init, OwnIn, SpaceIn, Slot
  <2>2. blocks = {}
    BY DEF Init
  <2> HIDE DEF O
  <2>3. Balanced(O, blocks, frame_table)
    BY <1>1, <2>1, <2>2 DEF Balanced
  <2> QED BY <2>3 DEF O, Books
<1>6. Coherent
  BY DEF Init, Coherent
<1> QED BY <1>2, <1>3, <1>4, <1>5, <1>6 DEF Facts

LEMMA StepInv == MemoryInv /\ [Next]_vars => MemoryInv'
<1> SUFFICES ASSUME Facts, [Next]_vars PROVE MemoryInv'
  BY Forms
<1>1. CASE UNCHANGED vars
  <2>1. Facts'
    BY <1>1 DEF vars, local, mmu, Facts, TypeOK, ProcsIn, TidyAll, Books, Coherent
  <2> QED BY <2>1, FormsNext
<1>2. ASSUME NEW p \in Proc, NEW c \in Cpu, Switch(c, p) PROVE MemoryInv'
  BY <1>2, SwitchInv
<1>3. ASSUME NEW p \in Proc, NEW pg \in Stored, NEW v \in Value, Store(p, pg, v)
      PROVE  MemoryInv'
  <2>1. pg \in Page
    BY SpacesAssumption
  <2> QED BY <1>3, <2>1, StoreInv
<1>4. ASSUME NEW p \in Proc, NEW pg \in Page, FaultInvalid(p, pg) PROVE MemoryInv'
  BY <1>4, FaultInvalidInv
<1>5. ASSUME NEW p \in Proc, NEW from \in {"user", "load", "argv"}, NEW pg \in Page,
             from = "argv" => pg = Argv,
             \/ FaultMapped(p, from, pg) \/ FaultAbsent(p, from, pg)
             \/ FaultInitPT(p, from, pg) \/ FaultInitFails(p, from, pg)
             \/ FaultUndefined(p, from, pg)
      PROVE  MemoryInv'
  <2>1. CASE FaultMapped(p, from, pg)
    BY <2>1, FaultMappedInv
  <2>2. CASE FaultAbsent(p, from, pg)
    BY <1>5, <2>2, FaultAbsentInv
  <2>3. CASE FaultInitPT(p, from, pg)
    BY <1>5, <2>3, FaultInitPTInv
  <2>4. CASE FaultInitFails(p, from, pg)
    BY <2>4, FaultInitFailsInv
  <2>5. CASE FaultUndefined(p, from, pg)
    BY <2>5, EndsInv DEF FaultUndefined, End
  <2> QED BY <1>5, <2>1, <2>2, <2>3, <2>4, <2>5
<1>6. ASSUME NEW p \in Proc, NEW v \in Value, CopyArgs(p, v) PROVE MemoryInv'
  BY <1>6, CopyArgsInv
<1>7. ASSUME NEW p \in Proc, NEW q \in Proc, ForkDone(p, q) PROVE MemoryInv'
  BY <1>7, ForkDoneInv
<1>8. ASSUME NEW p \in Proc, CopyTableFails(p) \/ Undefined(p) PROVE MemoryInv'
  BY <1>8, EndsInv DEF CopyTableFails, Undefined, End
<1>9. ASSUME NEW p \in Proc,
             FaultAddPTE(p) \/ FaultAddFails(p) \/ RunProgram(p) \/ Exec(p) \/ LoadPage(p)
      PROVE  MemoryInv'
  BY <1>9, FaultAddPTEInv, FaultAddFailsInv, RunProgramInv, ExecInv, LoadPageInv
<1>10. ASSUME NEW p \in Proc,
              LoadDone(p) \/ LoadFails(p) \/ Fork(p) \/ CopyTable(p) \/ CopyPage(p)
       PROVE  MemoryInv'
  BY <1>10, LoadDoneInv, LoadFailsInv, ForkInv, CopyTableInv, CopyPageInv
<1>11. ASSUME NEW p \in Proc,
              \/ CopyPageFails(p) \/ ForkFails(p) \/ DestroyTable(p) \/ DestroyRoot(p)
              \/ Exit(p)
       PROVE  MemoryInv'
  BY <1>11, CopyPageFailsInv, ForkFailsInv, DestroyTableInv, DestroyRootInv, ExitInv
<1>12. ASSUME NEW n \in KernelSizes, KernelAlloc(n) PROVE MemoryInv'
  BY <1>12, KernelAllocInv
<1>13. ASSUME NEW b \in blocks, KernelFree(b) PROVE MemoryInv'
  BY <1>13, KernelFreeInv
<1> QED BY Zenon, <1>1, <1>2, <1>3, <1>4, <1>5, <1>6, <1>7, <1>8, <1>9, <1>10, <1>11, <1>12,
             <1>13 DEF Next

(* Every table, page and root of every address space is one that was       *)
(* allocated for it, wherever a fork, an execv, a fault or an exit may     *)
(* fail: what a process is doing says which address spaces it has and what *)
(* its call relies on; no frame has two uses, and the marked ones are the  *)
(* used ones.                                                              *)
THEOREM MemoryInvariant == Spec => []MemoryInv
BY InitInv, StepInv, PTL DEF Spec

(* The variables keep their types.                                         *)
THEOREM MemoryTypes == Spec => []TypeOK
<1>1. MemoryInv => TypeOK
  BY DEF MemoryInv
<1> QED BY <1>1, MemoryInvariant, PTL

(* No processor translates a page of the process it runs otherwise than    *)
(* the page table of that process does.                                    *)
THEOREM TranslationsCoherent == Spec => []TLBCoherent
<1>1. MemoryInv => TLBCoherent
  BY DEF MemoryInv
<1> QED BY <1>1, MemoryInvariant, PTL

-----------------------------------------------------------------------------
(* What an address space uses a frame for.                                 *)
LEMMA UsesNone ==
    ASSUME NEW sp, sp # NULL, NEW f, f \notin FramesOf(sp) PROVE Uses(sp, f) = {}
<1>1. /\ sp.root # f /\ \A m \in Live(sp) : sp.as_pte[m] # f
      /\ \A x \in Present(sp) : PageFrame(sp, x) # f
  BY DEF FramesOf
<1> QED BY <1>1 DEF Uses, PageFrame

LEMMA UsesOne ==
    ASSUME NEW sp, sp # NULL, Tidy(sp), NEW f \in FramesOf(sp)
    PROVE  \E u : Uses(sp, f) = {u}
<1> DEFINE R == {<<"root", 0, 0>> : r \in {sp.root} \cap {f}}
           T == {<<"table", m, 0>> : m \in {n \in Live(sp) : sp.as_pte[n] = f}}
           P == {<<"page", pg[1], pg[2]>> : pg \in {x \in Present(sp) : Entry(sp, x).frame = f}}
<1>1. Uses(sp, f) = R \cup T \cup P
  BY DEF Uses
<1>2. CASE f = sp.root
  <2>1. R = {<<"root", 0, 0>>}
    BY <1>2
  <2>2. T = {}
    BY <1>2 DEF Tidy, TablesTidy
  <2>3. P = {}
    BY <1>2 DEF Tidy, PagesTidy, PageFrame
  <2> HIDE DEF R, T, P
  <2> QED BY <1>1, <2>1, <2>2, <2>3
<1>3. ASSUME NEW m \in Live(sp), f = sp.as_pte[m] PROVE Uses(sp, f) = {<<"table", m, 0>>}
  <2>1. R = {}
    BY <1>3 DEF Tidy, TablesTidy
  <2>2. \A n \in Live(sp) : sp.as_pte[n] = f => n = m
    BY <1>3 DEF Tidy, TablesTidy
  <2>3. {n \in Live(sp) : sp.as_pte[n] = f} = {m}
    BY <1>3, <2>2
  <2>4. T = {<<"table", m, 0>>}
    BY <2>3
  <2>5. P = {}
    BY <1>3 DEF Tidy, PagesTidy, PageFrame
  <2> HIDE DEF R, T, P
  <2> QED BY <1>1, <2>1, <2>4, <2>5
<1>4. ASSUME NEW x \in Present(sp), f = PageFrame(sp, x)
      PROVE  Uses(sp, f) = {<<"page", x[1], x[2]>>}
  <2>1. R = {}
    BY <1>4 DEF Tidy, PagesTidy
  <2>2. T = {}
    BY <1>4 DEF Tidy, PagesTidy
  <2>3. \A y \in Present(sp) : PageFrame(sp, y) = f => y = x
    BY <1>4 DEF Tidy, PagesTidy
  <2>4. {y \in Present(sp) : Entry(sp, y).frame = f} = {x}
    BY <1>4, <2>3 DEF PageFrame
  <2>5. P = {<<"page", x[1], x[2]>>}
    BY <2>4
  <2> HIDE DEF R, T, P
  <2> QED BY <1>1, <2>1, <2>2, <2>5
<1>5. \/ f = sp.root \/ \E m \in Live(sp) : f = sp.as_pte[m]
      \/ \E x \in Present(sp) : f = PageFrame(sp, x)
  BY DEF FramesOf
<1> QED BY <1>2, <1>3, <1>4, <1>5

LEMMA Owned == MemoryInv => FramesOwned
<1> SUFFICES ASSUME MemoryInv, NEW f \in Ram
             PROVE  Cardinality(Users(f)) + Cardinality({b \in blocks : f \in InBlock(b)})
                      = IF IsFree(f) THEN 0 ELSE 1
  BY DEF FramesOwned, MemoryInv, Accounts
<1> DEFINE held == {b \in blocks : f \in InBlock(b)}
<1>1. \A s, t \in Slot : f \in FramesOf(Space(s)) /\ f \in FramesOf(Space(t)) => s = t
  BY DEF MemoryInv, Accounts
<1>2. \A b, d \in blocks : f \in InBlock(b) /\ f \in InBlock(d) => b = d
  BY DEF MemoryInv, Accounts
<1>3. \A b \in blocks, s \in Slot : ~(f \in InBlock(b) /\ f \in FramesOf(Space(s)))
  BY DEF MemoryInv, Accounts
<1>4. ~IsFree(f) <=> \/ \E s \in Slot : f \in FramesOf(Space(s))
                    \/ \E b \in blocks : f \in InBlock(b)
  BY DEF MemoryInv, Accounts
<1>5. \A s \in Slot : Space(s) # NULL /\ f \notin FramesOf(Space(s)) => Uses(Space(s), f) = {}
  BY UsesNone
<1>6. Cardinality({}) = 0 /\ \A x : Cardinality({x}) = 1
  BY FS_EmptySet, FS_Singleton
<1>7. ASSUME \A s \in Slot : f \notin FramesOf(Space(s)) PROVE Users(f) = {}
  BY <1>5, <1>7 DEF Users
<1>8. ASSUME NEW s \in Slot, f \in FramesOf(Space(s)) PROVE \E x : Users(f) = {x}
  <2>1. Space(s) # NULL /\ Tidy(Space(s))
    BY <1>8 DEF FramesOf, MemoryInv, SpacesTidy
  <2>2. PICK u : Uses(Space(s), f) = {u}
    BY <1>8, <2>1, UsesOne
  <2>3. \A t \in Slot : t # s /\ Space(t) # NULL => Uses(Space(t), f) = {}
    BY <1>1, <1>5, <1>8
  <2>4. \A x : x \in Users(f) <=> \E t \in Slot : Space(t) # NULL /\ x \in {t} \X Uses(Space(t), f)
    BY DEF Users
  <2>5. \A x : x \in Users(f) <=> x \in {s} \X {u}
    BY <2>1, <2>2, <2>3, <2>4
  <2>6. Users(f) = {<<s, u>>}
    BY <2>5
  <2> QED BY <2>6
<1>9. CASE IsFree(f)
  <2>1. held = {} /\ Users(f) = {}
    BY <1>4, <1>7, <1>9
  <2>2. Cardinality(held) = 0 /\ Cardinality(Users(f)) = 0
    BY <1>6, <2>1
  <2> QED BY <1>9, <2>2
<1>10. ASSUME NEW s \in Slot, f \in FramesOf(Space(s))
       PROVE  Cardinality(Users(f)) + Cardinality(held) = 1
  <2>1. held = {}
    BY <1>3, <1>10
  <2>2. PICK x : Users(f) = {x}
    BY <1>8, <1>10
  <2>3. Cardinality(held) = 0
    BY <1>6, <2>1
  <2>4. Cardinality(Users(f)) = 1
    BY <1>6, <2>2
  <2> QED BY <2>3, <2>4
<1>11. ASSUME NEW b \in blocks, f \in InBlock(b)
       PROVE  Cardinality(Users(f)) + Cardinality(held) = 1
  <2>1. held = {b}
    BY <1>2, <1>11
  <2>2. Users(f) = {}
    BY <1>3, <1>7, <1>11
  <2>3. Cardinality(held) = 1
    BY <1>6, <2>1
  <2>4. Cardinality(Users(f)) = 0
    BY <1>6, <2>2
  <2> QED BY <2>3, <2>4
<1> QED BY <1>4, <1>9, <1>10, <1>11

(* A frame of RAM that is marked is one root, one table or one page of one *)
(* address space, or lies in one block of the kernel; what is not marked   *)
(* is nobody's: no call and no failure loses a frame or gives it to two.   *)
THEOREM FramesAccounted == Spec => []FramesOwned
BY Owned, MemoryInvariant, PTL

-----------------------------------------------------------------------------
(* The loop of alloc_multiple_frames.  It goes on from a pair i, j while i *)
(* may start a run and j frames have been found to be free; each round     *)
(* looks at the next frame.                                                *)
Pairs(n) == (0 .. last_frame) \X (0 .. n)
GoesOn(n, x) == x[1] < last_frame - n /\ x[2] < n
NextPair(x) == IF IsFree(x[1] + x[2]) THEN <<x[1], x[2] + 1>> ELSE Rescan(x[1], x[2])
IsScan(n, f) ==
    f = [x \in (0 .. last_frame) \X (0 .. n) |->
            IF x[1] < last_frame - n /\ x[2] < n
            THEN IF IsFree(x[1] + x[2])
                 THEN f[<<x[1], x[2] + 1>>]
                 ELSE f[Rescan(x[1], x[2])]
            ELSE x]

LEMMA ScanIs ==
    ASSUME NEW n
    PROVE  Scan(n) = (CHOOSE f : IsScan(n, f))[<<first_frame, 0>>]
BY DEF Scan, IsScan

LEMMA PairMoves ==
    ASSUME NEW n \in 2 .. last_frame, NEW x \in Pairs(n), GoesOn(n, x)
    PROVE  /\ NextPair(x) \in Pairs(n)
           /\ NextPair(x)[1] + NextPair(x)[2] = x[1] + x[2] + 1
<1>1. PICK i \in 0 .. last_frame, j \in 0 .. n : x = <<i, j>>
  BY DEF Pairs
<1>2. i < last_frame - n /\ j < n /\ last_frame \in Nat /\ n \in Nat
  BY <1>1, FrameAssumption DEF GoesOn
<1>3. CASE IsFree(i + j)
  BY <1>1, <1>2, <1>3 DEF NextPair, Pairs
<1>4. CASE ~IsFree(i + j)
  BY <1>1, <1>2, <1>4 DEF NextPair, Pairs, Rescan
<1> QED
  BY <1>3, <1>4

(* The pairs from which no more than k rounds can follow.                  *)
Late(n, k) == {x \in Pairs(n) : x[1] + x[2] + k >= 2 * last_frame + 1}
Follows(n, x, g) == g[x] = IF GoesOn(n, x) THEN g[NextPair(x)] ELSE x

(* The loop ends: else there is a least number of rounds that it does not  *)
(* end in.                                                                 *)
LEMMA ScanExists ==
    ASSUME NEW n \in 2 .. last_frame
    PROVE  \E f : IsScan(n, f)
<1> DEFINE Upto(k, g) == \A x \in Late(n, k) : Follows(n, x, g)
           Bad == {k \in 0 .. 2 * last_frame + 1 : ~ \E g : Upto(k, g)}
<1>1. last_frame \in Nat /\ n \in Nat /\ n <= last_frame
  BY FrameAssumption
<1>2. ASSUME Bad # {} PROVE FALSE
  <2>1. PICK k \in Bad : \A m \in Bad : k <= m
    <3>1. Bad \in SUBSET Nat
      BY <1>1
    <3> HIDE DEF Bad
    <3> QED
      BY <1>2, <3>1, LowestIn
  <2>2. k \in 0 .. 2 * last_frame + 1 /\ ~ \E g : Upto(k, g)
    OBVIOUS
  <2>3. CASE k = 0
    <3>1. Late(n, 0) = {}
      <4>1. ASSUME NEW x \in Pairs(n) PROVE ~ x[1] + x[2] + 0 >= 2 * last_frame + 1
        BY <1>1 DEF Pairs
      <4> QED
        BY <4>1 DEF Late
    <3>2. Upto(0, <<>>)
      BY <3>1
    <3> QED
      BY <2>2, <2>3, <3>2
  <2>4. CASE k # 0
    <3>1. k - 1 \in 0 .. 2 * last_frame + 1 /\ ~ k <= k - 1 /\ k \in Nat
      BY <1>1, <2>2, <2>4
    <3>2. k - 1 \notin Bad
      <4> HIDE DEF Bad
      <4> QED
        BY <2>1, <3>1
    <3>3. PICK g : Upto(k - 1, g)
      <4> HIDE DEF Upto
      <4> QED
        BY <3>1, <3>2
    <3> DEFINE h == [x \in Late(n, k) |->
                        IF x \in Late(n, k - 1) THEN g[x]
                        ELSE IF GoesOn(n, x) THEN g[NextPair(x)] ELSE x]
    <3>4. ASSUME NEW x \in Late(n, k) PROVE Follows(n, x, h)
      <4>1. h[x] = IF GoesOn(n, x) THEN g[NextPair(x)] ELSE x
        BY <3>3 DEF Follows
      <4>2. ASSUME GoesOn(n, x) PROVE NextPair(x) \in Late(n, k - 1) /\ NextPair(x) \in Late(n, k)
        <5>1. /\ x \in Pairs(n) /\ x[1] + x[2] + k >= 2 * last_frame + 1
              /\ x[1] \in Nat /\ x[2] \in Nat
          BY <1>1 DEF Late, Pairs
        <5>2. /\ NextPair(x) \in Pairs(n)
              /\ NextPair(x)[1] + NextPair(x)[2] = x[1] + x[2] + 1
          BY <4>2, <5>1, PairMoves
        <5> DEFINE y == NextPair(x)
        <5>3. y[1] \in Nat /\ y[2] \in Nat
          BY <1>1, <5>2 DEF Pairs
        <5> HIDE DEF y
        <5>4. /\ y[1] + y[2] + (k - 1) >= 2 * last_frame + 1
              /\ y[1] + y[2] + k >= 2 * last_frame + 1
          BY <1>1, <3>1, <5>1, <5>2, <5>3 DEF y
        <5> QED
          BY <5>2, <5>4 DEF Late, y
      <4>3. GoesOn(n, x) => h[NextPair(x)] = g[NextPair(x)]
        BY <4>2
      <4> HIDE DEF h
      <4> QED
        BY <4>1, <4>3 DEF Follows
    <3>5. Upto(k, h)
      <4> HIDE DEF h
      <4> QED
        BY <3>4
    <3> QED
      BY <2>2, <3>5
  <2> QED
    BY <2>3, <2>4
<1>3. PICK g : Upto(2 * last_frame + 1, g)
  <2>1. 2 * last_frame + 1 \in 0 .. 2 * last_frame + 1
    BY <1>1
  <2> HIDE DEF Upto
  <2> QED
    BY <1>2, <2>1
<1>4. Late(n, 2 * last_frame + 1) = Pairs(n)
  <2>1. ASSUME NEW x \in Pairs(n) PROVE x[1] + x[2] + (2 * last_frame + 1) >= 2 * last_frame + 1
    BY <1>1 DEF Pairs
  <2> QED
    BY <2>1 DEF Late
<1> DEFINE f == [x \in Pairs(n) |-> g[x]]
           body == [x \in (0 .. last_frame) \X (0 .. n) |->
                       IF x[1] < last_frame - n /\ x[2] < n
                       THEN IF IsFree(x[1] + x[2])
                            THEN f[<<x[1], x[2] + 1>>]
                            ELSE f[Rescan(x[1], x[2])]
                       ELSE x]
<1>5. ASSUME NEW x \in Pairs(n) PROVE f[x] = body[x]
  <2>1. f[x] = IF GoesOn(n, x) THEN g[NextPair(x)] ELSE x
    BY <1>3, <1>4 DEF Follows
  <2>2. GoesOn(n, x) => f[NextPair(x)] = g[NextPair(x)]
    BY PairMoves
  <2>3. body[x] = IF GoesOn(n, x) THEN f[NextPair(x)] ELSE x
    BY DEF Pairs, GoesOn, NextPair
  <2> HIDE DEF f, body
  <2> QED
    BY <2>1, <2>2, <2>3
<1>6. f = body
  <2>1. f = [x \in Pairs(n) |-> f[x]] /\ body = [x \in Pairs(n) |-> body[x]]
    BY DEF Pairs
  <2> HIDE DEF f, body
  <2> QED
    BY <1>5, <2>1
<1>7. IsScan(n, f)
  BY <1>6 DEF IsScan
<1> HIDE DEF f
<1> QED
  BY <1>7

LEMMA ScanFollows ==
    ASSUME NEW n \in 2 .. last_frame, NEW f, IsScan(n, f), NEW x \in Pairs(n)
    PROVE  Follows(n, x, f)
<1> DEFINE body == [y \in (0 .. last_frame) \X (0 .. n) |->
                       IF y[1] < last_frame - n /\ y[2] < n
                       THEN IF IsFree(y[1] + y[2])
                            THEN f[<<y[1], y[2] + 1>>]
                            ELSE f[Rescan(y[1], y[2])]
                       ELSE y]
<1>1. f = body
  BY DEF IsScan
<1>2. body[x] = IF GoesOn(n, x) THEN f[NextPair(x)] ELSE x
  BY DEF Pairs, GoesOn, NextPair
<1> HIDE DEF body
<1> QED
  BY <1>1, <1>2 DEF Follows

(* What is so whenever the loop comes to a pair: the frames counted are    *)
(* free, and every run that starts earlier has been ruled out.             *)
Met(n, x) ==
    /\ x[1] >= first_frame
    /\ x[2] > 0 => x[1] < last_frame - n
    /\ \A f \in x[1] .. x[1] + x[2] - 1 : IsFree(f)
    /\ \A i \in first_frame .. x[1] - 1 : ~FreeRun(i, n)
Finds(n, y) ==
    LET f == alloc_multiple_frames(n)
    IN  IF f = NoFrame THEN y[2] # n ELSE y = <<f, n>>

LEMMA MetNext ==
    ASSUME NEW n \in 2 .. last_frame, NEW x \in Pairs(n), GoesOn(n, x), Met(n, x)
    PROVE  Met(n, NextPair(x))
<1>1. PICK i \in 0 .. last_frame, j \in 0 .. n : x = <<i, j>>
  BY DEF Pairs
<1>2. /\ i < last_frame - n /\ j < n /\ last_frame \in Nat /\ n \in Nat /\ first_frame \in Nat
      /\ i >= first_frame /\ \A f \in i .. i + j - 1 : IsFree(f)
      /\ \A k \in first_frame .. i - 1 : ~FreeRun(k, n)
  BY <1>1, FrameAssumption DEF GoesOn, Met
<1>3. CASE IsFree(i + j)
  <2>1. NextPair(x) = <<i, j + 1>>
    BY <1>1, <1>3 DEF NextPair
  <2>2. \A f \in i .. i + (j + 1) - 1 : IsFree(f)
    <3>1. \A f \in i .. i + (j + 1) - 1 : f \in i .. i + j - 1 \/ f = i + j
      BY <1>2
    <3> QED
      BY <1>2, <1>3, <3>1
  <2> QED
    BY <1>2, <2>1, <2>2 DEF Met
<1>4. CASE ~IsFree(i + j)
  <2>1. NextPair(x) = <<i + j + 1, 0>>
    BY <1>1, <1>4 DEF NextPair, Rescan
  <2>2. ASSUME NEW k \in first_frame .. (i + j + 1) - 1 PROVE ~FreeRun(k, n)
    <3>1. CASE k < i
      <4>1. k \in first_frame .. i - 1
        BY <1>2, <3>1
      <4> QED
        BY <1>2, <4>1
    <3>2. CASE ~ k < i
      <4>1. i + j \in k .. k + n - 1
        BY <1>2, <3>2
      <4> QED
        BY <1>4, <4>1 DEF FreeRun
    <3> QED
      BY <3>1, <3>2
  <2>3. i + j + 1 >= first_frame /\ \A f \in i + j + 1 .. i + j + 1 + 0 - 1 : IsFree(f)
    BY <1>2
  <2> QED
    BY <2>1, <2>2, <2>3 DEF Met
<1> QED
  BY <1>3, <1>4

LEMMA MetLast ==
    ASSUME NEW n \in 2 .. last_frame, NEW x \in Pairs(n), ~GoesOn(n, x), Met(n, x)
    PROVE  Finds(n, x)
<1>1. PICK i \in 0 .. last_frame, j \in 0 .. n : x = <<i, j>>
  BY DEF Pairs
<1>2. /\ last_frame \in Nat /\ n \in Nat /\ first_frame \in Nat /\ first_frame > 0 /\ n >= 2
      /\ i >= first_frame /\ \A f \in i .. i + j - 1 : IsFree(f)
      /\ \A k \in first_frame .. i - 1 : ~FreeRun(k, n)
      /\ j > 0 => i < last_frame - n
      /\ ~(i < last_frame - n /\ j < n)
  BY <1>1, FrameAssumption DEF GoesOn, Met
<1> DEFINE fits == {k \in Starts(n) : FreeRun(k, n)}
<1>3. alloc_multiple_frames(n) = IF fits = {} THEN NoFrame ELSE Lowest(fits)
  BY DEF alloc_multiple_frames
<1>4. CASE i < last_frame - n
  <2>1. j = n /\ i \in Starts(n) /\ FreeRun(i, n)
    BY <1>2, <1>4 DEF Starts, FreeRun
  <2>2. i \in fits /\ \A k \in fits : k \in Nat /\ i <= k
    BY <1>2, <2>1 DEF Starts
  <2> HIDE DEF fits
  <2>3. Lowest(fits) = i
    <3>1. \A k \in fits : (\A m \in fits : k <= m) => k = i
      BY <1>2, <2>2
    <3> QED
      BY <2>2, <3>1 DEF Lowest
  <2>4. alloc_multiple_frames(n) = i /\ i # NoFrame
    BY <1>2, <1>3, <2>2, <2>3 DEF NoFrame
  <2> QED
    BY <1>1, <2>1, <2>4 DEF Finds
<1>5. CASE ~ i < last_frame - n
  <2>1. fits = {}
    BY <1>2, <1>5 DEF Starts
  <2>2. alloc_multiple_frames(n) = NoFrame
    BY <1>3, <2>1
  <2>3. j # n
    BY <1>2, <1>5
  <2> QED
    BY <1>1, <2>2, <2>3 DEF Finds
<1> QED
  BY <1>4, <1>5

(* From every pair it comes to, the loop ends with the lowest run.         *)
LEMMA ScanFinds ==
    ASSUME NEW n \in 2 .. last_frame
    PROVE  Finds(n, Scan(n))
<1>1. last_frame \in Nat /\ n \in Nat /\ n <= last_frame /\ n >= 2
  BY FrameAssumption
<1>2. PICK f : IsScan(n, f) /\ Scan(n) = f[<<first_frame, 0>>]
  BY ScanExists, ScanIs
<1> DEFINE Bad == {k \in Nat : \E x \in Pairs(n) :
                       /\ x[1] + x[2] + k = 2 * last_frame
                       /\ Met(n, x) /\ ~Finds(n, f[x])}
<1>3. ASSUME Bad # {} PROVE FALSE
  <2>1. PICK k \in Bad : \A m \in Bad : k <= m
    <3>1. Bad \in SUBSET Nat
      OBVIOUS
    <3> HIDE DEF Bad
    <3> QED
      BY <1>3, <3>1, LowestIn
  <2>2. PICK x \in Pairs(n) : /\ x[1] + x[2] + k = 2 * last_frame
                              /\ Met(n, x) /\ ~Finds(n, f[x])
    OBVIOUS
  <2>3. Follows(n, x, f) /\ k \in Nat
    BY <1>2, ScanFollows
  <2>4. CASE GoesOn(n, x)
    <3> DEFINE y == NextPair(x)
    <3>1. y \in Pairs(n) /\ y[1] + y[2] = x[1] + x[2] + 1 /\ Met(n, y) /\ ~Finds(n, f[y])
      BY <2>2, <2>3, <2>4, PairMoves, MetNext DEF Follows
    <3> HIDE DEF y
    <3>2. x[1] \in Nat /\ x[2] \in Nat /\ y[1] \in 0 .. last_frame /\ y[2] \in 0 .. n
      BY <3>1 DEF Pairs
    <3>3. /\ k - 1 \in Nat /\ y[1] + y[2] + (k - 1) = 2 * last_frame /\ ~ k <= k - 1
      BY <1>1, <2>2, <2>3, <3>1, <3>2
    <3>4. k - 1 \in Bad
      BY <3>1, <3>3
    <3> HIDE DEF Bad
    <3> QED
      BY <2>1, <3>3, <3>4
  <2>5. CASE ~GoesOn(n, x)
    BY <2>2, <2>3, <2>5, MetLast DEF Follows
  <2> QED
    BY <2>4, <2>5
<1> DEFINE s == <<first_frame, 0>>
<1>4. s \in Pairs(n) /\ s[1] = first_frame /\ s[2] = 0 /\ Met(n, s)
  BY <1>1, FrameAssumption DEF Pairs, Met
<1>5. 2 * last_frame - first_frame \in Nat
      /\ first_frame + 0 + (2 * last_frame - first_frame) = 2 * last_frame
  BY <1>1, FrameAssumption
<1>6. 2 * last_frame - first_frame \notin Bad
  <2> HIDE DEF Bad
  <2> QED
    BY <1>3
<1> HIDE DEF s
<1>7. Finds(n, f[s])
  BY <1>4, <1>5, <1>6
<1> QED
  BY <1>2, <1>7 DEF s

(* The loop of alloc_multiple_frames finds the lowest run of free frames   *)
(* that it can meet, and fails only if there is none: in any table, so in  *)
(* every one that is reached.                                              *)
THEOREM ScansFindFits == Spec => []ScanFindsFit
<1>1. ScanFindsFit
  BY ScanFinds DEF Finds, ScanFindsFit
<1> QED
  BY <1>1, PTL

-----------------------------------------------------------------------------
(* What user programs see.  An address space is sound when as_copy takes   *)
(* the whole of it and its pages hold values.  While a program is loaded,  *)
(* the pages that are done show the file's; while an address space is      *)
(* copied, the pages that are done show the original's.                    *)
SoundIn(mm, sp) ==
    Len(sp.as_regions) <= 2 /\ \A pg \in Page : ContentIn(mm, sp, pg) \in Value
LoadingIn(k, a) == k = "load" \/ (k = "addpte" /\ a.ret = "load")
ViewIn(mm, v, h, k, a, t) ==
    /\ v # NULL => SoundIn(mm, v)
    /\ h # NULL /\ k # "destroy" => SoundIn(mm, h)
    /\ LoadingIn(k, a) => /\ v.as_regions = DefineRegions
                          /\ \A pg \in Page \ t : ContentIn(mm, v, pg) = Image[pg]
    /\ k = "copy" => /\ h.as_regions = v.as_regions
                     /\ \A pg \in Page \ t : ContentIn(mm, h, pg) = ContentIn(mm, v, pg)
View(q) == ViewIn(mem, vm[q], hand[q], pc[q], arg[q], todo[q])
AllViews == \A q \in Proc : View(q)
ViewInv == kernel = "running" => AllViews

(* The memory of a process in these terms.                                 *)
MemoryIn(mm, sp) ==
    IF sp = NULL THEN NULL
    ELSE [pg \in Page |-> IF Valid(sp, pg) THEN ContentIn(mm, sp, pg) ELSE NULL]
SeenIn(v, h, k, a) == IF k = "unload" \/ LoadingIn(k, a) THEN h ELSE v
Shown(q) == MemoryIn(mem, SeenIn(vm[q], hand[q], pc[q], arg[q]))

LEMMA MemoryIs == Memory = [q \in Proc |-> Shown(q)]
<1>1. \A q : Seen(q) = SeenIn(vm[q], hand[q], pc[q], arg[q])
  BY DEF Seen, SeenIn, Loading, LoadingIn
<1>2. \A sp : \A pg \in Page : Holds(sp, pg) = IF Valid(sp, pg) THEN ContentIn(mem, sp, pg) ELSE NULL
  BY EntryIs DEF Holds, ContentIn, FrameIn
<1>3. \A sp : [pg \in Page |-> Holds(sp, pg)]
                = [pg \in Page |-> IF Valid(sp, pg) THEN ContentIn(mem, sp, pg) ELSE NULL]
  BY <1>2
<1> QED BY <1>1, <1>3 DEF Memory, Shown, MemoryIn

LEMMA MemoryIsNext == Memory' = [q \in Proc |-> Shown(q)']
<1>1. (Memory = [q \in Proc |-> Shown(q)])'
  BY MemoryIs, PTL
<1> QED BY <1>1

(* Address spaces that look alike.                                         *)
LEMMA LooksAlike ==
    ASSUME NEW m1, NEW m2, NEW sp, sp # NULL, NEW new, Looks(m1, sp, m2, new)
    PROVE  /\ MemoryIn(m2, new) = MemoryIn(m1, sp)
           /\ SoundIn(m1, sp) => SoundIn(m2, new)
<1>1. \A pg \in Page : Valid(new, pg) <=> Valid(sp, pg)
  BY DEF Looks, Valid
<1>2. MemoryIn(m2, new) = MemoryIn(m1, sp)
  BY <1>1 DEF Looks, MemoryIn
<1> QED BY <1>2 DEF Looks, SoundIn

LEMMA PutAlike ==
    ASSUME NEW m1, NEW m2, NEW sp, sp # NULL, NEW pg \in Page, NEW x \in Value,
           Put(m1, m2, sp, pg, x), SoundIn(m1, sp)
    PROVE  /\ SoundIn(m2, sp)
           /\ Valid(sp, pg) => MemoryIn(m2, sp) = [MemoryIn(m1, sp) EXCEPT ![pg] = x]
           /\ ~Valid(sp, pg) => MemoryIn(m2, sp) = MemoryIn(m1, sp)
<1>1. SoundIn(m2, sp)
  BY DEF SoundIn, Put
<1>2. Valid(sp, pg) => MemoryIn(m2, sp) = [MemoryIn(m1, sp) EXCEPT ![pg] = x]
  BY DEF Put, MemoryIn
<1>3. ~Valid(sp, pg) => MemoryIn(m2, sp) = MemoryIn(m1, sp)
  BY DEF Put, MemoryIn
<1> QED BY <1>1, <1>2, <1>3

(* A sound one is a memory.                                                *)
LEMMA SoundMemory ==
    ASSUME NEW mm, NEW sp, sp # NULL, SoundIn(mm, sp)
    PROVE  /\ MemoryIn(mm, sp) # NULL
           /\ \A pg \in Page : MemoryIn(mm, sp)[pg] # NULL <=> Valid(sp, pg)
<1>1. MemoryIn(mm, sp) \in [Page -> Value \cup {NULL}]
  BY DEF MemoryIn, SoundIn
<1>2. \A pg \in Page : MemoryIn(mm, sp)[pg] # NULL <=> Valid(sp, pg)
  BY ImageAssumption DEF MemoryIn, SoundIn
<1> QED BY <1>1, <1>2, ImageAssumption

(* What the others see is as it was.                                       *)
LEMMA OthersLook ==
    ASSUME Facts, NEW p, Alone(p), NEW q \in Proc, q # p
    PROVE  (View(q) => View(q)') /\ Shown(q)' = Shown(q)
<1>1. PICK W : OnlyOf(p, W)
  BY DEF Alone
<1>2. /\ vm'[q] = vm[q] /\ hand'[q] = hand[q]
      /\ pc'[q] = pc[q] /\ arg'[q] = arg[q] /\ todo'[q] = todo[q]
  BY <1>1 DEF OnlyOf
<1>3. W \cap FramesIn(mem, vm[q]) = {} /\ W \cap FramesIn(mem, hand[q]) = {}
  BY <1>1 DEF OnlyOf
<1>4. \A f \in Ram : f \notin W => mem'[f] = mem[f]
  BY <1>1 DEF OnlyOf
<1>5. vm[q] # NULL => Looks(mem, vm[q], mem', vm[q])
  BY <1>3, <1>4, Untouched
<1>6. hand[q] # NULL => Looks(mem, hand[q], mem', hand[q])
  BY <1>3, <1>4, Untouched
<1>7. /\ MemoryIn(mem', vm[q]) = MemoryIn(mem, vm[q])
      /\ MemoryIn(mem', hand[q]) = MemoryIn(mem, hand[q])
  <2>1. CASE vm[q] = NULL
    <3>1. MemoryIn(mem', vm[q]) = MemoryIn(mem, vm[q])
      BY <2>1 DEF MemoryIn
    <3>2. CASE hand[q] = NULL
      BY <3>1, <3>2 DEF MemoryIn
    <3>3. CASE hand[q] # NULL
      BY <1>6, <3>1, <3>3, LooksAlike
    <3> QED BY <3>2, <3>3
  <2>2. CASE vm[q] # NULL
    <3>1. MemoryIn(mem', vm[q]) = MemoryIn(mem, vm[q])
      BY <1>5, <2>2, LooksAlike
    <3>2. CASE hand[q] = NULL
      BY <3>1, <3>2 DEF MemoryIn
    <3>3. CASE hand[q] # NULL
      BY <1>6, <3>1, <3>3, LooksAlike
    <3> QED BY <3>2, <3>3
  <2> QED BY <2>1, <2>2
<1>8. Shown(q)' = Shown(q)
  BY <1>2, <1>7 DEF Shown, SeenIn
<1>9. ASSUME View(q) PROVE View(q)'
  <2>1. /\ vm[q] # NULL => SoundIn(mem', vm[q])
        /\ hand[q] # NULL /\ pc[q] # "destroy" => SoundIn(mem', hand[q])
    BY <1>5, <1>6, <1>9, LooksAlike DEF View, ViewIn
  <2>2. /\ LoadingIn(pc[q], arg[q]) => vm[q] # NULL
        /\ pc[q] = "copy" => vm[q] # NULL /\ hand[q] # NULL
    BY DEF LoadingIn, Facts, ProcsIn, ProcIn
  <2>3. /\ vm[q] # NULL => \A pg \in Page : ContentIn(mem', vm[q], pg) = ContentIn(mem, vm[q], pg)
        /\ hand[q] # NULL => \A pg \in Page : ContentIn(mem', hand[q], pg) = ContentIn(mem, hand[q], pg)
    BY <1>5, <1>6 DEF Looks
  <2>4. LoadingIn(pc[q], arg[q]) =>
           /\ vm[q].as_regions = DefineRegions
           /\ \A pg \in Page \ todo[q] : ContentIn(mem', vm[q], pg) = Image[pg]
    BY <1>9, <2>2, <2>3 DEF View, ViewIn
  <2>5. pc[q] = "copy" =>
           /\ hand[q].as_regions = vm[q].as_regions
           /\ \A pg \in Page \ todo[q] : ContentIn(mem', hand[q], pg) = ContentIn(mem', vm[q], pg)
    BY <1>9, <2>2, <2>3 DEF View, ViewIn
  <2> QED BY <1>2, <2>1, <2>4, <2>5 DEF View, ViewIn
<1> QED BY <1>8, <1>9

(* So it is enough to look at p.                                           *)
Refines == private!Next \/ Memory' = Memory

LEMMA OneMoves ==
    ASSUME Facts, AllViews, NEW p \in Proc, Alone(p), View(p)'
    PROVE  ViewInv' /\ \A q \in Proc : q # p => Shown(q)' = Shown(q)
<1>1. \A q \in Proc : View(q)'
  BY OthersLook DEF AllViews
<1> QED BY <1>1, OthersLook DEF ViewInv, AllViews

LEMMA NobodySees ==
    ASSUME \A q \in Proc : Shown(q)' = Shown(q) PROVE Refines
BY MemoryIs, MemoryIsNext DEF Refines

LEMMA Stays ==
    ASSUME Facts, AllViews, NEW p \in Proc, Alone(p), View(p)', Shown(p)' = Shown(p)
    PROVE  ViewInv' /\ Refines
<1>1. \A q \in Proc : Shown(q)' = Shown(q)
  BY OneMoves
<1> QED BY <1>1, OneMoves, NobodySees

(* A step that shows in no address space of p, and leaves it where it was  *)
(* as far as a load or a copy is concerned.                                *)
Unaltered(sp, new) == IF sp = NULL THEN new = NULL ELSE Looks(mem, sp, mem', new)
SeesHand(k, a) == k = "unload" \/ LoadingIn(k, a)

LEMMA Unseen ==
    ASSUME Facts, AllViews, NEW p \in Proc, Alone(p),
           Unaltered(vm[p], vm'[p]), Unaltered(hand[p], hand'[p]), pc[p] # "destroy",
           LoadingIn(pc'[p], arg'[p]) => LoadingIn(pc[p], arg[p]) /\ todo'[p] = todo[p],
           pc'[p] = "copy" => pc[p] = "copy" /\ todo'[p] = todo[p],
           SeesHand(pc'[p], arg'[p]) <=> SeesHand(pc[p], arg[p])
    PROVE  ViewInv' /\ Refines
<1>1. View(p) /\ ProcIn(mem, vm[p], hand[p], pc[p], arg[p], todo[p])
  BY DEF AllViews, Facts, ProcsIn
<1>2. /\ vm[p] # NULL => vm'[p] # NULL /\ vm'[p].as_regions = vm[p].as_regions
                         /\ \A pg \in Page : ContentIn(mem', vm'[p], pg) = ContentIn(mem, vm[p], pg)
      /\ hand[p] # NULL => hand'[p] # NULL /\ hand'[p].as_regions = hand[p].as_regions
                         /\ \A pg \in Page : ContentIn(mem', hand'[p], pg) = ContentIn(mem, hand[p], pg)
  BY DEF Unaltered, Looks
<1>3. /\ vm'[p] # NULL => SoundIn(mem', vm'[p])
      /\ hand'[p] # NULL /\ pc'[p] # "destroy" => SoundIn(mem', hand'[p])
  BY <1>1, LooksAlike DEF View, ViewIn, Unaltered
<1>4. LoadingIn(pc'[p], arg'[p]) =>
         /\ vm'[p].as_regions = DefineRegions
         /\ \A pg \in Page \ todo'[p] : ContentIn(mem', vm'[p], pg) = Image[pg]
  <2>1. LoadingIn(pc[p], arg[p]) => vm[p] # NULL
    BY <1>1 DEF LoadingIn, ProcIn
  <2> QED BY <1>1, <1>2, <2>1 DEF View, ViewIn
<1>5. pc'[p] = "copy" =>
         /\ hand'[p].as_regions = vm'[p].as_regions
         /\ \A pg \in Page \ todo'[p] : ContentIn(mem', hand'[p], pg) = ContentIn(mem', vm'[p], pg)
  <2>1. pc[p] = "copy" => vm[p] # NULL /\ hand[p] # NULL
    BY <1>1 DEF ProcIn
  <2> QED BY <1>1, <1>2, <2>1 DEF View, ViewIn
<1>6. View(p)'
  BY <1>3, <1>4, <1>5 DEF View, ViewIn
<1>7. /\ MemoryIn(mem', vm'[p]) = MemoryIn(mem, vm[p])
      /\ MemoryIn(mem', hand'[p]) = MemoryIn(mem, hand[p])
  <2>1. \A sp, new : Unaltered(sp, new) => MemoryIn(mem', new) = MemoryIn(mem, sp)
    <3> SUFFICES ASSUME NEW sp, NEW new, Unaltered(sp, new)
                 PROVE  MemoryIn(mem', new) = MemoryIn(mem, sp)
      OBVIOUS
    <3>1. CASE sp = NULL
      BY <3>1 DEF Unaltered, MemoryIn
    <3>2. CASE sp # NULL
      BY <3>2, LooksAlike DEF Unaltered
    <3> QED BY <3>1, <3>2
  <2> QED BY <2>1
<1>8. Shown(p)' = Shown(p)
  BY <1>7 DEF Shown, SeenIn, SeesHand
<1> QED BY <1>6, <1>8, Stays

(* Nothing is written; nothing changes that anybody sees.                  *)
LEMMA Still ==
    ASSUME NEW p, mem' = mem,
           \A q \in Proc : q # p => /\ vm'[q] = vm[q] /\ hand'[q] = hand[q]
                                    /\ pc'[q] = pc[q] /\ arg'[q] = arg[q] /\ todo'[q] = todo[q]
    PROVE  Alone(p)
<1>1. OnlyOf(p, {})
  BY DEF OnlyOf
<1> QED BY <1>1 DEF Alone

LEMMA Unwritten == \A sp : mem' = mem => Unaltered(sp, sp)
BY DEF Unaltered, Looks

LEMMA Unmoved ==
    ASSUME AllViews, UNCHANGED <<mem, vm, hand, pc, arg>>,
           kernel' # "running" \/ todo' = todo
    PROVE  ViewInv' /\ Refines
<1>1. \A q \in Proc : Shown(q)' = Shown(q)
  BY DEF Shown
<1>2. ViewInv'
  BY DEF ViewInv, AllViews, View
<1> QED BY <1>1, <1>2, NobodySees

-----------------------------------------------------------------------------
(* The faults.                                                             *)
LEMMA FaultInvalidView ==
    ASSUME Facts, AllViews, NEW p \in Proc, NEW pg \in Page, FaultInvalid(p, pg)
    PROVE  ViewInv' /\ Refines
<1>1. /\ pc[p] = "user" /\ pc'[p] \in {"user", "exit"}
      /\ \A q \in Proc : q # p => pc'[q] = pc[q]
      /\ UNCHANGED <<mem, vm, hand, arg, todo>>
  BY DEF FaultInvalid, FaultFails, At, To, Facts, TypeOK, local
<1>2. Alone(p)
  BY <1>1, Still
<1>3. Unaltered(vm[p], vm'[p]) /\ Unaltered(hand[p], hand'[p])
  BY <1>1, Unwritten
<1> QED BY <1>1, <1>2, <1>3, Unseen DEF SeesHand, LoadingIn

LEMMA FaultInitFailsView ==
    ASSUME Facts, AllViews, NEW p \in Proc, NEW from \in {"user", "load", "argv"},
           NEW pg \in Page, FaultInitFails(p, from, pg)
    PROVE  ViewInv' /\ Refines
<1>1. /\ pc[p] = from /\ FaultFails(p, from) /\ UNCHANGED <<mem, vm, hand, arg, todo>>
  BY DEF FaultInitFails, Fault, At, local
<1>2. /\ \A q \in Proc : q # p => pc'[q] = pc[q]
      /\ \/ from = "user" /\ pc'[p] \in {"user", "exit"}
         \/ from = "load" /\ pc'[p] = "unload"
         \/ from = "argv" /\ pc'[p] = "argv"
  BY <1>1 DEF FaultFails, To, Facts, TypeOK
<1>3. Alone(p)
  BY <1>1, <1>2, Still
<1>4. Unaltered(vm[p], vm'[p]) /\ Unaltered(hand[p], hand'[p])
  BY <1>1, Unwritten
<1> QED BY <1>1, <1>2, <1>3, <1>4, Unseen DEF SeesHand, LoadingIn

LEMMA FaultAbsentView ==
    ASSUME Facts, AllViews, NEW p \in Proc, NEW from \in {"user", "load", "argv"},
           NEW pg \in Page, FaultAbsent(p, from, pg)
    PROVE  ViewInv' /\ Refines
<1>1. /\ pc[p] = from /\ pc' = [pc EXCEPT ![p] = "addpte"]
      /\ arg' = [arg EXCEPT ![p] = [ret |-> from, page |-> pg, flag |-> FALSE]]
      /\ UNCHANGED <<mem, vm, hand, todo>>
  BY DEF FaultAbsent, Fault, At, To, Set
<1>2. /\ pc'[p] = "addpte" /\ arg'[p].ret = from
      /\ \A q \in Proc : q # p => pc'[q] = pc[q] /\ arg'[q] = arg[q]
  BY <1>1 DEF Facts, TypeOK
<1>3. Alone(p)
  BY <1>1, <1>2, Still
<1>4. Unaltered(vm[p], vm'[p]) /\ Unaltered(hand[p], hand'[p])
  BY <1>1, Unwritten
<1> QED BY <1>1, <1>2, <1>3, <1>4, Unseen DEF SeesHand, LoadingIn

LEMMA FaultInitPTView ==
    ASSUME Facts, AllViews, NEW p \in Proc, NEW from \in {"user", "load", "argv"},
           NEW pg \in Page, from = "argv" => pg = Argv, FaultInitPT(p, from, pg)
    PROVE  ViewInv' /\ Refines
<1>1. /\ Alone(p) /\ Looks(mem, vm[p], mem', vm'[p])
      /\ hand[p] # NULL => Looks(mem, hand[p], mem', hand[p])
  BY FaultInitPTInv
<1>2. /\ pc[p] = from /\ vm[p] # NULL /\ pc' = [pc EXCEPT ![p] = "addpte"]
      /\ arg' = [arg EXCEPT ![p] = [ret |-> from, page |-> pg, flag |-> TRUE]]
      /\ UNCHANGED <<hand, todo>>
  BY DEF FaultInitPT, Fault, At, To, Set
<1>3. pc'[p] = "addpte" /\ arg'[p].ret = from
  BY <1>2 DEF Facts, TypeOK
<1>4. Unaltered(vm[p], vm'[p]) /\ Unaltered(hand[p], hand'[p])
  BY <1>1, <1>2 DEF Unaltered
<1> QED BY <1>1, <1>2, <1>3, <1>4, Unseen DEF SeesHand, LoadingIn

LEMMA FaultAddPTEView ==
    ASSUME Facts, AllViews, NEW p \in Proc, FaultAddPTE(p) PROVE ViewInv' /\ Refines
<1>1. /\ Alone(p) /\ Looks(mem, vm[p], mem', vm'[p])
      /\ hand[p] # NULL => Looks(mem, hand[p], mem', hand[p])
  BY FaultAddPTEInv
<1>2. /\ pc[p] = "addpte" /\ pc' = [pc EXCEPT ![p] = arg[p].ret]
      /\ arg' = [arg EXCEPT ![p] = NoArg] /\ UNCHANGED <<hand, todo>>
  BY DEF FaultAddPTE, Go, At, To, Set
<1>3. vm[p] # NULL /\ arg[p].ret \in {"user", "load", "argv"}
  BY <1>2 DEF Facts, ProcsIn, ProcIn, FaultIn
<1>4. pc'[p] = arg[p].ret
  BY <1>2 DEF Facts, TypeOK
<1>5. Unaltered(vm[p], vm'[p]) /\ Unaltered(hand[p], hand'[p])
  BY <1>1, <1>2, <1>3 DEF Unaltered
<1> QED BY <1>1, <1>2, <1>3, <1>4, <1>5, Unseen DEF SeesHand, LoadingIn

LEMMA FaultAddFailsView ==
    ASSUME Facts, AllViews, NEW p \in Proc, FaultAddFails(p) PROVE ViewInv' /\ Refines
<1>1. /\ Alone(p) /\ Looks(mem, vm[p], mem', vm'[p])
      /\ hand[p] # NULL => Looks(mem, hand[p], mem', hand[p])
  BY FaultAddFailsInv
<1>2. /\ pc[p] = "addpte" /\ FaultFails(p, arg[p].ret)
      /\ arg' = [arg EXCEPT ![p] = NoArg] /\ UNCHANGED <<hand, todo>>
  BY DEF FaultAddFails, At, Set
<1>3. vm[p] # NULL
  BY <1>2 DEF Facts, ProcsIn, ProcIn
<1>4. /\ arg'[p].ret = "user"
      /\ \/ arg[p].ret = "user" /\ pc'[p] \in {"user", "exit"}
         \/ arg[p].ret = "load" /\ pc'[p] = "unload"
         \/ arg[p].ret = "argv" /\ pc'[p] = "addpte"
  BY <1>2 DEF FaultFails, To, Facts, TypeOK, NoArg
<1>5. Unaltered(vm[p], vm'[p]) /\ Unaltered(hand[p], hand'[p])
  BY <1>1, <1>2, <1>3 DEF Unaltered
<1> QED BY <1>1, <1>2, <1>4, <1>5, Unseen DEF SeesHand, LoadingIn

-----------------------------------------------------------------------------
(* fork, up to the child.                                                  *)
LEMMA RunProgramView ==
    ASSUME Facts, AllViews, NEW p \in Proc, RunProgram(p) PROVE ViewInv' /\ Refines
<1>1. /\ pc[p] = "none" /\ pc'[p] = "new" /\ \A q \in Proc : q # p => pc'[q] = pc[q]
      /\ UNCHANGED <<mem, vm, hand, arg, todo>>
  BY DEF RunProgram, To, Facts, TypeOK, local
<1>2. Alone(p)
  BY <1>1, Still
<1>3. Unaltered(vm[p], vm'[p]) /\ Unaltered(hand[p], hand'[p])
  BY <1>1, Unwritten
<1> QED BY <1>1, <1>2, <1>3, Unseen DEF SeesHand, LoadingIn

LEMMA ForkFailsView ==
    ASSUME Facts, AllViews, NEW p \in Proc, ForkFails(p) PROVE ViewInv' /\ Refines
<1>1. /\ pc[p] = "copy" /\ pc'[p] = "destroy"
      /\ \A q \in Proc : q # p => pc'[q] = pc[q] /\ todo'[q] = todo[q]
      /\ UNCHANGED <<mem, vm, hand, arg>>
  BY DEF ForkFails, Go, At, To, Set, Facts, TypeOK
<1>2. Alone(p)
  BY <1>1, Still
<1>3. Unaltered(vm[p], vm'[p]) /\ Unaltered(hand[p], hand'[p])
  BY <1>1, Unwritten
<1> QED BY <1>1, <1>2, <1>3, Unseen DEF SeesHand, LoadingIn

LEMMA CopyPageFailsView ==
    ASSUME Facts, AllViews, NEW p \in Proc, CopyPageFails(p) PROVE ViewInv' /\ Refines
<1>1. /\ pc[p] = "copy" /\ \A q \in Proc : q # p => todo'[q] = todo[q]
      /\ UNCHANGED <<mem, vm, hand, arg>>
      /\ (To(p, "destroy") \/ (kernel' = "undefined" /\ UNCHANGED pc))
  BY DEF CopyPageFails, At, Set, Facts, TypeOK
<1>2. CASE kernel' = "undefined" /\ UNCHANGED pc
  BY <1>1, <1>2, Unmoved
<1>3. CASE To(p, "destroy")
  <2>1. pc'[p] = "destroy" /\ \A q \in Proc : q # p => pc'[q] = pc[q]
    BY <1>3 DEF To, Facts, TypeOK
  <2>2. Alone(p)
    BY <1>1, <2>1, Still
  <2>3. Unaltered(vm[p], vm'[p]) /\ Unaltered(hand[p], hand'[p])
    BY <1>1, Unwritten
  <2> QED BY <1>1, <2>1, <2>2, <2>3, Unseen DEF SeesHand, LoadingIn
<1> QED BY <1>1, <1>2, <1>3

LEMMA CopyTableView ==
    ASSUME Facts, AllViews, NEW p \in Proc, CopyTable(p) PROVE ViewInv' /\ Refines
<1>1. Alone(p) /\ Looks(mem, vm[p], mem', vm[p]) /\ Looks(mem, hand[p], mem', hand'[p])
  BY CopyTableInv
<1>2. pc[p] = "copy" /\ UNCHANGED <<vm, pc, arg, todo>>
  BY DEF CopyTable, At, local
<1>3. vm[p] # NULL /\ hand[p] # NULL
  BY <1>2 DEF Facts, ProcsIn, ProcIn
<1>4. Unaltered(vm[p], vm'[p]) /\ Unaltered(hand[p], hand'[p])
  BY <1>1, <1>2, <1>3 DEF Unaltered
<1> QED BY <1>1, <1>2, <1>4, Unseen DEF SeesHand, LoadingIn

(* Two regions at most are copied as they are.                             *)
LEMMA ForkView ==
    ASSUME Facts, AllViews, NEW p \in Proc, Fork(p) PROVE ViewInv' /\ Refines
<1> DEFINE f == alloc_kpages(1)  new == NewSpace(f, CopyRegions(vm[p].as_regions))
<1>1. /\ vm[p] # NULL /\ pc[p] = "user" /\ To(p, "copy") /\ Take(f)
      /\ hand' = [hand EXCEPT ![p] = new] /\ todo' = [todo EXCEPT ![p] = Present(vm[p])]
      /\ UNCHANGED <<mem, vm, arg>>
  BY DEF Fork, Go, At, Create, Set
<1>2. f \in Frame
  BY <1>1, Fresh
<1>3. vm[p] \in Addrspace /\ TidyIn(mem, vm[p]) /\ SoundIn(mem, vm[p])
  BY <1>1 DEF Facts, TypeOK, TidyAll, AllViews, View, ViewIn
<1>4. /\ CopyRegions(vm[p].as_regions) = vm[p].as_regions
      /\ vm[p].as_regions \in Seq(Region) /\ vm[p].as_regions # <<>>
  BY <1>3 DEF CopyRegions, SoundIn, Addrspace, TidyIn
<1> HIDE DEF f
<1>5. new # NULL /\ \A pg : EntryIn(mem, new, pg) = NULL
  BY <1>2, <1>4, Created
<1>6. new.as_regions = vm[p].as_regions
  BY <1>4 DEF NewSpace
<1> HIDE DEF new
<1>7. /\ hand'[p] = new /\ pc'[p] = "copy" /\ todo'[p] = PresentIn(mem, vm[p])
      /\ \A q \in Proc : q # p => hand'[q] = hand[q] /\ pc'[q] = pc[q] /\ todo'[q] = todo[q]
  BY <1>1, PresentIs DEF Facts, TypeOK, To
<1>8. Alone(p)
  BY <1>1, <1>7, Still
<1>9. /\ \A pg \in Page : ContentIn(mem, new, pg) = Zero
      /\ \A pg \in Page \ PresentIn(mem, vm[p]) : ContentIn(mem, vm[p], pg) = Zero
  BY <1>5 DEF ContentIn, PresentIn
<1>10. SoundIn(mem, new)
  BY <1>3, <1>6, <1>9, SpacesAssumption DEF SoundIn
<1>11. View(p)'
  BY <1>1, <1>3, <1>6, <1>7, <1>9, <1>10 DEF View, ViewIn, LoadingIn
<1>12. Shown(p)' = Shown(p)
  BY <1>1, <1>7 DEF Shown, SeenIn, LoadingIn
<1> QED BY <1>8, <1>11, <1>12, Stays

LEMMA CopyPageView ==
    ASSUME Facts, AllViews, NEW p \in Proc, CopyPage(p) PROVE ViewInv' /\ Refines
<1> DEFINE pg == Earliest(todo[p])
<1>1. /\ Alone(p) /\ Looks(mem, vm[p], mem', vm[p]) /\ pg \in Page
      /\ Put(mem, mem', hand[p], pg, ContentIn(mem, vm[p], pg))
  BY CopyPageInv
<1>2. /\ pc[p] = "copy" /\ todo' = [todo EXCEPT ![p] = todo[p] \ {pg}]
      /\ UNCHANGED <<vm, hand, pc, arg>>
  BY DEF CopyPage, At, Set
<1> HIDE DEF pg
<1>3. vm[p] # NULL /\ hand[p] # NULL /\ View(p)
  BY <1>2 DEF Facts, ProcsIn, ProcIn, AllViews
<1>4. todo'[p] = todo[p] \ {pg}
  BY <1>2 DEF Facts, TypeOK
<1>5. /\ SoundIn(mem, vm[p]) /\ SoundIn(mem, hand[p]) /\ hand[p].as_regions = vm[p].as_regions
      /\ \A x \in Page \ todo[p] : ContentIn(mem, hand[p], x) = ContentIn(mem, vm[p], x)
  BY <1>2, <1>3 DEF View, ViewIn
<1>6. SoundIn(mem', vm[p]) /\ SoundIn(mem', hand[p])
  <2>1. ContentIn(mem, vm[p], pg) \in Value
    BY <1>1, <1>5 DEF SoundIn
  <2> QED BY <1>1, <1>3, <1>5, <2>1, LooksAlike, PutAlike
<1>7. \A x \in Page : ContentIn(mem', vm[p], x) = ContentIn(mem, vm[p], x)
  BY <1>1 DEF Looks
<1>8. \A x \in Page \ todo'[p] : ContentIn(mem', hand[p], x) = ContentIn(mem', vm[p], x)
  BY <1>1, <1>4, <1>5, <1>7 DEF Put
<1>9. View(p)'
  BY <1>2, <1>5, <1>6, <1>8 DEF View, ViewIn, LoadingIn
<1>10. Shown(p)' = Shown(p)
  BY <1>1, <1>2, <1>3, LooksAlike DEF Shown, SeenIn, LoadingIn
<1> QED BY <1>1, <1>9, <1>10, Stays

-----------------------------------------------------------------------------
(* execv, up to the program's start.                                       *)
LEMMA DefinedRegions ==
    /\ Len(DefineRegions) = Len(Segments) /\ DOMAIN DefineRegions = DOMAIN Segments
    /\ \A pg : (\E i \in DOMAIN DefineRegions : pg \in DefineRegions[i].pages)
                  <=> \E i \in DOMAIN Segments : pg \in Segments[i].pages
<1> DEFINE n == Len(Segments)
<1>1. n \in Nat /\ DOMAIN Segments = 1 .. n
  BY SpacesAssumption
<1>2. /\ DefineRegions \in Seq(Region) /\ DOMAIN DefineRegions = 1 .. n
      /\ \A i \in 1 .. n : DefineRegions[i].pages = Segments[n + 1 - i].pages
  BY <1>1, RegionsOK DEF DefineRegions
<1>3. Len(DefineRegions) = n
  BY <1>1, <1>2
<1> HIDE DEF n
<1>4. \A i \in 1 .. n : n + 1 - i \in 1 .. n /\ n + 1 - (n + 1 - i) = i
  BY <1>1
<1>5. ASSUME NEW pg, NEW i \in 1 .. n, pg \in Segments[i].pages
      PROVE  \E j \in 1 .. n : pg \in DefineRegions[j].pages
  <2>1. n + 1 - i \in 1 .. n /\ pg \in DefineRegions[n + 1 - i].pages
    BY <1>2, <1>4, <1>5
  <2> QED BY <2>1
<1>6. ASSUME NEW pg, NEW i \in 1 .. n, pg \in DefineRegions[i].pages
      PROVE  \E j \in 1 .. n : pg \in Segments[j].pages
  BY <1>2, <1>4, <1>6
<1> QED BY <1>1, <1>2, <1>3, <1>5, <1>6 DEF n

LEMMA ExecView ==
    ASSUME Facts, AllViews, Len(Segments) <= 2, NEW p \in Proc, Exec(p)
    PROVE  ViewInv' /\ Refines
<1> DEFINE f == alloc_kpages(1)  new == NewSpace(f, DefineRegions)
           pages == UNION {Segments[i].filled : i \in DOMAIN Segments}
<1>1. /\ pc[p] \in {"user", "new"} /\ To(p, "load") /\ Take(f)
      /\ vm' = [vm EXCEPT ![p] = new] /\ hand' = [hand EXCEPT ![p] = vm[p]]
      /\ todo' = [todo EXCEPT ![p] = pages] /\ UNCHANGED <<mem, arg>>
  BY DEF Exec, At, Create, Set
<1>2. f \in Frame
  BY <1>1, Fresh
<1>3. \A pg \in Page \ pages : Image[pg] = Zero
  BY ImageAssumption
<1> HIDE DEF f, pages
<1>4. new # NULL /\ \A pg : EntryIn(mem, new, pg) = NULL
  BY <1>2, RegionsOK, Created
<1>5. new.as_regions = DefineRegions
  BY DEF NewSpace
<1> HIDE DEF new
<1>6. /\ vm'[p] = new /\ hand'[p] = vm[p] /\ pc'[p] = "load" /\ todo'[p] = pages
      /\ \A q \in Proc : q # p => /\ vm'[q] = vm[q] /\ hand'[q] = hand[q]
                                  /\ pc'[q] = pc[q] /\ todo'[q] = todo[q]
  BY <1>1 DEF Facts, TypeOK, To
<1>7. Alone(p)
  BY <1>1, <1>6, Still
<1>8. \A pg \in Page : ContentIn(mem, new, pg) = Zero
  BY <1>4 DEF ContentIn
<1>9. SoundIn(mem, new)
  BY <1>5, <1>8, DefinedRegions, SpacesAssumption DEF SoundIn
<1>10. vm[p] # NULL => SoundIn(mem, vm[p])
  BY DEF AllViews, View, ViewIn
<1>11. View(p)'
  BY <1>1, <1>3, <1>5, <1>6, <1>8, <1>9, <1>10 DEF View, ViewIn
<1>12. Shown(p)' = Shown(p)
  BY <1>1, <1>6 DEF Shown, SeenIn, LoadingIn
<1> QED BY <1>7, <1>11, <1>12, Stays

LEMMA LoadPageView ==
    ASSUME Facts, AllViews, NEW p \in Proc, LoadPage(p) PROVE ViewInv' /\ Refines
<1> DEFINE pg == Earliest(todo[p])
<1>1. /\ Alone(p) /\ Put(mem, mem', vm[p], pg, Image[pg])
      /\ hand[p] # NULL => Looks(mem, hand[p], mem', hand[p])
  BY LoadPageInv
<1>2. /\ pc[p] = "load" /\ todo[p] # {} /\ todo' = [todo EXCEPT ![p] = todo[p] \ {pg}]
      /\ UNCHANGED <<vm, hand, pc, arg>>
  BY DEF LoadPage, At, Set
<1>3. pg \in Page
  BY <1>2, EarliestIn DEF Facts, TypeOK
<1> HIDE DEF pg
<1>4. vm[p] # NULL /\ View(p)
  BY <1>2 DEF Facts, ProcsIn, ProcIn, AllViews
<1>5. todo'[p] = todo[p] \ {pg}
  BY <1>2 DEF Facts, TypeOK
<1>6. /\ SoundIn(mem, vm[p]) /\ (hand[p] # NULL => SoundIn(mem, hand[p]))
      /\ vm[p].as_regions = DefineRegions
      /\ \A x \in Page \ todo[p] : ContentIn(mem, vm[p], x) = Image[x]
  BY <1>2, <1>4 DEF View, ViewIn, LoadingIn
<1>7. SoundIn(mem', vm[p])
  <2>1. Image[pg] \in Value
    BY <1>3, SpacesAssumption
  <2> QED BY <1>1, <1>3, <1>4, <1>6, <2>1, PutAlike
<1>8. \A x \in Page \ todo'[p] : ContentIn(mem', vm[p], x) = Image[x]
  BY <1>1, <1>3, <1>5, <1>6 DEF Put
<1>9. /\ hand[p] # NULL => SoundIn(mem', hand[p])
      /\ MemoryIn(mem', hand[p]) = MemoryIn(mem, hand[p])
  <2>1. CASE hand[p] = NULL
    BY <2>1 DEF MemoryIn
  <2>2. CASE hand[p] # NULL
    BY <1>1, <1>6, <2>2, LooksAlike
  <2> QED BY <2>1, <2>2
<1>10. View(p)'
  BY <1>2, <1>6, <1>7, <1>8, <1>9 DEF View, ViewIn
<1>11. Shown(p)' = Shown(p)
  BY <1>2, <1>9 DEF Shown, SeenIn, LoadingIn
<1> QED BY <1>1, <1>10, <1>11, Stays

LEMMA LoadFailsView ==
    ASSUME Facts, AllViews, NEW p \in Proc, LoadFails(p) PROVE ViewInv' /\ Refines
<1>1. /\ pc[p] \in {"load", "unload"} /\ To(p, "destroy")
      /\ vm' = [vm EXCEPT ![p] = hand[p]] /\ hand' = [hand EXCEPT ![p] = vm[p]]
      /\ todo' = [todo EXCEPT ![p] = {}] /\ mem' = mem
  BY DEF LoadFails, At, Set
<1>2. \E r : arg' = [arg EXCEPT ![p].ret = r]
  BY DEF LoadFails
<1>3. /\ vm'[p] = hand[p] /\ pc'[p] = "destroy"
      /\ \A q \in Proc : q # p => /\ vm'[q] = vm[q] /\ hand'[q] = hand[q]
                                  /\ pc'[q] = pc[q] /\ arg'[q] = arg[q] /\ todo'[q] = todo[q]
  BY <1>1, <1>2 DEF Facts, TypeOK, To
<1>4. Alone(p)
  BY <1>1, <1>3, Still
<1>5. hand[p] # NULL => SoundIn(mem, hand[p])
  BY <1>1 DEF AllViews, View, ViewIn
<1>6. View(p)'
  BY <1>1, <1>3, <1>5 DEF View, ViewIn, LoadingIn
<1>7. Shown(p)' = Shown(p)
  BY <1>1, <1>3 DEF Shown, SeenIn, LoadingIn
<1> QED BY <1>4, <1>6, <1>7, Stays

(* The program starts with what its file says.                             *)
LEMMA LoadDoneView ==
    ASSUME Facts, AllViews, NEW p \in Proc, LoadDone(p) PROVE ViewInv' /\ Refines
<1> DEFINE new == [vm[p] EXCEPT !.as_regions = [i \in DOMAIN vm[p].as_regions |->
                                                 Restored(vm[p].as_regions[i])]]
<1>1. /\ pc[p] = "load" /\ todo[p] = {} /\ vm' = [vm EXCEPT ![p] = new]
      /\ UNCHANGED <<mem, hand, todo>>
      /\ To(p, IF hand[p] = NULL THEN "argv" ELSE "destroy")
      /\ arg' = IF hand[p] = NULL THEN arg ELSE [arg EXCEPT ![p].ret = "argv"]
  BY DEF LoadDone, At
<1>2. /\ vm[p] # NULL /\ vm[p] \in Addrspace /\ SoundIn(mem, vm[p])
      /\ vm[p].as_regions = DefineRegions
      /\ \A pg \in Page : ContentIn(mem, vm[p], pg) = Image[pg]
  BY <1>1 DEF Facts, TypeOK, ProcsIn, ProcIn, AllViews, View, ViewIn, LoadingIn
<1>3. /\ new.as_pte = vm[p].as_pte /\ new.gone = vm[p].gone
      /\ new.as_regions = [i \in DOMAIN DefineRegions |-> Restored(DefineRegions[i])]
  BY <1>2 DEF Addrspace
<1>4. new # NULL
  <2>1. new \in Addrspace
    BY <1>2, RestoredSeq DEF Addrspace, Facts, TidyAll, TidyIn
  <2> QED BY <2>1, NullAssumption
<1>5. /\ vm'[p] = new
      /\ pc'[p] \in {"argv", "destroy"} /\ (pc'[p] # "destroy" => hand[p] = NULL)
      /\ \A q \in Proc : q # p => vm'[q] = vm[q] /\ pc'[q] = pc[q] /\ arg'[q] = arg[q]
  BY <1>1 DEF Facts, TypeOK, To
<1> HIDE DEF new
<1>6. Alone(p)
  BY <1>1, <1>5, Still
<1>7. \A pg : ContentIn(mem, new, pg) = ContentIn(mem, vm[p], pg)
  BY <1>3 DEF ContentIn, FrameIn, EntryIn, Live, Tables
<1>8. /\ DOMAIN new.as_regions = DOMAIN DefineRegions
      /\ \A i \in DOMAIN DefineRegions : new.as_regions[i].pages = DefineRegions[i].pages
      /\ Len(new.as_regions) = Len(DefineRegions)
  <2>1. DefineRegions \in Seq(Region)
    BY RegionsOK
  <2>2. \A i \in DOMAIN DefineRegions : DefineRegions[i] \in Region
    BY <2>1
  <2>3. \A i \in DOMAIN DefineRegions : Restored(DefineRegions[i]).pages = DefineRegions[i].pages
    BY <2>2 DEF Restored, Region
  <2> QED BY <1>3, <2>1, <2>3
<1>9. SoundIn(mem, new)
  BY <1>2, <1>7, <1>8 DEF SoundIn
<1>10. View(p)'
  BY <1>1, <1>5, <1>9 DEF View, ViewIn, LoadingIn
<1>11. Shown(p)' = Started
  <2>1. \A pg \in Page : Valid(new, pg) <=>
           pg \in Stack \/ \E i \in DOMAIN Segments : pg \in Segments[i].pages
    BY <1>8, DefinedRegions DEF Valid
  <2>2. MemoryIn(mem, new) = Started
    BY <1>2, <1>4, <1>7, <2>1 DEF MemoryIn, Started
  <2> QED BY <1>1, <1>5, <2>2 DEF Shown, SeenIn, LoadingIn
<1>12. ViewInv' /\ \A q \in Proc : q # p => Shown(q)' = Shown(q)
  BY <1>6, <1>10, OneMoves
<1>13. Memory' = [Memory EXCEPT ![p] = Started]
  BY <1>11, <1>12, MemoryIs, MemoryIsNext
<1>14. private!Exec(p)
  BY <1>13 DEF private!Exec
<1> QED BY <1>12, <1>14 DEF Refines, private!Next

-----------------------------------------------------------------------------
(* A program stores to its own memory, or to a page that its file does not *)
(* grant it and that no load will show.                                    *)
LEMMA PutView ==
    ASSUME Facts, AllViews, NEW p \in Proc, NEW pg \in Page, NEW x \in Value,
           Alone(p), Put(mem, mem', vm[p], pg, x), vm[p] # NULL, hand[p] = NULL,
           pc[p] \in {"user", "argv"}, pc'[p] = "user", UNCHANGED <<vm, hand>>
    PROVE  ViewInv' /\ Refines
<1>1. SoundIn(mem, vm[p])
  BY DEF AllViews, View, ViewIn
<1>2. /\ SoundIn(mem', vm[p])
      /\ Valid(vm[p], pg) => MemoryIn(mem', vm[p]) = [MemoryIn(mem, vm[p]) EXCEPT ![pg] = x]
      /\ ~Valid(vm[p], pg) => MemoryIn(mem', vm[p]) = MemoryIn(mem, vm[p])
  <2> DEFINE sp == vm[p]
  <2>1. sp # NULL /\ SoundIn(mem, sp) /\ Put(mem, mem', sp, pg, x)
    BY <1>1
  <2> HIDE DEF sp
  <2>2. /\ SoundIn(mem', sp)
        /\ Valid(sp, pg) => MemoryIn(mem', sp) = [MemoryIn(mem, sp) EXCEPT ![pg] = x]
        /\ ~Valid(sp, pg) => MemoryIn(mem', sp) = MemoryIn(mem, sp)
    BY <2>1, PutAlike
  <2> QED BY <2>2 DEF sp
<1>3. View(p)'
  BY <1>2 DEF View, ViewIn, LoadingIn
<1>4. Shown(p) = MemoryIn(mem, vm[p]) /\ Shown(p)' = MemoryIn(mem', vm[p])
  BY DEF Shown, SeenIn, LoadingIn
<1>5. ViewInv' /\ \A q \in Proc : q # p => Shown(q)' = Shown(q)
  BY <1>3, OneMoves
<1>6. CASE ~Valid(vm[p], pg)
  BY <1>2, <1>3, <1>4, <1>6, Stays
<1>7. CASE Valid(vm[p], pg)
  <2>1. Shown(p) # NULL /\ Shown(p)[pg] # NULL /\ Shown(p)' = [Shown(p) EXCEPT ![pg] = x]
    BY <1>1, <1>2, <1>4, <1>7, SoundMemory
  <2>2. Memory[p] = Shown(p)
    BY MemoryIs
  <2>3. Memory' = [Memory EXCEPT ![p] = [Memory[p] EXCEPT ![pg] = x]]
    BY <1>5, <2>1, <2>2, MemoryIs, MemoryIsNext
  <2>4. private!Store(p, pg, x)
    BY <2>1, <2>2, <2>3 DEF private!Store
  <2> QED BY <1>5, <2>4 DEF Refines, private!Next
<1> QED BY <1>6, <1>7

LEMMA StoreView ==
    ASSUME Facts, AllViews, NEW p \in Proc, NEW pg \in Page, NEW v \in Value, Store(p, pg, v)
    PROVE  ViewInv' /\ Refines
<1>1. Alone(p) /\ Put(mem, mem', vm[p], pg, v)
  BY StoreInv
<1>2. pc[p] = "user" /\ UNCHANGED <<vm, hand, pc>>
  BY DEF Store, At
<1>3. vm[p] # NULL /\ hand[p] = NULL
  BY <1>2 DEF Facts, ProcsIn, ProcIn
<1> QED BY <1>1, <1>2, <1>3, PutView

LEMMA CopyArgsView ==
    ASSUME Facts, AllViews, NEW p \in Proc, NEW v \in Value, CopyArgs(p, v)
    PROVE  ViewInv' /\ Refines
<1>1. /\ pc[p] = "argv" /\ UNCHANGED <<vm, hand, arg, todo>>
      /\ \/ UNCHANGED <<mem, pc>>
         \/ pc'[p] = "user" /\ Alone(p) /\ Put(mem, mem', vm[p], Argv, v)
  BY CopyArgsInv DEF CopyArgs, At, local
<1>2. CASE UNCHANGED <<mem, pc>>
  BY <1>1, <1>2, Unmoved
<1>3. CASE pc'[p] = "user" /\ Alone(p) /\ Put(mem, mem', vm[p], Argv, v)
  <2>1. vm[p] # NULL /\ hand[p] = NULL
    BY <1>1 DEF Facts, ProcsIn, ProcIn
  <2>2. Argv \in Page
    BY SpacesAssumption
  <2> QED BY <1>1, <1>3, <2>1, <2>2, PutView
<1> QED BY <1>1, <1>2, <1>3

(* The child has the memory of its parent.                                 *)
LEMMA ForkDoneView ==
    ASSUME Facts, AllViews, NEW p \in Proc, NEW q \in Proc, ForkDone(p, q)
    PROVE  ViewInv' /\ Refines
<1>1. /\ pc[p] = "copy" /\ todo[p] = {} /\ pc[q] = "none"
      /\ pc' = [pc EXCEPT ![p] = "user", ![q] = "user"]
      /\ vm' = [vm EXCEPT ![q] = hand[p]] /\ hand' = [hand EXCEPT ![p] = NULL]
      /\ UNCHANGED <<mem, arg, todo>>
  BY DEF ForkDone, At, Set, Copied, local
<1>2. p # q /\ vm[p] # NULL /\ hand[p] # NULL /\ vm[q] = NULL /\ hand[q] = NULL
  BY <1>1 DEF Facts, ProcsIn, ProcIn
<1>3. /\ pc'[p] = "user" /\ vm'[p] = vm[p] /\ hand'[p] = NULL
      /\ pc'[q] = "user" /\ vm'[q] = hand[p] /\ hand'[q] = NULL
      /\ \A z \in Proc : z # p /\ z # q => pc'[z] = pc[z] /\ vm'[z] = vm[z] /\ hand'[z] = hand[z]
  BY <1>1, <1>2 DEF Facts, TypeOK
<1>4. SoundIn(mem, vm[p]) /\ SoundIn(mem, hand[p]) /\ Looks(mem, vm[p], mem, hand[p])
  BY <1>1, <1>2 DEF AllViews, View, ViewIn, Looks
<1>5. View(p)' /\ View(q)'
  BY <1>1, <1>3, <1>4 DEF View, ViewIn, LoadingIn
<1>6. \A z \in Proc : z # p /\ z # q => View(z)' /\ Shown(z)' = Shown(z)
  BY <1>1, <1>3 DEF AllViews, View, Shown
<1>7. /\ Shown(p) = MemoryIn(mem, vm[p]) /\ Shown(p)' = Shown(p)
      /\ Shown(q) = NULL /\ Shown(q)' = MemoryIn(mem, hand[p])
  <2>1. mem' = mem
    BY <1>1
  <2>2. SeenIn(vm[p], hand[p], pc[p], arg[p]) = vm[p]
    BY <1>1 DEF SeenIn, LoadingIn
  <2>3. SeenIn(vm'[p], hand'[p], pc'[p], arg'[p]) = vm[p]
    BY <1>3 DEF SeenIn, LoadingIn
  <2>4. SeenIn(vm[q], hand[q], pc[q], arg[q]) = NULL
    BY <1>1, <1>2 DEF SeenIn, LoadingIn
  <2>5. SeenIn(vm'[q], hand'[q], pc'[q], arg'[q]) = hand[p]
    BY <1>3 DEF SeenIn, LoadingIn
  <2>6. Shown(p) = MemoryIn(mem, vm[p]) /\ Shown(p)' = MemoryIn(mem, vm[p])
    BY <2>1, <2>2, <2>3 DEF Shown
  <2>7. Shown(q)' = MemoryIn(mem, hand[p])
    BY <2>1, <2>5 DEF Shown
  <2>8. Shown(q) = NULL
    BY <2>4 DEF Shown, MemoryIn
  <2> QED BY <2>6, <2>7, <2>8
<1>8. MemoryIn(mem, hand[p]) = MemoryIn(mem, vm[p]) /\ MemoryIn(mem, vm[p]) # NULL
  BY <1>2, <1>4, LooksAlike, SoundMemory
<1>9. Memory[p] = Shown(p) /\ Memory[q] = NULL
  BY <1>7, MemoryIs
<1>10. Memory' = [Memory EXCEPT ![q] = Memory[p]]
  BY <1>6, <1>7, <1>8, <1>9, MemoryIs, MemoryIsNext
<1>11. private!Fork(p, q)
  BY <1>7, <1>8, <1>9, <1>10 DEF private!Fork
<1>12. ViewInv'
  BY <1>5, <1>6 DEF ViewInv, AllViews
<1> QED BY <1>11, <1>12 DEF Refines, private!Next

-----------------------------------------------------------------------------
(* What is destroyed nobody sees.                                          *)
LEMMA DestroyView ==
    ASSUME Facts, AllViews, NEW p \in Proc, DestroyTable(p) \/ DestroyRoot(p)
    PROVE  ViewInv' /\ Refines
<1>1. Alone(p) /\ (vm[p] # NULL => Looks(mem, vm[p], mem', vm[p]))
  BY DestroyTableInv, DestroyRootInv
<1>2. /\ pc[p] = "destroy" /\ vm'[p] = vm[p]
      /\ \/ pc'[p] = "destroy"
         \/ hand'[p] = NULL /\ pc'[p] \in {"user", "argv", "exit", "none"}
  <2>1. CASE DestroyTable(p)
    BY <2>1 DEF DestroyTable, At
  <2>2. CASE DestroyRoot(p)
    <3>1. /\ pc[p] = "destroy" /\ pc' = [pc EXCEPT ![p] = arg[p].ret]
          /\ hand' = [hand EXCEPT ![p] = NULL] /\ vm' = vm
      BY <2>2 DEF DestroyRoot, Go, At, To, Set
    <3>2. arg[p].ret \in {"user", "argv", "exit", "none"}
      BY <3>1 DEF Facts, ProcsIn, ProcIn, DestroyIn
    <3> QED BY <3>1, <3>2 DEF Facts, TypeOK
  <2> QED BY <2>1, <2>2
<1>3. vm[p] # NULL => SoundIn(mem', vm[p])
  BY <1>1, LooksAlike DEF AllViews, View, ViewIn
<1>4. View(p)'
  BY <1>2, <1>3 DEF View, ViewIn, LoadingIn
<1>5. MemoryIn(mem', vm[p]) = MemoryIn(mem, vm[p])
  <2>1. CASE vm[p] = NULL
    BY <2>1 DEF MemoryIn
  <2>2. CASE vm[p] # NULL
    BY <1>1, <2>2, LooksAlike
  <2> QED BY <2>1, <2>2
<1>6. Shown(p)' = Shown(p)
  BY <1>2, <1>5 DEF Shown, SeenIn, LoadingIn
<1> QED BY <1>1, <1>4, <1>6, Stays

LEMMA ExitView ==
    ASSUME Facts, AllViews, NEW p \in Proc, Exit(p) PROVE ViewInv' /\ Refines
<1>1. /\ vm' = [vm EXCEPT ![p] = NULL] /\ hand' = [hand EXCEPT ![p] = vm[p]]
      /\ To(p, IF vm[p] = NULL THEN "none" ELSE "destroy")
      /\ arg' = IF vm[p] = NULL THEN arg ELSE [arg EXCEPT ![p].ret = "none"]
      /\ UNCHANGED <<mem, todo>>
  BY DEF Exit, Set
<1>2. /\ vm'[p] = NULL /\ hand'[p] = vm[p]
      /\ \/ pc'[p] = "none" /\ vm[p] = NULL
         \/ pc'[p] = "destroy"
      /\ \A q \in Proc : q # p => /\ vm'[q] = vm[q] /\ hand'[q] = hand[q]
                                  /\ pc'[q] = pc[q] /\ arg'[q] = arg[q]
  BY <1>1 DEF Facts, TypeOK, To
<1>3. Alone(p)
  BY <1>1, <1>2, Still
<1>4. View(p)'
  BY <1>2 DEF View, ViewIn, LoadingIn
<1>5. Shown(p)' = NULL
  BY <1>2 DEF Shown, SeenIn, LoadingIn, MemoryIn
<1>6. ViewInv' /\ \A q \in Proc : q # p => Shown(q)' = Shown(q)
  BY <1>3, <1>4, OneMoves
<1>7. Memory' = [Memory EXCEPT ![p] = NULL]
  BY <1>5, <1>6, MemoryIs, MemoryIsNext
<1>8. private!Exit(p)
  BY <1>7 DEF private!Exit
<1> QED BY <1>6, <1>8 DEF Refines, private!Next

LEMMA KernelFreeView ==
    ASSUME Facts, AllViews, NEW b \in blocks, KernelFree(b) PROVE ViewInv' /\ Refines
<1>1. Alone(NULL)
  BY KernelFreeInv
<1>2. \A q \in Proc : View(q)' /\ Shown(q)' = Shown(q)
  BY <1>1, OthersLook, SpacesAssumption DEF AllViews
<1> QED BY <1>2, NobodySees DEF ViewInv, AllViews

-----------------------------------------------------------------------------
LEMMA InitView == Init => ViewInv /\ private!Init
<1> SUFFICES ASSUME Init PROVE ViewInv /\ private!Init
  OBVIOUS
<1>1. \A q \in Proc : vm[q] = NULL /\ hand[q] = NULL /\ pc[q] = "none"
  BY DEF Init
<1>2. ViewInv
  BY <1>1 DEF ViewInv, AllViews, View, ViewIn, LoadingIn
<1>3. \A q \in Proc : Shown(q) = NULL
  BY <1>1 DEF Shown, SeenIn, LoadingIn, MemoryIn
<1>4. Memory = [q \in Proc |-> NULL]
  BY <1>3, MemoryIs
<1> QED BY <1>2, <1>4 DEF private!Init

(* Nothing happens any more once the kernel has ended.                     *)
LEMMA NextRuns == Next => kernel = "running"
<1> SUFFICES ASSUME Next PROVE kernel = "running"
  OBVIOUS
<1>1. \A p, from, pg : Fault(p, from, pg) => kernel = "running"
  BY DEF Fault, At
<1>2. \A p, place : At(p, place) => kernel = "running"
  BY DEF At
<1>3. \A p, from, to : Go(p, from, to) => kernel = "running"
  BY DEF Go, At
<1>4. ASSUME NEW p \in Proc, NEW c \in Cpu, Switch(c, p) PROVE kernel = "running"
  BY <1>4 DEF Switch
<1>5. ASSUME NEW p \in Proc, NEW pg \in Stored, NEW v \in Value, Store(p, pg, v)
      PROVE  kernel = "running"
  BY <1>2, <1>5 DEF Store
<1>6. ASSUME NEW p \in Proc, NEW pg \in Page, FaultInvalid(p, pg) PROVE kernel = "running"
  BY <1>1, <1>2, <1>3, <1>6 DEF FaultInvalid
<1>7. ASSUME NEW p \in Proc, NEW from \in {"user", "load", "argv"}, NEW pg \in Page,
             \/ FaultMapped(p, from, pg) \/ FaultAbsent(p, from, pg)
             \/ FaultInitPT(p, from, pg) \/ FaultInitFails(p, from, pg)
             \/ FaultUndefined(p, from, pg)
      PROVE  kernel = "running"
  BY <1>1, <1>7 DEF FaultMapped, FaultAbsent, FaultInitPT, FaultInitFails, FaultUndefined
<1>8. ASSUME NEW p \in Proc,
             FaultAddPTE(p) \/ FaultAddFails(p) \/ RunProgram(p) \/ Exec(p) \/ LoadPage(p)
      PROVE  kernel = "running"
  BY <1>2, <1>3, <1>8 DEF FaultAddPTE, FaultAddFails, RunProgram, Exec, LoadPage
<1>9. ASSUME NEW p \in Proc,
             LoadDone(p) \/ LoadFails(p) \/ Fork(p) \/ CopyTable(p) \/ CopyPage(p)
      PROVE  kernel = "running"
  BY <1>2, <1>3, <1>9 DEF LoadDone, LoadFails, Fork, CopyTable, CopyPage
<1>10. ASSUME NEW p \in Proc,
              \/ CopyPageFails(p) \/ ForkFails(p) \/ DestroyTable(p) \/ DestroyRoot(p)
              \/ Exit(p)
       PROVE  kernel = "running"
  BY <1>2, <1>3, <1>10 DEF CopyPageFails, ForkFails, DestroyTable, DestroyRoot, Exit
<1>11. ASSUME NEW p \in Proc, CopyTableFails(p) \/ Undefined(p) PROVE kernel = "running"
  BY <1>2, <1>11 DEF CopyTableFails, Undefined
<1>12. ASSUME NEW p \in Proc, NEW v \in Value, CopyArgs(p, v) PROVE kernel = "running"
  BY <1>1, <1>2, <1>3, <1>12 DEF CopyArgs
<1>13. ASSUME NEW p \in Proc, NEW q \in Proc, ForkDone(p, q) PROVE kernel = "running"
  BY <1>2, <1>13 DEF ForkDone
<1>14. ASSUME NEW n \in KernelSizes, KernelAlloc(n) PROVE kernel = "running"
  BY <1>14 DEF KernelAlloc
<1>15. ASSUME NEW b \in blocks, KernelFree(b) PROVE kernel = "running"
  BY <1>15 DEF KernelFree
<1> QED BY Zenon, <1>4, <1>5, <1>6, <1>7, <1>8, <1>9, <1>10, <1>11, <1>12, <1>13, <1>14,
             <1>15 DEF Next

LEMMA StepView ==
    ASSUME Len(Segments) <= 2, MemoryInv, ViewInv, [Next]_vars
    PROVE  ViewInv' /\ Refines
<1> USE Forms
<1>1. CASE UNCHANGED vars
  <2>1. UNCHANGED <<mem, vm, hand, pc, arg, todo, kernel>>
    BY <1>1 DEF vars, local
  <2>2. \A q \in Proc : Shown(q)' = Shown(q)
    BY <2>1 DEF Shown
  <2>3. ViewInv'
    BY <2>1 DEF ViewInv, AllViews, View
  <2> QED BY <2>2, <2>3, NobodySees
<1>2. ASSUME Next PROVE ViewInv' /\ Refines
  <2>1. kernel = "running"
    BY <1>2, NextRuns
  <2>2. Facts /\ AllViews
    BY <2>1 DEF ViewInv
  <2>3. ASSUME NEW p \in Proc, NEW c \in Cpu, Switch(c, p) PROVE ViewInv' /\ Refines
    BY <2>2, <2>3, Unmoved DEF Switch, local
  <2>4. ASSUME NEW p \in Proc, NEW pg \in Stored, NEW v \in Value, Store(p, pg, v)
        PROVE  ViewInv' /\ Refines
    <3>1. pg \in Page
      BY SpacesAssumption
    <3> QED BY <2>2, <2>4, <3>1, StoreView
  <2>5. ASSUME NEW p \in Proc, NEW pg \in Page, FaultInvalid(p, pg) PROVE ViewInv' /\ Refines
    BY <2>2, <2>5, FaultInvalidView
  <2>6. ASSUME NEW p \in Proc, NEW from \in {"user", "load", "argv"}, NEW pg \in Page,
               from = "argv" => pg = Argv,
               \/ FaultMapped(p, from, pg) \/ FaultAbsent(p, from, pg)
               \/ FaultInitPT(p, from, pg) \/ FaultInitFails(p, from, pg)
               \/ FaultUndefined(p, from, pg)
        PROVE  ViewInv' /\ Refines
    <3>1. CASE FaultMapped(p, from, pg)
      BY <2>2, <3>1, Unmoved DEF FaultMapped, local
    <3>2. CASE FaultAbsent(p, from, pg)
      BY <2>2, <3>2, FaultAbsentView
    <3>3. CASE FaultInitPT(p, from, pg)
      BY <2>2, <2>6, <3>3, FaultInitPTView
    <3>4. CASE FaultInitFails(p, from, pg)
      BY <2>2, <3>4, FaultInitFailsView
    <3>5. CASE FaultUndefined(p, from, pg)
      BY <2>2, <3>5, Unmoved DEF FaultUndefined, local
    <3> QED BY <2>6, <3>1, <3>2, <3>3, <3>4, <3>5
  <2>7. ASSUME NEW p \in Proc, NEW v \in Value, CopyArgs(p, v) PROVE ViewInv' /\ Refines
    BY <2>2, <2>7, CopyArgsView
  <2>8. ASSUME NEW p \in Proc, NEW q \in Proc, ForkDone(p, q) PROVE ViewInv' /\ Refines
    BY <2>2, <2>8, ForkDoneView
  <2>9. ASSUME NEW p \in Proc, CopyTableFails(p) \/ Undefined(p) PROVE ViewInv' /\ Refines
    BY <2>2, <2>9, Unmoved DEF CopyTableFails, Undefined, local
  <2>10. ASSUME NEW p \in Proc,
                FaultAddPTE(p) \/ FaultAddFails(p) \/ RunProgram(p) \/ Exec(p) \/ LoadPage(p)
         PROVE  ViewInv' /\ Refines
    BY <2>2, <2>10, FaultAddPTEView, FaultAddFailsView, RunProgramView, ExecView, LoadPageView
  <2>11. ASSUME NEW p \in Proc,
                LoadDone(p) \/ LoadFails(p) \/ Fork(p) \/ CopyTable(p) \/ CopyPage(p)
         PROVE  ViewInv' /\ Refines
    BY <2>2, <2>11, LoadDoneView, LoadFailsView, ForkView, CopyTableView, CopyPageView
  <2>12. ASSUME NEW p \in Proc,
                \/ CopyPageFails(p) \/ ForkFails(p) \/ DestroyTable(p) \/ DestroyRoot(p)
                \/ Exit(p)
         PROVE  ViewInv' /\ Refines
    BY <2>2, <2>12, CopyPageFailsView, ForkFailsView, DestroyView, ExitView
  <2>13. ASSUME NEW n \in KernelSizes, KernelAlloc(n) PROVE ViewInv' /\ Refines
    BY <2>2, <2>13, Unmoved DEF KernelAlloc, local
  <2>14. ASSUME NEW b \in blocks, KernelFree(b) PROVE ViewInv' /\ Refines
    BY <2>2, <2>14, KernelFreeView
  <2> QED BY Zenon, <1>2, <2>3, <2>4, <2>5, <2>6, <2>7, <2>8, <2>9, <2>10, <2>11, <2>12,
               <2>13, <2>14 DEF Next
<1> QED BY <1>1, <1>2

(* User programs have private memories: whatever the frames are used for,  *)
(* whoever runs out of them and wherever a call fails, a store shows to    *)
(* its own process alone, a fork gives the child the parent's memory, and  *)
(* a program starts with what its file says and zeros.  With more than two *)
(* segments it is not so: as_copy loses all regions but two.               *)
THEOREM MemoryIsPrivate ==
    ASSUME Len(Segments) <= 2 PROVE Spec => ImplementsPrivateMemory
<1>1. MemoryInv /\ ViewInv /\ [Next]_vars => ViewInv'
  BY StepView
<1>2. MemoryInv /\ ViewInv /\ [Next]_vars => [private!Next]_Memory
  BY StepView DEF Refines
<1>3. Init => ViewInv /\ private!Init
  BY InitView
<1> QED BY <1>1, <1>2, <1>3, MemoryInvariant, PTL DEF Spec, ImplementsPrivateMemory, private!Spec
=============================================================================
