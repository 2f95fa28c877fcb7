--------------------------- MODULE AddressSpaces ---------------------------
(***************************************************************************)
(* Virtual memory of assignment 3: kern/vm/vm.c and addrspace.c on the     *)
(* frame table, with their callers (loadexec, sys_fork, proc_exit, the     *)
(* trap handler) and the TLBs that cache the page tables.                  *)
(*                                                                         *)
(* A process has one thread, so its page table is its own; processes meet  *)
(* in the frame table, which a step uses at most once, and on the          *)
(* processors.  kmalloc of a page goes to the frame table; that of a       *)
(* smaller object may fail at any time.                                    *)
(***************************************************************************)
EXTENDS FrameTable, Sequences, FiniteSets

CONSTANTS
    Proc, Cpu,
    Msb, Lsb,       \* what the two halves of a page number index
    Value,          \* what a page can hold; Zero after bzero
    Zero,
    Segments,       \* the PT_LOAD headers of the program, in order
    Stack,          \* the pages of the window below as_stack
    Image,          \* page -> what the program's file puts there, or Zero
    Argv,           \* the page of the stack that argbuf_copyout writes
    KernelSizes,    \* pages of the blocks that the rest of the kernel asks for
    MaxBlocks,      \* bound on how many of them it has at once
    Stored,         \* bound on the pages that programs store to
    MaxSpaces,      \* bound on the address spaces that are ever made
    NUM_TLB,
    JUNK, NULL

Page == Msb \X Lsb

ASSUME SpacesAssumption ==
    /\ IsFiniteSet(Proc) /\ IsFiniteSet(Cpu)
    /\ Msb \subseteq Nat /\ IsFiniteSet(Msb)
    /\ Lsb \subseteq Nat /\ IsFiniteSet(Lsb)
    /\ Zero \in Value
    /\ NULL \notin Proc \cup 0 .. last_frame
    /\ Segments \in Seq([pages : SUBSET Page, filled : SUBSET Page, write : BOOLEAN])
    /\ Segments # <<>>
    /\ Stack \subseteq Page /\ Argv \in Stack
    /\ Image \in [Page -> Value]
    /\ KernelSizes \subseteq 1 .. last_frame
    /\ MaxBlocks \in Nat /\ Stored \subseteq Page /\ MaxSpaces \in Nat
    /\ NUM_TLB \in Nat \ {0}

(* flags and oldFlags of a region, as far as PF_W goes.                    *)
Region == [pages : SUBSET Page, write : BOOLEAN, was : BOOLEAN]
(* An entry of a second-level table, and one of the TLB.                   *)
PTE == [frame : Frame, dirty : BOOLEAN]
TLBEntry == [page : Page, frame : Frame, dirty : BOOLEAN]

(* struct addrspace: the frame of its first-level table, what that points  *)
(* to, and its list of regions.  gone: the second-level tables that have   *)
(* been freed and are still pointed to.                                    *)
Addrspace == [root : Frame, as_pte : [Msb -> Frame \cup {NULL}],
              as_regions : Seq(Region), gone : SUBSET Msb]

(* A null pointer is not one to an object.                                 *)
ASSUME NullAssumption == NULL \notin PTE \cup Addrspace

(* Neither is it what a page holds, nor a memory; and what a page does not *)
(* get from the program's file is zeros.                                   *)
ASSUME ImageAssumption ==
    /\ NULL \notin Value \cup [Page -> Value \cup {NULL}]
    /\ \A pg \in Page :
         Image[pg] # Zero => \E i \in DOMAIN Segments : pg \in Segments[i].filled

VARIABLES
    mem,        \* frame -> what it holds: a page's value, a second-level
                \*   table, or JUNK, whatever an earlier use has left
    vm,         \* process -> p_addrspace
    hand,       \* process -> the other address space of its call: oldvm of
                \*   loadexec, newas of as_copy, or the one as_destroy frees
    pc,         \* process -> where it is
    arg,        \* process -> ret: where the fault or the as_destroy returns
                \*   to; page: faultaddress; flag: that of vm_fault
    todo,       \* process -> the pages still to load or to copy
    on,         \* cpu -> the process it runs
    tlb,        \* cpu -> its valid entries
    blocks,     \* the kernel's other blocks: <<frame, pages>>
    made,       \* how many address spaces as_create has made
    kernel      \* "running", or how it ended

local == <<arg, todo>>
mmu == <<on, tlb>>
vars == <<frame_table, mem, vm, hand, pc, local, mmu, blocks, made, kernel>>

(***************************************************************************)
(* "none": no such process; "new": made by the menu; "user": in its        *)
(* program, or in a call that has nothing to do with memory; "addpte": in  *)
(* vm_fault; "load", "argv": in loadexec and argbuf_copyout; "unload":     *)
(* load_elf has failed; "copy": in as_copy; "destroy": in as_destroy;      *)
(* "exit": a fault was fatal, or the load failed.                          *)
(***************************************************************************)
Place == {"none", "new", "user", "addpte", "load", "unload",
          "argv", "copy", "destroy", "exit"}

(* Ends of the kernel: the panic of free_frames; a store through NULL; the *)
(* panic of execv; a table read or written that is another's by now.       *)
End == {"double_free", "null_store", "copyout_failed", "undefined"}

NoArg == [ret |-> "user", page |-> Argv, flag |-> FALSE]
NoTable == [l \in Lsb |-> NULL]
Init ==
    /\ ram_bootstrap
    /\ mem = [f \in Ram |-> JUNK]
    /\ vm = [p \in Proc |-> NULL]
    /\ hand = [p \in Proc |-> NULL]
    /\ pc = [p \in Proc |-> "none"]
    /\ arg = [p \in Proc |-> NoArg]
    /\ todo = [p \in Proc |-> {}]
    /\ on = [c \in Cpu |-> NULL]
    /\ tlb = [c \in Cpu |-> {}]
    /\ blocks = {}
    /\ made = 0
    /\ kernel = "running"

-----------------------------------------------------------------------------
At(p, place) == kernel = "running" /\ pc[p] = place /\ \E c \in Cpu : on[c] = p
To(p, place) == pc' = [pc EXCEPT ![p] = place]
Go(p, from, to) == At(p, from) /\ To(p, to)
Set(x, p, v) == [x EXCEPT ![p] = v]

(* alloc_kpages(1) that finds f, and what its caller fills it with.        *)
Take(f) == f # NoFrame /\ frame_table' = Mark(f, 1)
Fill(f, x) == mem' = Set(mem, f, x)

(* as_create.                                                              *)
NewSpace_Uncleared(f, regions) ==
    [root |-> f, as_pte |-> [m \in Msb |-> mem[f]], as_regions |-> regions, gone |-> {}]
NewSpace(f, regions) ==
    [root |-> f, as_pte |-> [m \in Msb |-> NULL], as_regions |-> regions, gone |-> {}]
Create(f) == made < MaxSpaces /\ made' = made + 1 /\ Take(f)

(* free_kpages of the blocks that start in S.                              *)
Release(S) ==
    /\ frame_table' = Unmark(S)
    /\ mem' = [f \in Ram |-> IF \E g \in S : f \in Block(g) THEN JUNK ELSE mem[f]]

Entry(as, pg) ==
    IF as.as_pte[pg[1]] = NULL \/ pg[1] \in as.gone THEN NULL
    ELSE mem[as.as_pte[pg[1]]][pg[2]]
Present(as) == {pg \in Page : Entry(as, pg) # NULL}
Tables(as) == {m \in Msb : as.as_pte[m] # NULL}

(* The loops over the descriptors take the pages in order.                 *)
Earliest(S) == CHOOSE a \in S : \A b \in S :
                   a[1] < b[1] \/ (a[1] = b[1] /\ a[2] <= b[2])

(* The entries with which the processor of p translates pg.                *)
Hits(p, pg) == {e \in UNION {tlb[c] : c \in {d \in Cpu : on[d] = p}} : e.page = pg}

(* as_activate: with p_addrspace NULL it does nothing.                     *)
Activate_Never(p, as) == tlb' = tlb
Activate(p, as) ==
    tlb' = [c \in Cpu |-> IF on[c] = p /\ as # NULL THEN {} ELSE tlb[c]]

-----------------------------------------------------------------------------
(* A context switch activates the address space of the next thread; a      *)
(* thread without one leaves the TLB as it is.                             *)
Switch(c, p) ==
    /\ kernel = "running"
    /\ pc[p] # "none" /\ \A d \in Cpu : on[d] # p
    /\ on' = Set(on, c, p)
    /\ tlb' = IF vm[p] = NULL THEN tlb ELSE Set(tlb, c, {})
    /\ UNCHANGED <<frame_table, mem, vm, hand, pc, local, blocks, made, kernel>>

(* A store by the program, or for it by copyout, through the TLB.          *)
Store(p, pg, v) ==
    /\ At(p, "user")
    /\ \E e \in Hits(p, pg) : e.dirty /\ Fill(e.frame, v)
    /\ UNCHANGED <<frame_table, vm, hand, pc, local, mmu, blocks, made, kernel>>

-----------------------------------------------------------------------------
(***************************************************************************)
(* vm_fault, for a load or a store of p at the place from that misses the  *)
(* TLB; a step ends with a use of the frame table.                         *)
(***************************************************************************)
Valid(as, pg) ==
    \/ \E i \in DOMAIN as.as_regions : pg \in as.as_regions[i].pages
    \/ pg \in Stack

Fault(p, from, pg) ==
    /\ At(p, from)
    /\ vm[p] # NULL /\ Hits(p, pg) = {}
    /\ Valid(vm[p], pg)

(* It returns an error: in user mode the process is killed, in copyin and  *)
(* copyout the call fails and the process goes on; load_elf fails; but     *)
(* execv panics when argbuf_copyout fails.                                 *)
FaultFails(p, from) ==
    \/ from = "user" /\ UNCHANGED kernel /\ \E to \in {"user", "exit"} : To(p, to)
    \/ from = "load" /\ UNCHANGED kernel /\ To(p, "unload")
    \/ from = "argv" /\ kernel' = "copyout_failed" /\ UNCHANGED pc

FaultInvalid(p, pg) ==
    /\ At(p, "user")
    /\ vm[p] # NULL /\ Hits(p, pg) = {}
    /\ ~Valid(vm[p], pg)
    /\ FaultFails(p, "user")
    /\ UNCHANGED <<frame_table, mem, vm, hand, local, mmu, blocks, made>>

(* tlb_random, into any slot.                                              *)
TlbRandom(p, pg, pte) ==
    \E c \in Cpu : \E old \in {{}} \cup {{e} : e \in tlb[c]} :
        /\ on[c] = p
        /\ Cardinality(tlb[c] \ old) < NUM_TLB
        /\ tlb' = [tlb EXCEPT ![c] = (@ \ old) \cup
                     {[page |-> pg, frame |-> pte.frame, dirty |-> pte.dirty]}]

FaultMapped(p, from, pg) ==
    /\ Fault(p, from, pg)
    /\ Entry(vm[p], pg) # NULL
    /\ TlbRandom(p, pg, Entry(vm[p], pg))
    /\ UNCHANGED <<frame_table, mem, vm, hand, pc, local, on, blocks, made, kernel>>

(* No second-level table yet: vm_initPT...                                 *)
FaultInitPT(p, from, pg) ==
    /\ Fault(p, from, pg)
    /\ vm[p].as_pte[pg[1]] = NULL
    /\ LET f == alloc_kpages(1) IN
         /\ Take(f)
         /\ vm' = [vm EXCEPT ![p].as_pte[pg[1]] = f]
         /\ Fill(f, NoTable)
    /\ To(p, "addpte")
    /\ arg' = Set(arg, p, [ret |-> from, page |-> pg, flag |-> TRUE])
    /\ UNCHANGED <<hand, todo, mmu, blocks, made, kernel>>

FaultInitFails(p, from, pg) ==
    /\ Fault(p, from, pg)
    /\ vm[p].as_pte[pg[1]] = NULL
    /\ alloc_kpages(1) = NoFrame
    /\ FaultFails(p, from)
    /\ UNCHANGED <<frame_table, mem, vm, hand, local, mmu, blocks, made>>

(* ...or there is one, without an entry; one that has been freed still has *)
(* none as long as nobody has used its frame.                              *)
FaultAbsent(p, from, pg) ==
    /\ Fault(p, from, pg)
    /\ vm[p].as_pte[pg[1]] # NULL /\ Entry(vm[p], pg) = NULL
    /\ pg[1] \in vm[p].gone => IsFree(vm[p].as_pte[pg[1]])
    /\ To(p, "addpte")
    /\ arg' = Set(arg, p, [ret |-> from, page |-> pg, flag |-> FALSE])
    /\ UNCHANGED <<frame_table, mem, vm, hand, todo, mmu, blocks, made, kernel>>

(* vm_addPTE: a frame of zeros.  The loop over the regions stops at the    *)
(* first of them, whatever the address, for the dirty bit.                 *)
Bzeroed(f) == Zero

FaultAddPTE(p) ==
    /\ Go(p, "addpte", arg[p].ret)
    /\ LET f == alloc_kpages(1)
           pg == arg[p].page
           pte == [frame |-> f, dirty |-> vm[p].as_regions[1].write]
       IN  /\ pg[1] \notin vm[p].gone
           /\ Take(f)
           /\ mem' = [mem EXCEPT ![f] = Bzeroed(f),
                                 ![vm[p].as_pte[pg[1]]][pg[2]] = pte]
           /\ TlbRandom(p, pg, pte)
    /\ arg' = Set(arg, p, NoArg)
    /\ UNCHANGED <<vm, hand, todo, on, blocks, made, kernel>>

(* No frame: a table that this fault has made is freed again, but its      *)
(* pointer stays.                                                          *)
FaultAddFails(p) ==
    /\ At(p, "addpte")
    /\ alloc_kpages(1) = NoFrame
    /\ FaultFails(p, arg[p].ret)
    /\ LET m == arg[p].page[1] IN
         IF arg[p].flag
         THEN /\ Release({vm[p].as_pte[m]})
              /\ vm' = [vm EXCEPT ![p].gone = @ \cup {m}]
         ELSE UNCHANGED <<frame_table, mem, vm>>
    /\ arg' = Set(arg, p, NoArg)
    /\ UNCHANGED <<hand, todo, mmu, blocks, made>>

-----------------------------------------------------------------------------
(* loadexec, by a process of the menu's or one that calls execv: as_create,*)
(* proc_setas and as_activate, then what load_elf does before it reads the *)
(* segments (as_define_region puts each region in front of the others;     *)
(* as_prepare_load sets PF_W).                                             *)
DefineRegions ==
    [i \in DOMAIN Segments |->
        LET seg == Segments[Len(Segments) + 1 - i]
        IN  [pages |-> seg.pages, write |-> TRUE, was |-> seg.write]]

RunProgram(p) ==
    /\ kernel = "running"
    /\ pc[p] = "none" /\ To(p, "new")
    /\ UNCHANGED <<frame_table, mem, vm, hand, local, mmu, blocks, made, kernel>>

Exec(p) ==
    /\ At(p, "user") \/ At(p, "new")
    /\ To(p, "load")
    /\ LET f == alloc_kpages(1) IN
         /\ Create(f)
         /\ vm' = Set(vm, p, NewSpace(f, DefineRegions))
    /\ hand' = Set(hand, p, vm[p])
    /\ todo' = Set(todo, p, UNION {Segments[i].filled : i \in DOMAIN Segments})
    /\ Activate(p, vm'[p])
    /\ UNCHANGED <<mem, arg, on, blocks, kernel>>

(* load_segment, page by page.                                             *)
LoadPage(p) ==
    /\ At(p, "load")
    /\ todo[p] # {}
    /\ LET pg == Earliest(todo[p]) IN
         /\ \E e \in Hits(p, pg) : e.dirty /\ Fill(e.frame, Image[pg])
         /\ todo' = Set(todo, p, todo[p] \ {pg})
    /\ UNCHANGED <<frame_table, vm, hand, pc, arg, mmu, blocks, made, kernel>>

(* as_complete_load restores the flags, not those of the entries already   *)
(* made; then the old address space goes.                                  *)
Restored(r) == [r EXCEPT !.write = r.was]

LoadDone(p) ==
    /\ At(p, "load")
    /\ todo[p] = {}
    /\ vm' = [vm EXCEPT ![p].as_regions = [i \in DOMAIN @ |-> Restored(@[i])]]
    /\ Activate(p, vm[p])
    /\ To(p, IF hand[p] = NULL THEN "argv" ELSE "destroy")
    /\ arg' = IF hand[p] = NULL THEN arg ELSE [arg EXCEPT ![p].ret = "argv"]
    /\ UNCHANGED <<frame_table, mem, hand, todo, on, blocks, made, kernel>>

(* A read fails, or a kmalloc of a region, or a fault in load_segment.     *)
LoadFails(p) ==
    /\ At(p, "load") \/ At(p, "unload")
    /\ To(p, "destroy")
    /\ vm' = Set(vm, p, hand[p])
    /\ hand' = Set(hand, p, vm[p])
    /\ arg' = [arg EXCEPT ![p].ret = IF hand[p] = NULL THEN "exit" ELSE "user"]
    /\ todo' = Set(todo, p, {})
    /\ Activate(p, hand[p])
    /\ UNCHANGED <<frame_table, mem, on, blocks, made, kernel>>

(* argbuf_copyout.                                                         *)
CopyArgs(p, v) ==
    /\ At(p, "argv")
    /\ \E e \in Hits(p, Argv) :
         IF e.dirty
         THEN To(p, "user") /\ Fill(e.frame, v) /\ UNCHANGED kernel
         ELSE kernel' = "copyout_failed" /\ UNCHANGED <<pc, mem>>
    /\ UNCHANGED <<frame_table, vm, hand, local, mmu, blocks, made>>

-----------------------------------------------------------------------------
(* sys_fork.  as_copy: as_create; the list of regions, of which every one  *)
(* after the first is linked behind the first, in the place of the last    *)
(* one that was; then vm_copyPTE.                                          *)
CopyRegions_First(rs) == <<rs[1]>>
CopyRegions(rs) == IF Len(rs) <= 2 THEN rs ELSE <<rs[1], rs[Len(rs)]>>

Fork(p) ==
    /\ vm[p] # NULL /\ Go(p, "user", "copy")
    /\ LET f == alloc_kpages(1) IN
         /\ Create(f)
         /\ hand' = Set(hand, p, NewSpace(f, CopyRegions(vm[p].as_regions)))
    /\ todo' = Set(todo, p, Present(vm[p]))
    /\ UNCHANGED <<mem, vm, arg, mmu, blocks, kernel>>

(* The next table, when every page of the tables before it is copied.      *)
NextTable(p, m) ==
    /\ m \in Tables(vm[p]) \ Tables(hand[p])
    /\ \A n \in Tables(vm[p]) \ Tables(hand[p]) : m <= n
    /\ \A pg \in todo[p] : pg[1] >= m

CopyTable(p) ==
    /\ At(p, "copy")
    /\ \E m \in Msb :
         /\ NextTable(p, m)
         /\ m \in vm[p].gone => IsFree(vm[p].as_pte[m])
         /\ LET f == alloc_kpages(1) IN
              /\ Take(f)
              /\ hand' = [hand EXCEPT ![p].as_pte[m] = f]
              /\ Fill(f, NoTable)
    /\ UNCHANGED <<vm, pc, local, mmu, blocks, made, kernel>>

(* kmalloc's result is not tested.                                         *)
CopyTableFails(p) ==
    /\ At(p, "copy")
    /\ \E m \in Msb : NextTable(p, m)
    /\ alloc_kpages(1) = NoFrame
    /\ kernel' = "null_store"
    /\ UNCHANGED <<frame_table, mem, vm, hand, pc, local, mmu, blocks, made>>

Contents(p, pg) == mem[Entry(vm[p], pg).frame]
CopyPage(p) ==
    /\ At(p, "copy")
    /\ todo[p] # {}
    /\ LET pg == Earliest(todo[p])
           f == alloc_kpages(1)
       IN  /\ pg[1] \in Tables(hand[p])
           /\ Take(f)
           /\ mem' = [mem EXCEPT ![f] = Contents(p, pg),
                                 ![hand[p].as_pte[pg[1]]][pg[2]] =
                          [frame |-> f, dirty |-> Entry(vm[p], pg).dirty]]
           /\ todo' = Set(todo, p, todo[p] \ {pg})
    /\ UNCHANGED <<vm, hand, pc, arg, mmu, blocks, made, kernel>>

(* The entries of the table that are not yet written are whatever kmalloc  *)
(* returned: zeros, if as_destroy is to find nothing in them.              *)
CopyPageFails(p) ==
    /\ At(p, "copy")
    /\ todo[p] # {}
    /\ Earliest(todo[p])[1] \in Tables(hand[p])
    /\ alloc_kpages(1) = NoFrame
    /\ \/ To(p, "destroy") /\ UNCHANGED kernel
       \/ kernel' = "undefined" /\ UNCHANGED pc
    /\ todo' = Set(todo, p, {})
    /\ UNCHANGED <<frame_table, mem, vm, hand, arg, mmu, blocks, made>>

Copied(p) == Tables(hand[p]) = Tables(vm[p]) /\ todo[p] = {}

ForkDone(p, q) ==
    /\ At(p, "copy")
    /\ Copied(p)
    /\ pc[q] = "none" /\ pc' = [pc EXCEPT ![p] = "user", ![q] = "user"]
    /\ vm' = Set(vm, q, hand[p])
    /\ hand' = Set(hand, p, NULL)
    /\ UNCHANGED <<frame_table, mem, local, mmu, blocks, made, kernel>>

(* A kmalloc of a region fails before there is a table, or filetable_copy  *)
(* or thread_fork after as_copy.                                           *)
ForkFails(p) ==
    /\ Go(p, "copy", "destroy")
    /\ Copied(p) \/ Tables(hand[p]) = {}
    /\ todo' = Set(todo, p, {})
    /\ UNCHANGED <<frame_table, mem, vm, hand, arg, mmu, blocks, made, kernel>>

-----------------------------------------------------------------------------
(* as_destroy of the address space in hand: vm_freePTE takes the tables in *)
(* order, with their pages, then the first level.                          *)
FirstTable(p, m) ==
    m \in Tables(hand[p]) /\ \A n \in Tables(hand[p]) : m <= n

DestroyTable(p) ==
    /\ At(p, "destroy")
    /\ \E m \in Msb :
         /\ FirstTable(p, m)
         /\ LET t == hand[p].as_pte[m]
                pages == {Entry(hand[p], <<m, l>>) : l \in Lsb} \ {NULL}
                freed == {e.frame : e \in pages} \cup {t}
            IN  IF \A f \in freed : ~IsFree(f)
                THEN /\ m \notin hand[p].gone
                     /\ Release(freed)
                     /\ hand' = [hand EXCEPT ![p].as_pte[m] = NULL]
                     /\ UNCHANGED kernel
                ELSE /\ kernel' = "double_free"
                     /\ UNCHANGED <<frame_table, mem, hand>>
    /\ UNCHANGED <<vm, pc, local, mmu, blocks, made>>

(* thread_exit.                                                            *)
Leaves(p, to) ==
    on' = [c \in Cpu |-> IF on[c] = p /\ to = "none" THEN NULL ELSE on[c]]

DestroyRoot(p) ==
    /\ Go(p, "destroy", arg[p].ret)
    /\ Leaves(p, arg[p].ret)
    /\ arg' = Set(arg, p, NoArg)
    /\ Tables(hand[p]) = {}
    /\ Release({hand[p].root})
    /\ hand' = Set(hand, p, NULL)
    /\ UNCHANGED <<vm, todo, tlb, blocks, made, kernel>>

(* proc_exit takes the thread out of the process, so proc_destroy does not *)
(* deactivate: the TLB keeps what it has.                                  *)
Exit(p) ==
    /\ At(p, "user") \/ At(p, "exit") \/ At(p, "new")
    /\ To(p, IF vm[p] = NULL THEN "none" ELSE "destroy")
    /\ arg' = IF vm[p] = NULL THEN arg ELSE [arg EXCEPT ![p].ret = "none"]
    /\ vm' = Set(vm, p, NULL)
    /\ hand' = Set(hand, p, vm[p])
    /\ Leaves(p, pc'[p])
    /\ UNCHANGED <<frame_table, mem, todo, tlb, blocks, made, kernel>>

(* A freed table whose frame has another use is read as a table, or one    *)
(* whose frame is free gets an entry.                                      *)
FaultUndefined(p, from, pg) ==
    /\ Fault(p, from, pg)
    /\ pg[1] \in vm[p].gone
    /\ kernel' = "undefined"
    /\ UNCHANGED <<frame_table, mem, vm, hand, pc, local, mmu, blocks, made>>

Undefined(p) ==
    /\ \/ /\ At(p, "addpte") /\ arg[p].page[1] \in vm[p].gone
          /\ alloc_kpages(1) # NoFrame
       \/ At(p, "copy") /\ \E m \in vm[p].gone : NextTable(p, m)
       \/ At(p, "destroy") /\ \E m \in hand[p].gone : FirstTable(p, m)
    /\ kernel' = "undefined"
    /\ UNCHANGED <<frame_table, mem, vm, hand, pc, local, mmu, blocks, made>>

-----------------------------------------------------------------------------
(* The rest of the kernel: stacks, buffers for arguments, pages of the     *)
(* subpage allocator.                                                      *)
KernelAlloc(n) ==
    /\ kernel = "running"
    /\ Cardinality(blocks) < MaxBlocks
    /\ LET f == alloc_kpages(n) IN
         /\ f # NoFrame
         /\ frame_table' = Mark(f, n)
         /\ blocks' = blocks \cup {<<f, n>>}
    /\ UNCHANGED <<mem, vm, hand, pc, local, mmu, made, kernel>>

KernelFree(b) ==
    /\ kernel = "running"
    /\ Release({b[1]})
    /\ blocks' = blocks \ {b}
    /\ UNCHANGED <<vm, hand, pc, local, mmu, made, kernel>>

Next ==
    \/ \E p \in Proc :
         \/ \E c \in Cpu : Switch(c, p)
         \/ \E pg \in Stored, v \in Value : Store(p, pg, v)
         \/ \E pg \in Page : FaultInvalid(p, pg)
         \/ \E from \in {"user", "load", "argv"}, pg \in Page :
              /\ from = "load" => todo[p] # {} /\ pg = Earliest(todo[p])
              /\ from = "argv" => pg = Argv
              /\ \/ FaultMapped(p, from, pg) \/ FaultAbsent(p, from, pg)
                 \/ FaultInitPT(p, from, pg) \/ FaultInitFails(p, from, pg)
                 \/ FaultUndefined(p, from, pg)
         \/ FaultAddPTE(p) \/ FaultAddFails(p)
         \/ RunProgram(p) \/ Exec(p) \/ LoadPage(p) \/ LoadDone(p) \/ LoadFails(p)
         \/ \E v \in Value : CopyArgs(p, v)
         \/ Fork(p) \/ CopyTable(p) \/ CopyTableFails(p) \/ CopyPage(p)
         \/ CopyPageFails(p) \/ \E q \in Proc : ForkDone(p, q)
         \/ ForkFails(p) \/ DestroyTable(p) \/ DestroyRoot(p)
         \/ Exit(p) \/ Undefined(p)
    \/ \E n \in KernelSizes : KernelAlloc(n)
    \/ \E b \in blocks : KernelFree(b)

Spec == Init /\ [][Next]_vars

-----------------------------------------------------------------------------
TypeOK ==
    /\ frame_table \in [Frame -> [allocated : BOOLEAN, not_last : BOOLEAN]]
    /\ mem \in [Ram -> Value \cup {JUNK} \cup [Lsb -> PTE \cup {NULL}]]
    /\ vm \in [Proc -> Addrspace \cup {NULL}]
    /\ hand \in [Proc -> Addrspace \cup {NULL}]
    /\ pc \in [Proc -> Place]
    /\ arg \in [Proc -> [ret : {"user", "load", "argv", "exit", "none"},
                         page : Page, flag : BOOLEAN]]
    /\ todo \in [Proc -> SUBSET Page]
    /\ on \in [Cpu -> Proc \cup {NULL}]
    /\ tlb \in [Cpu -> SUBSET TLBEntry]
    /\ blocks \subseteq Ram \X KernelSizes
    /\ made \in 0 .. MaxSpaces
    /\ kernel \in {"running"} \cup End

(* What uses the frames: the blocks of the kernel, and every root, table   *)
(* and page of an address space.                                           *)
Slot == {"vm", "hand"} \X Proc
Space(s) == IF s[1] = "vm" THEN vm[s[2]] ELSE hand[s[2]]
Live(as) == Tables(as) \ as.gone
Uses(as, f) ==
    {<<"root", 0, 0>> : r \in {as.root} \cap {f}}
    \cup {<<"table", m, 0>> : m \in {n \in Live(as) : as.as_pte[n] = f}}
    \cup {<<"page", pg[1], pg[2]>> : pg \in {x \in Present(as) : Entry(as, x).frame = f}}
Users(f) == UNION {{s} \X Uses(Space(s), f) : s \in {t \in Slot : Space(t) # NULL}}
InBlock(b) == b[1] .. b[1] + b[2] - 1

(* Every frame of RAM that is marked has exactly one user, and every user's *)
(* frame is marked: no call and no failure loses a frame or gives it to    *)
(* two.  Blocks end where their flags say.                                 *)
FramesOwned ==
    \A f \in Ram :
        /\ Cardinality(Users(f)) + Cardinality({b \in blocks : f \in InBlock(b)})
             = IF IsFree(f) THEN 0 ELSE 1
        /\ ~IsFree(f) => (frame_table[f].not_last <=>
                             \E b \in blocks : f \in InBlock(b) /\ f + 1 \in InBlock(b))

(* What a processor translates for the process that it runs is what that   *)
(* process's page table says.                                              *)
TLBCoherent ==
    \A c \in Cpu : \A e \in tlb[c] :
        (on[c] # NULL /\ vm[on[c]] # NULL)
        => Entry(vm[on[c]], e.page) = [frame |-> e.frame, dirty |-> e.dirty]

(***************************************************************************)
(* The parts of the inductive invariant.  Which address spaces a process   *)
(* has is a matter of where it is, and so is what its call will rely on.   *)
(***************************************************************************)
HasSpaces ==
    \A p \in Proc :
        /\ pc[p] \in {"none", "new"} => vm[p] = NULL
        /\ pc[p] \in {"user", "addpte", "load", "unload", "argv", "copy"} => vm[p] # NULL
        /\ pc[p] \in {"none", "new", "user", "argv", "exit"} => hand[p] = NULL
        /\ pc[p] \in {"copy", "destroy"} => hand[p] # NULL
        /\ pc[p] = "none" => \A c \in Cpu : on[c] # p

InFault(p) ==
    /\ arg[p].ret \in {"user", "load", "argv"}
    /\ arg[p].ret # "load" => hand[p] = NULL
    /\ arg[p].ret = "argv" => arg[p].page = Argv
    /\ arg[p].page[1] \in Tables(vm[p]) /\ Entry(vm[p], arg[p].page) = NULL
    /\ arg[p].flag => /\ arg[p].page[1] \notin vm[p].gone
                      /\ \A l \in Lsb : Entry(vm[p], <<arg[p].page[1], l>>) = NULL
InDestroy(p) ==
    /\ arg[p].ret \in {"user", "argv", "exit", "none"}
    /\ arg[p].ret \in {"user", "argv"} <=> vm[p] # NULL
InCopy(p) ==
    /\ hand[p].gone = {}
    /\ todo[p] \subseteq Present(vm[p])
    /\ \A pg \in todo[p] : Entry(hand[p], pg) = NULL
Calling ==
    \A p \in Proc :
        /\ pc[p] = "addpte" => InFault(p)
        /\ pc[p] = "destroy" => InDestroy(p)
        /\ pc[p] = "copy" => InCopy(p)
        /\ pc[p] \notin {"addpte", "destroy"} => arg[p] = NoArg

(* Within an address space no frame has two uses; a table is a table.      *)
PageFrame(as, pg) == Entry(as, pg).frame
TablesTidy(as) ==
    /\ as.gone \subseteq Tables(as)
    /\ \A m \in Live(as) : /\ mem[as.as_pte[m]] \in [Lsb -> PTE \cup {NULL}]
                           /\ as.as_pte[m] # as.root
                           /\ \A n \in Live(as) : as.as_pte[m] = as.as_pte[n] => m = n
PagesTidy(as) ==
    \A x \in Present(as) :
        /\ PageFrame(as, x) # as.root
        /\ \A m \in Live(as) : PageFrame(as, x) # as.as_pte[m]
        /\ \A y \in Present(as) : PageFrame(as, x) = PageFrame(as, y) => x = y
Tidy(as) == as.as_regions # <<>> /\ TablesTidy(as) /\ PagesTidy(as)
SpacesTidy == \A s \in Slot : Space(s) # NULL => Tidy(Space(s))

(* No two address spaces or blocks share a frame, and what they have is    *)
(* what is marked.                                                         *)
FramesOf(as) ==
    IF as = NULL THEN {}
    ELSE {as.root} \cup {as.as_pte[m] : m \in Live(as)}
                  \cup {PageFrame(as, pg) : pg \in Present(as)}
Accounts ==
    /\ \A s, t \in Slot : s # t => FramesOf(Space(s)) \cap FramesOf(Space(t)) = {}
    /\ \A b \in blocks :
         /\ InBlock(b) \subseteq Ram
         /\ \A s \in Slot : InBlock(b) \cap FramesOf(Space(s)) = {}
         /\ \A d \in blocks : b # d => InBlock(b) \cap InBlock(d) = {}
    /\ \A s \in Slot : FramesOf(Space(s)) \subseteq Ram
    /\ \A f \in Ram :
         /\ ~IsFree(f) <=> \/ \E s \in Slot : f \in FramesOf(Space(s))
                           \/ \E b \in blocks : f \in InBlock(b)
         /\ ~IsFree(f) => (frame_table[f].not_last <=>
                             \E b \in blocks : f \in InBlock(b) /\ f + 1 \in InBlock(b))

(* Who has what, and what each call may rely on: the inductive invariant.  *)
MemoryInv ==
    TypeOK /\ HasSpaces /\ Calling /\ SpacesTidy /\ Accounts /\ TLBCoherent

(* The loop of alloc_multiple_frames finds the lowest run of free frames   *)
(* that does not end with RAM, and nothing when there is none.             *)
ScanFindsFit ==
    \A n \in 2 .. last_frame :
        LET f == alloc_multiple_frames(n)
        IN  IF f = NoFrame THEN Scan(n)[2] # n ELSE Scan(n) = <<f, n>>

(* A frame that is freed was allocated: free_frames does not panic.        *)
NoDoubleFree == kernel # "double_free"

(* The memory that a process sees, page by page where vm_fault grants it;  *)
(* while loadexec is not done it is the one before.                        *)
Loading(p) ==
    \/ pc[p] \in {"load", "unload"}
    \/ pc[p] = "addpte" /\ arg[p].ret = "load"
Seen(p) == IF Loading(p) THEN hand[p] ELSE vm[p]
Holds(as, pg) ==
    IF ~Valid(as, pg) THEN NULL
    ELSE IF Entry(as, pg) = NULL THEN Zero ELSE mem[Entry(as, pg).frame]
Memory ==
    [p \in Proc |-> IF Seen(p) = NULL THEN NULL
                    ELSE [pg \in Page |-> Holds(Seen(p), pg)]]
Started ==
    [pg \in Page |->
        IF pg \in Stack \/ \E i \in DOMAIN Segments : pg \in Segments[i].pages
        THEN Image[pg] ELSE NULL]

(* Whatever the frames are used for, and whoever runs out of them, user    *)
(* programs have private memories: stores of others do not show, fork      *)
(* copies every page and every right, new pages are zeros.                 *)
private == INSTANCE PrivateMemory WITH mem <- Memory, Image <- Started
ImplementsPrivateMemory == private!Spec
=============================================================================
