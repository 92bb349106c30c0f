----------------------------- MODULE CowMemory -----------------------------
(***************************************************************************)
(* Physical pages, their reference counts, the page tables that map them   *)
(* and the kernel paths that change them: fork with copyuvm_cow, the       *)
(* copy-on-write fault, sbrk, exec, exit and wait.                         *)
(*                                                                         *)
(* System calls run with interrupts on, so a timer tick may take the CPU   *)
(* from a process between any two instructions of them: each is split into *)
(* steps at the accesses other processes can observe.  The page-fault      *)
(* handler enters through an interrupt gate and wait() reaps under         *)
(* ptable.lock: those run without a switch, one action each.               *)
(*                                                                         *)
(* kalloc is the branch in which the free list has a page.  The branch in  *)
(* which it is empty, and everything it starts, is the module Swapping,    *)
(* which extends this one.                                                 *)
(*                                                                         *)
(* Sizes are in pages.  One frame stands for a page directory together     *)
(* with its page-table pages, and a page has one value as its content.     *)
(***************************************************************************)
EXTENDS Naturals, FiniteSets

CONSTANTS
  NPROC,        \* slots of ptable; slot 1 is initproc
  NPages,       \* pages of the user part of an address space (KERNBASE)
  Frames,       \* physical pages handed to the allocator by kinit
  NoFrame,      \* a null pointer or a zero address field
  Values,       \* contents of a page
  Zero,         \* memset(mem, 0, PGSIZE)
  InitCode,     \* the page inituvm fills
  Junk,         \* memset(v, 1, PGSIZE) in kfree
  Stored,       \* the pages programs store to
  Deltas,       \* how many pages programs add or give back with one sbrk
  Images,       \* executables: pages of text, content of text and of stack
  AtomicRefcnt  \* TRUE: no tick between reading a reference count and
                \* writing it back; FALSE: what the compiled code allows

Proc == 1..NPROC
Pages == 0..(NPages - 1)
initproc == 1

ASSUME SizesAssumption == NPROC \in Nat \ {0} /\ NPages \in Nat \ {0}
ASSUME FramesAssumption == IsFiniteSet(Frames) /\ NoFrame \notin Frames
ASSUME ValuesAssumption == Zero \in Values /\ InitCode \in Values /\ Junk \notin Values
ASSUME WorkloadAssumption == Stored \subseteq Pages /\ Deltas \subseteq 1..NPages
ASSUME ImagesAssumption ==
  \A im \in Images : /\ im.size \in 1..NPages /\ im.size + 2 <= NPages
                     /\ im.text \in Values /\ im.args \in Values
ASSUME AtomicAssumption == AtomicRefcnt \in BOOLEAN

VARIABLES
  freelist,  \* kmem.freelist, as the set of its pages
  refcnt,    \* page_to_refcnt
  data,      \* content of each physical page
  table,     \* table[d]: the user entries of the page directory in frame d
  state,     \* proc.state; RUNNABLE also stands for RUNNING and SLEEPING
  parent,    \* proc.parent
  sz,        \* proc.sz
  pgdir,     \* proc.pgdir
  kstack,    \* proc.kstack
  pc,        \* where in the kernel the process is, "user" when in no path
  chld,      \* fork: np
  odir,      \* the directory being built or torn down that is not pgdir
  idx,       \* the page the loop is at
  lim,       \* sbrk: the requested size
  img,       \* exec: the image being loaded
  ent,       \* a page table entry that was read: pa and flags
  tmp        \* the reference count read but not yet written back

kmem == <<freelist, refcnt, data>>
ptable == <<state, parent, sz, pgdir, kstack>>
locals == <<pc, chld, odir, idx, lim, img, ent, tmp>>
vars == <<freelist, refcnt, data, table, state, parent, sz, pgdir, kstack,
          pc, chld, odir, idx, lim, img, ent, tmp>>

(* A page table entry: PTE_P, PTE_SW, PTE_W, PTE_U and the address field,  *)
(* which is a page's when the entry is present.                            *)
PTE == {e \in [p : BOOLEAN, sw : BOOLEAN, w : BOOLEAN, u : BOOLEAN,
               addr : Frames \cup {NoFrame}] : e.p => e.addr \in Frames}
NoPte == [p |-> FALSE, sw |-> FALSE, w |-> FALSE, u |-> FALSE, addr |-> NoFrame]
EmptyTable == [v \in Pages |-> NoPte]
UserPte(f, u) == [p |-> TRUE, sw |-> FALSE, w |-> TRUE, u |-> u, addr |-> f]

NoImage == [size |-> 0, text |-> Zero, args |-> Zero]

ForkPath == {"fork_kstack", "fork_dir", "fork_copy", "fork_map", "fork_inc"}
DeallocPath == {"dealloc", "dealloc_free", "dealloc_clear"}
Labels == {"user", "grow", "exec_dir", "exec"} \cup ForkPath \cup DeallocPath
-----------------------------------------------------------------------------
(***************************************************************************)
(* The allocator.                                                          *)
(***************************************************************************)

(* kalloc with a page on the free list: the page leaves the list and is    *)
(* counted once.  Which page of the list comes first is left open.         *)
kalloc(f) ==
  /\ f \in freelist
  /\ freelist' = freelist \ {f}
  /\ refcnt' = [refcnt EXCEPT ![f] = 1]

Shared_OffByOne(f) == refcnt[f] > 2    \* seeded bug
Shared_Always(f) == refcnt[f] >= 1     \* seeded bug
Shared(f) == refcnt[f] > 1

(* kfree of the pages S, in one go: a page counted more than once loses    *)
(* one reference, any other is filled with junk and put on the free list   *)
(* with its count left as it is.                                           *)
kfree(S) ==
  LET shared == {f \in S : Shared(f)} IN
  /\ refcnt' = [f \in Frames |-> IF f \in shared THEN refcnt[f] - 1 ELSE refcnt[f]]
  /\ freelist' = freelist \cup (S \ shared)
  /\ data' = [f \in Frames |-> IF f \in S \ shared THEN Junk ELSE data[f]]

(* kfree of page f after its count was read as n. *)
kfree_read(f, n) ==
  IF n > 1 THEN /\ refcnt' = [refcnt EXCEPT ![f] = n - 1]
                /\ UNCHANGED <<freelist, data>>
           ELSE /\ freelist' = freelist \cup {f}
                /\ data' = [data EXCEPT ![f] = Junk]
                /\ UNCHANGED refcnt
-----------------------------------------------------------------------------
(***************************************************************************)
(* userinit: the first process, with one page and its kernel pages.        *)
(***************************************************************************)
userinit(k, d, f) ==
  /\ k # d /\ k # f /\ d # f
  /\ freelist = Frames \ {k, d, f}
  /\ refcnt = [g \in Frames |-> IF g \in {k, d, f} THEN 1 ELSE 0]
  /\ data = [g \in Frames |-> IF g = f THEN InitCode ELSE Junk]
  /\ table = [g \in Frames |-> IF g = d THEN [EmptyTable EXCEPT ![0] = UserPte(f, TRUE)]
                               ELSE EmptyTable]
  /\ state = [p \in Proc |-> IF p = initproc THEN "RUNNABLE" ELSE "UNUSED"]
  /\ parent = [p \in Proc |-> 0]
  /\ sz = [p \in Proc |-> IF p = initproc THEN 1 ELSE 0]
  /\ pgdir = [p \in Proc |-> IF p = initproc THEN d ELSE NoFrame]
  /\ kstack = [p \in Proc |-> IF p = initproc THEN k ELSE NoFrame]
  /\ pc = [p \in Proc |-> "user"]
  /\ chld = [p \in Proc |-> 0]
  /\ odir = [p \in Proc |-> NoFrame]
  /\ idx = [p \in Proc |-> 0]
  /\ lim = [p \in Proc |-> 0]
  /\ img = [p \in Proc |-> NoImage]
  /\ ent = [p \in Proc |-> NoPte]
  /\ tmp = [p \in Proc |-> 0]

Init == \E k, d, f \in Frames : userinit(k, d, f)

(* A process between two system calls or faults. *)
InUser(p) == state[p] = "RUNNABLE" /\ pc[p] = "user"

(* Back to user mode with the kernel path's locals gone. *)
Return(p) ==
  /\ pc' = [pc EXCEPT ![p] = "user"]
  /\ chld' = [chld EXCEPT ![p] = 0]
  /\ odir' = [odir EXCEPT ![p] = NoFrame]
  /\ idx' = [idx EXCEPT ![p] = 0]
  /\ lim' = [lim EXCEPT ![p] = 0]
  /\ img' = [img EXCEPT ![p] = NoImage]
  /\ ent' = [ent EXCEPT ![p] = NoPte]
  /\ tmp' = [tmp EXCEPT ![p] = 0]
-----------------------------------------------------------------------------
(***************************************************************************)
(* Memory accesses of user programs, and of the kernel on their behalf.    *)
(***************************************************************************)
Entry(p, v) == table[pgdir[p]][v]

(* A store the MMU allows. *)
Write(p, v, x) ==
  /\ InUser(p)
  /\ Entry(p, v).p /\ Entry(p, v).w /\ Entry(p, v).u
  /\ data' = [data EXCEPT ![Entry(p, v).addr] = x]
  /\ UNCHANGED <<freelist, refcnt, table, ptable, locals>>

(* An access the MMU refuses although the page is there. *)
Refused(p, v) == InUser(p) /\ Entry(p, v).p /\ ~(Entry(p, v).w /\ Entry(p, v).u)

(* cow_page, given the page g from kalloc: the old page loses a reference, *)
(* and the faulting entry maps a writable copy.                            *)
cow_page(p, v, g) ==
  LET f == Entry(p, v).addr IN
  /\ refcnt' = [refcnt EXCEPT ![g] = 1, ![f] = @ - 1]
  /\ freelist' = freelist \ {g}
  /\ data' = [data EXCEPT ![g] = data[f]]
  /\ table' = [table EXCEPT ![pgdir[p]][v] = [@ EXCEPT !.addr = g, !.w = TRUE]]

(* handle_page_fault on a present page that is counted more than once. *)
FaultCopy(p, v) ==
  /\ Refused(p, v)
  /\ Shared(Entry(p, v).addr)
  /\ \E g \in freelist : cow_page(p, v, g)
  /\ UNCHANGED <<ptable, locals>>

(* handle_page_fault on a present page with a single reference. *)
FaultReuse(p, v) ==
  /\ Refused(p, v)
  /\ ~Shared(Entry(p, v).addr)
  /\ table' = [table EXCEPT ![pgdir[p]][v] = [@ EXCEPT !.w = TRUE]]
  /\ UNCHANGED <<kmem, ptable, locals>>
-----------------------------------------------------------------------------
(***************************************************************************)
(* deallocuvm, for sbrk on the current directory and for freevm on the     *)
(* other one: each present page in the range is given to kfree, and its    *)
(* entry is cleared.                                                       *)
(***************************************************************************)
DeallocDir_Current(p) == pgdir[p]   \* seeded bug
DeallocDir(p) == IF odir[p] = NoFrame THEN pgdir[p] ELSE odir[p]
DeallocRange_TooLow(p) ==   \* seeded bug
  IF odir[p] = NoFrame THEN (lim[p] - 1)..(sz[p] - 1) ELSE Pages
DeallocRange(p) == IF odir[p] = NoFrame THEN lim[p]..(sz[p] - 1) ELSE Pages
ToFree(p) == {v \in DeallocRange(p) : table[DeallocDir(p)][v].p}

DeallocPage(p) ==
  /\ pc[p] = "dealloc"
  /\ \E v \in ToFree(p) :
       LET e == table[DeallocDir(p)][v] IN
       /\ \A u \in ToFree(p) : v <= u
       /\ idx' = [idx EXCEPT ![p] = v]
       /\ \/ /\ AtomicRefcnt
             /\ kfree({e.addr})
             /\ pc' = [pc EXCEPT ![p] = "dealloc_clear"]
             /\ UNCHANGED <<ent, tmp>>
          \/ /\ ~AtomicRefcnt
             /\ ent' = [ent EXCEPT ![p] = e]
             /\ tmp' = [tmp EXCEPT ![p] = refcnt[e.addr]]
             /\ pc' = [pc EXCEPT ![p] = "dealloc_free"]
             /\ UNCHANGED kmem
  /\ UNCHANGED <<table, ptable, chld, odir, lim, img>>

DeallocKfree(p) ==
  /\ pc[p] = "dealloc_free"
  /\ kfree_read(ent[p].addr, tmp[p])
  /\ pc' = [pc EXCEPT ![p] = "dealloc_clear"]
  /\ ent' = [ent EXCEPT ![p] = NoPte]
  /\ tmp' = [tmp EXCEPT ![p] = 0]
  /\ UNCHANGED <<table, ptable, chld, odir, idx, lim, img>>

DeallocClear(p) ==
  /\ pc[p] = "dealloc_clear"
  /\ table' = [table EXCEPT ![DeallocDir(p)][idx[p]] = NoPte]
  /\ idx' = [idx EXCEPT ![p] = 0]
  /\ pc' = [pc EXCEPT ![p] = "dealloc"]
  /\ UNCHANGED <<kmem, ptable, chld, odir, lim, img, ent, tmp>>
-----------------------------------------------------------------------------
(***************************************************************************)
(* sbrk: growproc with allocuvm or deallocuvm.                             *)
(***************************************************************************)
Fits_OffByOne(n) == n <= NPages + 1   \* seeded bug
Fits(n) == n <= NPages

SbrkGrow(p, n) ==
  /\ InUser(p)
  /\ Fits(sz[p] + n)
  /\ pc' = [pc EXCEPT ![p] = "grow"]
  /\ idx' = [idx EXCEPT ![p] = sz[p]]
  /\ lim' = [lim EXCEPT ![p] = sz[p] + n]
  /\ UNCHANGED <<kmem, table, ptable, chld, odir, img, ent, tmp>>

(* One round of allocuvm's loop: a cleared page, mapped for user writes. *)
GrowPage(p) ==
  /\ pc[p] = "grow" /\ idx[p] < lim[p]
  /\ \E f \in Frames :
       /\ kalloc(f)
       /\ data' = [data EXCEPT ![f] = Zero]
       /\ table' = [table EXCEPT ![pgdir[p]][idx[p]] = UserPte(f, TRUE)]
  /\ idx' = [idx EXCEPT ![p] = @ + 1]
  /\ UNCHANGED <<ptable, pc, chld, odir, lim, img, ent, tmp>>

GrowDone(p) ==
  /\ pc[p] = "grow" /\ idx[p] = lim[p]
  /\ sz' = [sz EXCEPT ![p] = lim[p]]
  /\ Return(p)
  /\ UNCHANGED <<kmem, table, state, parent, pgdir, kstack>>

SbrkShrink(p, n) ==
  /\ InUser(p)
  /\ n < sz[p]
  /\ pc' = [pc EXCEPT ![p] = "dealloc"]
  /\ lim' = [lim EXCEPT ![p] = sz[p] - n]
  /\ UNCHANGED <<kmem, table, ptable, chld, odir, idx, img, ent, tmp>>

ShrinkDone(p) ==
  /\ pc[p] = "dealloc" /\ odir[p] = NoFrame /\ ToFree(p) = {}
  /\ sz' = [sz EXCEPT ![p] = lim[p]]
  /\ Return(p)
  /\ UNCHANGED <<kmem, table, state, parent, pgdir, kstack>>
-----------------------------------------------------------------------------
(***************************************************************************)
(* fork: allocproc, copyuvm_cow, and the child made runnable.              *)
(***************************************************************************)

(* allocproc takes the first unused slot of the table. *)
allocproc(c) == state[c] = "UNUSED" /\ \A q \in Proc : q < c => state[q] # "UNUSED"

ForkAlloc(p, c) ==
  /\ InUser(p)
  /\ allocproc(c)
  /\ state' = [state EXCEPT ![c] = "EMBRYO"]
  /\ chld' = [chld EXCEPT ![p] = c]
  /\ pc' = [pc EXCEPT ![p] = "fork_kstack"]
  /\ UNCHANGED <<kmem, table, parent, sz, pgdir, kstack, odir, idx, lim, img, ent, tmp>>

ForkKstack(p) ==
  /\ pc[p] = "fork_kstack"
  /\ \E f \in Frames : kalloc(f) /\ kstack' = [kstack EXCEPT ![chld[p]] = f]
  /\ pc' = [pc EXCEPT ![p] = "fork_dir"]
  /\ UNCHANGED <<data, table, state, parent, sz, pgdir, chld, odir, idx, lim, img, ent, tmp>>

(* setupkvm: a directory without user entries. *)
ForkSetupkvm(p) ==
  /\ pc[p] = "fork_dir"
  /\ \E d \in Frames :
       /\ kalloc(d)
       /\ table' = [table EXCEPT ![d] = EmptyTable]
       /\ odir' = [odir EXCEPT ![p] = d]
  /\ pc' = [pc EXCEPT ![p] = "fork_copy"]
  /\ UNCHANGED <<data, ptable, chld, idx, lim, img, ent, tmp>>

Protected_Not(e) == e   \* seeded bug
Protected(e) == [e EXCEPT !.w = FALSE]

(* copyuvm_cow reads the parent's entry and takes its write permission. *)
ForkProtect(p) ==
  /\ pc[p] = "fork_copy" /\ idx[p] < sz[p]
  /\ Entry(p, idx[p]).p
  /\ ent' = [ent EXCEPT ![p] = Entry(p, idx[p])]
  /\ table' = [table EXCEPT ![pgdir[p]][idx[p]] = Protected(@)]
  /\ pc' = [pc EXCEPT ![p] = "fork_map"]
  /\ UNCHANGED <<kmem, ptable, chld, odir, idx, lim, img, tmp>>

(* mappages of the same frame, read-only, into the child's directory; the  *)
(* count is then loaded.                                                   *)
ForkMap(p) ==
  /\ pc[p] = "fork_map"
  /\ table' = [table EXCEPT ![odir[p]][idx[p]] = Protected(ent[p])]
  /\ tmp' = [tmp EXCEPT ![p] = refcnt[ent[p].addr]]
  /\ pc' = [pc EXCEPT ![p] = "fork_inc"]
  /\ UNCHANGED <<kmem, ptable, chld, odir, idx, lim, img, ent>>

Incremented_Not(n) == n   \* seeded bug
Incremented(n) == n + 1

(* page_to_refcnt[pa >> PTXSHIFT]++ *)
ForkInc(p) ==
  /\ pc[p] = "fork_inc"
  /\ refcnt' = [refcnt EXCEPT ![ent[p].addr] = Incremented(IF AtomicRefcnt THEN @ ELSE tmp[p])]
  /\ idx' = [idx EXCEPT ![p] = @ + 1]
  /\ ent' = [ent EXCEPT ![p] = NoPte]
  /\ tmp' = [tmp EXCEPT ![p] = 0]
  /\ pc' = [pc EXCEPT ![p] = "fork_copy"]
  /\ UNCHANGED <<freelist, data, table, ptable, chld, odir, lim, img>>

ForkDone(p) ==
  /\ pc[p] = "fork_copy" /\ idx[p] = sz[p]
  /\ LET c == chld[p] IN
       /\ pgdir' = [pgdir EXCEPT ![c] = odir[p]]
       /\ sz' = [sz EXCEPT ![c] = sz[p]]
       /\ parent' = [parent EXCEPT ![c] = p]
       /\ state' = [state EXCEPT ![c] = "RUNNABLE"]
  /\ Return(p)
  /\ UNCHANGED <<kmem, table, kstack>>
-----------------------------------------------------------------------------
(***************************************************************************)
(* exec: a new directory is filled, becomes current, and the old one goes. *)
(***************************************************************************)

(* An exec that fails before it has a directory changes nothing here. *)
ExecStart(p, im) ==
  /\ InUser(p)
  /\ img' = [img EXCEPT ![p] = im]
  /\ pc' = [pc EXCEPT ![p] = "exec_dir"]
  /\ UNCHANGED <<kmem, table, ptable, chld, odir, idx, lim, ent, tmp>>

ExecSetupkvm(p) ==
  /\ pc[p] = "exec_dir"
  /\ \E d \in Frames :
       /\ kalloc(d)
       /\ table' = [table EXCEPT ![d] = EmptyTable]
       /\ odir' = [odir EXCEPT ![p] = d]
  /\ pc' = [pc EXCEPT ![p] = "exec"]
  /\ UNCHANGED <<data, ptable, chld, idx, lim, img, ent, tmp>>

ImagePage_NoArgs(im, v) == IF v < im.size THEN im.text ELSE Zero   \* seeded bug

(* Text pages, then the page below the stack, which clearpteu makes        *)
(* inaccessible, then the stack.                                           *)
ImagePage(im, v) ==
  IF v < im.size THEN im.text ELSE IF v = im.size THEN Zero ELSE im.args

(* allocuvm of the next page, with what loaduvm or copyout puts there. *)
ExecPage(p) ==
  /\ pc[p] = "exec" /\ idx[p] < img[p].size + 2
  /\ \E f \in Frames :
       /\ kalloc(f)
       /\ data' = [data EXCEPT ![f] = ImagePage(img[p], idx[p])]
       /\ table' = [table EXCEPT ![odir[p]][idx[p]] = UserPte(f, idx[p] # img[p].size)]
  /\ idx' = [idx EXCEPT ![p] = @ + 1]
  /\ UNCHANGED <<ptable, pc, chld, odir, lim, img, ent, tmp>>

(* goto bad: the file cannot be read, or its headers or arguments do not fit. *)
ExecBad(p) ==
  /\ pc[p] = "exec"
  /\ pc' = [pc EXCEPT ![p] = "dealloc"]
  /\ idx' = [idx EXCEPT ![p] = 0]
  /\ img' = [img EXCEPT ![p] = NoImage]
  /\ UNCHANGED <<kmem, table, ptable, chld, odir, lim, ent, tmp>>

ExecCommit(p) ==
  /\ pc[p] = "exec" /\ idx[p] = img[p].size + 2
  /\ pgdir' = [pgdir EXCEPT ![p] = odir[p]]
  /\ odir' = [odir EXCEPT ![p] = pgdir[p]]
  /\ sz' = [sz EXCEPT ![p] = idx[p]]
  /\ pc' = [pc EXCEPT ![p] = "dealloc"]
  /\ idx' = [idx EXCEPT ![p] = 0]
  /\ img' = [img EXCEPT ![p] = NoImage]
  /\ UNCHANGED <<kmem, table, state, parent, kstack, chld, lim, ent, tmp>>

(* The end of freevm: the directory itself goes. *)
FreevmDone(p) ==
  /\ pc[p] = "dealloc" /\ odir[p] # NoFrame /\ ToFree(p) = {}
  /\ kfree({odir[p]})
  /\ Return(p)
  /\ UNCHANGED <<table, ptable>>
-----------------------------------------------------------------------------
(***************************************************************************)
(* exit and wait.                                                          *)
(***************************************************************************)

(* exit leaves the memory to the parent and the children to initproc. *)
Exit(p) ==
  /\ InUser(p) /\ p # initproc
  /\ state' = [state EXCEPT ![p] = "ZOMBIE"]
  /\ parent' = [q \in Proc |-> IF parent[q] = p THEN initproc ELSE parent[q]]
  /\ UNCHANGED <<kmem, table, sz, pgdir, kstack, locals>>

(* What wait gives back of a zombie's address space: the pages it maps,    *)
(* and its directory.                                                      *)
deallocuvm_proc(c) == {Entry(c, v).addr : v \in {w \in Pages : Entry(c, w).p}}
freevm_proc(c) == deallocuvm_proc(c) \cup {pgdir[c]}

(* wait frees the first zombie child: kernel stack, pages and directory. *)
Wait(p, c) ==
  /\ InUser(p)
  /\ parent[c] = p /\ state[c] = "ZOMBIE"
  /\ \A q \in Proc : q < c => ~(parent[q] = p /\ state[q] = "ZOMBIE")
  /\ kfree({kstack[c]} \cup freevm_proc(c))
  /\ table' = [table EXCEPT ![pgdir[c]] = EmptyTable]
  /\ kstack' = [kstack EXCEPT ![c] = NoFrame]
  /\ parent' = [parent EXCEPT ![c] = 0]
  /\ state' = [state EXCEPT ![c] = "UNUSED"]
  /\ UNCHANGED <<sz, pgdir, locals>>
-----------------------------------------------------------------------------
Next ==
  \E p \in Proc :
    \/ \E v \in Stored, x \in Values : Write(p, v, x)
    \/ \E v \in Stored : FaultCopy(p, v)
    \/ \E v \in Stored : FaultReuse(p, v)
    \/ \E n \in Deltas : SbrkGrow(p, n)
    \/ GrowPage(p)
    \/ GrowDone(p)
    \/ \E n \in Deltas : SbrkShrink(p, n)
    \/ DeallocPage(p)
    \/ DeallocKfree(p)
    \/ DeallocClear(p)
    \/ ShrinkDone(p)
    \/ \E c \in Proc : ForkAlloc(p, c)
    \/ ForkKstack(p)
    \/ ForkSetupkvm(p)
    \/ ForkProtect(p)
    \/ ForkMap(p)
    \/ ForkInc(p)
    \/ ForkDone(p)
    \/ \E im \in Images : ExecStart(p, im)
    \/ ExecSetupkvm(p)
    \/ ExecPage(p)
    \/ ExecBad(p)
    \/ ExecCommit(p)
    \/ FreevmDone(p)
    \/ Exit(p)
    \/ \E c \in Proc : Wait(p, c)

Spec == Init /\ [][Next]_vars
-----------------------------------------------------------------------------
(***************************************************************************)
(* Properties.                                                             *)
(***************************************************************************)
(* Every variable keeps its type: growproc and exec never pass the end of  *)
(* user memory, and kfree never takes a count below zero.                  *)
TypeOK ==
  /\ freelist \subseteq Frames
  /\ refcnt \in [Frames -> Nat]
  /\ data \in [Frames -> Values \cup {Junk}]
  /\ table \in [Frames -> [Pages -> PTE]]
  /\ state \in [Proc -> {"UNUSED", "EMBRYO", "RUNNABLE", "ZOMBIE"}]
  /\ parent \in [Proc -> Proc \cup {0}]
  /\ sz \in [Proc -> 0..NPages]
  /\ pgdir \in [Proc -> Frames \cup {NoFrame}]
  /\ kstack \in [Proc -> Frames \cup {NoFrame}]
  /\ pc \in [Proc -> Labels]
  /\ chld \in [Proc -> Proc \cup {0}]
  /\ odir \in [Proc -> Frames \cup {NoFrame}]
  /\ idx \in [Proc -> 0..NPages]
  /\ lim \in [Proc -> 0..NPages]
  /\ img \in [Proc -> Images \cup {NoImage}]
  /\ ent \in [Proc -> PTE]
  /\ tmp \in [Proc -> Nat]

(* Slots whose pgdir is a directory; in the others it is a stale pointer. *)
Live(p) == state[p] \in {"RUNNABLE", "ZOMBIE"}

(* An entry whose page was already given to kfree by the deallocuvm that   *)
(* is about to clear it.                                                   *)
Stale(d, v) == \E p \in Proc : pc[p] = "dealloc_clear" /\ DeallocDir(p) = d /\ idx[p] = v

(* An entry of a child under construction that is mapped but not counted. *)
Uncounted(d, v) == \E p \in Proc : pc[p] = "fork_inc" /\ odir[p] = d /\ idx[p] = v

(* The entries in use, those through which page f is, and their pages. *)
EntriesInUse == {m \in Frames \X Pages : table[m[1]][m[2]].p /\ ~Stale(m[1], m[2])}

Mappings(f) == {m \in EntriesInUse : table[m[1]][m[2]].addr = f}

MappedFrames == {table[m[1]][m[2]].addr : m \in EntriesInUse}

Counted(f) == {m \in Mappings(f) : ~Uncounted(m[1], m[2])}

Dirs == {pgdir[p] : p \in {q \in Proc : Live(q)}}
          \cup {odir[p] : p \in {q \in Proc : odir[q] # NoFrame}}
Stacks == {kstack[p] : p \in {q \in Proc : kstack[q] # NoFrame}}

(* kalloc, kfree, copyuvm_cow and cow_page together keep page_to_refcnt    *)
(* equal to the number of page table entries that use the page, at every   *)
(* point where a switch can happen.                                        *)
RefcntExact ==
  \A f \in MappedFrames : refcnt[f] = Cardinality(Counted(f))

(* The count may be too high, but never too low: kfree does not free a     *)
(* page in use, and handle_page_fault does not hand out a shared one.      *)
RefcntNotLow ==
  \A f \in MappedFrames : refcnt[f] >= Cardinality(Counted(f))

(* copyuvm_cow takes PTE_W from both sides and only handle_page_fault      *)
(* gives it back: an entry with PTE_W is the only use of its page.         *)
WritableIsPrivate ==
  \A d \in Frames, v \in Pages :
    table[d][v].p /\ table[d][v].w /\ ~Stale(d, v)
      => Mappings(table[d][v].addr) = {<<d, v>>}

(* No page is lost and none is used twice: each one is on the free list,   *)
(* or one kernel stack, or one directory, or mapped for users.             *)
FramesPartitioned ==
  /\ LET mapped == MappedFrames IN
     /\ Frames = freelist \cup Stacks \cup Dirs \cup mapped
     /\ freelist \cap (Stacks \cup Dirs \cup mapped) = {}
     /\ Stacks \cap (Dirs \cup mapped) = {}
     /\ Dirs \cap mapped = {}
  /\ \A p, q \in Proc : kstack[p] = kstack[q] /\ kstack[p] # NoFrame => p = q
  /\ \A p, q \in Proc :
       /\ Live(p) /\ Live(q) /\ pgdir[p] = pgdir[q] => p = q
       /\ odir[p] # NoFrame /\ odir[p] = odir[q] => p = q
       /\ Live(p) => pgdir[p] # odir[q]

(* The panics "copyuvm: page not present" and "remap" are out of reach: a  *)
(* process that forks has all its pages, and mappages finds its slot empty. *)
(* (This is with memory to spare: no page is in a slot of the swap area.)  *)
NoPanic ==
  \A p \in Proc :
    /\ pc[p] = "fork_copy" /\ idx[p] < sz[p] => Entry(p, idx[p]).p
    /\ pc[p] = "fork_map" => ~table[odir[p]][idx[p]].p
    /\ pc[p] = "grow" /\ idx[p] < lim[p] => ~Entry(p, idx[p]).p
    /\ pc[p] = "exec" /\ idx[p] < img[p].size + 2 => ~table[odir[p]][idx[p]].p

(* A process that gives pages back with sbrk. *)
Shrinking(p) == pc[p] \in DeallocPath /\ odir[p] = NoFrame
=============================================================================
