--------------------------- MODULE CowMemoryTyping ---------------------------
(***************************************************************************)
(* Type correctness of CowMemory, for both values of AtomicRefcnt.  TypeOK *)
(* alone is not inductive: that a directory pointer is one, and that an    *)
(* index stays inside its range, depends on where the process is, which is *)
(* what Control says.  This module shows that steps keep TypeOK, given     *)
(* Control; CowMemoryControl shows that they keep Control.                 *)
(***************************************************************************)
EXTENDS CowMemoryInv, TLAPS

(* The records the page-table code writes are page table entries. *)
LEMMA PteTyped ==
  /\ NoPte \in PTE
  /\ \A f \in Frames, u \in BOOLEAN : UserPte(f, u) \in PTE
  /\ \A e \in PTE, b \in BOOLEAN : [e EXCEPT !.w = b] \in PTE
  /\ \A e \in PTE : e.addr \in Frames \cup {NoFrame} /\ (e.p => e.addr \in Frames)
BY DEF PTE, NoPte, UserPte

(* So are what cow_page writes and what copyuvm_cow writes. *)
LEMMA PteCopied ==
  \A e \in PTE, f \in Frames, b \in BOOLEAN : [e EXCEPT !.addr = f, !.w = b] \in PTE
BY Zenon DEF PTE

LEMMA PteProtected == \A e \in PTE : Protected(e) \in PTE
BY PteTyped, Zenon DEF Protected

(* A process with a directory has its entries. *)
LEMMA EntryTyped ==
  ASSUME TypeOK, Control, NEW p \in Proc, Live(p), NEW v \in Pages
  PROVE  pgdir[p] \in Frames /\ Entry(p, v) \in PTE
BY DEF TypeOK, Control, ControlOK, Entry

(* Storing an entry leaves a page table a page table. *)
LEMMA TablePut ==
  ASSUME NEW t \in [Frames -> [Pages -> PTE]], NEW d, NEW v, NEW e \in PTE
  PROVE  [t EXCEPT ![d][v] = e] \in [Frames -> [Pages -> PTE]]
BY Zenon

(* kfree keeps the allocator's types, one page or many at a time. *)
LEMMA KfreeTyped ==
  ASSUME TypeOK, NEW S \in SUBSET Frames, kfree(S)
  PROVE  /\ freelist' \subseteq Frames
         /\ refcnt' \in [Frames -> Nat]
         /\ data' \in [Frames -> Values \cup {Junk}]
<1>1. freelist' \subseteq Frames
  BY DEF kfree, TypeOK
<1>2. ASSUME NEW f \in Frames
      PROVE  (IF f \in {g \in S : Shared(g)} THEN refcnt[f] - 1 ELSE refcnt[f]) \in Nat
  BY DEF TypeOK, Shared
<1>3. refcnt' \in [Frames -> Nat]
  BY <1>2, Zenon DEF kfree
<1>4. data' \in [Frames -> Values \cup {Junk}]
  BY Zenon DEF kfree, TypeOK
<1> QED
  BY <1>1, <1>3, <1>4

(* Leaving the kernel resets the locals. *)
LEMMA ReturnTyped ==
  ASSUME TypeOK, NEW p \in Proc, Return(p)
  PROVE  /\ pc' \in [Proc -> Labels]
         /\ chld' \in [Proc -> Proc \cup {0}]
         /\ odir' \in [Proc -> Frames \cup {NoFrame}]
         /\ idx' \in [Proc -> 0..NPages]
         /\ lim' \in [Proc -> 0..NPages]
         /\ img' \in [Proc -> Images \cup {NoImage}]
         /\ ent' \in [Proc -> PTE]
         /\ tmp' \in [Proc -> Nat]
<1>1. pc' \in [Proc -> Labels]
  BY DEF Return, TypeOK, Labels
<1>2. chld' \in [Proc -> Proc \cup {0}] /\ odir' \in [Proc -> Frames \cup {NoFrame}]
  BY DEF Return, TypeOK
<1>3. 0 \in 0..NPages /\ 0 \in Nat
  BY SizesAssumption
<1>4. idx' \in [Proc -> 0..NPages] /\ lim' \in [Proc -> 0..NPages] /\ tmp' \in [Proc -> Nat]
  BY <1>3 DEF Return, TypeOK
<1>5. img' \in [Proc -> Images \cup {NoImage}] /\ ent' \in [Proc -> PTE]
  BY PteTyped DEF Return, TypeOK
<1> QED
  BY <1>1, <1>2, <1>4, <1>5

(* A program's store. *)
LEMMA WriteTyped ==
  ASSUME TypeOK, Control, NEW p \in Proc, NEW v \in Stored, NEW x \in Values, Write(p, v, x)
  PROVE  TypeOK'
<1> USE SizesAssumption
<1>1. data' \in [Frames -> Values \cup {Junk}]
  BY ValuesAssumption, Zenon DEF TypeOK, Write
<1> QED
  BY Zenon, <1>1 DEF TypeOK, Write, ptable, locals

(* The copy-on-write fault. *)
LEMMA FaultCopyTyped ==
  ASSUME TypeOK, Control, NEW p \in Proc, NEW v \in Stored, FaultCopy(p, v)
  PROVE  TypeOK'
<1> USE SizesAssumption
<1>0. PICK g \in freelist : g \in Frames /\ cow_page(p, v, g)
  BY DEF FaultCopy, TypeOK
<1>00. Entry(p, v) \in PTE /\ Entry(p, v).addr \in Frames /\ refcnt[Entry(p, v).addr] > 1
  BY EntryTyped, PteTyped, WorkloadAssumption DEF FaultCopy, Refused, InUser, Live, Shared
<1>1. freelist' \subseteq Frames
  BY <1>0 DEF TypeOK, cow_page
<1>2. data' \in [Frames -> Values \cup {Junk}]
  BY <1>0, <1>00 DEF TypeOK, cow_page
<1>3. refcnt' \in [Frames -> Nat]
  BY <1>0, <1>00 DEF TypeOK, cow_page
<1>4. table' \in [Frames -> [Pages -> PTE]]
  BY <1>0, <1>00, TablePut, PteCopied, Zenon DEF TypeOK, cow_page, Entry
<1> QED
  BY Zenon, <1>1, <1>2, <1>3, <1>4 DEF TypeOK, FaultCopy, ptable, locals

(* A fault on a page with one reference. *)
LEMMA FaultReuseTyped ==
  ASSUME TypeOK, Control, NEW p \in Proc, NEW v \in Stored, FaultReuse(p, v)
  PROVE  TypeOK'
<1> USE SizesAssumption
<1>0. Entry(p, v) \in PTE
  BY EntryTyped, WorkloadAssumption DEF FaultReuse, Refused, InUser, Live
<1>1. table' \in [Frames -> [Pages -> PTE]]
  BY <1>0, TablePut, PteTyped, Zenon DEF TypeOK, FaultReuse, Entry
<1> QED
  BY Zenon, <1>1 DEF TypeOK, FaultReuse, kmem, ptable, locals

(* sbrk with a positive argument. *)
LEMMA SbrkGrowTyped ==
  ASSUME TypeOK, Control, NEW p \in Proc, NEW n \in Deltas, SbrkGrow(p, n)
  PROVE  TypeOK'
<1> USE SizesAssumption
<1>1. pc' \in [Proc -> Labels]
  BY DEF TypeOK, SbrkGrow, Labels
<1>2. idx' \in [Proc -> 0..NPages] /\ lim' \in [Proc -> 0..NPages]
  BY WorkloadAssumption DEF TypeOK, SbrkGrow, Fits
<1> QED
  BY Zenon, <1>1, <1>2 DEF TypeOK, SbrkGrow, kmem, ptable

(* A round of allocuvm. *)
LEMMA GrowPageTyped ==
  ASSUME TypeOK, Control, NEW p \in Proc, GrowPage(p)
  PROVE  TypeOK'
<1> USE SizesAssumption
<1>0. PICK f \in Frames :
        /\ kalloc(f)
        /\ data' = [data EXCEPT ![f] = Zero]
        /\ table' = [table EXCEPT ![pgdir[p]][idx[p]] = UserPte(f, TRUE)]
  BY Zenon DEF GrowPage
<1>1. freelist' \subseteq Frames /\ refcnt' \in [Frames -> Nat]
  BY <1>0 DEF TypeOK, kalloc
<1>2. data' \in [Frames -> Values \cup {Junk}]
  BY <1>0, ValuesAssumption DEF TypeOK
<1>3. table' \in [Frames -> [Pages -> PTE]]
  BY <1>0, TablePut, PteTyped, Zenon DEF TypeOK
<1>4. idx' \in [Proc -> 0..NPages]
  BY DEF TypeOK, GrowPage
<1> QED
  BY Zenon, <1>1, <1>2, <1>3, <1>4 DEF TypeOK, GrowPage, ptable

(* The end of a growing sbrk. *)
LEMMA GrowDoneTyped ==
  ASSUME TypeOK, Control, NEW p \in Proc, GrowDone(p)
  PROVE  TypeOK'
<1> USE SizesAssumption
<1>1. sz' \in [Proc -> 0..NPages]
  BY DEF TypeOK, GrowDone
<1>2. Return(p)
  BY DEF GrowDone
<1> QED
  BY Zenon, ReturnTyped, <1>1, <1>2 DEF TypeOK, GrowDone, kmem

(* sbrk with a negative argument. *)
LEMMA SbrkShrinkTyped ==
  ASSUME TypeOK, Control, NEW p \in Proc, NEW n \in Deltas, SbrkShrink(p, n)
  PROVE  TypeOK'
<1> USE SizesAssumption
<1>1. pc' \in [Proc -> Labels]
  BY DEF TypeOK, SbrkShrink, Labels, DeallocPath
<1>2. lim' \in [Proc -> 0..NPages]
  BY WorkloadAssumption DEF TypeOK, SbrkShrink
<1> QED
  BY Zenon, <1>1, <1>2 DEF TypeOK, SbrkShrink, kmem, ptable

(* deallocuvm meets a present page. *)
LEMMA DeallocPageTyped ==
  ASSUME TypeOK, Control, NEW p \in Proc, DeallocPage(p)
  PROVE  TypeOK'
<1> USE SizesAssumption
<1>1. PICK v \in ToFree(p) :
        /\ idx' = [idx EXCEPT ![p] = v]
        /\ \/ /\ AtomicRefcnt
              /\ kfree({table[DeallocDir(p)][v].addr})
              /\ pc' = [pc EXCEPT ![p] = "dealloc_clear"]
              /\ UNCHANGED <<ent, tmp>>
           \/ /\ ~AtomicRefcnt
              /\ ent' = [ent EXCEPT ![p] = table[DeallocDir(p)][v]]
              /\ tmp' = [tmp EXCEPT ![p] = refcnt[table[DeallocDir(p)][v].addr]]
              /\ pc' = [pc EXCEPT ![p] = "dealloc_free"]
              /\ UNCHANGED kmem
  BY Zenon DEF DeallocPage
<1>2. /\ v \in Pages /\ v \in DeallocRange(p) /\ v \in 0..NPages
      /\ table[DeallocDir(p)][v].p
      /\ table[DeallocDir(p)][v] \in PTE
  <2>1. DeallocDir(p) \in Frames
    BY DEF DeallocPage, DeallocDir, TypeOK, Control, ControlOK, Live
  <2>2. v \in Pages
    BY DEF ToFree, DeallocRange, TypeOK, Pages, DeallocPage, Control, ControlOK, Shrinking, DeallocPath
  <2> QED
    BY <2>1, <2>2 DEF ToFree, TypeOK, Pages
<1>3. table[DeallocDir(p)][v].addr \in Frames
  BY <1>2, PteTyped
<1>4. /\ freelist' \subseteq Frames
      /\ refcnt' \in [Frames -> Nat]
      /\ data' \in [Frames -> Values \cup {Junk}]
  <2>1. {table[DeallocDir(p)][v].addr} \in SUBSET Frames
    BY <1>3
  <2>2. CASE kfree({table[DeallocDir(p)][v].addr})
    BY <2>1, <2>2, KfreeTyped
  <2>3. CASE UNCHANGED kmem
    BY <2>3 DEF kmem, TypeOK
  <2> QED
    BY <1>1, <2>2, <2>3
<1>5. pc' \in [Proc -> Labels]
  BY <1>1 DEF TypeOK, Labels, DeallocPath
<1>6. ent' \in [Proc -> PTE] /\ idx' \in [Proc -> 0..NPages]
  BY <1>1, <1>2, Zenon DEF TypeOK
<1>7. tmp' \in [Proc -> Nat]
  <2>1. refcnt[table[DeallocDir(p)][v].addr] \in Nat
    BY <1>3 DEF TypeOK
  <2> QED
    BY <1>1, <2>1, Zenon DEF TypeOK
<1> QED
  BY Zenon, <1>4, <1>5, <1>6, <1>7 DEF TypeOK, DeallocPage, ptable

(* The end of a shrinking sbrk. *)
LEMMA ShrinkDoneTyped ==
  ASSUME TypeOK, Control, NEW p \in Proc, ShrinkDone(p)
  PROVE  TypeOK'
<1> USE SizesAssumption
<1>1. sz' \in [Proc -> 0..NPages]
  BY DEF TypeOK, ShrinkDone
<1>2. Return(p)
  BY DEF ShrinkDone
<1> QED
  BY Zenon, ReturnTyped, <1>1, <1>2 DEF TypeOK, ShrinkDone, kmem

(* The rest of kfree after the count was read. *)
LEMMA DeallocKfreeTyped ==
  ASSUME TypeOK, Control, NEW p \in Proc, DeallocKfree(p)
  PROVE  TypeOK'
<1> USE SizesAssumption
<1>0. ent[p].addr \in Frames /\ tmp[p] \in Nat
  BY PteTyped DEF DeallocKfree, TypeOK, Control, ControlOK
<1>1. freelist' \subseteq Frames
  BY <1>0 DEF TypeOK, DeallocKfree, kfree_read
<1>2. refcnt' \in [Frames -> Nat]
  BY <1>0 DEF TypeOK, DeallocKfree, kfree_read
<1>3. data' \in [Frames -> Values \cup {Junk}]
  BY <1>0 DEF TypeOK, DeallocKfree, kfree_read
<1>4. pc' \in [Proc -> Labels]
  BY DEF TypeOK, DeallocKfree, Labels, DeallocPath
<1>5. ent' \in [Proc -> PTE] /\ tmp' \in [Proc -> Nat]
  BY PteTyped DEF TypeOK, DeallocKfree
<1> QED
  BY Zenon, <1>1, <1>2, <1>3, <1>4, <1>5 DEF TypeOK, DeallocKfree, ptable

(* deallocuvm clears the entry. *)
LEMMA DeallocClearTyped ==
  ASSUME TypeOK, Control, NEW p \in Proc, DeallocClear(p)
  PROVE  TypeOK'
<1> USE SizesAssumption
<1>1. table' \in [Frames -> [Pages -> PTE]]
  BY TablePut, PteTyped, Zenon DEF TypeOK, DeallocClear
<1>2. pc' \in [Proc -> Labels]
  BY DEF TypeOK, DeallocClear, Labels, DeallocPath
<1>3. idx' \in [Proc -> 0..NPages]
  BY DEF TypeOK, DeallocClear
<1> QED
  BY Zenon, <1>1, <1>2, <1>3 DEF TypeOK, DeallocClear, kmem, ptable

(* allocproc takes a slot. *)
LEMMA ForkAllocTyped ==
  ASSUME TypeOK, Control, NEW p \in Proc, NEW c \in Proc, ForkAlloc(p, c)
  PROVE  TypeOK'
<1> USE SizesAssumption
<1>1. /\ state' \in [Proc -> {"UNUSED", "EMBRYO", "RUNNABLE", "ZOMBIE"}]
      /\ chld' \in [Proc -> Proc \cup {0}]
  BY DEF TypeOK, ForkAlloc
<1>2. pc' \in [Proc -> Labels]
  BY DEF TypeOK, ForkAlloc, Labels, ForkPath
<1> QED
  BY Zenon, <1>1, <1>2 DEF TypeOK, ForkAlloc, kmem

(* allocproc takes a kernel stack. *)
LEMMA ForkKstackTyped ==
  ASSUME TypeOK, Control, NEW p \in Proc, ForkKstack(p)
  PROVE  TypeOK'
<1> USE SizesAssumption
<1>0. PICK f \in Frames : kalloc(f) /\ kstack' = [kstack EXCEPT ![chld[p]] = f]
  BY Zenon DEF ForkKstack
<1>1. freelist' \subseteq Frames /\ refcnt' \in [Frames -> Nat]
  BY <1>0 DEF TypeOK, kalloc
<1>3. kstack' \in [Proc -> Frames \cup {NoFrame}]
  BY <1>0, Zenon DEF TypeOK
<1>2. pc' \in [Proc -> Labels]
  BY DEF TypeOK, ForkKstack, Labels, ForkPath
<1> QED
  BY Zenon, <1>1, <1>2, <1>3 DEF TypeOK, ForkKstack

(* copyuvm_cow takes a directory. *)
LEMMA ForkSetupkvmTyped ==
  ASSUME TypeOK, Control, NEW p \in Proc, ForkSetupkvm(p)
  PROVE  TypeOK'
<1> USE SizesAssumption
<1>0. PICK d \in Frames :
        /\ kalloc(d)
        /\ table' = [table EXCEPT ![d] = EmptyTable]
        /\ odir' = [odir EXCEPT ![p] = d]
  BY Zenon DEF ForkSetupkvm
<1>1. freelist' \subseteq Frames /\ refcnt' \in [Frames -> Nat]
  BY <1>0 DEF TypeOK, kalloc
<1>2. table' \in [Frames -> [Pages -> PTE]]
  BY <1>0, PteTyped DEF TypeOK, EmptyTable
<1>3. odir' \in [Proc -> Frames \cup {NoFrame}]
  BY <1>0 DEF TypeOK
<1>4. pc' \in [Proc -> Labels]
  BY DEF TypeOK, ForkSetupkvm, Labels, ForkPath
<1> QED
  BY Zenon, <1>1, <1>2, <1>3, <1>4 DEF TypeOK, ForkSetupkvm, ptable

(* copyuvm_cow takes the parent's write permission. *)
LEMMA ForkProtectTyped ==
  ASSUME TypeOK, Control, NEW p \in Proc, ForkProtect(p)
  PROVE  TypeOK'
<1> USE SizesAssumption
<1>0. Entry(p, idx[p]) \in PTE
  <2>1. pc[p] = "fork_copy" /\ idx[p] < sz[p] /\ ControlOK(p)
    BY DEF ForkProtect, Control
  <2>2. idx[p] \in Pages
    BY <2>1 DEF TypeOK, Pages
  <2> QED
    BY <2>1, <2>2, EntryTyped DEF ControlOK, Live
<1>1. ent' \in [Proc -> PTE]
  BY <1>0 DEF TypeOK, ForkProtect
<1>2. table' \in [Frames -> [Pages -> PTE]]
  BY <1>0, TablePut, PteProtected, Zenon DEF TypeOK, ForkProtect, Entry
<1>3. pc' \in [Proc -> Labels]
  BY DEF TypeOK, ForkProtect, Labels, ForkPath
<1> QED
  BY Zenon, <1>1, <1>2, <1>3 DEF TypeOK, ForkProtect, kmem, ptable

(* copyuvm_cow maps the page into the child. *)
LEMMA ForkMapTyped ==
  ASSUME TypeOK, Control, NEW p \in Proc, ForkMap(p)
  PROVE  TypeOK'
<1> USE SizesAssumption
<1>0. ent[p] \in PTE /\ ent[p].addr \in Frames
  BY PteTyped DEF ForkMap, TypeOK, Control, ControlOK
<1>1. table' \in [Frames -> [Pages -> PTE]]
  BY <1>0, TablePut, PteProtected, Zenon DEF TypeOK, ForkMap
<1>2. tmp' \in [Proc -> Nat]
  BY <1>0 DEF TypeOK, ForkMap
<1>3. pc' \in [Proc -> Labels]
  BY DEF TypeOK, ForkMap, Labels, ForkPath
<1> QED
  BY Zenon, <1>1, <1>2, <1>3 DEF TypeOK, ForkMap, kmem, ptable

(* copyuvm_cow counts the new reference. *)
LEMMA ForkIncTyped ==
  ASSUME TypeOK, Control, NEW p \in Proc, ForkInc(p)
  PROVE  TypeOK'
<1> USE SizesAssumption
<1>0. idx[p] < sz[p]
  BY DEF ForkInc, Control, ControlOK
<1>00. ent[p].addr \in Frames /\ tmp[p] \in Nat
  BY PteTyped DEF ForkInc, TypeOK, Control, ControlOK
<1>1. refcnt' \in [Frames -> Nat]
  BY <1>00 DEF TypeOK, ForkInc, Incremented
<1>2. idx' \in [Proc -> 0..NPages]
  BY <1>0 DEF TypeOK, ForkInc
<1>3. ent' \in [Proc -> PTE] /\ tmp' \in [Proc -> Nat]
  BY PteTyped DEF TypeOK, ForkInc
<1>4. pc' \in [Proc -> Labels]
  BY DEF TypeOK, ForkInc, Labels, ForkPath
<1> QED
  BY Zenon, <1>1, <1>2, <1>3, <1>4 DEF TypeOK, ForkInc, ptable

(* fork makes the child runnable. *)
LEMMA ForkDoneTyped ==
  ASSUME TypeOK, Control, NEW p \in Proc, ForkDone(p)
  PROVE  TypeOK'
<1> USE SizesAssumption
<1>1. /\ sz' \in [Proc -> 0..NPages]
      /\ pgdir' \in [Proc -> Frames \cup {NoFrame}]
  BY Zenon DEF TypeOK, ForkDone
<1>2. /\ parent' \in [Proc -> Proc \cup {0}]
      /\ state' \in [Proc -> {"UNUSED", "EMBRYO", "RUNNABLE", "ZOMBIE"}]
  BY Zenon DEF TypeOK, ForkDone
<1>3. Return(p)
  BY DEF ForkDone
<1> QED
  BY Zenon, ReturnTyped, <1>1, <1>2, <1>3 DEF TypeOK, ForkDone, kmem

(* exec begins. *)
LEMMA ExecStartTyped ==
  ASSUME TypeOK, Control, NEW p \in Proc, NEW im \in Images, ExecStart(p, im)
  PROVE  TypeOK'
<1> USE SizesAssumption
<1>1. img' \in [Proc -> Images \cup {NoImage}]
  BY DEF TypeOK, ExecStart
<1>2. pc' \in [Proc -> Labels]
  BY DEF TypeOK, ExecStart, Labels
<1> QED
  BY Zenon, <1>1, <1>2 DEF TypeOK, ExecStart, kmem, ptable

(* exec takes a directory. *)
LEMMA ExecSetupkvmTyped ==
  ASSUME TypeOK, Control, NEW p \in Proc, ExecSetupkvm(p)
  PROVE  TypeOK'
<1> USE SizesAssumption
<1>0. PICK d \in Frames :
        /\ kalloc(d)
        /\ table' = [table EXCEPT ![d] = EmptyTable]
        /\ odir' = [odir EXCEPT ![p] = d]
  BY Zenon DEF ExecSetupkvm
<1>1. freelist' \subseteq Frames /\ refcnt' \in [Frames -> Nat]
  BY <1>0 DEF TypeOK, kalloc
<1>2. table' \in [Frames -> [Pages -> PTE]]
  BY <1>0, PteTyped DEF TypeOK, EmptyTable
<1>3. odir' \in [Proc -> Frames \cup {NoFrame}]
  BY <1>0 DEF TypeOK
<1>4. pc' \in [Proc -> Labels]
  BY DEF TypeOK, ExecSetupkvm, Labels
<1> QED
  BY Zenon, <1>1, <1>2, <1>3, <1>4 DEF TypeOK, ExecSetupkvm, ptable

(* exec fills a page of the new image. *)
LEMMA ExecPageTyped ==
  ASSUME TypeOK, Control, NEW p \in Proc, ExecPage(p)
  PROVE  TypeOK'
<1> USE SizesAssumption
<1>0. PICK f \in Frames :
        /\ kalloc(f)
        /\ data' = [data EXCEPT ![f] = ImagePage(img[p], idx[p])]
        /\ table' = [table EXCEPT ![odir[p]][idx[p]] = UserPte(f, idx[p] # img[p].size)]
  BY Zenon DEF ExecPage
<1>00. img[p] \in Images /\ idx[p] < img[p].size + 2
  BY DEF ExecPage, Control, ControlOK
<1>1. freelist' \subseteq Frames /\ refcnt' \in [Frames -> Nat]
  BY <1>0 DEF TypeOK, kalloc
<1>2. data' \in [Frames -> Values \cup {Junk}]
  BY <1>0, <1>00, ImagesAssumption, ValuesAssumption DEF TypeOK, ImagePage
<1>3. table' \in [Frames -> [Pages -> PTE]]
  BY <1>0, TablePut, PteTyped, Zenon DEF TypeOK
<1>4. idx' \in [Proc -> 0..NPages]
  BY <1>00, ImagesAssumption DEF TypeOK, ExecPage
<1> QED
  BY Zenon, <1>1, <1>2, <1>3, <1>4 DEF TypeOK, ExecPage, ptable

(* exec gives up. *)
LEMMA ExecBadTyped ==
  ASSUME TypeOK, Control, NEW p \in Proc, ExecBad(p)
  PROVE  TypeOK'
<1> USE SizesAssumption
<1>1. img' \in [Proc -> Images \cup {NoImage}] /\ idx' \in [Proc -> 0..NPages]
  BY DEF TypeOK, ExecBad
<1>2. pc' \in [Proc -> Labels]
  BY DEF TypeOK, ExecBad, Labels, DeallocPath
<1> QED
  BY Zenon, <1>1, <1>2 DEF TypeOK, ExecBad, kmem, ptable

(* exec switches to the new directory. *)
LEMMA ExecCommitTyped ==
  ASSUME TypeOK, Control, NEW p \in Proc, ExecCommit(p)
  PROVE  TypeOK'
<1> USE SizesAssumption
<1>1. img' \in [Proc -> Images \cup {NoImage}] /\ idx' \in [Proc -> 0..NPages]
  BY DEF TypeOK, ExecCommit
<1>2. pc' \in [Proc -> Labels]
  BY DEF TypeOK, ExecCommit, Labels, DeallocPath
<1>3. /\ pgdir' \in [Proc -> Frames \cup {NoFrame}]
      /\ odir' \in [Proc -> Frames \cup {NoFrame}]
  BY DEF TypeOK, ExecCommit
<1>4. sz' \in [Proc -> 0..NPages]
  BY DEF TypeOK, ExecCommit
<1> QED
  BY Zenon, <1>1, <1>2, <1>3, <1>4 DEF TypeOK, ExecCommit, kmem

(* freevm gives the directory back. *)
LEMMA FreevmDoneTyped ==
  ASSUME TypeOK, Control, NEW p \in Proc, FreevmDone(p)
  PROVE  TypeOK'
<1> USE SizesAssumption
<1>1. /\ freelist' \subseteq Frames
      /\ refcnt' \in [Frames -> Nat]
      /\ data' \in [Frames -> Values \cup {Junk}]
  <2>1. {odir[p]} \in SUBSET Frames /\ kfree({odir[p]})
    BY DEF FreevmDone, TypeOK
  <2> QED
    BY <2>1, KfreeTyped
<1>2. Return(p)
  BY DEF FreevmDone
<1> QED
  BY Zenon, ReturnTyped, <1>1, <1>2 DEF TypeOK, FreevmDone, ptable

(* exit. *)
LEMMA ExitTyped ==
  ASSUME TypeOK, Control, NEW p \in Proc, Exit(p)
  PROVE  TypeOK'
<1> USE SizesAssumption
<1>1. state' \in [Proc -> {"UNUSED", "EMBRYO", "RUNNABLE", "ZOMBIE"}]
  BY DEF TypeOK, Exit
<1>2. parent' \in [Proc -> Proc \cup {0}]
  BY DEF TypeOK, Exit, initproc, Proc
<1> QED
  BY Zenon, <1>1, <1>2 DEF TypeOK, Exit, kmem, locals

(* wait reaps a child. *)
LEMMA WaitTyped ==
  ASSUME TypeOK, Control, NEW p \in Proc, NEW c \in Proc, Wait(p, c)
  PROVE  TypeOK'
<1> DEFINE S == {kstack[c]} \cup freevm_proc(c)
<1>1. S \in SUBSET Frames
  <2>1. Live(c) /\ ControlOK(c)
    BY DEF Wait, Control, Live
  <2>2. kstack[c] \in Frames /\ pgdir[c] \in Frames
    BY <2>1 DEF ControlOK
  <2>3. \A v \in Pages : Entry(c, v).p => Entry(c, v).addr \in Frames
    BY <2>1, EntryTyped, PteTyped
  <2> QED
    BY <2>2, <2>3 DEF freevm_proc, deallocuvm_proc
<1>2. kfree(S)
  BY Zenon DEF Wait
<1>3. /\ freelist' \subseteq Frames
      /\ refcnt' \in [Frames -> Nat]
      /\ data' \in [Frames -> Values \cup {Junk}]
  <2> HIDE DEF S
  <2> QED
    BY <1>1, <1>2, KfreeTyped
<1>4. table' \in [Frames -> [Pages -> PTE]]
  BY PteTyped, Zenon DEF TypeOK, Wait, EmptyTable
<1>5. kstack' \in [Proc -> Frames \cup {NoFrame}]
  BY Zenon DEF TypeOK, Wait
<1>6. parent' \in [Proc -> Proc \cup {0}]
  BY Zenon DEF TypeOK, Wait
<1>7. state' \in [Proc -> {"UNUSED", "EMBRYO", "RUNNABLE", "ZOMBIE"}]
  BY Zenon DEF TypeOK, Wait
<1> QED
  BY Zenon, <1>3, <1>4, <1>5, <1>6, <1>7 DEF TypeOK, Wait, locals
==============================================================================
