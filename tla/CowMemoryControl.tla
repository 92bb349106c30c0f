-------------------------- MODULE CowMemoryControl --------------------------
(***************************************************************************)
(* Control is kept by every step of CowMemory, and with it the typing      *)
(* invariant.  A step moves one process through its kernel path; the lemma *)
(* ControlStep leaves, for each action, what that process's new locals are *)
(* and that nothing the other processes rely on has changed.               *)
(***************************************************************************)
EXTENDS CowMemoryTyping

(* Nothing that ControlOK(q) reads changes. *)
Untouched(q) ==
  /\ pc'[q] = pc[q] /\ chld'[q] = chld[q] /\ odir'[q] = odir[q] /\ idx'[q] = idx[q]
  /\ lim'[q] = lim[q] /\ img'[q] = img[q] /\ ent'[q] = ent[q]
  /\ state'[q] = state[q] /\ sz'[q] = sz[q] /\ pgdir'[q] = pgdir[q] /\ kstack'[q] = kstack[q]
  /\ chld[q] # 0 => state'[chld[q]] = state[chld[q]] /\ kstack'[chld[q]] = kstack[chld[q]]

(* What ControlOK says of an untouched process goes on holding. *)
LEMMA ControlFrame ==
  ASSUME NEW q \in Proc, ControlOK(q), Untouched(q)
  PROVE  ControlOK(q)'
BY DEF ControlOK, Untouched, Live, Shrinking, DeallocRange

(* A step of p that gives no process a new child keeps Control if it keeps *)
(* ControlOK(p) and leaves the others untouched.                           *)
LEMMA ControlStep ==
  ASSUME Control, NEW p \in Proc, ControlOK(p)', chld'[p] \in {0, chld[p]},
         \A q \in Proc : q # p => Untouched(q)
  PROVE  Control'
<1>1. \A q \in Proc : ControlOK(q)'
  BY ControlFrame DEF Control
<1>2. \A q \in Proc : chld'[q] \in {0, chld[q]}
  BY Zenon DEF Untouched
<1>3. \A q, r \in Proc : chld'[q] = chld'[r] /\ chld'[q] # 0 => q = r
  BY <1>2, Zenon DEF Control
<1> QED
  BY <1>1, <1>3, Zenon DEF Control

(* A step that changes no process at all. *)
LEMMA ControlStill ==
  ASSUME Control, \A q \in Proc : Untouched(q)
  PROVE  Control'
<1>1. \A q \in Proc : ControlOK(q)'
  BY ControlFrame DEF Control
<1>2. \A q \in Proc : chld'[q] = chld[q]
  BY Zenon DEF Untouched
<1>3. \A q, r \in Proc : chld'[q] = chld'[r] /\ chld'[q] # 0 => q = r
  BY <1>2, Zenon DEF Control
<1> QED
  BY <1>1, <1>3, Zenon DEF Control

(* Only a slot that allocproc has just taken is the child of a fork. *)
LEMMA NotAChild ==
  ASSUME Control, NEW c \in Proc, state[c] # "EMBRYO"
  PROVE  c # 0 /\ \A r \in Proc : chld[r] # c
<1>1. c # 0
  BY DEF Proc
<1>2. \A r \in Proc : chld[r] # 0 => state[chld[r]] = "EMBRYO"
  BY Zenon DEF Control, ControlOK
<1> QED
  BY <1>1, <1>2, Zenon

(* A program's store. *)
LEMMA WriteControl ==
  ASSUME TypeOK, Control, NEW p \in Proc, NEW v \in Stored, NEW x \in Values, Write(p, v, x)
  PROVE  Control'
BY ControlStill, Zenon DEF Untouched, Write, ptable, locals

(* The copy-on-write fault. *)
LEMMA FaultCopyControl ==
  ASSUME TypeOK, Control, NEW p \in Proc, NEW v \in Stored, FaultCopy(p, v)
  PROVE  Control'
BY ControlStill, Zenon DEF Untouched, FaultCopy, ptable, locals

(* A fault on a page with one reference. *)
LEMMA FaultReuseControl ==
  ASSUME TypeOK, Control, NEW p \in Proc, NEW v \in Stored, FaultReuse(p, v)
  PROVE  Control'
BY ControlStill, Zenon DEF Untouched, FaultReuse, ptable, locals

(* sbrk with a positive argument. *)
LEMMA SbrkGrowControl ==
  ASSUME TypeOK, Control, NEW p \in Proc, NEW n \in Deltas, SbrkGrow(p, n)
  PROVE  Control'
<1> USE SizesAssumption
<1>1. state[p] = "RUNNABLE" /\ pc[p] = "user" /\ n \in Nat
  BY WorkloadAssumption DEF SbrkGrow, InUser
<1>2. sz[p] \in 0..NPages /\ idx[p] \in 0..NPages /\ lim[p] \in 0..NPages
  BY Zenon DEF TypeOK
<1>3. /\ state[p] = "RUNNABLE" /\ pgdir[p] \in Frames /\ kstack[p] \in Frames /\ sz[p] >= 1
      /\ chld[p] = 0 /\ odir[p] = NoFrame /\ idx[p] = 0
  BY <1>1, Zenon DEF Control, ControlOK, Live, NoOther, Building, ForkPath
<1>4. /\ state'[p] = state[p] /\ sz'[p] = sz[p] /\ pgdir'[p] = pgdir[p]
      /\ kstack'[p] = kstack[p] /\ pc'[p] = "grow" /\ chld'[p] = chld[p]
      /\ odir'[p] = odir[p] /\ idx'[p] = sz[p] /\ lim'[p] = sz[p] + n
      /\ img'[p] = img[p] /\ ent'[p] = ent[p]
  BY Zenon DEF TypeOK, SbrkGrow, ptable
<1>7. ControlOK(p)'
  BY <1>1, <1>2, <1>3, <1>4
  DEF Live, Shrinking, ForkPath, DeallocPath, NoOther, Building, ControlOK
<1>8. \A q \in Proc : q # p => Untouched(q)
  BY ZenonT(30) DEF Untouched, TypeOK, SbrkGrow, ptable
<1> QED
  BY <1>4, <1>7, <1>8, ControlStep, Zenon

(* A round of allocuvm. *)
LEMMA GrowPageControl ==
  ASSUME TypeOK, Control, NEW p \in Proc, GrowPage(p)
  PROVE  Control'
<1> USE SizesAssumption
<1>1. pc[p] = "grow" /\ idx[p] < lim[p]
  BY Zenon DEF GrowPage
<1>2. sz[p] \in 0..NPages /\ idx[p] \in 0..NPages /\ lim[p] \in 0..NPages
  BY Zenon DEF TypeOK
<1>3. /\ state[p] = "RUNNABLE" /\ pgdir[p] \in Frames /\ kstack[p] \in Frames /\ sz[p] >= 1
      /\ chld[p] = 0 /\ odir[p] = NoFrame /\ sz[p] <= idx[p] /\ idx[p] <= lim[p]
  BY <1>1, Zenon DEF Control, ControlOK, Live, NoOther, Building, ForkPath
<1>4. /\ state'[p] = state[p] /\ sz'[p] = sz[p] /\ pgdir'[p] = pgdir[p]
      /\ kstack'[p] = kstack[p] /\ pc'[p] = pc[p] /\ chld'[p] = chld[p]
      /\ odir'[p] = odir[p] /\ idx'[p] = idx[p] + 1 /\ lim'[p] = lim[p]
      /\ img'[p] = img[p] /\ ent'[p] = ent[p]
  BY Zenon DEF TypeOK, GrowPage, ptable
<1>7. ControlOK(p)'
  BY <1>1, <1>2, <1>3, <1>4
  DEF Live, Shrinking, ForkPath, DeallocPath, NoOther, Building, ControlOK
<1>8. \A q \in Proc : q # p => Untouched(q)
  BY ZenonT(30) DEF Untouched, TypeOK, GrowPage, ptable
<1> QED
  BY <1>4, <1>7, <1>8, ControlStep, Zenon

(* The end of a growing sbrk. *)
LEMMA GrowDoneControl ==
  ASSUME TypeOK, Control, NEW p \in Proc, GrowDone(p)
  PROVE  Control'
<1> USE SizesAssumption
<1>1. pc[p] = "grow" /\ idx[p] = lim[p]
  BY Zenon DEF GrowDone
<1>2. sz[p] \in 0..NPages /\ idx[p] \in 0..NPages /\ lim[p] \in 0..NPages
  BY Zenon DEF TypeOK
<1>3. /\ state[p] = "RUNNABLE" /\ pgdir[p] \in Frames /\ kstack[p] \in Frames /\ sz[p] >= 1
      /\ chld[p] = 0 /\ odir[p] = NoFrame /\ sz[p] <= idx[p] /\ idx[p] <= lim[p]
  BY <1>1, Zenon DEF Control, ControlOK, Live, NoOther, Building, ForkPath
<1>4. /\ state'[p] = state[p] /\ sz'[p] = lim[p] /\ pgdir'[p] = pgdir[p]
      /\ kstack'[p] = kstack[p] /\ pc'[p] = "user" /\ chld'[p] = 0
      /\ odir'[p] = NoFrame /\ idx'[p] = 0 /\ lim'[p] = 0 /\ img'[p] = NoImage
      /\ ent'[p] = NoPte
  BY Zenon DEF TypeOK, GrowDone, Return
<1>7. ControlOK(p)'
  BY <1>1, <1>2, <1>3, <1>4
  DEF Live, Shrinking, ForkPath, DeallocPath, NoOther, Building, ControlOK
<1>8. \A q \in Proc : q # p => Untouched(q)
  BY ZenonT(30) DEF Untouched, TypeOK, GrowDone, Return
<1> QED
  BY <1>4, <1>7, <1>8, ControlStep, Zenon

(* sbrk with a negative argument. *)
LEMMA SbrkShrinkControl ==
  ASSUME TypeOK, Control, NEW p \in Proc, NEW n \in Deltas, SbrkShrink(p, n)
  PROVE  Control'
<1> USE SizesAssumption
<1>1. state[p] = "RUNNABLE" /\ pc[p] = "user" /\ n < sz[p] /\ n \in Nat
  BY WorkloadAssumption DEF SbrkShrink, InUser
<1>2. sz[p] \in 0..NPages /\ idx[p] \in 0..NPages /\ lim[p] \in 0..NPages
  BY Zenon DEF TypeOK
<1>3. /\ state[p] = "RUNNABLE" /\ pgdir[p] \in Frames /\ kstack[p] \in Frames /\ sz[p] >= 1
      /\ chld[p] = 0 /\ odir[p] = NoFrame /\ idx[p] = 0
  BY <1>1, Zenon DEF Control, ControlOK, Live, NoOther, Building, ForkPath
<1>4. /\ state'[p] = state[p] /\ sz'[p] = sz[p] /\ pgdir'[p] = pgdir[p]
      /\ kstack'[p] = kstack[p] /\ pc'[p] = "dealloc" /\ chld'[p] = chld[p]
      /\ odir'[p] = odir[p] /\ idx'[p] = idx[p] /\ lim'[p] = sz[p] - n
      /\ img'[p] = img[p] /\ ent'[p] = ent[p]
  BY Zenon DEF TypeOK, SbrkShrink, ptable
<1>7. ControlOK(p)'
  BY <1>1, <1>2, <1>3, <1>4
  DEF Live, Shrinking, ForkPath, DeallocPath, NoOther, Building, ControlOK
<1>8. \A q \in Proc : q # p => Untouched(q)
  BY ZenonT(30) DEF Untouched, TypeOK, SbrkShrink, ptable
<1> QED
  BY <1>4, <1>7, <1>8, ControlStep, Zenon

(* deallocuvm meets a present page. *)
LEMMA DeallocPageControl ==
  ASSUME TypeOK, Control, NEW p \in Proc, DeallocPage(p)
  PROVE  Control'
<1> USE SizesAssumption
<1>1. pc[p] = "dealloc" /\ ControlOK(p)
  BY DEF DeallocPage, Control
<1>2. PICK v \in ToFree(p) :
        /\ idx' = [idx EXCEPT ![p] = v]
        /\ \/ /\ AtomicRefcnt
              /\ pc' = [pc EXCEPT ![p] = "dealloc_clear"]
              /\ ent' = ent
           \/ /\ ~AtomicRefcnt
              /\ ent' = [ent EXCEPT ![p] = table[DeallocDir(p)][v]]
              /\ pc' = [pc EXCEPT ![p] = "dealloc_free"]
  BY Zenon DEF DeallocPage
<1>3. UNCHANGED <<ptable, chld, odir, lim, img>>
  BY DEF DeallocPage
<1>4. /\ sz'[p] = sz[p] /\ lim'[p] = lim[p] /\ odir'[p] = odir[p] /\ chld'[p] = chld[p]
      /\ state'[p] = state[p] /\ pgdir'[p] = pgdir[p] /\ kstack'[p] = kstack[p]
      /\ chld[p] # 0 => /\ state'[chld[p]] = state[chld[p]]
                        /\ kstack'[chld[p]] = kstack[chld[p]]
  BY <1>3, Zenon DEF ptable
<1>5. idx'[p] \in DeallocRange(p) /\ pc'[p] \in {"dealloc_clear", "dealloc_free"}
  BY <1>2 DEF TypeOK, ToFree
<1>6. pc'[p] = "dealloc_free" => ~AtomicRefcnt /\ ent'[p].p
  BY <1>2 DEF TypeOK, ToFree
<1>7. ControlOK(p)'
  BY <1>1, <1>4, <1>5, <1>6
  DEF ControlOK, Live, Shrinking, DeallocRange, ForkPath, DeallocPath, NoOther, Building
<1>8. \A q \in Proc : q # p => Untouched(q)
  BY <1>2, <1>3, ZenonT(30) DEF Untouched, TypeOK, ptable
<1> QED
  BY <1>4, <1>7, <1>8, ControlStep, Zenon

(* The end of a shrinking sbrk. *)
LEMMA ShrinkDoneControl ==
  ASSUME TypeOK, Control, NEW p \in Proc, ShrinkDone(p)
  PROVE  Control'
<1> USE SizesAssumption
<1>1. pc[p] = "dealloc" /\ odir[p] = NoFrame
  BY Zenon DEF ShrinkDone
<1>2. sz[p] \in 0..NPages /\ idx[p] \in 0..NPages /\ lim[p] \in 0..NPages
  BY Zenon DEF TypeOK
<1>3. /\ state[p] = "RUNNABLE" /\ pgdir[p] \in Frames /\ kstack[p] \in Frames /\ sz[p] >= 1
      /\ chld[p] = 0 /\ idx[p] = 0
      /\ odir[p] = NoFrame => 1 <= lim[p] /\ lim[p] <= sz[p]
  BY <1>1, Zenon DEF Control, ControlOK, Live, NoOther, Building, ForkPath, Shrinking, DeallocPath
<1>4. /\ state'[p] = state[p] /\ sz'[p] = lim[p] /\ pgdir'[p] = pgdir[p]
      /\ kstack'[p] = kstack[p] /\ pc'[p] = "user" /\ chld'[p] = 0
      /\ odir'[p] = NoFrame /\ idx'[p] = 0 /\ lim'[p] = 0 /\ img'[p] = NoImage
      /\ ent'[p] = NoPte
  BY Zenon DEF TypeOK, ShrinkDone, Return
<1>7. ControlOK(p)'
  BY <1>1, <1>2, <1>3, <1>4
  DEF Live, Shrinking, ForkPath, DeallocPath, NoOther, Building, ControlOK
<1>8. \A q \in Proc : q # p => Untouched(q)
  BY ZenonT(30) DEF Untouched, TypeOK, ShrinkDone, Return
<1> QED
  BY <1>4, <1>7, <1>8, ControlStep, Zenon

(* The rest of kfree after the count was read. *)
LEMMA DeallocKfreeControl ==
  ASSUME TypeOK, Control, NEW p \in Proc, DeallocKfree(p)
  PROVE  Control'
<1> USE SizesAssumption
<1>1. pc[p] = "dealloc_free"
  BY Zenon DEF DeallocKfree
<1>2. sz[p] \in 0..NPages /\ idx[p] \in 0..NPages /\ lim[p] \in 0..NPages
  BY Zenon DEF TypeOK
<1>3. /\ state[p] = "RUNNABLE" /\ pgdir[p] \in Frames /\ kstack[p] \in Frames /\ sz[p] >= 1
      /\ chld[p] = 0 /\ idx[p] \in DeallocRange(p) /\ ~AtomicRefcnt
      /\ odir[p] = NoFrame => 1 <= lim[p] /\ lim[p] <= sz[p]
  BY <1>1, Zenon DEF Control, ControlOK, Live, NoOther, Building, ForkPath, Shrinking, DeallocPath
<1>4. /\ state'[p] = state[p] /\ sz'[p] = sz[p] /\ pgdir'[p] = pgdir[p]
      /\ kstack'[p] = kstack[p] /\ pc'[p] = "dealloc_clear" /\ chld'[p] = chld[p]
      /\ odir'[p] = odir[p] /\ idx'[p] = idx[p] /\ lim'[p] = lim[p]
      /\ img'[p] = img[p] /\ ent'[p] = NoPte
  BY Zenon DEF TypeOK, DeallocKfree, ptable
<1>7. ControlOK(p)'
  BY <1>1, <1>2, <1>3, <1>4
  DEF Live, Shrinking, DeallocRange, ForkPath, DeallocPath, NoOther, Building, ControlOK
<1>8. \A q \in Proc : q # p => Untouched(q)
  BY ZenonT(30) DEF Untouched, TypeOK, DeallocKfree, ptable
<1> QED
  BY <1>4, <1>7, <1>8, ControlStep, Zenon

(* deallocuvm clears the entry. *)
LEMMA DeallocClearControl ==
  ASSUME TypeOK, Control, NEW p \in Proc, DeallocClear(p)
  PROVE  Control'
<1> USE SizesAssumption
<1>1. pc[p] = "dealloc_clear"
  BY Zenon DEF DeallocClear
<1>2. sz[p] \in 0..NPages /\ idx[p] \in 0..NPages /\ lim[p] \in 0..NPages
  BY Zenon DEF TypeOK
<1>3. /\ state[p] = "RUNNABLE" /\ pgdir[p] \in Frames /\ kstack[p] \in Frames /\ sz[p] >= 1
      /\ chld[p] = 0
      /\ odir[p] = NoFrame => 1 <= lim[p] /\ lim[p] <= sz[p]
  BY <1>1, Zenon DEF Control, ControlOK, Live, NoOther, Building, ForkPath, Shrinking, DeallocPath
<1>4. /\ state'[p] = state[p] /\ sz'[p] = sz[p] /\ pgdir'[p] = pgdir[p]
      /\ kstack'[p] = kstack[p] /\ pc'[p] = "dealloc" /\ chld'[p] = chld[p]
      /\ odir'[p] = odir[p] /\ idx'[p] = 0 /\ lim'[p] = lim[p] /\ img'[p] = img[p]
      /\ ent'[p] = ent[p]
  BY Zenon DEF TypeOK, DeallocClear, ptable
<1>7. ControlOK(p)'
  BY <1>1, <1>2, <1>3, <1>4
  DEF Live, Shrinking, DeallocRange, ForkPath, DeallocPath, NoOther, Building, ControlOK
<1>8. \A q \in Proc : q # p => Untouched(q)
  BY ZenonT(30) DEF Untouched, TypeOK, DeallocClear, ptable
<1> QED
  BY <1>4, <1>7, <1>8, ControlStep, Zenon

(* allocproc takes a slot. *)
LEMMA ForkAllocControl ==
  ASSUME TypeOK, Control, NEW p \in Proc, NEW c \in Proc, ForkAlloc(p, c)
  PROVE  Control'
<1> USE SizesAssumption
<1>1. /\ state[p] = "RUNNABLE" /\ pc[p] = "user" /\ ControlOK(p)
      /\ state[c] = "UNUSED" /\ ControlOK(c) /\ c # p
  BY Zenon DEF ForkAlloc, InUser, allocproc, Control
<1>2. c # 0 /\ \A r \in Proc : chld[r] # c
  BY <1>1, NotAChild
<1>3. /\ UNCHANGED <<sz, pgdir, kstack, odir, idx, lim, img, ent>>
      /\ state' = [state EXCEPT ![c] = "EMBRYO"]
      /\ chld' = [chld EXCEPT ![p] = c]
      /\ pc' = [pc EXCEPT ![p] = "fork_kstack"]
  BY DEF ForkAlloc
<1>4. ControlOK(p)'
  <2>1. /\ pc'[p] = "fork_kstack" /\ chld'[p] = c /\ state'[p] = state[p]
        /\ state'[c] = "EMBRYO" /\ kstack'[c] = kstack[c]
    BY <1>1, <1>3 DEF TypeOK
  <2> QED
    BY <1>1, <1>2, <1>3, <2>1
    DEF ControlOK, Live, Shrinking, DeallocRange, ForkPath, DeallocPath, NoOther, Building
<1>5. ControlOK(c)'
  <2>1. pc'[c] = pc[c] /\ pc[c] = "user" /\ chld'[c] = chld[c] /\ state'[c] = "EMBRYO"
    BY <1>1, <1>3 DEF TypeOK, ControlOK
  <2> QED
    BY <1>1, <1>3, <2>1
    DEF ControlOK, Live, Shrinking, DeallocRange, ForkPath, DeallocPath, NoOther, Building
<1>6. \A q \in Proc : q # p /\ q # c => Untouched(q)
  BY <1>2, <1>3, ZenonT(30) DEF Untouched, TypeOK
<1>7. \A q \in Proc : ControlOK(q)'
  BY <1>4, <1>5, <1>6, ControlFrame, Zenon DEF Control
<1>8. \A q, r \in Proc : chld'[q] = chld'[r] /\ chld'[q] # 0 => q = r
  BY <1>2, <1>3, Zenon DEF Control, TypeOK
<1> QED
  BY <1>7, <1>8, Zenon DEF Control

(* allocproc takes a kernel stack. *)
LEMMA ForkKstackControl ==
  ASSUME TypeOK, Control, NEW p \in Proc, ForkKstack(p)
  PROVE  Control'
<1> USE SizesAssumption
<1>1. PICK c \in Proc :
        /\ pc[p] = "fork_kstack" /\ ControlOK(p) /\ c # 0 /\ c = chld[p]
        /\ state[c] = "EMBRYO" /\ ControlOK(c) /\ state[p] = "RUNNABLE" /\ c # p
  BY DEF ForkKstack, TypeOK, Control, ControlOK, ForkPath
<1>2. \A r \in Proc : r # p => chld[r] # c
  BY <1>1, Zenon DEF Control
<1>3. PICK f \in Frames : kstack' = [kstack EXCEPT ![c] = f]
  BY <1>1, Zenon DEF ForkKstack
<1>4. /\ UNCHANGED <<state, sz, pgdir, chld, odir, idx, lim, img, ent>>
      /\ pc' = [pc EXCEPT ![p] = "fork_dir"]
  BY DEF ForkKstack
<1>5. f # NoFrame
  BY FramesAssumption
<1>6. /\ pc'[p] = "fork_dir" /\ pc'[c] = pc[c] /\ pc[c] = "user"
      /\ kstack'[p] = kstack[p] /\ kstack'[c] = f
  BY <1>1, <1>3, <1>4 DEF TypeOK, ControlOK
<1>7. ControlOK(p)'
  BY <1>1, <1>4, <1>5, <1>6
  DEF ControlOK, Live, Shrinking, DeallocRange, ForkPath, DeallocPath, NoOther, Building
<1>8. ControlOK(c)'
  <2>1. chld[c] = 0
    BY <1>1, <1>6, Zenon DEF ControlOK, ForkPath
  <2> QED
    BY <1>1, <1>4, <1>6, <2>1
    DEF ControlOK, Live, Shrinking, DeallocRange, ForkPath, DeallocPath, NoOther, Building
<1>9. \A q \in Proc : q # p /\ q # c => Untouched(q)
  BY <1>2, <1>3, <1>4, ZenonT(30) DEF Untouched, TypeOK
<1>10. \A q \in Proc : ControlOK(q)'
  BY <1>7, <1>8, <1>9, ControlFrame, Zenon DEF Control
<1> QED
  BY <1>4, <1>10, Zenon DEF Control

(* copyuvm_cow takes a directory. *)
LEMMA ForkSetupkvmControl ==
  ASSUME TypeOK, Control, NEW p \in Proc, ForkSetupkvm(p)
  PROVE  Control'
<1> USE SizesAssumption
<1>1. PICK d \in Frames : odir' = [odir EXCEPT ![p] = d]
  BY Zenon DEF ForkSetupkvm
<1>2. /\ pc[p] = "fork_dir" /\ pc' = [pc EXCEPT ![p] = "fork_copy"]
      /\ UNCHANGED <<ptable, chld, idx, lim, img, ent>>
  BY DEF ForkSetupkvm
<1>3. ControlOK(p)
  BY Zenon DEF Control
<1>4. /\ state[p] = "RUNNABLE" /\ pgdir[p] \in Frames /\ kstack[p] \in Frames
      /\ sz[p] >= 1 /\ idx[p] = 0
  BY <1>2, <1>3, Zenon DEF ControlOK, Live
<1>5. chld[p] # 0 /\ state[chld[p]] = "EMBRYO" /\ kstack[chld[p]] # NoFrame
  BY <1>2, <1>3, Zenon DEF ControlOK, ForkPath
<1>6. pc'[p] = "fork_copy" /\ odir'[p] = d /\ d # NoFrame
  BY <1>1, <1>2, FramesAssumption DEF TypeOK
<1>9. 0 <= sz[p]
  BY DEF TypeOK
<1>7. ControlOK(p)'
  BY <1>2, <1>4, <1>5, <1>6, <1>9
  DEF ControlOK, Live, Shrinking, ForkPath, DeallocPath, NoOther, Building, ptable
<1>8. \A q \in Proc : q # p => Untouched(q)
  BY <1>1, <1>2, ZenonT(30) DEF Untouched, TypeOK, ptable
<1> QED
  BY <1>2, <1>7, <1>8, ControlStep, Zenon

(* copyuvm_cow takes the parent's write permission. *)
LEMMA ForkProtectControl ==
  ASSUME TypeOK, Control, NEW p \in Proc, ForkProtect(p)
  PROVE  Control'
<1> USE SizesAssumption
<1>1. pc[p] = "fork_copy" /\ idx[p] < sz[p]
  BY Zenon DEF ForkProtect
<1>2. sz[p] \in 0..NPages /\ idx[p] \in 0..NPages /\ lim[p] \in 0..NPages
  BY Zenon DEF TypeOK
<1>3. /\ state[p] = "RUNNABLE" /\ pgdir[p] \in Frames /\ kstack[p] \in Frames /\ sz[p] >= 1
      /\ chld[p] # 0 /\ state[chld[p]] = "EMBRYO" /\ kstack[chld[p]] # NoFrame
      /\ odir[p] \in Frames
      /\ idx[p] <= sz[p]
  BY <1>1, Zenon DEF Control, ControlOK, Live, NoOther, Building, ForkPath
<1>4. /\ state'[p] = state[p] /\ sz'[p] = sz[p] /\ pgdir'[p] = pgdir[p]
      /\ kstack'[p] = kstack[p] /\ pc'[p] = "fork_map" /\ chld'[p] = chld[p]
      /\ odir'[p] = odir[p] /\ idx'[p] = idx[p] /\ lim'[p] = lim[p]
      /\ img'[p] = img[p]
  BY Zenon DEF TypeOK, ForkProtect, ptable
<1>5. ent'[p].p
  BY Zenon DEF ForkProtect, TypeOK
<1>6. state'[chld[p]] = "EMBRYO" /\ kstack'[chld[p]] # NoFrame
  BY <1>3, Zenon DEF ForkProtect, ptable
<1>7. ControlOK(p)'
  BY <1>1, <1>2, <1>3, <1>4, <1>5, <1>6
  DEF Live, Shrinking, ForkPath, DeallocPath, NoOther, Building, ControlOK
<1>8. \A q \in Proc : q # p => Untouched(q)
  BY ZenonT(30) DEF Untouched, TypeOK, ForkProtect, ptable
<1> QED
  BY <1>4, <1>7, <1>8, ControlStep, Zenon

(* copyuvm_cow maps the page into the child. *)
LEMMA ForkMapControl ==
  ASSUME TypeOK, Control, NEW p \in Proc, ForkMap(p)
  PROVE  Control'
<1> USE SizesAssumption
<1>1. pc[p] = "fork_map"
  BY Zenon DEF ForkMap
<1>2. sz[p] \in 0..NPages /\ idx[p] \in 0..NPages /\ lim[p] \in 0..NPages
  BY Zenon DEF TypeOK
<1>3. /\ state[p] = "RUNNABLE" /\ pgdir[p] \in Frames /\ kstack[p] \in Frames /\ sz[p] >= 1
      /\ chld[p] # 0 /\ state[chld[p]] = "EMBRYO" /\ kstack[chld[p]] # NoFrame
      /\ odir[p] \in Frames
      /\ idx[p] < sz[p] /\ ent[p].p
  BY <1>1, Zenon DEF Control, ControlOK, Live, NoOther, Building, ForkPath
<1>4. /\ state'[p] = state[p] /\ sz'[p] = sz[p] /\ pgdir'[p] = pgdir[p]
      /\ kstack'[p] = kstack[p] /\ pc'[p] = "fork_inc" /\ chld'[p] = chld[p]
      /\ odir'[p] = odir[p] /\ idx'[p] = idx[p] /\ lim'[p] = lim[p]
      /\ img'[p] = img[p] /\ ent'[p] = ent[p]
  BY Zenon DEF TypeOK, ForkMap, ptable
<1>6. state'[chld[p]] = "EMBRYO" /\ kstack'[chld[p]] # NoFrame
  BY <1>3, Zenon DEF ForkMap, ptable
<1>7. ControlOK(p)'
  BY <1>1, <1>2, <1>3, <1>4, <1>6
  DEF Live, Shrinking, ForkPath, DeallocPath, NoOther, Building, ControlOK
<1>8. \A q \in Proc : q # p => Untouched(q)
  BY ZenonT(30) DEF Untouched, TypeOK, ForkMap, ptable
<1> QED
  BY <1>4, <1>7, <1>8, ControlStep, Zenon

(* copyuvm_cow counts the new reference. *)
LEMMA ForkIncControl ==
  ASSUME TypeOK, Control, NEW p \in Proc, ForkInc(p)
  PROVE  Control'
<1> USE SizesAssumption
<1>1. pc[p] = "fork_inc"
  BY Zenon DEF ForkInc
<1>2. sz[p] \in 0..NPages /\ idx[p] \in 0..NPages /\ lim[p] \in 0..NPages
  BY Zenon DEF TypeOK
<1>3. /\ state[p] = "RUNNABLE" /\ pgdir[p] \in Frames /\ kstack[p] \in Frames /\ sz[p] >= 1
      /\ chld[p] # 0 /\ state[chld[p]] = "EMBRYO" /\ kstack[chld[p]] # NoFrame
      /\ odir[p] \in Frames
      /\ idx[p] < sz[p]
  BY <1>1, Zenon DEF Control, ControlOK, Live, NoOther, Building, ForkPath
<1>4. /\ state'[p] = state[p] /\ sz'[p] = sz[p] /\ pgdir'[p] = pgdir[p]
      /\ kstack'[p] = kstack[p] /\ pc'[p] = "fork_copy" /\ chld'[p] = chld[p]
      /\ odir'[p] = odir[p] /\ idx'[p] = idx[p] + 1 /\ lim'[p] = lim[p]
      /\ img'[p] = img[p] /\ ent'[p] = NoPte
  BY Zenon DEF TypeOK, ForkInc, ptable
<1>6. state'[chld[p]] = "EMBRYO" /\ kstack'[chld[p]] # NoFrame
  BY <1>3, Zenon DEF ForkInc, ptable
<1>7. ControlOK(p)'
  BY <1>1, <1>2, <1>3, <1>4, <1>6
  DEF Live, Shrinking, ForkPath, DeallocPath, NoOther, Building, ControlOK
<1>8. \A q \in Proc : q # p => Untouched(q)
  BY ZenonT(30) DEF Untouched, TypeOK, ForkInc, ptable
<1> QED
  BY <1>4, <1>7, <1>8, ControlStep, Zenon

(* fork makes the child runnable. *)
LEMMA ForkDoneControl ==
  ASSUME TypeOK, Control, NEW p \in Proc, ForkDone(p)
  PROVE  Control'
<1> USE SizesAssumption
<1>1. PICK c \in Proc :
        /\ pc[p] = "fork_copy" /\ ControlOK(p) /\ c # 0 /\ c = chld[p]
        /\ state[c] = "EMBRYO" /\ ControlOK(c) /\ state[p] = "RUNNABLE" /\ c # p
  BY DEF ForkDone, TypeOK, Control, ControlOK, ForkPath
<1>2. \A r \in Proc : r # p => chld[r] # c
  BY <1>1, Zenon DEF Control
<1>3. /\ pgdir' = [pgdir EXCEPT ![c] = odir[p]]
      /\ sz' = [sz EXCEPT ![c] = sz[p]]
      /\ state' = [state EXCEPT ![c] = "RUNNABLE"]
      /\ Return(p) /\ kstack' = kstack
  BY <1>1, Zenon DEF ForkDone
<1>4. ControlOK(p)'
  <2>1. /\ pc'[p] = "user" /\ chld'[p] = 0 /\ odir'[p] = NoFrame /\ idx'[p] = 0
        /\ state'[p] = state[p] /\ pgdir'[p] = pgdir[p] /\ sz'[p] = sz[p]
    BY <1>1, <1>3 DEF TypeOK, Return
  <2> QED
    BY <1>1, <1>3, <2>1
    DEF ControlOK, Live, Shrinking, DeallocRange, ForkPath, DeallocPath, NoOther, Building
<1>5. ControlOK(c)'
  <2>1. pc[c] = "user" /\ chld[c] = 0 /\ odir[c] = NoFrame /\ idx[c] = 0
    BY <1>1 DEF ControlOK, ForkPath, NoOther
  <2>2. /\ pc'[c] = "user" /\ chld'[c] = 0 /\ odir'[c] = NoFrame /\ idx'[c] = 0
        /\ state'[c] = "RUNNABLE" /\ pgdir'[c] = odir[p] /\ sz'[c] = sz[p]
    BY <1>1, <1>3, <2>1 DEF TypeOK, Return
  <2>3. odir[p] \in Frames /\ sz[p] >= 1 /\ kstack[c] # NoFrame
    BY <1>1 DEF ControlOK, Building, Live
  <2>4. kstack[c] \in Frames
    BY <1>1, <2>3 DEF TypeOK
  <2> QED
    BY <1>3, <2>2, <2>3, <2>4
    DEF ControlOK, Live, Shrinking, ForkPath, DeallocPath, NoOther, Building
<1>6. \A q \in Proc : q # p /\ q # c => Untouched(q)
  BY <1>2, <1>3, ZenonT(30) DEF Untouched, TypeOK, Return
<1>7. \A q \in Proc : ControlOK(q)'
  BY <1>4, <1>5, <1>6, ControlFrame, Zenon DEF Control
<1>8. \A q, r \in Proc : chld'[q] = chld'[r] /\ chld'[q] # 0 => q = r
  BY <1>3, Zenon DEF Control, TypeOK, Return
<1> QED
  BY <1>7, <1>8, Zenon DEF Control

(* exec begins. *)
LEMMA ExecStartControl ==
  ASSUME TypeOK, Control, NEW p \in Proc, NEW im \in Images, ExecStart(p, im)
  PROVE  Control'
<1> USE SizesAssumption
<1>1. state[p] = "RUNNABLE" /\ pc[p] = "user"
  BY Zenon DEF ExecStart, InUser
<1>2. sz[p] \in 0..NPages /\ idx[p] \in 0..NPages /\ lim[p] \in 0..NPages
  BY Zenon DEF TypeOK
<1>3. /\ state[p] = "RUNNABLE" /\ pgdir[p] \in Frames /\ kstack[p] \in Frames /\ sz[p] >= 1
      /\ chld[p] = 0 /\ odir[p] = NoFrame /\ idx[p] = 0
  BY <1>1, Zenon DEF Control, ControlOK, Live, NoOther, Building, ForkPath
<1>4. /\ state'[p] = state[p] /\ sz'[p] = sz[p] /\ pgdir'[p] = pgdir[p]
      /\ kstack'[p] = kstack[p] /\ pc'[p] = "exec_dir" /\ chld'[p] = chld[p]
      /\ odir'[p] = odir[p] /\ idx'[p] = idx[p] /\ lim'[p] = lim[p] /\ img'[p] = im
      /\ ent'[p] = ent[p]
  BY Zenon DEF TypeOK, ExecStart, ptable
<1>7. ControlOK(p)'
  BY <1>1, <1>2, <1>3, <1>4
  DEF Live, Shrinking, ForkPath, DeallocPath, NoOther, Building, ControlOK
<1>8. \A q \in Proc : q # p => Untouched(q)
  BY ZenonT(30) DEF Untouched, TypeOK, ExecStart, ptable
<1> QED
  BY <1>4, <1>7, <1>8, ControlStep, Zenon

(* exec takes a directory. *)
LEMMA ExecSetupkvmControl ==
  ASSUME TypeOK, Control, NEW p \in Proc, ExecSetupkvm(p)
  PROVE  Control'
<1> USE SizesAssumption
<1>1. PICK d \in Frames : odir' = [odir EXCEPT ![p] = d]
  BY Zenon DEF ExecSetupkvm
<1>2. /\ pc[p] = "exec_dir" /\ pc' = [pc EXCEPT ![p] = "exec"]
      /\ UNCHANGED <<ptable, chld, idx, lim, img, ent>>
  BY DEF ExecSetupkvm
<1>3. ControlOK(p)
  BY Zenon DEF Control
<1>4. /\ state[p] = "RUNNABLE" /\ pgdir[p] \in Frames /\ kstack[p] \in Frames
      /\ sz[p] >= 1 /\ idx[p] = 0
  BY <1>2, <1>3, Zenon DEF ControlOK, Live
<1>5. chld[p] = 0 /\ img[p] \in Images
  BY <1>2, <1>3, Zenon DEF ControlOK, ForkPath
<1>6. pc'[p] = "exec" /\ odir'[p] = d /\ d # NoFrame
  BY <1>1, <1>2, FramesAssumption DEF TypeOK
<1>9. 0 <= img[p].size + 2
  BY <1>5, ImagesAssumption
<1>7. ControlOK(p)'
  BY <1>2, <1>4, <1>5, <1>6, <1>9
  DEF ControlOK, Live, Shrinking, ForkPath, DeallocPath, NoOther, Building, ptable
<1>8. \A q \in Proc : q # p => Untouched(q)
  BY <1>1, <1>2, ZenonT(30) DEF Untouched, TypeOK, ptable
<1> QED
  BY <1>2, <1>7, <1>8, ControlStep, Zenon

(* exec fills a page of the new image. *)
LEMMA ExecPageControl ==
  ASSUME TypeOK, Control, NEW p \in Proc, ExecPage(p)
  PROVE  Control'
<1> USE SizesAssumption
<1>1. /\ pc[p] = "exec" /\ idx[p] < img[p].size + 2
      /\ idx' = [idx EXCEPT ![p] = idx[p] + 1]
      /\ UNCHANGED <<ptable, pc, chld, odir, lim, img, ent>>
  BY Zenon DEF ExecPage
<1>2. ControlOK(p) /\ idx[p] \in 0..NPages
  BY Zenon DEF Control, TypeOK
<1>3. /\ state[p] = "RUNNABLE" /\ pgdir[p] \in Frames /\ kstack[p] \in Frames
      /\ sz[p] >= 1 /\ chld[p] = 0 /\ odir[p] \in Frames /\ img[p] \in Images
  BY <1>1, <1>2, Zenon DEF ControlOK, Live, Building, ForkPath
<1>4. img[p].size \in Nat /\ odir[p] # NoFrame
  BY <1>3, ImagesAssumption, FramesAssumption
<1>5. idx'[p] = idx[p] + 1
  BY <1>1, Zenon DEF TypeOK
<1>6. idx'[p] <= img[p].size + 2
  BY <1>1, <1>2, <1>4, <1>5
<1>7. ControlOK(p)'
  BY <1>1, <1>3, <1>4, <1>6, Zenon
  DEF ControlOK, Live, Shrinking, ForkPath, DeallocPath, NoOther, Building, ptable
<1>8. \A q \in Proc : q # p => Untouched(q)
  BY <1>1, ZenonT(30) DEF Untouched, TypeOK, ptable
<1> QED
  BY <1>1, <1>7, <1>8, ControlStep, Zenon

(* exec gives up. *)
LEMMA ExecBadControl ==
  ASSUME TypeOK, Control, NEW p \in Proc, ExecBad(p)
  PROVE  Control'
<1> USE SizesAssumption
<1>1. pc[p] = "exec"
  BY Zenon DEF ExecBad
<1>2. sz[p] \in 0..NPages /\ idx[p] \in 0..NPages /\ lim[p] \in 0..NPages
  BY Zenon DEF TypeOK
<1>3. /\ state[p] = "RUNNABLE" /\ pgdir[p] \in Frames /\ kstack[p] \in Frames /\ sz[p] >= 1
      /\ chld[p] = 0 /\ odir[p] \in Frames /\ img[p] \in Images
  BY <1>1, Zenon DEF Control, ControlOK, Live, NoOther, Building, ForkPath
<1>4. /\ state'[p] = state[p] /\ sz'[p] = sz[p] /\ pgdir'[p] = pgdir[p]
      /\ kstack'[p] = kstack[p] /\ pc'[p] = "dealloc" /\ chld'[p] = chld[p]
      /\ odir'[p] = odir[p] /\ idx'[p] = 0 /\ lim'[p] = lim[p] /\ img'[p] = NoImage
      /\ ent'[p] = ent[p]
  BY Zenon DEF TypeOK, ExecBad, ptable
<1>5. img[p].size \in Nat /\ odir[p] # NoFrame
  BY <1>3, ImagesAssumption, FramesAssumption
<1>7. ControlOK(p)'
  BY <1>1, <1>2, <1>3, <1>4, <1>5
  DEF Live, Shrinking, ForkPath, DeallocPath, NoOther, Building, ControlOK
<1>8. \A q \in Proc : q # p => Untouched(q)
  BY ZenonT(30) DEF Untouched, TypeOK, ExecBad, ptable
<1> QED
  BY <1>4, <1>7, <1>8, ControlStep, Zenon

(* exec switches to the new directory. *)
LEMMA ExecCommitControl ==
  ASSUME TypeOK, Control, NEW p \in Proc, ExecCommit(p)
  PROVE  Control'
<1> USE SizesAssumption
<1>1. pc[p] = "exec" /\ idx[p] = img[p].size + 2
  BY Zenon DEF ExecCommit
<1>2. sz[p] \in 0..NPages /\ idx[p] \in 0..NPages /\ lim[p] \in 0..NPages
  BY Zenon DEF TypeOK
<1>3. /\ state[p] = "RUNNABLE" /\ pgdir[p] \in Frames /\ kstack[p] \in Frames /\ sz[p] >= 1
      /\ chld[p] = 0 /\ odir[p] \in Frames /\ img[p] \in Images
  BY <1>1, Zenon DEF Control, ControlOK, Live, NoOther, Building, ForkPath
<1>4. /\ state'[p] = state[p] /\ sz'[p] = idx[p] /\ pgdir'[p] = odir[p]
      /\ kstack'[p] = kstack[p] /\ pc'[p] = "dealloc" /\ chld'[p] = chld[p]
      /\ odir'[p] = pgdir[p] /\ idx'[p] = 0 /\ lim'[p] = lim[p] /\ img'[p] = NoImage
      /\ ent'[p] = ent[p]
  BY Zenon DEF TypeOK, ExecCommit
<1>5. img[p].size \in Nat /\ odir[p] # NoFrame
  BY <1>3, ImagesAssumption, FramesAssumption
<1>6. idx[p] >= 1 /\ pgdir[p] # NoFrame
  BY <1>1, <1>3, <1>5, FramesAssumption
<1>7. ControlOK(p)'
  BY <1>1, <1>2, <1>3, <1>4, <1>5, <1>6, Zenon
  DEF Live, Shrinking, ForkPath, DeallocPath, NoOther, Building, ControlOK
<1>8. \A q \in Proc : q # p => Untouched(q)
  BY ZenonT(30) DEF Untouched, TypeOK, ExecCommit
<1> QED
  BY <1>4, <1>7, <1>8, ControlStep, Zenon

(* freevm gives the directory back. *)
LEMMA FreevmDoneControl ==
  ASSUME TypeOK, Control, NEW p \in Proc, FreevmDone(p)
  PROVE  Control'
<1> USE SizesAssumption
<1>1. pc[p] = "dealloc" /\ odir[p] # NoFrame
  BY Zenon DEF FreevmDone
<1>2. sz[p] \in 0..NPages /\ idx[p] \in 0..NPages /\ lim[p] \in 0..NPages
  BY Zenon DEF TypeOK
<1>3. /\ state[p] = "RUNNABLE" /\ pgdir[p] \in Frames /\ kstack[p] \in Frames /\ sz[p] >= 1
      /\ chld[p] = 0 /\ idx[p] = 0
      /\ odir[p] = NoFrame => 1 <= lim[p] /\ lim[p] <= sz[p]
  BY <1>1, Zenon DEF Control, ControlOK, Live, NoOther, Building, ForkPath, Shrinking, DeallocPath
<1>4. /\ state'[p] = state[p] /\ sz'[p] = sz[p] /\ pgdir'[p] = pgdir[p]
      /\ kstack'[p] = kstack[p] /\ pc'[p] = "user" /\ chld'[p] = 0
      /\ odir'[p] = NoFrame /\ idx'[p] = 0 /\ lim'[p] = 0 /\ img'[p] = NoImage
      /\ ent'[p] = NoPte
  BY Zenon DEF TypeOK, FreevmDone, Return, ptable
<1>7. ControlOK(p)'
  BY <1>1, <1>2, <1>3, <1>4
  DEF Live, Shrinking, ForkPath, DeallocPath, NoOther, Building, ControlOK
<1>8. \A q \in Proc : q # p => Untouched(q)
  BY ZenonT(30) DEF Untouched, TypeOK, FreevmDone, Return, ptable
<1> QED
  BY <1>4, <1>7, <1>8, ControlStep, Zenon

(* exit. *)
LEMMA ExitControl ==
  ASSUME TypeOK, Control, NEW p \in Proc, Exit(p)
  PROVE  Control'
<1> USE SizesAssumption
<1>1. state[p] = "RUNNABLE" /\ pc[p] = "user" /\ ControlOK(p)
  BY DEF Exit, InUser, Control
<1>2. \A r \in Proc : chld[r] # p
  BY <1>1, NotAChild
<1>3. state' = [state EXCEPT ![p] = "ZOMBIE"] /\ UNCHANGED <<sz, pgdir, kstack, locals>>
  BY DEF Exit
<1>4. state'[p] = "ZOMBIE" /\ chld[p] = 0
  BY <1>1, <1>3 DEF TypeOK, ControlOK, ForkPath
<1>5. ControlOK(p)'
  BY <1>1, <1>3, <1>4
  DEF ControlOK, Live, Shrinking, DeallocRange, ForkPath, DeallocPath, NoOther, Building, locals
<1>6. \A q \in Proc : q # p => Untouched(q)
  BY <1>2, <1>3, ZenonT(30) DEF Untouched, TypeOK, locals
<1>7. chld'[p] = chld[p]
  BY <1>3, Zenon DEF locals
<1> QED
  BY <1>5, <1>6, <1>7, ControlStep, Zenon

(* wait reaps a child. *)
LEMMA WaitControl ==
  ASSUME TypeOK, Control, NEW p \in Proc, NEW c \in Proc, Wait(p, c)
  PROVE  Control'
<1> USE SizesAssumption
<1>1. state[c] = "ZOMBIE" /\ ControlOK(c)
  BY DEF Wait, Control
<1>2. \A r \in Proc : chld[r] # c
  BY <1>1, NotAChild
<1>3. /\ kstack' = [kstack EXCEPT ![c] = NoFrame]
      /\ state' = [state EXCEPT ![c] = "UNUSED"]
      /\ UNCHANGED <<sz, pgdir, locals>>
  BY Zenon DEF Wait
<1>4. kstack'[c] = NoFrame /\ state'[c] = "UNUSED" /\ pc[c] = "user" /\ chld[c] = 0
  BY <1>1, <1>3 DEF TypeOK, ControlOK, ForkPath
<1>5. ControlOK(c)'
  BY <1>1, <1>3, <1>4
  DEF ControlOK, Live, Shrinking, DeallocRange, ForkPath, DeallocPath, NoOther, Building, locals
<1>6. \A q \in Proc : q # c => Untouched(q)
  BY <1>2, <1>3, ZenonT(30) DEF Untouched, TypeOK, locals
<1>7. chld'[c] = chld[c]
  BY <1>3, Zenon DEF locals
<1> QED
  BY <1>5, <1>6, <1>7, ControlStep, Zenon

(* userinit sets up a well-typed state. *)
LEMMA InitTyped == Init => TypeOK /\ Control
<1> USE SizesAssumption, FramesAssumption, ValuesAssumption
<1> SUFFICES ASSUME Init PROVE TypeOK /\ Control
  OBVIOUS
<1>0. PICK k, d, f \in Frames : userinit(k, d, f)
  BY DEF Init
<1>1. TypeOK
  <2>1. freelist \subseteq Frames /\ refcnt \in [Frames -> Nat]
        /\ data \in [Frames -> Values \cup {Junk}]
    BY <1>0 DEF userinit
  <2>2. table \in [Frames -> [Pages -> PTE]]
    BY <1>0, PteTyped, Zenon DEF userinit, EmptyTable
  <2>3. pgdir \in [Proc -> Frames \cup {NoFrame}] /\ kstack \in [Proc -> Frames \cup {NoFrame}]
    BY <1>0 DEF userinit
  <2>4. /\ state \in [Proc -> {"UNUSED", "EMBRYO", "RUNNABLE", "ZOMBIE"}]
        /\ parent \in [Proc -> Proc \cup {0}]
        /\ chld \in [Proc -> Proc \cup {0}]
        /\ odir \in [Proc -> Frames \cup {NoFrame}]
    BY <1>0 DEF userinit
  <2>5. /\ sz \in [Proc -> 0..NPages]
        /\ idx \in [Proc -> 0..NPages]
        /\ lim \in [Proc -> 0..NPages]
        /\ tmp \in [Proc -> Nat]
    BY <1>0 DEF userinit
  <2>6. pc \in [Proc -> Labels]
    BY <1>0 DEF userinit, Labels
  <2>7. img \in [Proc -> Images \cup {NoImage}] /\ ent \in [Proc -> PTE]
    BY <1>0, PteTyped, Zenon DEF userinit
  <2> QED
    BY <2>1, <2>2, <2>3, <2>4, <2>5, <2>6, <2>7 DEF TypeOK
<1>2. Control
  <2>1. ASSUME NEW p \in Proc PROVE ControlOK(p)
    BY <1>0 DEF userinit, ControlOK, Live, Shrinking, DeallocPath, ForkPath,
                NoOther, Building, initproc
  <2>2. \A p \in Proc : chld[p] = 0
    BY <1>0 DEF userinit
  <2> QED
    BY <2>1, <2>2 DEF Control
<1> QED
  BY <1>1, <1>2

(* Every step of the kernel or of a program keeps the types. *)
LEMMA NextTyped == TypeOK /\ Control /\ [Next]_vars => TypeOK' /\ Control'
<1> SUFFICES ASSUME TypeOK, Control, [Next]_vars PROVE TypeOK' /\ Control'
  OBVIOUS
<1>1. CASE UNCHANGED vars
  <2>1. TypeOK'
    BY <1>1, Zenon DEF vars, TypeOK
  <2>2. \A q \in Proc : Untouched(q)
    BY <1>1, Zenon DEF vars, Untouched
  <2> QED
    BY <2>1, <2>2, ControlStill
<1>2. ASSUME NEW p \in Proc,
             \/ \E v \in Stored, x \in Values : Write(p, v, x)
             \/ \E v \in Stored : FaultCopy(p, v)
             \/ \E v \in Stored : FaultReuse(p, v)
             \/ \E n \in Deltas : SbrkGrow(p, n)
             \/ GrowPage(p)
             \/ GrowDone(p)
             \/ \E n \in Deltas : SbrkShrink(p, n)
             \/ DeallocPage(p)
             \/ ShrinkDone(p)
             \/ DeallocKfree(p)
             \/ DeallocClear(p)
             \/ \E c \in Proc : ForkAlloc(p, c)
             \/ ForkKstack(p)
             \/ ForkSetupkvm(p)
             \/ ForkProtect(p)
             \/ ForkMap(p)
             \/ ForkInc(p)
             \/ ForkDone(p)
             \/ \E im \in Images : ExecStart(p, im)
             \/ ExecSetupkvm(p)
             \/ ExecPage(p)
             \/ ExecBad(p)
             \/ ExecCommit(p)
             \/ FreevmDone(p)
             \/ Exit(p)
             \/ \E c \in Proc : Wait(p, c)
      PROVE  TypeOK' /\ Control'
  <2>1. CASE \E v \in Stored, x \in Values : Write(p, v, x)
    BY <2>1, WriteTyped, WriteControl
  <2>2. CASE \E v \in Stored : FaultCopy(p, v)
    BY <2>2, FaultCopyTyped, FaultCopyControl
  <2>3. CASE \E v \in Stored : FaultReuse(p, v)
    BY <2>3, FaultReuseTyped, FaultReuseControl
  <2>4. CASE \E n \in Deltas : SbrkGrow(p, n)
    BY <2>4, SbrkGrowTyped, SbrkGrowControl
  <2>5. CASE GrowPage(p)
    BY <2>5, GrowPageTyped, GrowPageControl
  <2>6. CASE GrowDone(p)
    BY <2>6, GrowDoneTyped, GrowDoneControl
  <2>7. CASE \E n \in Deltas : SbrkShrink(p, n)
    BY <2>7, SbrkShrinkTyped, SbrkShrinkControl
  <2>8. CASE DeallocPage(p)
    BY <2>8, DeallocPageTyped, DeallocPageControl
  <2>9. CASE ShrinkDone(p)
    BY <2>9, ShrinkDoneTyped, ShrinkDoneControl
  <2>10. CASE DeallocKfree(p)
    BY <2>10, DeallocKfreeTyped, DeallocKfreeControl
  <2>11. CASE DeallocClear(p)
    BY <2>11, DeallocClearTyped, DeallocClearControl
  <2>12. CASE \E c \in Proc : ForkAlloc(p, c)
    BY <2>12, ForkAllocTyped, ForkAllocControl
  <2>13. CASE ForkKstack(p)
    BY <2>13, ForkKstackTyped, ForkKstackControl
  <2>14. CASE ForkSetupkvm(p)
    BY <2>14, ForkSetupkvmTyped, ForkSetupkvmControl
  <2>15. CASE ForkProtect(p)
    BY <2>15, ForkProtectTyped, ForkProtectControl
  <2>16. CASE ForkMap(p)
    BY <2>16, ForkMapTyped, ForkMapControl
  <2>17. CASE ForkInc(p)
    BY <2>17, ForkIncTyped, ForkIncControl
  <2>18. CASE ForkDone(p)
    BY <2>18, ForkDoneTyped, ForkDoneControl
  <2>19. CASE \E im \in Images : ExecStart(p, im)
    BY <2>19, ExecStartTyped, ExecStartControl
  <2>20. CASE ExecSetupkvm(p)
    BY <2>20, ExecSetupkvmTyped, ExecSetupkvmControl
  <2>21. CASE ExecPage(p)
    BY <2>21, ExecPageTyped, ExecPageControl
  <2>22. CASE ExecBad(p)
    BY <2>22, ExecBadTyped, ExecBadControl
  <2>23. CASE ExecCommit(p)
    BY <2>23, ExecCommitTyped, ExecCommitControl
  <2>24. CASE FreevmDone(p)
    BY <2>24, FreevmDoneTyped, FreevmDoneControl
  <2>25. CASE Exit(p)
    BY <2>25, ExitTyped, ExitControl
  <2>26. CASE \E c \in Proc : Wait(p, c)
    BY <2>26, WaitTyped, WaitControl
  <2> QED
    BY <1>2, <2>1, <2>2, <2>3, <2>4, <2>5, <2>6, <2>7, <2>8, <2>9, <2>10, <2>11, <2>12,
       <2>13, <2>14, <2>15, <2>16, <2>17, <2>18, <2>19, <2>20, <2>21, <2>22, <2>23, <2>24,
       <2>25, <2>26
<1> QED
  BY <1>1, <1>2, Zenon DEF Next

(* TypeOK holds in every state that CowMemory reaches: the kernel's memory *)
(* structures keep their shape whatever programs do, with or without ticks *)
(* inside a reference-count update.                                        *)
THEOREM Typing == Spec => []TypeOK
<1>1. Init => TypeOK /\ Control
  BY InitTyped
<1>2. TypeOK /\ Control /\ [Next]_vars => (TypeOK /\ Control)'
  BY NextTyped
<1> QED
  BY <1>1, <1>2, PTL DEF Spec

(* The same for Control: where each process is in the kernel determines    *)
(* what its locals and its slot of the process table hold.                 *)
THEOREM ControlAlways == Spec => []Control
<1>1. Init => TypeOK /\ Control
  BY InitTyped
<1>2. TypeOK /\ Control /\ [Next]_vars => (TypeOK /\ Control)'
  BY NextTyped
<1> QED
  BY <1>1, <1>2, PTL DEF Spec
=============================================================================
