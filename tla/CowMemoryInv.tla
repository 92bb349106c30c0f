---------------------------- MODULE CowMemoryInv ----------------------------
(***************************************************************************)
(* The strengthened invariant of CowMemory when no tick separates reading  *)
(* a reference count from writing it back (AtomicRefcnt).  TypeOK and      *)
(* Control are proved inductive, for either value of AtomicRefcnt; the     *)
(* other conjuncts are checked by TLC as invariants of reachable states.   *)
(*                                                                         *)
(* A process in the kernel works on at most two directories: its own, and  *)
(* the one it builds or tears down.  The invariant says who owns which     *)
(* frame, how far each directory is filled at each point of a kernel path, *)
(* and that reference counts agree with the entries.                       *)
(***************************************************************************)
EXTENDS CowMemory

Building == {"exec", "fork_copy", "fork_map", "fork_inc"}
NoOther == {"user", "grow", "exec_dir", "fork_kstack", "fork_dir"}

(* Where a process can be in the kernel, and what its locals then are. *)
ControlOK(p) ==
  /\ pc[p] # "user" => state[p] = "RUNNABLE"
  /\ Live(p) => pgdir[p] \in Frames /\ kstack[p] \in Frames /\ sz[p] >= 1
  /\ state[p] = "UNUSED" => kstack[p] = NoFrame
  /\ pc[p] \in NoOther => odir[p] = NoFrame
  /\ pc[p] \in Building => odir[p] \in Frames
  /\ pc[p] \in ForkPath <=> chld[p] # 0
  /\ chld[p] # 0 => /\ state[chld[p]] = "EMBRYO"
                    /\ kstack[chld[p]] = NoFrame <=> pc[p] = "fork_kstack"
  /\ pc[p] \in {"exec_dir", "exec"} => img[p] \in Images
  /\ pc[p] \in {"user", "exec_dir", "fork_kstack", "fork_dir", "dealloc"} => idx[p] = 0
  /\ pc[p] = "exec" => idx[p] <= img[p].size + 2
  /\ pc[p] = "grow" => sz[p] <= idx[p] /\ idx[p] <= lim[p]
  /\ pc[p] = "fork_copy" => idx[p] <= sz[p]
  /\ pc[p] \in {"fork_map", "fork_inc"} => idx[p] < sz[p]
  /\ Shrinking(p) => 1 <= lim[p] /\ lim[p] <= sz[p]
  /\ pc[p] \in {"dealloc_free", "dealloc_clear"} => idx[p] \in DeallocRange(p)
  /\ pc[p] \in {"fork_map", "fork_inc", "dealloc_free"} => ent[p].p
  /\ AtomicRefcnt => pc[p] # "dealloc_free"

Control == (\A p \in Proc : ControlOK(p))
           /\ \A p, q \in Proc : chld[p] = chld[q] /\ chld[p] # 0 => p = q

IsStack(f) == \E p \in Proc : kstack[p] = f
IsDir(d) == \E p \in Proc : (Live(p) /\ pgdir[p] = d) \/ odir[p] = d
Used(d, v) == table[d][v].p /\ ~Stale(d, v)

(* A kernel page has one owner and one reference, and is in no page table. *)
Owners ==
  /\ \A p, q \in Proc : kstack[p] = kstack[q] /\ kstack[p] # NoFrame => p = q
  /\ \A p, q \in Proc : Live(p) /\ Live(q) /\ pgdir[p] = pgdir[q] => p = q
  /\ \A p, q \in Proc : odir[p] = odir[q] /\ odir[p] # NoFrame => p = q
  /\ \A p, q \in Proc : Live(p) => pgdir[p] # odir[q]
  /\ \A p, q \in Proc : kstack[p] # NoFrame =>
        kstack[p] # odir[q] /\ (Live(q) => kstack[p] # pgdir[q])
  /\ \A f \in Frames : IsStack(f) \/ IsDir(f) => refcnt[f] = 1 /\ f \notin freelist
  /\ \A d \in Frames, v \in Pages :
       Used(d, v) => LET f == table[d][v].addr IN
                     f \in Frames /\ f \notin freelist /\ ~IsStack(f) /\ ~IsDir(f)

(* Every page has an owner, and every entry is in a directory in use. *)
NoneLost ==
  /\ \A f \in Frames \ MappedFrames : f \in freelist \/ IsStack(f) \/ IsDir(f)
  /\ \A d \in Frames, v \in Pages : table[d][v].p => IsDir(d)

(* How far the directories of p are filled. *)
Top(p) == IF pc[p] = "grow" THEN idx[p] ELSE sz[p]
Kept(p) == IF Shrinking(p) THEN lim[p] ELSE Top(p)
FilledOK(p) ==
  /\ Live(p) => \A v \in Pages : /\ v < Kept(p) => Entry(p, v).p
                                 /\ v >= Top(p) => ~Entry(p, v).p
  /\ pc[p] \in {"exec", "fork_copy", "fork_map"} =>
       \A v \in Pages : table[odir[p]][v].p <=> v < idx[p]
  /\ pc[p] = "fork_inc" => \A v \in Pages : table[odir[p]][v].p <=> v <= idx[p]
  /\ pc[p] \in {"fork_map", "fork_inc"} =>
       Entry(p, idx[p]) = Protected(ent[p])
  /\ pc[p] = "fork_inc" => table[odir[p]][idx[p]] = Protected(ent[p])
  /\ pc[p] = "dealloc_clear" => table[DeallocDir(p)][idx[p]].p

Filled == \A p \in Proc : FilledOK(p)

(* A frame is shared only at one virtual page number, as project.md says,  *)
(* and a writable entry shares with none.                                  *)
SameVirtualPage ==
  \A d \in Frames, v \in Pages : Used(d, v) =>
    \A m \in Mappings(table[d][v].addr) : m[2] = v
Private ==
  \A d \in Frames, v \in Pages : Used(d, v) /\ table[d][v].w =>
    \A m \in Mappings(table[d][v].addr) : m[1] = d

(* What holds wherever a kernel path of CowMemory can be switched out:     *)
(* owners, fill and sharing of the pages, with exact reference counts.     *)
IInv == /\ TypeOK /\ Control /\ Owners /\ NoneLost /\ Filled
        /\ SameVirtualPage /\ Private /\ RefcntExact
=============================================================================
