---------------------------- MODULE MCCowMemory ----------------------------
(***************************************************************************)
(* CowMemory on small instances.  The frames are numbers, and the free list *)
(* always gives out its smallest page: no definition of CowMemory tells one *)
(* frame from another, so every behaviour is one of these with its frames   *)
(* renamed.                                                                 *)
(***************************************************************************)
EXTENDS CowIsolation, CowMemoryInv

CONSTANT Loads    \* the workloads of the run

VARIABLE load     \* which of them this behaviour is under

Smallest(f, S) == f \in S /\ \A g \in S : f <= g

(* No program stores to page v in this step. *)
Untouched(v) ==
  \A p \in Proc : InUser(p) /\ InUser(p)' /\ Entry(p, v).p =>
    /\ table'[pgdir[p]][v] = Entry(p, v)
    /\ data'[Entry(p, v).addr] = data[Entry(p, v).addr]

(* Three processes that share and resize two pages, and store to the       *)
(* second.                                                                  *)
Share ==
  /\ Untouched(0)
  /\ \A p \in Proc : pc'[p] # "exec_dir" /\ (pc'[p] = "grow" => lim'[p] <= 2)

(* Two processes that exec, and store to their first page; sbrk is only    *)
(* tried where there is no room for it.                                     *)
Exec ==
  /\ Untouched(1)
  /\ state'[3] = "UNUSED"
  /\ \A p \in Proc : ~Shrinking(p)' /\ (pc'[p] = "grow" => sz[p] = NPages)

MCInit ==
  /\ Init /\ kstack[1] = 1 /\ pgdir[1] = 2 /\ 3 \notin freelist
  /\ load \in Loads
  /\ did = <<>>

MCNext ==
  /\ Next /\ \A f \in freelist \ freelist' : Smallest(f, freelist)
  /\ load = "share" => Share
  /\ load = "exec" => Exec
  /\ Records(Writes)
  /\ UNCHANGED load

MCSpec == MCInit /\ [][MCNext]_<<vars, load, did>>

(* The state up to the names of the frames: a frame is known by the first  *)
(* place that maps it.  did, which no step reads, is left out.             *)
Places == Proc \X {1, 2} \X Pages
HasDir(p, k) == IF k = 1 THEN Live(p) ELSE odir[p] # NoFrame
DirAt(l) == IF l[2] = 1 THEN pgdir[l[1]] ELSE odir[l[1]]
At(l) == table[DirAt(l)][l[3]]
MappedPlaces ==
  {l \in Places : HasDir(l[1], l[2]) /\ At(l).p /\ ~Stale(DirAt(l), l[3])}
Rank(l) == NPages * (2 * l[1] + l[2]) + l[3]
Name(f) == LET S == {Rank(l) : l \in {m \in MappedPlaces : At(m).addr = f}} IN
           IF S = {} THEN 0 ELSE CHOOSE r \in S : \A q \in S : r <= q
FrameBlind ==
  <<load, state, parent, pc, chld, idx, lim, img, tmp, Cardinality(freelist),
    [p \in Proc |-> <<IF Live(p) THEN sz[p] ELSE 0, kstack[p] = NoFrame,
                      odir[p] = NoFrame, Name(ent[p].addr)>>],
    [l \in MappedPlaces |->
       LET e == At(l) IN <<e.w, e.u, Name(e.addr), data[e.addr], refcnt[e.addr]>>]>>

NoImages == {}
OneImage == {[size |-> 1, text |-> "a", args |-> "b"]}
=============================================================================
