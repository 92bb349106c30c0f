----------------------------- MODULE MCSwapping -----------------------------
(***************************************************************************)
(* Swapping on small instances.  As in MCCowMemory the free list gives out *)
(* its smallest page.                                                      *)
(***************************************************************************)
EXTENDS SwapSpaces

MCInit == /\ SInit
          /\ \A f \in Frames : f \notin freelist => \A g \in freelist : f < g
          /\ kstack[1] < pgdir[1] /\ \A f \in MappedFrames : pgdir[1] < f
          /\ did = <<>>

MCNext == /\ SNext /\ \A f \in freelist \ freelist' : \A g \in freelist : f <= g
          /\ Records(SwapStores)

MCSpec == MCInit /\ [][MCNext]_<<svars, did>>

(* The state up to the names of the frames: each place in the kernel that  *)
(* holds a frame number is described by the first place with the same one, *)
(* and by what is known of the frame.  A directory no process owns and the *)
(* state after a panic are not looked at again, did is read by no step.    *)
PerProc == 6 + 2 * NPages
Places == 0..(NPROC * PerProc - 1)
Held(e) == IF e.p THEN e.addr ELSE NoFrame
At(l) ==
  LET p == 1 + l \div PerProc
      j == l % PerProc IN
  CASE j = 0 -> kstack[p]
    [] j = 1 -> IF Live(p) THEN pgdir[p] ELSE NoFrame
    [] j = 2 -> odir[p]
    [] j = 3 -> ent[p].addr
    [] j = 4 -> out[p].d
    [] j = 5 -> out[p].pa
    [] j \in 6..(5 + NPages) -> IF Live(p) THEN Held(Entry(p, j - 6)) ELSE NoFrame
    [] OTHER -> IF odir[p] # NoFrame THEN Held(table[odir[p]][j - 6 - NPages]) ELSE NoFrame
Flags(d) == [v \in Pages |-> [table[d][v] EXCEPT !.addr = IF table[d][v].p THEN 0 ELSE @]]
BeingMapped(d, v) == \E p \in Proc : pc[p] = "fork_map" /\ odir[p] = d /\ idx[p] = v
Accessed(d) == {v \in Pages : <<d, v>> \in acc /\ (table[d][v].p \/ BeingMapped(d, v))}
FrameBlind ==
  IF panic # "no" THEN <<panic>> ELSE
  LET at == [l \in Places |-> At(l)]
      first == [f \in Frames |-> Lowest({l \in Places : at[l] = f} \cup {NPROC * PerProc})]
  IN <<state, parent, pc, chld, idx, lim, img, tmp, rss, pid, nextpid, cli,
       is_free, page_perm, disk, Cardinality(freelist),
       [l \in Places |-> IF at[l] \in Frames
                         THEN <<first[at[l]], refcnt[at[l]], data[at[l]], at[l] \in freelist>>
                         ELSE at[l]],
       [p \in Proc |->
          <<[out[p] EXCEPT !.d = 0, !.pa = 0],
            IF Live(p) THEN <<sz[p], Flags(pgdir[p]), Accessed(pgdir[p])>> ELSE 0,
            IF odir[p] # NoFrame THEN <<Flags(odir[p]), Accessed(odir[p])>> ELSE 0>>]>>

NoImages == {}
OneImage == {[size |-> 1, text |-> "a", args |-> "b"]}

PlainImage == {[size |-> 1, text |-> "a", args |-> "a"]}

(* One program runs while the process that started it waits for it. *)
Solo == [p \in Proc |-> IF p = initproc THEN {"load", "fork", "wait"}
                        ELSE {"load", "store", "grow", "exit"}]
(* Two programs at a time: the parent loads programs and forks, the child  *)
(* uses, gives back and leaves its memory.                                 *)
Duo == [p \in Proc |-> IF p = initproc THEN {"exec", "fork", "wait"}
                       ELSE {"load", "store", "shrink", "exit"}]
(* Both programs use memory and ask for more. *)
Busy == [p \in Proc |-> {"load", "store", "grow", "fork", "exit", "wait"}]
=============================================================================
