------------------------------- MODULE Stream -------------------------------
(***************************************************************************)
(* What a pipe promises.  A writer hands over bytes, which go into the      *)
(* stream in order and each once as there is room; a reader receives those *)
(* that went in first, and is told of the end only when none are left and  *)
(* no process can write any more.                                          *)
(***************************************************************************)
EXTENDS Integers, Sequences

CONSTANTS Proc, Bytes, Capacity

VARIABLES pending,    \* pending[p]: what p's write has still to put in
          inflight,   \* bytes written and not read yet
          got,        \* the bytes a read returns in this step: none or one sequence
          writers,    \* processes that hold the write end
          closed      \* readers are told that nothing more will come

svars == <<pending, inflight, got, writers, closed>>

Init == /\ pending = [p \in Proc |-> <<>>] /\ inflight = <<>> /\ got = {}
        /\ writers = {} /\ closed = TRUE

(* A writer calls write with some bytes. *)
Ask(p) == /\ p \in writers /\ pending[p] = <<>>
          /\ pending'[p] \in Seq(Bytes)
          /\ pending' = [pending EXCEPT ![p] = pending'[p]]
          /\ got' = {}
          /\ UNCHANGED <<inflight, writers, closed>>

(* The next k of them go in.  A writer gives the others up only when there *)
(* is no room for them.                                                    *)
Put(p) == \E k \in 0 .. Len(pending[p]) :
  LET rest == SubSeq(pending[p], k + 1, Len(pending[p])) IN
  /\ p \in writers
  /\ inflight' = inflight \o SubSeq(pending[p], 1, k)
  /\ Len(inflight') <= Capacity
  /\ \/ pending' = [pending EXCEPT ![p] = rest]
     \/ pending' = [pending EXCEPT ![p] = <<>>] /\ Len(inflight') = Capacity
  /\ got' = {}
  /\ UNCHANGED <<writers, closed>>

(* A read returns the bytes that have been in longest. *)
Take == \E k \in 1 .. Len(inflight) :
  /\ got' = {SubSeq(inflight, 1, k)}
  /\ inflight' = SubSeq(inflight, k + 1, Len(inflight))
  /\ UNCHANGED <<pending, writers, closed>>

(* A read returns nothing: the end of the stream. *)
End == /\ closed /\ inflight = <<>>
       /\ got' = {<<>>}
       /\ UNCHANGED <<pending, inflight, writers, closed>>

(* Only a writer makes another one, and none leaves in the middle of a     *)
(* write.                                                                  *)
Hold == /\ writers # {} /\ writers' \in SUBSET Proc
        /\ \A p \in writers \ writers' : pending[p] = <<>>
        /\ got' = {}
        /\ UNCHANGED <<pending, inflight, closed>>
Open == /\ closed /\ ~closed'
        /\ inflight = <<>> /\ writers = {} /\ \E p \in Proc : writers' = {p}
        /\ got' = {}
        /\ UNCHANGED <<pending, inflight>>
Close == /\ ~closed /\ closed'
         /\ writers = {}
         /\ got' = {}
         /\ UNCHANGED <<pending, inflight, writers>>

(* Anything else. *)
Other == got' = {} /\ UNCHANGED <<pending, inflight, writers, closed>>

Next == (\E p \in Proc : Ask(p) \/ Put(p)) \/ Take \/ End \/ Hold \/ Open \/ Close \/ Other
Spec == Init /\ [][Next]_svars
=============================================================================
