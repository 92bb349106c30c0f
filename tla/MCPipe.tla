------------------------------- MODULE MCPipe -------------------------------
(***************************************************************************)
(* Pipe for init and two programs, with counters that wrap after a few     *)
(* bytes, and what it implements.                                          *)
(***************************************************************************)
EXTENDS Pipe

(* The slots of the table are interchangeable: once slot 2 has been reaped *)
(* the other program could only repeat, with the two slots exchanged, what *)
(* the first one can do when the other is reaped.                          *)
MCNext == Next /\ (ptable[2].state = "UNUSED" => ptable'[2].state = "UNUSED")
MCSpec == Init /\ [][MCNext]_vars /\ Fairness

ST == INSTANCE Stream WITH
        Capacity <- PIPESIZE,
        Bytes <- Nat,
        pending <- [p \in Proc |-> Addr(left[p])],
        inflight <- Fetched(Count),
        writers <- {p \in Proc : "w" \in ofile[p]},
        closed <- ~pipe.writeopen

(* pipe.c implements Stream.  What piperead copies to a reader's buffer is *)
(* what pipewrite took from the writers' buffers, in that order: no byte   *)
(* is lost, duplicated, reordered or left from an earlier round when the   *)
(* counters wrap around or a write is split by sleeps.  A writer returns   *)
(* with bytes unwritten only from a full pipe, and read returns 0 only     *)
(* when the pipe is drained and every write end is closed.                 *)
BytesInOrder == ST!Spec
=============================================================================
