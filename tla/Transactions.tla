---------------------------- MODULE Transactions ----------------------------
(***************************************************************************)
(* What the log promises to the file system: the blocks on the disk, as    *)
(* the next boot will find them, change only when no operation is under    *)
(* way, and then to exactly what the finished operations have written.     *)
(***************************************************************************)
CONSTANTS Proc, Home, Values

VARIABLES durable,   \* the contents the next boot will find
          latest,    \* the contents operations read and write now
          active     \* the processes between begin_op and end_op

Init == durable \in [Home -> Values] /\ latest = durable /\ active = {}

Begin(p) == p \notin active /\ active' = active \cup {p} /\ UNCHANGED <<durable, latest>>
End(p) == p \in active /\ active' = active \ {p} /\ UNCHANGED <<durable, latest>>
Write(p, b, x) == /\ p \in active
                  /\ latest' = [latest EXCEPT ![b] = x]
                  /\ UNCHANGED <<durable, active>>
Commit == active = {} /\ durable' = latest /\ UNCHANGED <<latest, active>>
Crash == latest' = durable /\ active' = {} /\ UNCHANGED durable

Next == \/ \E p \in Proc : Begin(p) \/ End(p) \/ \E b \in Home, x \in Values : Write(p, b, x)
        \/ Commit
        \/ Crash

Spec == Init /\ [][Next]_<<durable, latest, active>>
=============================================================================
