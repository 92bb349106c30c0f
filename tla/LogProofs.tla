----------------------------- MODULE LogProofs ------------------------------
(***************************************************************************)
(* For every number of processes, every size of the log and every limit on *)
(* an operation: whoever sleeps in begin_op has somebody to wake them, and  *)
(* a commit has the log to itself.                                         *)
(***************************************************************************)
EXTENDS Log, FiniteSetTheorems, TLAPS

Ops == {p \in Proc : pc[p] \in InOp}
Committers == {p \in Proc : pc[p] \in InCommit}

\* What the first process runs through before there are other processes.
BootLabels == {"boot", "read_head", "install", "it_dst", "it_copy", "it_done", "wh_fill", "wh_done"}

Booting0 == /\ ~committing
            /\ \A p \in Proc : IF p = 1 THEN pc[p] \in BootLabels ELSE pc[p] = "down"

\* One process commits at a time, while no operation is under way; when nobody
\* commits and no operation is under way the log is empty.
Running == /\ \A p \in Proc : pc[p] # "down" /\ pc[p] \notin InRecovery
           /\ committing <=> Committers # {}
           /\ \A p, q \in Committers : p = q
           /\ committing => Ops = {}
           /\ \A p \in Proc : pc[p] = "commit_end" => lh = <<>>
           /\ ~committing /\ Ops = {} => lh = <<>>
           /\ SleepersWoken

Inv == /\ pc \in [Proc -> Labels] /\ committing \in BOOLEAN /\ booted \in BOOLEAN
       /\ outstanding = Cardinality(Ops)
       /\ IF booted THEN Running ELSE Booting0
-----------------------------------------------------------------------------
\* The counter of operations: finite, and zero only when there is none.
LEMMA CountOps ==
  ASSUME NEW S \in SUBSET Proc
  PROVE  /\ Cardinality(S) \in Nat
         /\ Cardinality(S) = 0 <=> S = {}
         /\ \A p \in Proc : p \notin S => Cardinality(S \cup {p}) = Cardinality(S) + 1
         /\ \A p \in S : Cardinality(S \ {p}) = Cardinality(S) - 1
<1>1. IsFiniteSet(S)
  BY LogAssumption, FS_Subset
<1> QED
  BY <1>1, FS_CardinalityType, FS_EmptySet, FS_AddElement, FS_RemoveElement

LEMMA LabelFacts ==
  /\ InOp \cap InCommit = {} /\ InOp \subseteq Labels /\ InCommit \subseteq Labels /\ BootLabels \subseteq Labels
  /\ "asleep" \notin InOp \cup InCommit \cup BootLabels /\ "down" \notin InOp \cup InCommit \cup BootLabels
  /\ InRecovery \cap (InOp \cup InCommit) = {} /\ InOp \cap BootLabels = {} /\ "commit_end" \in InCommit \ BootLabels
  BY DEF InOp, InCommit, InRecovery, Labels, BootLabels

\* Steps of p that neither begin nor end an operation or a commit.
LEMMA Moves ==
  ASSUME Inv, NEW p \in Proc, NEW label \in Labels, Go(p, label),
         UNCHANGED <<outstanding, committing, booted>>,
         pc[p] \in InOp <=> label \in InOp,
         booted => (pc[p] \in InCommit <=> label \in InCommit),
         label \notin InRecovery \/ ~booted, label # "asleep", label # "down", pc[p] # "down",
         ~booted => label \in BootLabels,
         lh' = lh \/ (lh' = <<>> /\ pc[p] \in InCommit) \/ ~booted \/ pc[p] \in InOp,
         label = "commit_end" => lh' = <<>>
  PROVE  Inv'
<1>1. pc' = [pc EXCEPT ![p] = label] /\ pc \in [Proc -> Labels]
  BY DEF Go, Inv
<1>2. Ops' = Ops /\ (booted => Committers' = Committers)
  BY <1>1 DEF Ops, Committers
<1>3. CASE booted
  <2>1. Running
    BY <1>3 DEF Inv
  <2>2. \A q \in Proc : pc'[q] # "down" /\ pc'[q] \notin InRecovery
    BY <1>1, <1>3, <2>1 DEF Running
  <2>3. /\ committing' <=> Committers' # {}
        /\ \A q, r \in Committers' : q = r
        /\ committing' => Ops' = {}
    BY <1>2, <1>3, <2>1 DEF Running
  <2>4. \A q \in Proc : pc'[q] = "commit_end" => lh' = <<>>
    <3> SUFFICES ASSUME NEW q \in Proc, pc'[q] = "commit_end"
                 PROVE  lh' = <<>>
      OBVIOUS
    <3>1. CASE q = p
      BY <1>1, <3>1
    <3>2. CASE q # p
      <4>1. pc[q] = "commit_end" /\ lh = <<>> /\ q \in Committers
        BY <1>1, <2>1, <3>2, LabelFacts DEF Running, Committers
      <4>2. pc[p] \notin InOp
        BY <2>1, <4>1 DEF Running, Ops
      <4> QED
        BY <1>3, <4>1, <4>2
    <3> QED
      BY <3>1, <3>2
  <2>5. ~committing' /\ Ops' = {} => lh' = <<>>
    <3>1. pc[p] \in InOp => Ops # {}
      BY DEF Ops
    <3>2. pc[p] \in InCommit => Committers # {}
      BY DEF Committers
    <3> QED
      BY <1>2, <1>3, <2>1, <3>1, <3>2 DEF Running
  <2>6. SleepersWoken'
    BY <1>1, <2>1 DEF Running, SleepersWoken
  <2> QED
    BY <1>1, <1>2, <1>3, <2>2, <2>3, <2>4, <2>5, <2>6 DEF Inv, Running
<1>4. CASE ~booted
  <2>1. Booting0
    BY <1>4 DEF Inv
  <2>2. p = 1
    BY <2>1, <1>4, <1>1, LabelFacts DEF Booting0
  <2>3. Booting0'
    BY <1>1, <1>4, <2>1, <2>2 DEF Booting0
  <2> QED
    BY <1>1, <1>2, <1>4, <2>3 DEF Inv
<1> QED
  BY <1>3, <1>4 DEF Inv

LEMMA Booted ==
  ASSUME Inv, NEW p \in Proc
  PROVE  /\ pc[p] \notin BootLabels \cup {"down"} => booted
         /\ pc[p] \in InRecovery => ~booted
  BY DEF Inv, Booting0, Running

LEMMA SystemCallStep ==
  ASSUME Inv, NEW p \in Proc, SystemCall(p)
  PROVE  Inv'
<1>1. PICK label \in {"begin", "look", "swap"} :
        Call(p, label) /\ UNCHANGED <<lh, outstanding, committing, booted>>
  BY DEF SystemCall, EnterOp, ReadFile, WriteSwap, log, power
<1>2. pc[p] = "user" /\ Go(p, label)
  BY <1>1 DEF Call, At
<1>3. booted
  BY <1>2, Booted DEF BootLabels
<1> QED
  BY <1>1, <1>2, <1>3, Moves DEF Labels, InOp, InCommit, InRecovery, BootLabels

\* Steps inside a call outside of the log, inside an operation, a commit or the
\* recovery.
LEMMA InsideStep ==
  ASSUME Inv, NEW p \in Proc,
         \/ Look(p) \/ WriteSwapBlock(p) \/ SwapBlockWritten(p)
         \/ ReadBlock(p) \/ log_write(p) \/ log_write_Append(p)
         \/ commit(p) \/ write_log(p) \/ write_log_From(p) \/ write_log_Copy(p) \/ write_log_Next(p)
         \/ write_head(p) \/ install_trans(p) \/ install_trans_To(p) \/ install_trans_Copy(p)
         \/ install_trans_Next(p) \/ recover_from_log(p) \/ read_head(p)
  PROVE  Inv'
<1> USE DEF At, Labels, InOp, InCommit, InRecovery, BootLabels, log, power
<1>1. CASE Look(p) \/ SwapBlockWritten(p)
  <2>1. pc[p] \in {"look", "swapped"} /\ Go(p, "user") /\ UNCHANGED <<lh, outstanding, committing, booted>>
    BY <1>1 DEF Look, SwapBlockWritten
  <2> QED
    BY <2>1, Booted, Moves
<1>2. CASE WriteSwapBlock(p)
  <2>1. pc[p] = "swap" /\ Go(p, "swapped") /\ UNCHANGED <<lh, outstanding, committing, booted>>
    BY <1>2 DEF WriteSwapBlock
  <2> QED
    BY <2>1, Booted, Moves
<1>3. CASE ReadBlock(p)
  <2>1. pc[p] = "op" /\ Go(p, "modify") /\ UNCHANGED <<lh, outstanding, committing, booted>>
    BY <1>3 DEF ReadBlock
  <2> QED
    BY <2>1, Booted, Moves
<1>4. CASE log_write(p)
  <2>1. pc[p] = "modify" /\ Go(p, "logging") /\ UNCHANGED <<lh, outstanding, committing, booted>>
    BY <1>4 DEF log_write
  <2> QED
    BY <2>1, Booted, Moves
<1>5. CASE log_write_Append(p)
  <2>1. pc[p] = "logging" /\ Go(p, "op") /\ UNCHANGED <<outstanding, committing, booted>>
    BY <1>5 DEF log_write_Append
  <2> QED
    BY <2>1, Booted, Moves
<1>6. CASE commit(p)
  <2>1. /\ pc[p] = "commit" /\ UNCHANGED <<lh, outstanding, committing, booted>>
        /\ Go(p, "write_log") \/ (Go(p, "commit_end") /\ lh = <<>>)
    BY <1>6 DEF commit
  <2> QED
    BY <2>1, Booted, Moves
<1>7. CASE write_log(p)
  <2>1. /\ pc[p] = "write_log" /\ UNCHANGED <<lh, outstanding, committing, booted>>
        /\ Go(p, "wl_from") \/ Go(p, "wh_fill")
    BY <1>7 DEF write_log
  <2> QED
    BY <2>1, Booted, Moves
<1>8. CASE write_log_From(p) \/ write_log_Copy(p) \/ write_log_Next(p)
  <2>1. /\ pc[p] \in {"wl_from", "wl_copy", "wl_done"} /\ UNCHANGED <<lh, outstanding, committing, booted>>
        /\ Go(p, "wl_copy") \/ Go(p, "wl_done") \/ Go(p, "write_log")
    BY <1>8 DEF write_log_From, write_log_Copy, write_log_Next
  <2> QED
    BY <2>1, Booted, Moves
<1>9. CASE write_head(p)
  <2>1. pc[p] = "wh_fill" /\ Go(p, "wh_done") /\ UNCHANGED <<lh, outstanding, committing, booted>>
    BY <1>9 DEF write_head
  <2> QED
    BY <2>1, Moves
<1>10. CASE install_trans(p)
  <2>1. /\ pc[p] = "install" /\ UNCHANGED <<outstanding, committing, booted>>
        /\ Go(p, "it_dst") \/ Go(p, "wh_fill")
        /\ lh' = lh \/ lh' = <<>>
    BY <1>10 DEF install_trans
  <2> QED
    BY <2>1, Moves
<1>11. CASE install_trans_To(p) \/ install_trans_Copy(p) \/ install_trans_Next(p)
  <2>1. /\ pc[p] \in {"it_dst", "it_copy", "it_done"} /\ UNCHANGED <<lh, outstanding, committing, booted>>
        /\ Go(p, "it_copy") \/ Go(p, "it_done") \/ Go(p, "install")
    BY <1>11 DEF install_trans_To, install_trans_Copy, install_trans_Next
  <2> QED
    BY <2>1, Moves
<1>12. CASE recover_from_log(p)
  <2>1. pc[p] = "boot" /\ Go(p, "read_head") /\ UNCHANGED <<lh, outstanding, committing, booted>>
    BY <1>12 DEF recover_from_log
  <2> QED
    BY <2>1, Booted, Moves
<1>13. CASE read_head(p)
  <2>1. pc[p] = "read_head" /\ Go(p, "install") /\ UNCHANGED <<outstanding, committing, booted>>
    BY <1>13 DEF read_head
  <2>2. ~booted
    BY <2>1, Booted
  <2> QED
    BY <2>1, <2>2, Moves
<1> QED
  BY <1>1, <1>2, <1>3, <1>4, <1>5, <1>6, <1>7, <1>8, <1>9, <1>10, <1>11, <1>12, <1>13
-----------------------------------------------------------------------------
\* The steps that begin and end operations, commits and the recovery.
LEMMA BeginStep ==
  ASSUME Inv, NEW p \in Proc, begin_op(p)
  PROVE  Inv'
<1>1. /\ pc[p] = "begin" /\ UNCHANGED <<lh, committing, booted>>
      /\ \/ (committing \/ NoRoom) /\ Go(p, "asleep") /\ UNCHANGED outstanding
         \/ ~committing /\ Go(p, "op") /\ outstanding' = outstanding + 1
  BY DEF begin_op, At, power
<1>2. booted /\ Running /\ pc \in [Proc -> Labels]
  BY <1>1, Booted DEF Inv, BootLabels
<1>3. p \notin Ops /\ p \notin Committers
  BY <1>1 DEF Ops, Committers, InOp, InCommit
<1>4. CASE (committing \/ NoRoom) /\ Go(p, "asleep") /\ UNCHANGED outstanding
  <2>1. pc' = [pc EXCEPT ![p] = "asleep"] /\ pc' \in [Proc -> Labels]
    BY <1>2, <1>4 DEF Go, Labels
  <2>2. Ops' = Ops /\ Committers' = Committers
    BY <1>1, <1>2, <2>1 DEF Ops, Committers, InOp, InCommit
  <2>3. outstanding > 0 \/ committing
    <3>1. outstanding \in Nat /\ (outstanding = 0 <=> Ops = {})
      BY CountOps DEF Inv, Ops
    <3>2. ASSUME outstanding = 0, ~committing
          PROVE  FALSE
      <4>1. lh = <<>>
        BY <1>2, <3>1, <3>2 DEF Running
      <4>2. Len(lh) + (outstanding + 1) * MAXOPBLOCKS = MAXOPBLOCKS
        BY <3>2, <4>1, LogAssumption
      <4> QED
        BY <1>4, <3>2, <4>2, LogAssumption DEF NoRoom
    <3> QED
      BY <1>2, <3>1, <3>2 DEF Inv
  <2>4. SleepersWoken'
    BY <1>1, <1>4, <2>3 DEF SleepersWoken
  <2>5. \A q \in Proc : /\ pc'[q] # "down" /\ pc'[q] \notin InRecovery
                        /\ pc'[q] = "commit_end" => pc[q] = "commit_end"
    BY <1>2, <2>1 DEF Running, InRecovery
  <2>6. Running'
    BY <1>1, <1>2, <2>2, <2>4, <2>5 DEF Running
  <2> QED
    BY <1>1, <1>2, <1>4, <2>1, <2>2, <2>6 DEF Inv
<1>5. CASE ~committing /\ Go(p, "op") /\ outstanding' = outstanding + 1
  <2>1. pc' = [pc EXCEPT ![p] = "op"] /\ pc' \in [Proc -> Labels]
    BY <1>2, <1>5 DEF Go, Labels, InOp
  <2>2. Ops' = Ops \cup {p} /\ Committers' = Committers
    BY <1>1, <1>2, <2>1 DEF Ops, Committers, InOp, InCommit
  <2>3. Ops \in SUBSET Proc
    BY DEF Ops
  <2>4. outstanding' = Cardinality(Ops') /\ outstanding' > 0
    BY <1>3, <1>5, <2>2, <2>3, CountOps DEF Inv
  <2>5. \A q \in Proc : /\ pc'[q] # "down" /\ pc'[q] \notin InRecovery
                        /\ pc'[q] = "commit_end" => pc[q] = "commit_end"
    BY <1>2, <2>1 DEF Running, InRecovery
  <2>6. SleepersWoken'
    BY <2>4 DEF SleepersWoken
  <2>7. Running'
    BY <1>1, <1>2, <1>5, <2>2, <2>5, <2>6 DEF Running
  <2> QED
    BY <1>1, <1>2, <2>1, <2>4, <2>7 DEF Inv
<1> QED
  BY <1>1, <1>4, <1>5

\* wakeup(&log) moves every sleeper back to begin_op.
LEMMA WakeupAll ==
  ASSUME NEW f \in [Proc -> Labels]
  PROVE  /\ Wakeup(f) \in [Proc -> Labels]
         /\ \A q \in Proc : /\ Wakeup(f)[q] # "asleep"
                            /\ Wakeup(f)[q] = f[q] \/ (f[q] = "asleep" /\ Wakeup(f)[q] = "begin")
  BY DEF Wakeup, Labels

LEMMA EndStep ==
  ASSUME Inv, NEW p \in Proc, end_op(p)
  PROVE  Inv'
<1>1. /\ pc[p] = "op" /\ UNCHANGED <<lh, booted>> /\ outstanding' = outstanding - 1
      /\ \/ outstanding = 1 /\ committing' = TRUE /\ Go(p, "commit")
         \/ outstanding # 1 /\ committing' = committing /\ pc' = Wakeup([pc EXCEPT ![p] = "user"])
  BY DEF end_op, At, power
<1>2. booted /\ Running /\ pc \in [Proc -> Labels]
  BY <1>1, Booted DEF Inv, BootLabels
<1>3. p \in Ops /\ p \notin Committers /\ Ops \in SUBSET Proc /\ Ops \ {p} \in SUBSET Proc
  BY <1>1 DEF Ops, Committers, InOp, InCommit
<1>4. ~committing /\ Committers = {}
  BY <1>2, <1>3 DEF Running
<1>5. Cardinality(Ops \ {p}) = outstanding - 1 /\ (outstanding - 1 = 0 <=> Ops \ {p} = {}) /\ outstanding \in Nat
  BY <1>3, CountOps DEF Inv
<1>6. CASE outstanding = 1 /\ committing' = TRUE /\ Go(p, "commit")
  <2>1. pc' = [pc EXCEPT ![p] = "commit"] /\ pc' \in [Proc -> Labels]
    BY <1>2, <1>6 DEF Go, Labels, InCommit
  <2>2. Ops' = Ops \ {p} /\ Committers' = {p}
    BY <1>2, <1>4, <2>1 DEF Ops, Committers, InOp, InCommit
  <2>3. Ops' = {}
    BY <1>5, <1>6, <2>2
  <2>4. \A q \in Proc : pc'[q] # "down" /\ pc'[q] \notin InRecovery /\ pc'[q] # "commit_end"
    BY <1>2, <1>4, <2>1 DEF Running, InRecovery, Committers, InCommit
  <2>5. Running'
    BY <1>6, <2>2, <2>3, <2>4 DEF Running, SleepersWoken
  <2> QED
    BY <1>1, <1>2, <1>5, <1>6, <2>1, <2>2, <2>5 DEF Inv
<1>7. CASE outstanding # 1 /\ committing' = committing /\ pc' = Wakeup([pc EXCEPT ![p] = "user"])
  <2>1. PICK f \in [Proc -> Labels] : f = [pc EXCEPT ![p] = "user"]
    BY <1>2 DEF Labels
  <2>2. /\ pc' \in [Proc -> Labels]
        /\ \A q \in Proc : /\ pc'[q] # "asleep"
                           /\ pc'[q] = f[q] \/ (f[q] = "asleep" /\ pc'[q] = "begin")
    BY <1>7, <2>1, WakeupAll
  <2>3. f[p] = "user" /\ \A q \in Proc \ {p} : f[q] = pc[q]
    BY <1>2, <2>1
  <2>4. Ops' = Ops \ {p} /\ Committers' = {}
    BY <1>4, <2>2, <2>3 DEF Ops, Committers, InOp, InCommit
  <2>5. Ops' # {}
    BY <1>5, <1>7, <2>4
  <2>6. \A q \in Proc : pc'[q] # "down" /\ pc'[q] \notin InRecovery /\ pc'[q] # "commit_end"
    BY <1>2, <1>4, <2>2, <2>3 DEF Running, InRecovery, Committers, InCommit
  <2>7. Running'
    BY <1>4, <1>7, <2>2, <2>4, <2>5, <2>6 DEF Running, SleepersWoken
  <2> QED
    BY <1>1, <1>2, <1>4, <1>5, <1>7, <2>2, <2>4, <2>7 DEF Inv
<1> QED
  BY <1>1, <1>6, <1>7

LEMMA CommitEndStep ==
  ASSUME Inv, NEW p \in Proc, commit_end(p)
  PROVE  Inv'
<1>1. /\ pc[p] = "commit_end" /\ UNCHANGED <<lh, outstanding, booted>> /\ committing' = FALSE
      /\ pc' = Wakeup([pc EXCEPT ![p] = "user"])
  BY DEF commit_end, At, power
<1>2. booted /\ Running /\ pc \in [Proc -> Labels]
  BY <1>1, Booted DEF Inv, BootLabels
<1>3. Committers = {p} /\ Ops = {} /\ lh = <<>>
  BY <1>1, <1>2 DEF Running, Committers, InCommit
<1>4. PICK f \in [Proc -> Labels] : f = [pc EXCEPT ![p] = "user"]
  BY <1>2 DEF Labels
<1>5. pc' \in [Proc -> Labels]
  BY <1>1, <1>4, WakeupAll
<1>6. \A q \in Proc : pc'[q] # "asleep" /\ (pc'[q] = f[q] \/ pc'[q] = "begin")
  BY <1>1, <1>4, WakeupAll
<1>7. f[p] = "user" /\ \A q \in Proc \ {p} : f[q] = pc[q] /\ pc[q] \notin InOp \cup InCommit
  BY <1>2, <1>3, <1>4 DEF Ops, Committers
<1>8. \A q \in Proc : pc'[q] # "down" /\ pc'[q] \notin InRecovery \cup InOp \cup InCommit
  BY <1>2, <1>6, <1>7 DEF Running, InRecovery, InOp, InCommit
<1>9. Ops' = {} /\ Committers' = {}
  BY <1>8 DEF Ops, Committers
<1>10. \A q \in Proc : pc'[q] # "commit_end"
  BY <1>8 DEF InCommit
<1>11. Running'
  BY <1>1, <1>3, <1>6, <1>8, <1>9, <1>10 DEF Running, SleepersWoken
<1> QED
  BY <1>1, <1>2, <1>3, <1>5, <1>9, <1>11 DEF Inv

LEMMA HeadStep ==
  ASSUME Inv, NEW p \in Proc, write_head_Return(p)
  PROVE  Inv'
<1> USE DEF At, Labels, InOp, InCommit, InRecovery, BootLabels, log
<1>1. /\ pc[p] = "wh_done" /\ UNCHANGED <<lh, outstanding, committing>>
      /\ \/ lh # <<>> /\ Go(p, "install") /\ UNCHANGED booted
         \/ lh = <<>> /\ booted /\ Go(p, "commit_end") /\ UNCHANGED booted
         \/ lh = <<>> /\ ~booted /\ pc' = [q \in Proc |-> "user"] /\ booted' = TRUE
  BY DEF write_head_Return
<1>2. CASE Go(p, "install") /\ UNCHANGED booted
  BY <1>1, <1>2, Moves
<1>3. CASE lh = <<>> /\ booted /\ Go(p, "commit_end") /\ UNCHANGED booted
  BY <1>1, <1>3, Moves
<1>4. CASE lh = <<>> /\ ~booted /\ pc' = [q \in Proc |-> "user"] /\ booted' = TRUE
  <2>1. Booting0
    BY <1>4 DEF Inv
  <2>2. Ops = {} /\ ~committing
    BY <2>1 DEF Booting0, Ops
  <2>3. Ops' = {} /\ Committers' = {}
    BY <1>4 DEF Ops, Committers
  <2>4. Running'
    BY <1>1, <1>4, <2>2, <2>3 DEF Running, SleepersWoken
  <2>5. outstanding' = Cardinality(Ops')
    BY <1>1, <2>2, <2>3 DEF Inv
  <2> QED
    BY <1>1, <1>4, <2>2, <2>4, <2>5 DEF Inv
<1> QED
  BY <1>1, <1>2, <1>3, <1>4

\* The machine is switched on, for the first time or again.
LEMMA SwitchedOn ==
  pc = Booting /\ outstanding = 0 /\ committing = FALSE /\ booted = FALSE => Inv
<1> SUFFICES ASSUME pc = Booting, outstanding = 0, committing = FALSE, booted = FALSE
             PROVE  Inv
  OBVIOUS
<1>1. pc \in [Proc -> Labels] /\ Booting0
  BY DEF Booting, Booting0, BootLabels, Labels, InRecovery
<1>2. Ops = {}
  BY DEF Ops, Booting, InOp
<1>3. outstanding = Cardinality(Ops)
  BY <1>2, FS_EmptySet
<1> QED
  BY <1>1, <1>3 DEF Inv

LEMMA CrashStep ==
  ASSUME Crash
  PROVE  Inv'
<1>1. /\ pc' = [p \in Proc |-> IF p = 1 THEN "boot" ELSE "down"]
      /\ outstanding' = 0 /\ committing' = FALSE /\ booted' = FALSE
  BY DEF Crash, Booting
<1>2. pc' \in [Proc -> Labels] /\ Booting0'
  BY <1>1 DEF Booting0, BootLabels, Labels, InRecovery
<1>3. Ops' = {}
  BY <1>1 DEF Ops, InOp
<1>4. outstanding' = Cardinality(Ops')
  BY <1>1, <1>3, FS_EmptySet
<1> QED
  BY <1>1, <1>2, <1>4 DEF Inv

LEMMA SameLog ==
  ASSUME Inv, UNCHANGED <<pc, lh, outstanding, committing, booted>>
  PROVE  Inv'
  BY DEF Inv, Running, Booting0, Ops, Committers, SleepersWoken

LEMMA NextInv == Inv /\ [Next]_vars => Inv'
<1> SUFFICES ASSUME Inv, [Next]_vars
             PROVE  Inv'
  OBVIOUS
<1>1. CASE UNCHANGED vars
  BY <1>1, SameLog DEF vars, log, power
<1>2. CASE Disk
  BY <1>2, SameLog DEF Disk, log, power
<1>3. CASE Crash
  BY <1>3, CrashStep
<1>4. ASSUME NEW p \in Proc, SystemCall(p)
      PROVE  Inv'
  BY <1>4, SystemCallStep
<1>5. ASSUME NEW p \in Proc, Kernel(p)
      PROVE  Inv'
  <2>1. CASE Bio(p)
    BY <2>1, SameLog DEF Bio, log, power
  <2>2. CASE begin_op(p)
    BY <2>2, BeginStep
  <2>3. CASE end_op(p)
    BY <2>3, EndStep
  <2>4. CASE commit_end(p)
    BY <2>4, CommitEndStep
  <2>5. CASE write_head_Return(p)
    BY <2>5, HeadStep
  <2> QED
    BY <1>5, <2>1, <2>2, <2>3, <2>4, <2>5, InsideStep DEF Kernel, Commit
<1> QED
  BY <1>1, <1>2, <1>3, <1>4, <1>5 DEF Next
-----------------------------------------------------------------------------
\* A process that begin_op has put to sleep waits for an operation or a commit
\* that is under way and that wakes it at its end: there is room for one
\* operation in an empty log.
THEOREM RoomReturns == Spec => []SleepersWoken
<1>1. Init => Inv
  BY SwitchedOn DEF Init
<1>2. Inv => SleepersWoken
  BY DEF Inv, Booting0, Running, SleepersWoken, BootLabels
<1> QED
  BY <1>1, <1>2, NextInv, PTL DEF Spec

\* While end_op commits, no process is between begin_op and end_op, so nothing is
\* added to the list that commit writes, and no second process commits.
THEOREM CommitsAlone == Spec => [](committing => Ops = {} /\ \A p, q \in Committers : p = q)
<1>1. Init => Inv
  BY SwitchedOn DEF Init
<1>2. Inv => (committing => Ops = {} /\ \A p, q \in Committers : p = q)
  BY DEF Inv, Booting0, Running
<1> QED
  BY <1>1, <1>2, NextInv, PTL DEF Spec
=============================================================================
