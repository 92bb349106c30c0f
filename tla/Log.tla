-------------------------------- MODULE Log ---------------------------------
(***************************************************************************)
(* log.c over the buffer cache: file system operations between begin_op    *)
(* and end_op, the group commit by whichever process ends last, a power    *)
(* failure at any moment, and the recovery the first process runs at boot. *)
(* Reads outside an operation and swap traffic use the same buffers.       *)
(***************************************************************************)
EXTENDS BufferCache

CONSTANTS Home,         \* blocks of the file system proper
          Swap,         \* blocks of the swap area
          Values, Zero, \* what a block can hold, and what mkfs leaves in it
          MAXOPBLOCKS, LOGSIZE,
          MaxCalls,     \* system calls a process makes
          MaxCrashes

Header == 0
LogBlock(i) == Header + i

(* log.size counts the header block: mkfs sets nlog to LOGSIZE. *)
LogArea == {LogBlock(i) : i \in 1 .. LOGSIZE - 1}

ASSUME LogAssumption ==
  /\ Blocks = {Header} \cup LogArea \cup Home \cup Swap
  /\ Zero \in Values
  /\ MAXOPBLOCKS \in Nat \ {0} /\ LOGSIZE \in Nat /\ LOGSIZE > MAXOPBLOCKS
  /\ MaxCalls \in Nat /\ MaxCrashes \in Nat
  /\ IsFiniteSet(Proc) /\ 1 \in Proc /\ Nobody \notin Proc

VARIABLES lh,           \* log.lh: the blocks logged so far
          outstanding, committing,
          tail,         \* the loop counter of the process that commits
          pc,
          wrote,        \* blocks written by the current operation of a process
          calls,        \* system calls made by each process
          booted, crashes

log == <<lh, outstanding, committing>>
user == <<wrote, calls>>
power == <<booted, crashes>>
vars == <<bio, log, user, power, tail, pc>>

InCommit == {"commit", "write_log", "wl_from", "wl_copy", "wl_done", "wh_fill", "wh_done",
             "install", "it_dst", "it_copy", "it_done", "commit_end"}
InRecovery == {"boot", "read_head"}
InOp == {"op", "modify", "logging"}
Labels == {"down", "user", "begin", "asleep", "look", "swap", "swapped"}
            \cup InOp \cup InCommit \cup InRecovery

Go(p, label) == pc' = [pc EXCEPT ![p] = label]
At(p, label) == pc[p] = label /\ call[p].wait = "nothing"

(* wakeup(&log) *)
Wakeup(f) == [q \in Proc |-> IF f[q] = "asleep" THEN "begin" ELSE f[q]]

Booting == [p \in Proc |-> IF p = 1 THEN "boot" ELSE "down"]
Zeros == [p \in Proc |-> 0]

(* The disk as mkfs leaves it, and the machine just switched on. *)
Init == /\ disk = [b \in Blocks |-> IF b = Header THEN <<>> ELSE Zero]
        /\ binit
        /\ lh = <<>> /\ outstanding = 0 /\ committing = FALSE /\ tail = 0
        /\ pc = Booting /\ wrote = Zeros /\ calls = Zeros
        /\ booted = FALSE /\ panicked = FALSE /\ crashes = 0
-----------------------------------------------------------------------------
(* System calls. *)

Call(p, label) ==
  /\ At(p, "user") /\ calls[p] < MaxCalls
  /\ calls' = [calls EXCEPT ![p] = @ + 1]
  /\ Go(p, label)

EnterOp(p) == /\ Call(p, "begin")
              /\ UNCHANGED <<bio, log, wrote, power, tail>>

(* readi outside an operation, and write_page_to_swap. *)
ReadFile(p) == /\ Call(p, "look")
               /\ \E b \in Home : bread(p, b)
               /\ UNCHANGED <<log, wrote, power, tail>>
WriteSwap(p) == /\ Call(p, "swap")
                /\ \E b \in Swap : bread(p, b)
                /\ UNCHANGED <<log, wrote, power, tail>>

Look(p) == /\ At(p, "look")
           /\ brelse(p, {call[p].block})
           /\ Go(p, "user")
           /\ UNCHANGED <<log, user, power, tail>>

WriteSwapBlock(p) == /\ At(p, "swap")
                     /\ bwrite(p, call[p].block, Zero)
                     /\ Go(p, "swapped")
                     /\ UNCHANGED <<log, user, power, tail>>
SwapBlockWritten(p) == /\ At(p, "swapped")
                       /\ brelse(p, {call[p].block})
                       /\ Go(p, "user")
                       /\ UNCHANGED <<log, user, power, tail>>
-----------------------------------------------------------------------------
(* begin_op: this operation might exhaust the log. *)
NoRoom == Len(lh) + (outstanding + 1) * MAXOPBLOCKS > LOGSIZE

begin_op_DuringCommit(p) ==
  /\ At(p, "begin")
  /\ IF NoRoom
     THEN Go(p, "asleep") /\ UNCHANGED outstanding
     ELSE Go(p, "op") /\ outstanding' = outstanding + 1
  /\ wrote' = [wrote EXCEPT ![p] = 0]
  /\ UNCHANGED <<bio, lh, committing, calls, power, tail>>
begin_op(p) ==
  /\ At(p, "begin")
  /\ IF committing \/ NoRoom
     THEN Go(p, "asleep") /\ UNCHANGED outstanding
     ELSE Go(p, "op") /\ outstanding' = outstanding + 1
  /\ wrote' = [wrote EXCEPT ![p] = 0]
  /\ UNCHANGED <<bio, lh, committing, calls, power, tail>>

(* An operation reads a block it is about to change. *)
ReadBlock(p) ==
  /\ At(p, "op") /\ wrote[p] < MAXOPBLOCKS
  /\ \E b \in Home : bread(p, b)
  /\ wrote' = [wrote EXCEPT ![p] = @ + 1]
  /\ Go(p, "modify")
  /\ UNCHANGED <<log, calls, power, tail>>

(* Log absorption: a block already in the log keeps its place. *)
Logged(b) == lh' = IF b \in ToSet(lh) THEN lh ELSE Append(lh, b)

(* Change the block, and the tests log_write makes before it takes         *)
(* log.lock: what they find may have changed when the block is appended.   *)
log_write(p) ==
  LET b == call[p].block IN
  /\ At(p, "modify")
  /\ \E x \in Values : bcache' = [bcache EXCEPT ![b].data = x]
  /\ panicked' = (Len(lh) >= LOGSIZE - 1 \/ outstanding < 1)
  /\ Go(p, "logging")
  /\ UNCHANGED <<disk, idequeue, call, log, user, power, tail>>

(* The rest of log_write, under log.lock, and the caller's brelse, which   *)
(* only gives up a lock.                                                   *)
log_write_Append(p) ==
  LET b == call[p].block IN
  /\ At(p, "logging")
  /\ bcache' = [Released({b}) EXCEPT ![b].dirty = TRUE]
  /\ Logged(b)
  /\ panicked' = ~Holds(p, b)
  /\ call' = [call EXCEPT ![p] = NoCall]
  /\ Go(p, "op")
  /\ UNCHANGED <<disk, idequeue, outstanding, committing, user, power, tail>>

end_op(p) ==
  /\ At(p, "op")
  /\ panicked' = committing
  /\ outstanding' = outstanding - 1
  /\ IF outstanding = 1
     THEN committing' = TRUE /\ Go(p, "commit")
     ELSE UNCHANGED committing /\ pc' = Wakeup([pc EXCEPT ![p] = "user"])
  /\ UNCHANGED <<disk, bcache, idequeue, call, lh, user, power, tail>>

commit_end_NoWakeup(p) ==
  /\ At(p, "commit_end")
  /\ committing' = FALSE
  /\ pc' = [pc EXCEPT ![p] = "user"]
  /\ UNCHANGED <<bio, lh, outstanding, user, power, tail>>
(* end_op, after commit() has returned. *)
commit_end(p) ==
  /\ At(p, "commit_end")
  /\ committing' = FALSE
  /\ pc' = Wakeup([pc EXCEPT ![p] = "user"])
  /\ UNCHANGED <<bio, lh, outstanding, user, power, tail>>
-----------------------------------------------------------------------------
commit(p) ==
  /\ At(p, "commit")
  /\ IF lh # <<>> THEN Go(p, "write_log") ELSE Go(p, "commit_end")
  /\ tail' = 0
  /\ UNCHANGED <<bio, log, user, power>>

write_log_OneShort(p) ==
  /\ At(p, "write_log")
  /\ IF tail < Len(lh) - 1
     THEN bread(p, LogBlock(tail + 1)) /\ Go(p, "wl_from")
     ELSE bread(p, Header) /\ Go(p, "wh_fill")
  /\ UNCHANGED <<log, user, power, tail>>
(* write_log: the next log block, then the cached block to copy into it. *)
write_log(p) ==
  /\ At(p, "write_log")
  /\ IF tail < Len(lh)
     THEN bread(p, LogBlock(tail + 1)) /\ Go(p, "wl_from")
     ELSE bread(p, Header) /\ Go(p, "wh_fill")
  /\ UNCHANGED <<log, user, power, tail>>
write_log_From(p) ==
  /\ At(p, "wl_from")
  /\ bread(p, lh[tail + 1])
  /\ Go(p, "wl_copy")
  /\ UNCHANGED <<log, user, power, tail>>
write_log_Copy(p) ==
  /\ At(p, "wl_copy")
  /\ bwrite(p, LogBlock(tail + 1), bcache[lh[tail + 1]].data)
  /\ Go(p, "wl_done")
  /\ UNCHANGED <<log, user, power, tail>>
write_log_Next_Leak(p) ==
  /\ At(p, "wl_done")
  /\ brelse(p, {LogBlock(tail + 1)})
  /\ tail' = tail + 1
  /\ Go(p, "write_log")
  /\ UNCHANGED <<log, user, power>>
write_log_Next(p) ==
  /\ At(p, "wl_done")
  /\ brelse(p, {LogBlock(tail + 1), lh[tail + 1]})
  /\ tail' = tail + 1
  /\ Go(p, "write_log")
  /\ UNCHANGED <<log, user, power>>

(* write_head: the header block gets the current list. *)
write_head(p) ==
  /\ At(p, "wh_fill")
  /\ bwrite(p, Header, lh)
  /\ Go(p, "wh_done")
  /\ UNCHANGED <<log, user, power, tail>>

(* After write_head: install what was committed, or all is done. *)
write_head_Return(p) ==
  /\ At(p, "wh_done")
  /\ brelse(p, {Header})
  /\ tail' = 0
  /\ IF lh # <<>> THEN Go(p, "install") /\ UNCHANGED booted
     ELSE IF booted THEN Go(p, "commit_end") /\ UNCHANGED booted
     ELSE pc' = [q \in Proc |-> "user"] /\ booted' = TRUE
  /\ UNCHANGED <<log, user, crashes>>

(* install_trans; when it is done the caller sets log.lh.n to 0.  The      *)
(* source block comes from the log, the destination is the home block.     *)
install_trans(p) ==
  /\ At(p, "install")
  /\ IF tail < Len(lh)
     THEN bread(p, LogBlock(tail + 1)) /\ Go(p, "it_dst") /\ UNCHANGED lh
     ELSE bread(p, Header) /\ Go(p, "wh_fill") /\ lh' = <<>>
  /\ UNCHANGED <<outstanding, committing, user, power, tail>>
install_trans_To(p) ==
  /\ At(p, "it_dst")
  /\ bread(p, lh[tail + 1])
  /\ Go(p, "it_copy")
  /\ UNCHANGED <<log, user, power, tail>>
install_trans_Copy(p) ==
  /\ At(p, "it_copy")
  /\ bwrite(p, lh[tail + 1], bcache[LogBlock(tail + 1)].data)
  /\ Go(p, "it_done")
  /\ UNCHANGED <<log, user, power, tail>>
install_trans_Next(p) ==
  /\ At(p, "it_done")
  /\ brelse(p, {LogBlock(tail + 1), lh[tail + 1]})
  /\ tail' = tail + 1
  /\ Go(p, "install")
  /\ UNCHANGED <<log, user, power>>
-----------------------------------------------------------------------------
(* recover_from_log, run by the first process before any other. *)
recover_from_log(p) ==
  /\ At(p, "boot")
  /\ bread(p, Header)
  /\ Go(p, "read_head")
  /\ UNCHANGED <<log, user, power, tail>>
read_head(p) ==
  /\ At(p, "read_head")
  /\ lh' = bcache[Header].data
  /\ brelse(p, {Header})
  /\ Go(p, "install")
  /\ UNCHANGED <<outstanding, committing, user, power, tail>>

(* A power failure, and the machine is switched on again. *)
Crash == /\ crashes < MaxCrashes
         /\ crashes' = crashes + 1
         /\ bcache' = <<>> /\ idequeue' = <<>> /\ call' = [p \in Proc |-> NoCall]
         /\ lh' = <<>> /\ outstanding' = 0 /\ committing' = FALSE /\ tail' = 0
         /\ pc' = Booting /\ wrote' = Zeros
         /\ booted' = FALSE
         /\ UNCHANGED <<disk, panicked, calls>>

Bio(p) == Lock(p) /\ UNCHANGED <<log, user, power, tail, pc>>
Disk == ideintr /\ UNCHANGED <<log, user, power, tail, pc>>

SystemCall(p) == EnterOp(p) \/ ReadFile(p) \/ WriteSwap(p)
Commit(p) ==
  \/ commit(p) \/ write_log(p) \/ write_log_From(p) \/ write_log_Copy(p) \/ write_log_Next(p)
  \/ write_head(p) \/ write_head_Return(p)
  \/ install_trans(p) \/ install_trans_To(p) \/ install_trans_Copy(p) \/ install_trans_Next(p)
Kernel(p) ==
  \/ Bio(p) \/ Look(p) \/ WriteSwapBlock(p) \/ SwapBlockWritten(p)
  \/ begin_op(p) \/ ReadBlock(p) \/ log_write(p) \/ log_write_Append(p)
  \/ end_op(p) \/ commit_end(p)
  \/ Commit(p) \/ recover_from_log(p) \/ read_head(p)

Next == /\ ~panicked
        /\ \/ \E p \in Proc : SystemCall(p) \/ Kernel(p)
           \/ Disk
           \/ Crash

(* The round-robin scheduler runs every runnable process again and again,  *)
(* and the disk answers; nothing makes a program call the kernel.          *)
Fairness == WF_vars(Disk /\ ~panicked) /\ \A p \in Proc : WF_vars(Kernel(p) /\ ~panicked)
Spec == Init /\ [][Next]_vars /\ Fairness
-----------------------------------------------------------------------------
(* Types: bget and brelse keep the reference counts of buffers, iderw      *)
(* queues only cached blocks, and log_write logs only home blocks.         *)
LTypeOK ==
  /\ DOMAIN bcache \subseteq Blocks /\ DOMAIN disk = Blocks
  /\ \A b \in DOMAIN bcache : bcache[b].lock \in Proc \cup {Nobody} /\ bcache[b].refcnt \in Nat
  /\ ToSet(idequeue) \subseteq DOMAIN bcache
  /\ ToSet(lh) \subseteq Home /\ outstanding \in Nat /\ committing \in BOOLEAN
  /\ pc \in [Proc -> Labels]

(* No panic of bio.c, ide.c or log.c is reached: bget always finds a       *)
(* buffer to recycle, every bwrite and brelse holds the lock, and no       *)
(* operation ends during a commit.  This is for home blocks that all fit   *)
(* in the log: begin_op reserves LOGSIZE blocks, one more than log_write   *)
(* accepts, so with more home blocks "too big a transaction" is reached.   *)
NoLogPanic == ~panicked

(* A process sleeps in begin_op only while somebody is going to wake it:   *)
(* an operation is under way or a commit is.                               *)
SleepersWoken == \A p \in Proc : pc[p] = "asleep" => outstanding > 0 \/ committing

(* The contents of the home blocks the next boot will leave on the disk.   *)
Recovered ==
  [b \in Home |-> IF b \in ToSet(disk[Header])
                  THEN disk[LogBlock(CHOOSE i \in DOMAIN disk[Header] : disk[Header][i] = b)]
                  ELSE disk[b]]
Current == [b \in Home |-> IF Cached(b) /\ bcache[b].valid THEN bcache[b].data ELSE disk[b]]

TX == INSTANCE Transactions WITH
        durable <- Recovered,
        latest <- IF booted THEN Current ELSE Recovered,
        active <- {p \in Proc : pc[p] \in InOp}

(* log.c implements Transactions: whatever the moment of a power failure,  *)
(* recovery finds all the writes of a set of finished operations and none  *)
(* of any other, and what an operation has written stays in the cache      *)
(* until it is on the disk.                                                *)
AllOrNothing == TX!Spec

(* Every system call returns, and every boot completes: no process waits   *)
(* for ever for a buffer, for the disk or for room in the log.  Programs   *)
(* make MaxCalls calls, so nobody is overtaken for ever at a sleep lock.   *)
CallsReturn == \A p \in Proc : pc[p] # "user" ~> pc[p] = "user"
=============================================================================
