-------------------------------- MODULE Pipe --------------------------------
(***************************************************************************)
(* pipe.c over the process table, with the reference counts of file.c: one *)
(* pipe, made by the first program and inherited over fork by others that  *)
(* read, write, close, wait, kill one another and exit in any order.       *)
(*                                                                         *)
(* pipewrite and piperead hold the pipe's spin lock, and with it the CPU,  *)
(* from one sleep to the next: each such stretch is one step.              *)
(***************************************************************************)
EXTENDS Procs, Sequences

CONSTANTS PIPESIZE,
          UINT,         \* nread and nwrite count modulo UINT
          ReadSizes,    \* the counts read is called with
          WriteSizes    \* the counts write is called with

ASSUME PipeAssumption ==
  /\ PIPESIZE \in Nat \ {0} /\ UINT \in Nat /\ UINT % PIPESIZE = 0 /\ UINT > PIPESIZE
  /\ ReadSizes \subseteq Nat \ {0} /\ WriteSizes \subseteq Nat \ {0}

VARIABLES pipe,       \* struct pipe, with the history field untold: it holds
                      \* bytes that sleeping readers were not woken for
          page,       \* whether the page it lives in is allocated
          ref,        \* file.ref of the two files
          ofile,      \* the ends each process has open
          closing,    \* the end whose last reference a process has dropped
          pc, left,   \* where a process is, and bytes it has still to write
          got         \* what a piperead that returns in this step has copied

file == <<page, ref, ofile, closing>>
vars == <<ptable, pipe, file, pc, left, got>>

Ends == {"r", "w"}
NoEnd == "none"
nread == -1           \* the channels &p->nread and &p->nwrite
nwrite == -2

Count == (pipe.nwrite - pipe.nread) % UINT
Full == pipe.nwrite = (pipe.nread + PIPESIZE) % UINT
Room_OneMore == PIPESIZE - Count + 1
Room == PIPESIZE - Count
Empty == pipe.nread = pipe.nwrite
Slot(n) == (n % UINT) % PIPESIZE
Smaller(a, b) == IF a < b THEN a ELSE b

(* init.c waits again as soon as wait returns.  (When it has no child left *)
(* it starts another shell, which is left out: the machine is then idle.)  *)
AfterWait(p) == IF p = initproc THEN "wait" ELSE "user"

Init == /\ ptable = [p \in Proc |-> IF p = initproc THEN Child(0)
                                    ELSE IF p = 2 THEN Child(initproc) ELSE Free]
        /\ pipe = [data |-> [i \in 0 .. PIPESIZE - 1 |-> 0], nread |-> 0, nwrite |-> 0,
                   readopen |-> FALSE, writeopen |-> FALSE, untold |-> FALSE]
        /\ page = "none"
        /\ ref = [e \in Ends |-> 0] /\ ofile = [p \in Proc |-> {}]
        /\ closing = [p \in Proc |-> NoEnd]
        /\ pc = [p \in Proc |-> AfterWait(p)] /\ left = [p \in Proc |-> 0]
        /\ got = {}
-----------------------------------------------------------------------------
(* A program about to make a system call; trap() sends a killed one to     *)
(* exit instead.                                                           *)
InUser(p) == Runs(p) /\ pc[p] = "user" /\ closing[p] = NoEnd
Calls(p) == InUser(p) /\ ~ptable[p].killed
Go(p, label) == pc' = [pc EXCEPT ![p] = label]

(* sys_pipe; when it fails it gives everything back. *)
sys_pipe(p) ==
  /\ Calls(p) /\ page = "none"
  /\ page' = "live"
  /\ pipe' = [pipe EXCEPT !.readopen = TRUE, !.writeopen = TRUE, !.nread = 0, !.nwrite = 0]
  /\ ref' = [e \in Ends |-> 1]
  /\ ofile' = [ofile EXCEPT ![p] = Ends]
  /\ UNCHANGED <<ptable, closing, pc, left>>

filedup_Not(es) == ref
filedup(es) == [e \in Ends |-> IF e \in es THEN ref[e] + 1 ELSE ref[e]]

(* fork, with filedup of every open file. *)
Fork(p) ==
  /\ Calls(p)
  /\ \E q \in Proc :
       /\ ptable[q].state = "UNUSED"
       /\ ptable' = fork(ptable, p, q)
       /\ ofile' = [ofile EXCEPT ![q] = ofile[p]]
       /\ ref' = filedup(ofile[p])
  /\ UNCHANGED <<pipe, page, closing, pc, left>>

(* Killing a dead process sets a flag nobody reads again.  No program      *)
(* kills init, which would panic in exit.                                  *)
Kill(p) == /\ Calls(p)
           /\ \E q \in Proc \ {initproc} :
                /\ ptable[q].state \in {"RUNNABLE", "SLEEPING"}
                /\ ptable' = kill(ptable, q)
           /\ UNCHANGED <<pipe, file, pc, left>>

(* A read or write enters the kernel; a tick may come before it takes the  *)
(* lock of the pipe.  The count of a read only matters when it copies.     *)
Read(p) == /\ Calls(p) /\ "r" \in ofile[p]
           /\ Go(p, "read")
           /\ UNCHANGED <<ptable, pipe, file, left>>
Write(p) == /\ Calls(p) /\ "w" \in ofile[p]
            /\ \E n \in WriteSizes : left' = [left EXCEPT ![p] = n]
            /\ Go(p, "write")
            /\ UNCHANGED <<ptable, pipe, file>>
WaitCall(p) == Calls(p) /\ Go(p, "wait") /\ UNCHANGED <<ptable, pipe, file, left>>
ExitCall(p) == Calls(p) /\ Go(p, "exit") /\ UNCHANGED <<ptable, pipe, file, left>>
-----------------------------------------------------------------------------
(* The part addr[i] .. addr[n-1] of a writer's buffer, of which n bytes are *)
(* left.  The code never looks at a byte, so it is enough that those of one *)
(* call differ: each is known by its distance from the end of the buffer.  *)
Addr(n) == [j \in 1 .. n |-> n - j + 1]

Stored_NextSlot(s) ==
  [i \in DOMAIN pipe.data |->
     LET hits == {j \in DOMAIN s : Slot(pipe.nwrite + j) = i} IN
     IF hits = {} THEN pipe.data[i] ELSE s[CHOOSE j \in hits : TRUE]]
Stored(s) ==
  [i \in DOMAIN pipe.data |->
     LET hits == {j \in DOMAIN s : Slot(pipe.nwrite + j - 1) = i} IN
     IF hits = {} THEN pipe.data[i] ELSE s[CHOOSE j \in hits : TRUE]]

(* Write until all is written or the pipe is full.  A full pipe nobody can *)
(* read, or a killed writer, ends the call without waking the readers.     *)
pipewrite(p) ==
  LET k == Smaller(left[p], Room)
      rest == left[p] - k
      gives_up == rest > 0 /\ (~pipe.readopen \/ ptable[p].killed)
  IN
  /\ pc[p] = "write"
  /\ pipe' = [pipe EXCEPT !.data = Stored(SubSeq(Addr(left[p]), 1, k)), !.nwrite = (@ + k) % UINT,
                          !.untold = gives_up /\ (@ \/ \E q \in Proc : Sleeps(q, nread))]
  /\ left' = [left EXCEPT ![p] = IF gives_up THEN 0 ELSE rest]
  /\ ptable' = IF gives_up THEN ptable
               ELSE IF rest = 0 THEN wakeup1(ptable, nread)
               ELSE sleep(wakeup1(ptable, nread), p, nwrite)
  /\ IF gives_up \/ rest = 0 THEN Go(p, "user") ELSE UNCHANGED pc
  /\ UNCHANGED file

Fetched(k) == [j \in 1 .. k |-> pipe.data[Slot(pipe.nread + j - 1)]]

(* Sleep while there is nothing to read and somebody may write. *)
piperead_Sleeps(p) ==
  /\ pc[p] = "read" /\ Empty /\ pipe.writeopen /\ ~ptable[p].killed
  /\ ptable' = sleep(ptable, p, nread)
  /\ UNCHANGED <<pipe, file, pc, left>>
piperead_Killed(p) ==
  /\ pc[p] = "read" /\ Empty /\ pipe.writeopen /\ ptable[p].killed
  /\ Go(p, "user")
  /\ UNCHANGED <<ptable, pipe, file, left>>
piperead(p) ==
  /\ pc[p] = "read" /\ (~Empty \/ ~pipe.writeopen)
  /\ \E n \in ReadSizes :
       /\ got' = {Fetched(Smaller(n, Count))}
       /\ pipe' = [pipe EXCEPT !.nread = (@ + Smaller(n, Count)) % UINT,
                               !.untold = @ /\ n < Count]
  /\ ptable' = wakeup1(ptable, nwrite)
  /\ Go(p, "user")
  /\ UNCHANGED <<file, left>>
-----------------------------------------------------------------------------
(* fileclose up to the release of ftable.lock. *)
fileclose(p, e) ==
  /\ ref' = [ref EXCEPT ![e] = @ - 1]
  /\ ofile' = [ofile EXCEPT ![p] = @ \ {e}]
  /\ closing' = [closing EXCEPT ![p] = IF ref[e] = 1 THEN e ELSE NoEnd]
  /\ UNCHANGED <<ptable, pipe, page, pc, left>>

Close(p) == Calls(p) /\ \E e \in ofile[p] : fileclose(p, e)

pipeclose(p) ==
  LET shut == IF closing[p] = "w" THEN [pipe EXCEPT !.writeopen = FALSE, !.untold = FALSE]
              ELSE [pipe EXCEPT !.readopen = FALSE]
  IN
  /\ closing[p] # NoEnd
  /\ pipe' = shut
  /\ ptable' = wakeup1(ptable, IF closing[p] = "w" THEN nread ELSE nwrite)
  /\ page' = IF shut.readopen \/ shut.writeopen THEN page ELSE "freed"
  /\ closing' = [closing EXCEPT ![p] = NoEnd]
  /\ UNCHANGED <<ref, ofile, pc, left>>

KilledExits_Never(p) == FALSE /\ UNCHANGED vars
(* trap() on the way back to, or in, user space. *)
KilledExits(p) == /\ InUser(p) /\ ptable[p].killed
                  /\ Go(p, "exit")
                  /\ UNCHANGED <<ptable, pipe, file, left>>

ExitCloses(p) == /\ pc[p] = "exit" /\ closing[p] = NoEnd
                 /\ \E e \in ofile[p] : fileclose(p, e)
Exit(p) == /\ pc[p] = "exit" /\ closing[p] = NoEnd /\ ofile[p] = {}
           /\ ptable' = exit(ptable, p)
           /\ UNCHANGED <<pipe, file, pc, left>>

(* wait: reap a dead child, give up, or sleep. *)
WaitReaps(p) ==
  /\ pc[p] = "wait"
  /\ \E q \in Zombies(ptable, p) :
       /\ ptable' = reap(ptable, q)
       /\ pc' = [pc EXCEPT ![p] = AfterWait(p), ![q] = "user"]
  /\ UNCHANGED <<pipe, file, left>>
WaitFails(p) ==
  /\ pc[p] = "wait" /\ Zombies(ptable, p) = {}
  /\ Children(ptable, p) = {} \/ ptable[p].killed
  /\ Go(p, AfterWait(p))
  /\ UNCHANGED <<ptable, pipe, file, left>>
WaitSleeps(p) ==
  /\ pc[p] = "wait" /\ Zombies(ptable, p) = {}
  /\ Children(ptable, p) # {} /\ ~ptable[p].killed
  /\ ptable' = sleep(ptable, p, p)
  /\ UNCHANGED <<pipe, file, pc, left>>
-----------------------------------------------------------------------------
Program(p) == /\ \/ sys_pipe(p) \/ Fork(p) \/ Kill(p) \/ Read(p) \/ Write(p) \/ Close(p)
                 \/ WaitCall(p) \/ ExitCall(p)
              /\ got' = {}
(* A step inside the kernel of a process the scheduler has picked. *)
Kernel(p) == /\ Runs(p)
             /\ \/ piperead(p)
                \/ /\ \/ pipewrite(p) \/ piperead_Sleeps(p) \/ piperead_Killed(p)
                      \/ pipeclose(p) \/ KilledExits(p) \/ ExitCloses(p) \/ Exit(p)
                      \/ WaitReaps(p) \/ WaitFails(p) \/ WaitSleeps(p)
                   /\ got' = {}

Next == \E p \in Proc : Program(p) \/ Kernel(p)

(* The round-robin scheduler runs every runnable process and timer         *)
(* interrupts bring every program into trap(); no program has to make a    *)
(* call.                                                                   *)
Fairness == \A p \in Proc : WF_vars(Kernel(p))
Spec == Init /\ [][Next]_vars /\ Fairness
-----------------------------------------------------------------------------
Tables == [Proc -> [state : {"UNUSED", "RUNNABLE", "SLEEPING", "ZOMBIE"},
                    chan : Proc \cup {NoChan, nread, nwrite},
                    parent : 0 .. NPROC, killed : BOOLEAN]]
Pipes == [data : [0 .. PIPESIZE - 1 -> Nat], nread : 0 .. UINT - 1, nwrite : 0 .. UINT - 1,
          readopen : BOOLEAN, writeopen : BOOLEAN, untold : BOOLEAN]

(* Types: pipewrite never puts more than PIPESIZE bytes into the pipe,     *)
(* wherever the two counters are.                                          *)
PTypeOK ==
  /\ ptable \in Tables
  /\ pipe \in Pipes /\ Count <= PIPESIZE
  /\ page \in {"none", "live", "freed"}
  /\ ref \in [Ends -> 0 .. NPROC] /\ ofile \in [Proc -> SUBSET Ends]
  /\ closing \in [Proc -> Ends \cup {NoEnd}]
  /\ pc \in [Proc -> {"user", "read", "write", "wait", "exit"}]
  /\ left \in [Proc -> Nat]

(* Nobody sleeps past the event they wait for.  A reader sleeps only while *)
(* somebody may still write; there may be bytes for it only since a writer *)
(* found the pipe full and itself killed, or nobody to read (pipewrite     *)
(* then returns without a wakeup).  A writer sleeps only while the pipe is full and somebody may  *)
(* read, a parent only while it has children and none of them is dead, and *)
(* a killed process does not sleep at all.                                 *)
NoLostWakeup ==
  \A p \in Proc :
    /\ Sleeps(p, nread) => pipe.writeopen /\ (Empty \/ pipe.untold)
    /\ Sleeps(p, nwrite) => pipe.readopen /\ Full
    /\ Sleeps(p, p) => Children(ptable, p) # {} /\ Zombies(ptable, p) = {}
    /\ ptable[p].state = "SLEEPING" => ~ptable[p].killed

(* The pipe stays open for exactly as long as a process has an end or is   *)
(* just closing it, and its page is freed only when no process can be in,  *)
(* or get into, the code of the pipe: no use after kfree in pipeclose.     *)
PageWhileUsed ==
  LET using(e) == \E p \in Proc : e \in ofile[p] \/ closing[p] = e IN
  /\ pipe.readopen <=> using("r")
  /\ pipe.writeopen <=> using("w")
  /\ page = "live" <=> pipe.readopen \/ pipe.writeopen
  /\ \A p \in Proc : /\ pc[p] = "read" => "r" \in ofile[p]
                     /\ pc[p] = "write" => "w" \in ofile[p]

(* A killed process exits, wherever in the kernel the kill finds it. *)
KilledExit ==
  \A p \in Proc \ {initproc} : ptable[p].killed ~> ptable[p].state \in {"ZOMBIE", "UNUSED"}

(* init reaps every dead process handed to it. *)
OrphansReaped ==
  \A p \in Proc \ {initproc} : (ptable[p].state = "ZOMBIE" /\ ptable[p].parent = initproc)
                    ~> ptable[p].state = "UNUSED"
=============================================================================
