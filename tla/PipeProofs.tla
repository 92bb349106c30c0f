----------------------------- MODULE PipeProofs -----------------------------
(***************************************************************************)
(* For every number of processes, every size of the pipe and every width   *)
(* of its counters: the pipe never overflows, its page is freed when and    *)
(* only when nobody can reach it, and nobody sleeps past the event they     *)
(* wait for.                                                               *)
(***************************************************************************)
EXTENDS Pipe, FiniteSetTheorems, TLAPS

Holders(e) == {p \in Proc : e \in ofile[p]}
Uses(p, e) == e \in ofile[p] \/ closing[p] = e

\* Where the processes are: a dead one has closed its files, one that closes a
\* pipe is awake, and a sleeping one is inside the call it sleeps for.
ControlAt(p) ==
  /\ ptable[p].state \in {"UNUSED", "ZOMBIE"} => ofile[p] = {} /\ closing[p] = NoEnd
  /\ ptable[p].state = "UNUSED" => pc[p] = "user" /\ ptable[p].parent = 0
  /\ ptable[p].state = "ZOMBIE" => pc[p] = "exit"
  /\ closing[p] # NoEnd => Runs(p) /\ pc[p] \in {"user", "exit"}
  /\ ptable[p].state = "SLEEPING" => \/ pc[p] = "read" /\ ptable[p].chan = nread
                                     \/ pc[p] = "write" /\ ptable[p].chan = nwrite
                                     \/ pc[p] = "wait" /\ ptable[p].chan = p
  /\ pc[p] = "read" => "r" \in ofile[p]
  /\ pc[p] = "write" => "w" \in ofile[p]
  /\ ptable[p].parent # p
  /\ p = initproc => pc[p] = "wait" /\ ptable[p].parent = 0
Control == \A p \in Proc : ControlAt(p)

\* A file counts its holders; the one process that drops the last reference
\* closes the end, and until then the end is open.
Counted ==
  /\ \A e \in Ends : ref[e] = Cardinality(Holders(e))
  /\ \A p, q \in Proc : closing[p] # NoEnd => /\ Holders(closing[p]) = {}
                                              /\ closing[q] = closing[p] => q = p
  /\ pipe.readopen <=> \E p \in Proc : Uses(p, "r")
  /\ pipe.writeopen <=> \E p \in Proc : Uses(p, "w")
  /\ page = "live" <=> pipe.readopen \/ pipe.writeopen

Inv == PTypeOK /\ Control /\ Counted /\ NoLostWakeup
-----------------------------------------------------------------------------
\* Counters modulo u that are less than u apart.
LEMMA Distance ==
  ASSUME NEW u \in Nat \ {0}, NEW a \in 0 .. u - 1, NEW b \in 0 .. u - 1
  PROVE  (a - b) % u = IF a >= b THEN a - b ELSE a - b + u
<1>1. CASE a >= b
  <2>1. a - b \in 0 .. u - 1
    BY <1>1
  <2> QED
    BY <1>1, <2>1
<1>2. CASE ~(a >= b)
  <2>1. a - b \in -u .. -1
    BY <1>2
  <2>2. \A x \in -u .. -1 : x % u = x + u
    OBVIOUS
  <2> QED
    BY <1>2, <2>1, <2>2
<1> QED
  BY <1>1, <1>2

LEMMA Sum ==
  ASSUME NEW u \in Nat \ {0}, NEW a \in 0 .. u - 1, NEW k \in 0 .. u - 1
  PROVE  (a + k) % u = IF a + k < u THEN a + k ELSE a + k - u
<1>1. CASE a + k < u
  BY <1>1
<1>2. CASE ~(a + k < u)
  <2>1. a + k \in u .. 2 * u - 1
    BY <1>2
  <2>2. \A x \in u .. 2 * u - 1 : x % u = x - u
    OBVIOUS
  <2> QED
    BY <1>2, <2>1, <2>2
<1> QED
  BY <1>1, <1>2

LEMMA CounterTypes ==
  /\ UINT \in Nat \ {0} /\ PIPESIZE \in Nat \ {0} /\ UINT > PIPESIZE
  /\ PTypeOK => pipe.nread \in 0 .. UINT - 1 /\ pipe.nwrite \in 0 .. UINT - 1 /\ Count <= PIPESIZE
<1>1. UINT \in Nat \ {0} /\ PIPESIZE \in Nat \ {0} /\ UINT > PIPESIZE
  BY PipeAssumption
<1>2. PTypeOK => pipe.nread \in 0 .. UINT - 1 /\ pipe.nwrite \in 0 .. UINT - 1 /\ Count <= PIPESIZE
  BY DEF PTypeOK, Pipes
<1> QED
  BY <1>1, <1>2

\* The distance of the counters tells an empty and a full pipe.
LEMMA Ring ==
  ASSUME NEW w \in 0 .. UINT - 1, NEW r \in 0 .. UINT - 1
  PROVE  /\ (w - r) % UINT = IF w >= r THEN w - r ELSE w - r + UINT
         /\ (w - r) % UINT \in Nat
         /\ r = w <=> (w - r) % UINT = 0
         /\ w = (r + PIPESIZE) % UINT <=> (w - r) % UINT = PIPESIZE
<1> USE CounterTypes
<1>1. (w - r) % UINT = IF w >= r THEN w - r ELSE w - r + UINT
  BY Distance
<1>2. (r + PIPESIZE) % UINT = IF r + PIPESIZE < UINT THEN r + PIPESIZE ELSE r + PIPESIZE - UINT
  <2>1. PIPESIZE \in 0 .. UINT - 1
    OBVIOUS
  <2> QED
    BY <2>1, Sum
<1>3. r = w <=> (w - r) % UINT = 0
  BY <1>1
<1>4. w = (r + PIPESIZE) % UINT <=> (w - r) % UINT = PIPESIZE
  BY <1>1, <1>2
<1> QED
  BY <1>1, <1>3, <1>4

LEMMA Counters ==
  ASSUME PTypeOK
  PROVE  /\ Count \in 0 .. PIPESIZE
         /\ Count = IF pipe.nwrite >= pipe.nread THEN pipe.nwrite - pipe.nread
                    ELSE pipe.nwrite - pipe.nread + UINT
         /\ Empty <=> Count = 0
         /\ Full <=> Count = PIPESIZE
<1> DEFINE w == pipe.nwrite
           r == pipe.nread
<1>1. w \in 0 .. UINT - 1 /\ r \in 0 .. UINT - 1 /\ Count <= PIPESIZE /\ PIPESIZE \in Nat
  BY CounterTypes
<1>2. Count = (w - r) % UINT /\ (Empty <=> r = w) /\ (Full <=> w = (r + PIPESIZE) % UINT)
  BY DEF Count, Empty, Full
<1> HIDE DEF w, r
<1>3. /\ Count = IF w >= r THEN w - r ELSE w - r + UINT
      /\ Count \in Nat
      /\ Empty <=> Count = 0
      /\ Full <=> Count = PIPESIZE
  BY <1>1, <1>2, Ring
<1> QED
  BY <1>1, <1>3 DEF w, r

LEMMA CountAfterWrite ==
  ASSUME PTypeOK, NEW k \in 0 .. Room, NEW n, n = (pipe.nwrite + k) % UINT
  PROVE  n \in 0 .. UINT - 1 /\ (n - pipe.nread) % UINT = Count + k
<1> USE CounterTypes
<1>1. k \in 0 .. UINT - 1
  BY Counters DEF Room
<1>2. n = IF pipe.nwrite + k < UINT THEN pipe.nwrite + k ELSE pipe.nwrite + k - UINT
  BY <1>1, Sum
<1>3. n \in 0 .. UINT - 1
  BY <1>1, <1>2
<1>4. (n - pipe.nread) % UINT = IF n >= pipe.nread THEN n - pipe.nread ELSE n - pipe.nread + UINT
  BY <1>3, Distance
<1>5. (n - pipe.nread) % UINT = Count + k
  BY <1>1, <1>2, <1>3, <1>4, Counters DEF Room
<1> QED
  BY <1>3, <1>5

LEMMA CountAfterRead ==
  ASSUME PTypeOK, NEW k \in 0 .. Count, NEW n, n = (pipe.nread + k) % UINT
  PROVE  n \in 0 .. UINT - 1 /\ (pipe.nwrite - n) % UINT = Count - k
<1> USE CounterTypes
<1>1. k \in 0 .. UINT - 1
  BY Counters
<1>2. n = IF pipe.nread + k < UINT THEN pipe.nread + k ELSE pipe.nread + k - UINT
  BY <1>1, Sum
<1>3. n \in 0 .. UINT - 1
  BY <1>1, <1>2
<1>4. (pipe.nwrite - n) % UINT = IF pipe.nwrite >= n THEN pipe.nwrite - n ELSE pipe.nwrite - n + UINT
  BY <1>3, Distance
<1>5. (pipe.nwrite - n) % UINT = Count - k
  <2>1. Count \in 0 .. PIPESIZE /\ Count = IF pipe.nwrite >= pipe.nread THEN pipe.nwrite - pipe.nread
                                           ELSE pipe.nwrite - pipe.nread + UINT
    BY Counters
  <2>2. CASE pipe.nread + k < UINT
    BY <1>1, <1>2, <1>3, <1>4, <2>1, <2>2
  <2>3. CASE ~(pipe.nread + k < UINT)
    BY <1>1, <1>2, <1>3, <1>4, <2>1, <2>3
  <2> QED
    BY <2>2, <2>3
<1> QED
  BY <1>3, <1>5

\* The bytes of a write are stored in the ring.
LEMMA StoredTyped ==
  ASSUME PTypeOK, NEW n \in Nat, NEW k \in 0 .. n
  PROVE  Stored(SubSeq(Addr(n), 1, k)) \in [0 .. PIPESIZE - 1 -> Nat]
<1> DEFINE s == SubSeq(Addr(n), 1, k)
<1> DEFINE hits(i) == {j \in DOMAIN s : Slot(pipe.nwrite + j - 1) = i}
<1>1. Addr(n) \in Seq(Nat) /\ Len(Addr(n)) = n
  BY DEF Addr
<1>2. DOMAIN s = 1 .. k /\ \A j \in 1 .. k : s[j] \in Nat
  BY <1>1
<1> HIDE DEF s
<1>3. \A i : hits(i) # {} => (CHOOSE j \in hits(i) : TRUE) \in 1 .. k
  BY <1>2
<1>4. DOMAIN pipe.data = 0 .. PIPESIZE - 1 /\ \A i \in 0 .. PIPESIZE - 1 : pipe.data[i] \in Nat
  BY DEF PTypeOK, Pipes
<1>5. Stored(s) = [i \in 0 .. PIPESIZE - 1 |->
                     IF hits(i) = {} THEN pipe.data[i] ELSE s[CHOOSE j \in hits(i) : TRUE]]
  BY <1>4 DEF Stored
<1> HIDE DEF hits
<1> QED
  BY <1>2, <1>3, <1>4, <1>5 DEF s
-----------------------------------------------------------------------------
\* What the operators of Procs do to the process table.
LEMMA WakeupTable ==
  ASSUME NEW t \in Tables, NEW c
  PROVE  /\ wakeup1(t, c) \in Tables
         /\ \A q \in Proc :
              /\ wakeup1(t, c)[q].parent = t[q].parent
              /\ wakeup1(t, c)[q].killed = t[q].killed
              /\ t[q].state = "SLEEPING" /\ t[q].chan = c => wakeup1(t, c)[q].state = "RUNNABLE"
              /\ ~(t[q].state = "SLEEPING" /\ t[q].chan = c) => wakeup1(t, c)[q] = t[q]
<1>1. \A q \in Proc :
        /\ Awake(t[q]) \in [state : {"UNUSED", "RUNNABLE", "SLEEPING", "ZOMBIE"},
                            chan : Proc \cup {NoChan, nread, nwrite},
                            parent : 0 .. NPROC, killed : BOOLEAN]
        /\ Awake(t[q]).parent = t[q].parent /\ Awake(t[q]).killed = t[q].killed
        /\ Awake(t[q]).state = "RUNNABLE"
  BY DEF Awake, Tables
<1>2. \A q \in Proc : wakeup1(t, c)[q] = IF t[q].state = "SLEEPING" /\ t[q].chan = c
                                         THEN Awake(t[q]) ELSE t[q]
  BY DEF wakeup1
<1>3. wakeup1(t, c) \in Tables
  BY <1>1 DEF wakeup1, Tables
<1> QED
  BY <1>1, <1>2, <1>3

LEMMA SleepTable ==
  ASSUME NEW t \in Tables, NEW p \in Proc, NEW c \in Proc \cup {nread, nwrite}
  PROVE  /\ sleep(t, p, c) \in Tables
         /\ sleep(t, p, c)[p].state = "SLEEPING" /\ sleep(t, p, c)[p].chan = c
         /\ sleep(t, p, c)[p].parent = t[p].parent /\ sleep(t, p, c)[p].killed = t[p].killed
         /\ \A q \in Proc \ {p} : sleep(t, p, c)[q] = t[q]
  BY DEF sleep, Tables

LEMMA ForkTable ==
  ASSUME NEW t \in Tables, NEW p \in Proc, NEW q \in Proc
  PROVE  /\ fork(t, p, q) \in Tables
         /\ fork(t, p, q)[q] = Child(p)
         /\ \A r \in Proc \ {q} : fork(t, p, q)[r] = t[r]
  BY DEF fork, Tables, Child, NoChan, Proc

LEMMA KillTable ==
  ASSUME NEW t \in Tables, NEW q \in Proc
  PROVE  /\ kill(t, q) \in Tables
         /\ kill(t, q)[q].parent = t[q].parent /\ kill(t, q)[q].killed
         /\ t[q].state = "SLEEPING" => kill(t, q)[q].state = "RUNNABLE"
         /\ t[q].state # "SLEEPING" => kill(t, q)[q].state = t[q].state
         /\ \A r \in Proc \ {q} : kill(t, q)[r] = t[r]
  BY DEF kill, Awake, Tables

LEMMA ReapTable ==
  ASSUME NEW t \in Tables, NEW q \in Proc
  PROVE  /\ reap(t, q) \in Tables
         /\ reap(t, q)[q] = Free
         /\ \A r \in Proc \ {q} : reap(t, q)[r] = t[r]
  BY NprocAssumption DEF reap, Tables, Free, NoChan, Proc

\* exit wakes those who wait for the dying process or, like init, are given a
\* dead child of its; all others go on as they were.
LEMMA ExitTable ==
  ASSUME NEW t \in Tables, NEW p \in Proc
  PROVE  /\ exit(t, p) \in Tables
         /\ exit(t, p)[p].state = "ZOMBIE"
         /\ \A q \in Proc :
              /\ exit(t, p)[q].parent = IF t[q].parent = p THEN initproc ELSE t[q].parent
              /\ exit(t, p)[q].killed = t[q].killed
         /\ \A q \in Proc \ {p} :
              \/ /\ exit(t, p)[q].state = t[q].state /\ exit(t, p)[q].chan = t[q].chan
                 /\ ~(t[q].state = "SLEEPING" /\ t[q].chan = t[p].parent)
                 /\ Zombies(t, p) = {} \/ ~(t[q].state = "SLEEPING" /\ t[q].chan = initproc)
              \/ t[q].state = "SLEEPING" /\ exit(t, p)[q].state = "RUNNABLE"
<1> DEFINE woken == wakeup1(t, t[p].parent)
           given == [q \in Proc |-> IF t[q].parent = p THEN [woken[q] EXCEPT !.parent = initproc]
                                    ELSE woken[q]]
           told == IF Zombies(t, p) # {} THEN wakeup1(given, initproc) ELSE given
<1>1. initproc \in 0 .. NPROC
  BY NprocAssumption DEF initproc
<1>2. woken \in Tables /\ given \in Tables
  <2>1. woken \in Tables
    BY WakeupTable
  <2> QED
    BY <1>1, <2>1 DEF Tables
<1>3. \A q \in Proc :
        /\ given[q].parent = IF t[q].parent = p THEN initproc ELSE t[q].parent
        /\ given[q].killed = t[q].killed
        /\ given[q].state = woken[q].state /\ given[q].chan = woken[q].chan
  <2>1. \A q \in Proc : woken[q].parent = t[q].parent /\ woken[q].killed = t[q].killed
    BY WakeupTable
  <2> HIDE DEF woken
  <2> QED
    BY <1>2, <2>1 DEF Tables
<1>4. \A q \in Proc :
        /\ t[q].state = "SLEEPING" /\ t[q].chan = t[p].parent => given[q].state = "RUNNABLE"
        /\ ~(t[q].state = "SLEEPING" /\ t[q].chan = t[p].parent)
             => given[q].state = t[q].state /\ given[q].chan = t[q].chan
  BY <1>3, WakeupTable
<1> HIDE DEF given
<1>5. /\ told \in Tables
      /\ \A q \in Proc : told[q].parent = given[q].parent /\ told[q].killed = given[q].killed
      /\ \A q \in Proc :
           \/ /\ told[q] = given[q]
              /\ Zombies(t, p) = {} \/ ~(given[q].state = "SLEEPING" /\ given[q].chan = initproc)
           \/ given[q].state = "SLEEPING" /\ told[q].state = "RUNNABLE"
  BY <1>2, WakeupTable
<1>6. exit(t, p) = [told EXCEPT ![p].state = "ZOMBIE"]
  BY DEF exit, given
<1> HIDE DEF told
<1>7. /\ exit(t, p) \in Tables
      /\ exit(t, p)[p].state = "ZOMBIE"
      /\ \A q \in Proc : exit(t, p)[q].parent = told[q].parent /\ exit(t, p)[q].killed = told[q].killed
      /\ \A q \in Proc \ {p} : exit(t, p)[q] = told[q]
  BY <1>5, <1>6 DEF Tables
<1> QED
  BY <1>3, <1>4, <1>5, <1>7
-----------------------------------------------------------------------------
\* Steps that leave the two files alone, or everything but where p is.
LEMMA CountedSame ==
  ASSUME Counted, UNCHANGED file, pipe'.readopen = pipe.readopen, pipe'.writeopen = pipe.writeopen
  PROVE  Counted'
  BY DEF Counted, Holders, Uses, file

LEMMA Moves ==
  ASSUME Inv, NEW p \in Proc, NEW label \in {"user", "read", "write", "wait", "exit"},
         Runs(p), Go(p, label), UNCHANGED <<ptable, pipe, file>>, left' \in [Proc -> Nat],
         label = "read" => "r" \in ofile[p],
         label = "write" => "w" \in ofile[p],
         closing[p] = NoEnd,
         p = initproc => label = "wait"
  PROVE  Inv'
<1>1. PTypeOK'
  BY DEF Inv, PTypeOK, Count, file, Go
<1>2. Control'
  BY DEF Inv, PTypeOK, Control, ControlAt, Runs, file, Go
<1>3. Counted'
  BY CountedSame DEF Inv
<1>4. NoLostWakeup'
  BY DEF Inv, NoLostWakeup, Sleeps, Children, Zombies, Empty, Full
<1> QED
  BY <1>1, <1>2, <1>3, <1>4 DEF Inv

\* A process inside a system call of the pipe, or in wait, closes no file.
LEMMA NotClosing ==
  ASSUME Inv, NEW p \in Proc, pc[p] \in {"read", "write", "wait"}
  PROVE  closing[p] = NoEnd
  BY DEF Inv, Control, ControlAt

LEMMA PcOnly ==
  ASSUME Inv, NEW p \in Proc, Runs(p),
         \/ Read(p) \/ Write(p) \/ WaitCall(p) \/ ExitCall(p)
         \/ piperead_Killed(p) \/ KilledExits(p) \/ WaitFails(p)
  PROVE  Inv'
<1> USE DEF Calls, InUser
<1>1. pc[p] = "user" => p # initproc
  BY DEF Inv, Control, ControlAt
<1>2. pc[p] = "read" => p # initproc
  BY DEF Inv, Control, ControlAt
<1>3. CASE Read(p)
  BY <1>1, <1>3, Moves DEF Read, Inv, PTypeOK
<1>4. CASE Write(p)
  <2>1. left' \in [Proc -> Nat]
    BY <1>4, PipeAssumption DEF Write, Inv, PTypeOK
  <2> QED
    BY <1>1, <1>4, <2>1, Moves DEF Write
<1>5. CASE WaitCall(p)
  BY <1>1, <1>5, Moves DEF WaitCall, Inv, PTypeOK
<1>6. CASE ExitCall(p)
  BY <1>1, <1>6, Moves DEF ExitCall, Inv, PTypeOK
<1>7. CASE piperead_Killed(p)
  BY <1>2, <1>7, NotClosing, Moves DEF piperead_Killed, Inv, PTypeOK
<1>8. CASE KilledExits(p)
  BY <1>1, <1>8, Moves DEF KilledExits, Inv, PTypeOK
<1>9. CASE WaitFails(p)
  BY <1>9, NotClosing, Moves DEF WaitFails, AfterWait, Inv, PTypeOK
<1> QED
  BY <1>3, <1>4, <1>5, <1>6, <1>7, <1>8, <1>9
-----------------------------------------------------------------------------
\* Steps that change only the process table. The ones asleep after them were
\* asleep before, on the same channel, or are p.
LEMMA KillStep ==
  ASSUME Inv, NEW p \in Proc, Kill(p)
  PROVE  Inv'
<1>1. PICK q \in Proc \ {initproc} : ptable[q].state \in {"RUNNABLE", "SLEEPING"} /\ ptable' = kill(ptable, q)
  BY DEF Kill
<1>2. UNCHANGED <<pipe, file, pc, left>> /\ ptable \in Tables
  BY DEF Kill, Inv, PTypeOK
<1>3. /\ ptable' \in Tables
      /\ ptable'[q].parent = ptable[q].parent /\ ptable'[q].state = "RUNNABLE"
      /\ \A r \in Proc \ {q} : ptable'[r] = ptable[r]
  BY <1>1, <1>2, KillTable
<1>4. PTypeOK'
  BY <1>2, <1>3 DEF Inv, PTypeOK, Count, file
<1>5. Control'
  BY <1>1, <1>2, <1>3 DEF Inv, Control, ControlAt, Runs, file
<1>6. Counted'
  BY <1>2, CountedSame DEF Inv
<1>7. NoLostWakeup'
  BY <1>1, <1>2, <1>3 DEF Inv, NoLostWakeup, Sleeps, Children, Zombies, Empty, Full
<1> QED
  BY <1>4, <1>5, <1>6, <1>7 DEF Inv

LEMMA SleepStep ==
  ASSUME Inv, NEW p \in Proc, Runs(p), piperead_Sleeps(p) \/ WaitSleeps(p)
  PROVE  Inv'
<1>1. PICK c \in Proc \cup {nread, nwrite} :
        /\ ptable' = sleep(ptable, p, c)
        /\ \/ c = nread /\ pc[p] = "read" /\ Empty /\ pipe.writeopen
           \/ c = p /\ pc[p] = "wait" /\ Children(ptable, p) # {} /\ Zombies(ptable, p) = {}
  BY DEF piperead_Sleeps, WaitSleeps
<1>2. ptable \in Tables /\ ~ptable[p].killed /\ UNCHANGED <<pipe, file, pc, left>>
  BY DEF Inv, PTypeOK, piperead_Sleeps, WaitSleeps
<1>3. /\ ptable' \in Tables
      /\ ptable'[p].state = "SLEEPING" /\ ptable'[p].chan = c
      /\ ptable'[p].parent = ptable[p].parent /\ ptable'[p].killed = ptable[p].killed
      /\ \A r \in Proc \ {p} : ptable'[r] = ptable[r]
  BY <1>1, <1>2, SleepTable
<1>4. closing[p] = NoEnd
  BY <1>1, NotClosing
<1>5. PTypeOK'
  BY <1>2, <1>3 DEF Inv, PTypeOK, Count, file
<1>6. Control'
  BY <1>1, <1>2, <1>3, <1>4 DEF Inv, Control, ControlAt, Runs, file
<1>7. Counted'
  BY <1>2, CountedSame DEF Inv
<1>8. NoLostWakeup'
  <2>1. p # nread /\ p # nwrite /\ nread # nwrite
    BY NprocAssumption DEF nread, nwrite, Proc
  <2>2. \A r : Children(ptable', r) = Children(ptable, r)
    BY <1>3 DEF Children
  <2>3. \A r : Zombies(ptable', r) = Zombies(ptable, r)
    <3>1. \A q \in Proc : ptable'[q].state = "ZOMBIE" <=> ptable[q].state = "ZOMBIE"
      BY <1>3 DEF Runs
    <3> QED
      BY <2>2, <3>1 DEF Zombies, Children
  <2> QED
    BY <1>1, <1>2, <1>3, <2>1, <2>2, <2>3 DEF Inv, NoLostWakeup, Sleeps, Empty, Full
<1> QED
  BY <1>5, <1>6, <1>7, <1>8 DEF Inv

LEMMA ReapStep ==
  ASSUME Inv, NEW p \in Proc, Runs(p), WaitReaps(p)
  PROVE  Inv'
<1>1. PICK q \in Zombies(ptable, p) :
        /\ ptable' = reap(ptable, q)
        /\ pc' = [pc EXCEPT ![p] = AfterWait(p), ![q] = "user"]
  BY DEF WaitReaps
<1>2. q \in Proc /\ ptable[q].parent = p /\ ptable[q].state = "ZOMBIE" /\ p # q
  BY DEF Zombies, Children, Runs
<1>3. UNCHANGED <<pipe, file, left>> /\ ptable \in Tables /\ pc[p] = "wait"
  BY DEF WaitReaps, Inv, PTypeOK
<1>4. ptable' \in Tables /\ ptable'[q] = Free /\ \A r \in Proc \ {q} : ptable'[r] = ptable[r]
  BY <1>1, <1>2, <1>3, ReapTable
<1>5. q # initproc
  BY <1>2, <1>3 DEF Inv, Control, ControlAt
<1>6. closing[p] = NoEnd
  BY <1>3, NotClosing
<1>7. PTypeOK'
  BY <1>1, <1>3, <1>4 DEF Inv, PTypeOK, Count, file, AfterWait
<1>8. Control'
  <2>1. q # 0 /\ ptable'[q].state = "UNUSED" /\ ptable'[q].parent = 0
    BY <1>2, <1>4, NprocAssumption DEF Proc, Free
  <2>2. /\ \A r \in Proc \ {p, q} : pc'[r] = pc[r]
        /\ pc'[q] = "user" /\ pc'[p] = AfterWait(p) /\ AfterWait(p) \in {"wait", "user"}
        /\ p = initproc => AfterWait(p) = "wait"
    BY <1>1, <1>2 DEF Inv, PTypeOK, AfterWait
  <2>3. ofile[q] = {} /\ closing[q] = NoEnd
    BY <1>2 DEF Inv, Control, ControlAt
  <2> QED
    BY <1>2, <1>3, <1>4, <1>5, <1>6, <2>1, <2>2, <2>3 DEF Inv, Control, ControlAt, Runs, file
<1>9. Counted'
  BY <1>3, CountedSame DEF Inv
<1>10. NoLostWakeup'
  BY <1>2, <1>3, <1>4 DEF Inv, NoLostWakeup, Sleeps, Children, Zombies, Empty, Full, Free, Runs
<1> QED
  BY <1>7, <1>8, <1>9, <1>10 DEF Inv

LEMMA ExitStep ==
  ASSUME Inv, NEW p \in Proc, Runs(p), Exit(p)
  PROVE  Inv'
<1>1. /\ pc[p] = "exit" /\ closing[p] = NoEnd /\ ofile[p] = {}
      /\ ptable' = exit(ptable, p) /\ UNCHANGED <<pipe, file, pc, left>> /\ ptable \in Tables
  BY DEF Exit, Inv, PTypeOK
<1>2. /\ ptable' \in Tables
      /\ ptable'[p].state = "ZOMBIE"
      /\ \A q \in Proc : /\ ptable'[q].parent = IF ptable[q].parent = p THEN initproc ELSE ptable[q].parent
                         /\ ptable'[q].killed = ptable[q].killed
  BY <1>1, ExitTable
<1>3. \A q \in Proc \ {p} :
        \/ /\ ptable'[q].state = ptable[q].state /\ ptable'[q].chan = ptable[q].chan
           /\ ~(ptable[q].state = "SLEEPING" /\ ptable[q].chan = ptable[p].parent)
           /\ Zombies(ptable, p) = {} \/ ~(ptable[q].state = "SLEEPING" /\ ptable[q].chan = initproc)
        \/ ptable[q].state = "SLEEPING" /\ ptable'[q].state = "RUNNABLE"
  BY <1>1, ExitTable
<1>4. PTypeOK'
  BY <1>1, <1>2 DEF Inv, PTypeOK, Count, file
<1>5. Control'
  <2>1. p # initproc /\ initproc # 0
    BY <1>1 DEF Inv, Control, ControlAt, initproc
  <2>2. \A q \in Proc : /\ ptable'[q].parent # q
                        /\ q = initproc \/ ptable'[q].state = "UNUSED" => ptable'[q].parent = 0
    BY <1>2, <1>3, <2>1, NprocAssumption DEF Inv, Control, ControlAt, Proc
  <2>3. \A q \in Proc \ {p} : ptable'[q].state = "SLEEPING" => ptable'[q].chan = ptable[q].chan
    BY <1>3
  <2>4. \A q \in Proc \ {p} : ptable'[q].state # ptable[q].state
                             => ptable[q].state = "SLEEPING" /\ ptable'[q].state = "RUNNABLE"
    BY <1>3
  <2>5. ControlAt(p)'
    BY <1>1, <1>2, <2>2 DEF Inv, Control, ControlAt, file
  <2>6. ASSUME NEW q \in Proc \ {p}
        PROVE  ControlAt(q)'
    <3>1. ControlAt(q)
      BY DEF Inv, Control
    <3>2. pc'[q] = pc[q] /\ ofile'[q] = ofile[q] /\ closing'[q] = closing[q]
      BY <1>1 DEF file
    <3>3. ptable'[q].parent # q /\ (q = initproc \/ ptable'[q].state = "UNUSED" => ptable'[q].parent = 0)
      BY <2>2
    <3>4. CASE ptable'[q].state = ptable[q].state
      <4>1. ptable[q].state = "SLEEPING" => ptable'[q].chan = ptable[q].chan
        BY <2>3, <3>4
      <4> QED
        BY <3>1, <3>2, <3>3, <3>4, <4>1 DEF ControlAt, Runs
    <3>5. CASE ptable'[q].state = "RUNNABLE"
      BY <3>1, <3>2, <3>3, <3>5 DEF ControlAt, Runs
    <3> QED
      BY <2>4, <3>4, <3>5
  <2> QED
    BY <2>5, <2>6 DEF Control
<1>6. Counted'
  BY <1>1, CountedSame DEF Inv
<1>7. NoLostWakeup'
  <2> SUFFICES ASSUME NEW r \in Proc, ptable'[r].state = "SLEEPING"
               PROVE  /\ ptable'[r].chan = nread => pipe.writeopen /\ (Empty \/ pipe.untold)
                      /\ ptable'[r].chan = nwrite => pipe.readopen /\ Full
                      /\ ptable'[r].chan = r => Children(ptable', r) # {} /\ Zombies(ptable', r) = {}
                      /\ ~ptable'[r].killed
    BY <1>1 DEF NoLostWakeup, Sleeps, Empty, Full
  <2>1. r # p /\ ptable[r].state = "SLEEPING" /\ ptable'[r].chan = ptable[r].chan
    BY <1>2, <1>3
  <2>2. ASSUME ptable[r].chan = r
        PROVE  Children(ptable', r) # {} /\ Zombies(ptable', r) = {}
    <3>1. r # ptable[p].parent /\ (r = initproc => Zombies(ptable, p) = {})
      BY <1>2, <1>3, <2>1, <2>2
    <3>2. PICK q \in Proc : ptable[q].parent = r
      BY <2>1, <2>2 DEF Inv, NoLostWakeup, Sleeps, Children
    <3>3. ptable'[q].parent = r
      BY <1>2, <2>1, <3>2
    <3>4. ASSUME NEW z \in Proc, ptable'[z].parent = r, ptable'[z].state = "ZOMBIE"
          PROVE  FALSE
      <4>1. CASE z = p
        <5>1. ptable[p].parent # p
          BY DEF Inv, Control, ControlAt
        <5> QED
          BY <1>2, <3>1, <3>4, <4>1, <5>1
      <4>2. CASE z # p
        <5>1. ptable[z].state = "ZOMBIE"
          BY <1>3, <3>4, <4>2
        <5>2. ptable[z].parent = p => r = initproc /\ z \in Zombies(ptable, p)
          BY <1>2, <3>4, <5>1 DEF Zombies, Children
        <5>3. ptable[z].parent = r
          BY <1>2, <3>1, <3>4, <5>2
        <5> QED
          BY <2>1, <2>2, <5>1, <5>3 DEF Inv, NoLostWakeup, Sleeps, Zombies, Children
      <4> QED
        BY <4>1, <4>2
    <3> QED
      BY <3>3, <3>4 DEF Children, Zombies
  <2> QED
    BY <1>2, <2>1, <2>2 DEF Inv, NoLostWakeup, Sleeps
<1> QED
  BY <1>4, <1>5, <1>6, <1>7 DEF Inv
-----------------------------------------------------------------------------
\* Adding a process to a finite set of holders, or taking it away.
LEMMA HoldersFinite ==
  /\ \A e : IsFiniteSet(Holders(e)) /\ Cardinality(Holders(e)) \in 0 .. NPROC
  /\ \A S \in SUBSET Proc, p \in Proc :
       /\ p \notin S => Cardinality(S \cup {p}) = Cardinality(S) + 1
       /\ p \in S => Cardinality(S \ {p}) = Cardinality(S) - 1
       /\ Cardinality(S) \in 0 .. NPROC
<1>1. IsFiniteSet(Proc) /\ Cardinality(Proc) = NPROC
  BY NprocAssumption, FS_Interval DEF Proc
<1>2. \A S \in SUBSET Proc : IsFiniteSet(S) /\ Cardinality(S) \in Nat /\ Cardinality(S) <= NPROC
  BY <1>1, FS_Subset, FS_CardinalityType
<1>3. \A S \in SUBSET Proc, p \in Proc : p \notin S => Cardinality(S \cup {p}) = Cardinality(S) + 1
  BY <1>2, FS_AddElement
<1>4. \A S \in SUBSET Proc, p \in Proc : p \in S => Cardinality(S \ {p}) = Cardinality(S) - 1
  BY <1>2, FS_RemoveElement
<1>5. \A S \in SUBSET Proc : Cardinality(S) \in 0 .. NPROC
  BY <1>2, NprocAssumption
<1>6. \A e : Holders(e) \in SUBSET Proc
  BY DEF Holders
<1> QED
  BY <1>2, <1>3, <1>4, <1>5, <1>6

LEMMA ForkStep ==
  ASSUME Inv, NEW p \in Proc, Fork(p)
  PROVE  Inv'
<1>1. PICK q \in Proc : /\ ptable[q].state = "UNUSED" /\ ptable' = fork(ptable, p, q)
                        /\ ofile' = [ofile EXCEPT ![q] = ofile[p]] /\ ref' = filedup(ofile[p])
  BY DEF Fork
<1>2. /\ UNCHANGED <<pipe, page, closing, pc, left>> /\ ptable \in Tables
      /\ Runs(p) /\ pc[p] = "user" /\ closing[p] = NoEnd
  BY DEF Fork, Calls, InUser, Inv, PTypeOK
<1>3. ptable' \in Tables /\ ptable'[q] = Child(p) /\ \A r \in Proc \ {q} : ptable'[r] = ptable[r]
  BY <1>1, <1>2, ForkTable
<1>4. p # q /\ p # initproc /\ ofile[q] = {} /\ closing[q] = NoEnd /\ pc[q] = "user" /\ q # initproc
  BY <1>1, <1>2 DEF Inv, Control, ControlAt, Runs
<1>5. \A e \in Ends : Holders(e)' = IF e \in ofile[p] THEN Holders(e) \cup {q} ELSE Holders(e)
  BY <1>1, <1>4 DEF Holders, Inv, PTypeOK
<1>6. \A e \in Ends : q \notin Holders(e) /\ Holders(e) \in SUBSET Proc /\ Holders(e)' \in SUBSET Proc
  BY <1>4 DEF Holders
<1>7. \A e \in Ends : ref'[e] = Cardinality(Holders(e)') /\ ref'[e] \in 0 .. NPROC
  <2>1. \A e \in Ends : ref'[e] = IF e \in ofile[p] THEN ref[e] + 1 ELSE ref[e]
    BY <1>1 DEF filedup
  <2>2. \A e \in Ends : ref[e] = Cardinality(Holders(e))
    BY DEF Inv, Counted
  <2>3. \A e \in Ends : Cardinality(Holders(e) \cup {q}) = Cardinality(Holders(e)) + 1
    BY <1>6, HoldersFinite
  <2>4. \A e \in Ends : Cardinality(Holders(e)') \in 0 .. NPROC
    BY <1>6, HoldersFinite
  <2> QED
    BY <1>5, <2>1, <2>2, <2>3, <2>4
<1>8. PTypeOK'
  <2>1. ref' \in [Ends -> 0 .. NPROC]
    BY <1>1, <1>7 DEF filedup
  <2> QED
    BY <1>1, <1>2, <1>3, <2>1 DEF Inv, PTypeOK, Count
<1>9. Control'
  BY <1>1, <1>2, <1>3, <1>4 DEF Inv, PTypeOK, Control, ControlAt, Runs, Child, initproc
<1>10. Counted'
  <2>1. \A r \in Proc : closing[r] # NoEnd => closing[r] \in Ends /\ closing[r] \notin ofile[p]
    BY DEF Inv, PTypeOK, Counted, Holders
  <2>2. \A r \in Proc : closing'[r] # NoEnd => Holders(closing[r])' = {}
    BY <1>2, <1>5, <2>1 DEF Inv, Counted
  <2>3. \A e \in Ends : (\E r \in Proc : Uses(r, e)') <=> (\E r \in Proc : Uses(r, e))
    BY <1>1, <1>2, <1>4 DEF Uses, Inv, PTypeOK
  <2> QED
    BY <1>2, <1>7, <2>2, <2>3 DEF Inv, Counted, Ends
<1>11. NoLostWakeup'
  <2>1. \A r \in Proc : ptable'[r].state = "SLEEPING" => r # q /\ ptable'[r] = ptable[r]
    BY <1>3 DEF Child
  <2>2. \A z \in Proc : ptable'[z].state = "ZOMBIE" => z # q /\ ptable'[z] = ptable[z]
    BY <1>3 DEF Child
  <2>3. \A r \in Proc : ptable[r].state = "SLEEPING" /\ Children(ptable, r) # {} => Children(ptable', r) # {}
    <3>1. ptable[q].parent \notin Proc
      BY <1>1, NprocAssumption DEF Inv, Control, ControlAt, Proc
    <3> QED
      BY <1>3, <3>1 DEF Children
  <2> QED
    BY <1>2, <2>1, <2>2, <2>3 DEF Inv, NoLostWakeup, Sleeps, Zombies, Children, Empty, Full
<1> QED
  BY <1>8, <1>9, <1>10, <1>11 DEF Inv

LEMMA PipeStep ==
  ASSUME Inv, NEW p \in Proc, sys_pipe(p)
  PROVE  Inv'
<1>1. /\ Runs(p) /\ pc[p] = "user" /\ closing[p] = NoEnd /\ page = "none" /\ page' = "live"
      /\ pipe' = [pipe EXCEPT !.readopen = TRUE, !.writeopen = TRUE, !.nread = 0, !.nwrite = 0]
      /\ ref' = [e \in Ends |-> 1] /\ ofile' = [ofile EXCEPT ![p] = Ends]
      /\ UNCHANGED <<ptable, closing, pc, left>>
  BY DEF sys_pipe, Calls, InUser
<1>2. /\ pipe'.readopen /\ pipe'.writeopen /\ pipe'.nread = 0 /\ pipe'.nwrite = 0
      /\ pipe' \in Pipes
  <2>1. pipe \in Pipes /\ 0 \in 0 .. UINT - 1
    BY CounterTypes DEF Inv, PTypeOK
  <2> QED
    BY <1>1, <2>1 DEF Pipes
<1>3. \A q \in Proc : ofile[q] = {} /\ closing[q] = NoEnd
  BY <1>1 DEF Inv, PTypeOK, Counted, Uses, Ends
<1>4. \A e \in Ends : Holders(e)' = {p}
  BY <1>1, <1>3 DEF Holders, Inv, PTypeOK
<1>5. PTypeOK'
  <2>1. 0 % UINT = 0
    BY CounterTypes
  <2>2. Count' <= PIPESIZE
    BY <1>2, <2>1, CounterTypes DEF Count
  <2>3. ref' \in [Ends -> 0 .. NPROC]
    BY <1>1, NprocAssumption
  <2> QED
    BY <1>1, <1>2, <2>2, <2>3 DEF Inv, PTypeOK
<1>6. Control'
  BY <1>1, <1>3 DEF Inv, PTypeOK, Control, ControlAt, Runs, Ends
<1>7. Counted'
  <2>1. Cardinality({p}) = 1
    BY FS_Singleton
  <2>2. \A e \in Ends : Uses(p, e)'
    BY <1>1 DEF Uses, Inv, PTypeOK
  <2> QED
    BY <1>1, <1>2, <1>3, <1>4, <2>1, <2>2 DEF Counted, Ends
<1>8. NoLostWakeup'
  <2>1. \A q \in Proc : pc[q] # "read" /\ pc[q] # "write"
    BY <1>3 DEF Inv, Control, ControlAt
  <2>2. \A q \in Proc : ptable[q].state = "SLEEPING" => ptable[q].chan = q
    BY <2>1 DEF Inv, Control, ControlAt
  <2>3. \A q \in Proc : q # nread /\ q # nwrite
    BY NprocAssumption DEF Proc, nread, nwrite
  <2> QED
    BY <1>1, <2>2, <2>3 DEF Inv, NoLostWakeup, Sleeps, Children, Zombies
<1> QED
  BY <1>5, <1>6, <1>7, <1>8 DEF Inv

LEMMA CloseStep ==
  ASSUME Inv, NEW p \in Proc, NEW e \in ofile[p], fileclose(p, e),
         Runs(p), closing[p] = NoEnd, pc[p] \in {"user", "exit"}
  PROVE  Inv'
<1>1. /\ ref' = [ref EXCEPT ![e] = @ - 1] /\ ofile' = [ofile EXCEPT ![p] = @ \ {e}]
      /\ closing' = [closing EXCEPT ![p] = IF ref[e] = 1 THEN e ELSE NoEnd]
      /\ UNCHANGED <<ptable, pipe, page, pc, left>>
      /\ e \in Ends /\ ofile \in [Proc -> SUBSET Ends] /\ closing \in [Proc -> Ends \cup {NoEnd}]
      /\ ref \in [Ends -> 0 .. NPROC]
  BY DEF fileclose, Inv, PTypeOK
<1>2. p \in Holders(e) /\ \A d \in Ends : Holders(d) \in SUBSET Proc /\ Holders(d)' \in SUBSET Proc
  BY DEF Holders
<1>3. \A d \in Ends : Holders(d)' = IF d = e THEN Holders(e) \ {p} ELSE Holders(d)
  BY <1>1 DEF Holders
<1>4. \A d \in Ends : ref'[d] = Cardinality(Holders(d)') /\ ref'[d] \in 0 .. NPROC
  <2>1. \A d \in Ends : ref[d] = Cardinality(Holders(d))
    BY DEF Inv, Counted
  <2>2. Cardinality(Holders(e) \ {p}) = Cardinality(Holders(e)) - 1
    BY <1>1, <1>2, HoldersFinite
  <2>3. \A d \in Ends : Cardinality(Holders(d)') \in 0 .. NPROC
    BY <1>2, HoldersFinite
  <2>4. \A d \in Ends : ref'[d] = IF d = e THEN ref[e] - 1 ELSE ref[d]
    BY <1>1
  <2> QED
    BY <1>1, <1>3, <2>1, <2>2, <2>3, <2>4
<1>5. ref[e] = 1 <=> Holders(e)' = {}
  <2>1. IsFiniteSet(Holders(e)')
    <3>1. IsFiniteSet(Proc)
      BY NprocAssumption, FS_Interval DEF Proc
    <3> QED
      BY <1>1, <1>2, <3>1, FS_Subset
  <2>2. Cardinality(Holders(e)') = 0 <=> Holders(e)' = {}
    BY <2>1, FS_EmptySet
  <2>3. ref'[e] = ref[e] - 1 /\ ref[e] \in Nat
    BY <1>1
  <2> QED
    BY <1>1, <1>4, <2>2, <2>3
<1>6. \A q \in Proc : closing[q] # e
  BY <1>1, <1>2 DEF Inv, Counted, NoEnd, Ends
<1>7. PTypeOK'
  <2>1. ref' \in [Ends -> 0 .. NPROC]
    BY <1>1, <1>4
  <2> QED
    BY <1>1, <2>1 DEF Inv, PTypeOK, Count
<1>8. Control'
  BY <1>1 DEF Inv, Control, ControlAt, Runs
<1>9. Counted'
  <2>1. \A q \in Proc : closing'[q] # NoEnd =>
          /\ closing'[q] \in Ends
          /\ IF q = p THEN closing'[q] = e /\ Holders(e)' = {} ELSE closing'[q] = closing[q] /\ closing[q] # e
    BY <1>1, <1>5, <1>6
  <2>2. \A q, r \in Proc :
          closing'[q] # NoEnd => Holders(closing[q])' = {} /\ (closing'[r] = closing'[q] => r = q)
    <3> SUFFICES ASSUME NEW q \in Proc, NEW r \in Proc, closing'[q] # NoEnd
                 PROVE  /\ Holders(closing[q])' = {}
                        /\ closing'[r] = closing'[q] => r = q
      OBVIOUS
    <3>1. CASE q = p
      BY <2>1, <3>1, <1>1
    <3>2. CASE q # p
      BY <2>1, <3>2, <1>1, <1>3 DEF Inv, Counted
    <3> QED
      BY <3>1, <3>2
  <2>3. (\E q \in Proc : Uses(q, e)) /\ (\E q \in Proc : Uses(q, e)')
    <3>1. CASE ref[e] = 1
      BY <1>1, <3>1 DEF Uses
    <3>2. CASE ref[e] # 1
      BY <1>5, <3>2 DEF Uses, Holders
    <3> QED
      BY <3>1, <3>2 DEF Uses
  <2>4. ASSUME NEW d \in Ends \ {e}
        PROVE  (\E q \in Proc : Uses(q, d)') <=> (\E q \in Proc : Uses(q, d))
    BY <1>1 DEF Uses, Ends, NoEnd
  <2>5. \A d \in Ends : (\E q \in Proc : Uses(q, d)') <=> (\E q \in Proc : Uses(q, d))
    BY <2>3, <2>4
  <2>6. /\ pipe'.readopen <=> \E q \in Proc : Uses(q, "r")'
        /\ pipe'.writeopen <=> \E q \in Proc : Uses(q, "w")'
        /\ page' = "live" <=> pipe'.readopen \/ pipe'.writeopen
    BY <1>1, <2>5 DEF Inv, Counted, Ends
  <2> QED
    BY <1>4, <2>2, <2>6 DEF Counted
<1>10. NoLostWakeup'
  BY <1>1 DEF Inv, NoLostWakeup, Sleeps, Children, Zombies, Empty, Full
<1> QED
  BY <1>7, <1>8, <1>9, <1>10 DEF Inv

LEMMA PipecloseStep ==
  ASSUME Inv, NEW p \in Proc, pipeclose(p)
  PROVE  Inv'
<1>0. PICK e \in Ends : closing[p] = e
  BY DEF pipeclose, Inv, PTypeOK
<1> DEFINE c == IF e = "w" THEN nread ELSE nwrite
<1>1. /\ closing[p] = e /\ e # NoEnd /\ ptable' = wakeup1(ptable, c)
      /\ closing' = [closing EXCEPT ![p] = NoEnd] /\ UNCHANGED <<ref, ofile, pc, left>>
      /\ page' = IF pipe'.readopen \/ pipe'.writeopen THEN page ELSE "freed"
      /\ ptable \in Tables /\ pipe \in Pipes /\ closing \in [Proc -> Ends \cup {NoEnd}]
  BY <1>0 DEF pipeclose, Inv, PTypeOK, Ends, NoEnd
<1>2. /\ pipe' \in Pipes /\ pipe'.nread = pipe.nread /\ pipe'.nwrite = pipe.nwrite
      /\ pipe'.readopen = (pipe.readopen /\ e # "r") /\ pipe'.writeopen = (pipe.writeopen /\ e # "w")
      /\ e # "w" => pipe'.untold = pipe.untold
  BY <1>1 DEF pipeclose, Pipes, Ends
<1>3. /\ ptable' \in Tables
      /\ \A q \in Proc :
           /\ ptable'[q].parent = ptable[q].parent
           /\ ptable'[q].killed = ptable[q].killed
           /\ ptable[q].state = "SLEEPING" /\ ptable[q].chan = c => ptable'[q].state = "RUNNABLE"
           /\ ~(ptable[q].state = "SLEEPING" /\ ptable[q].chan = c) => ptable'[q] = ptable[q]
  BY <1>1, WakeupTable
<1>4. PTypeOK'
  BY <1>1, <1>2, <1>3 DEF Inv, PTypeOK, Count
<1>5. Control'
  <2>1. Runs(p) /\ ptable'[p] = ptable[p]
    BY <1>1, <1>3 DEF Inv, Control, ControlAt, Runs
  <2>2. ASSUME NEW q \in Proc
        PROVE  ControlAt(q)'
    <3>1. ControlAt(q) /\ pc'[q] = pc[q] /\ ofile'[q] = ofile[q]
      BY <1>1 DEF Inv, Control
    <3>2. closing'[q] = closing[q] \/ closing'[q] = NoEnd
      BY <1>1
    <3>3. CASE ptable'[q] = ptable[q]
      BY <3>1, <3>2, <3>3 DEF ControlAt, Runs
    <3>4. CASE ptable'[q].state = "RUNNABLE" /\ ptable[q].state = "SLEEPING"
      BY <1>3, <3>1, <3>2, <3>4 DEF ControlAt, Runs
    <3> QED
      BY <1>3, <3>3, <3>4
  <2> QED
    BY <2>2 DEF Control
<1>6. Counted'
  <2>1. \A d : Holders(d)' = Holders(d)
    BY <1>1 DEF Holders
  <2>2. Holders(e) = {} /\ \A q \in Proc : closing[q] = e => q = p
    BY <1>1 DEF Inv, Counted
  <2>3. \A q, r \in Proc :
          closing'[q] # NoEnd => Holders(closing[q])' = {} /\ (closing'[r] = closing'[q] => r = q)
    BY <1>1, <2>1 DEF Inv, Counted
  <2>4. ~ \E q \in Proc : Uses(q, e)'
    BY <1>1, <2>2 DEF Uses, Holders, Ends, NoEnd
  <2>5. \A d \in Ends \ {e} : (\E q \in Proc : Uses(q, d)') <=> (\E q \in Proc : Uses(q, d))
    BY <1>1 DEF Uses, Ends, NoEnd
  <2>6. /\ pipe'.readopen <=> \E q \in Proc : Uses(q, "r")'
        /\ pipe'.writeopen <=> \E q \in Proc : Uses(q, "w")'
    <3>1. e = "r" \/ e = "w"
      BY <1>1 DEF Ends
    <3>2. CASE e = "r"
      BY <1>2, <2>4, <2>5, <3>2 DEF Inv, Counted, Ends
    <3>3. CASE e = "w"
      BY <1>2, <2>4, <2>5, <3>3 DEF Inv, Counted, Ends
    <3> QED
      BY <3>1, <3>2, <3>3
  <2>7. page' = "live" <=> pipe'.readopen \/ pipe'.writeopen
    BY <1>1, <1>2 DEF Inv, Counted
  <2>8. \A d \in Ends : ref'[d] = Cardinality(Holders(d)')
    BY <1>1, <2>1 DEF Inv, Counted
  <2> QED
    BY <2>3, <2>6, <2>7, <2>8 DEF Counted
<1>7. NoLostWakeup'
  <2>1. \A q : Children(ptable', q) = Children(ptable, q)
    BY <1>3 DEF Children
  <2>2. \A q : Zombies(ptable', q) = Zombies(ptable, q)
    <3>1. \A q \in Proc : ptable'[q].state = "ZOMBIE" <=> ptable[q].state = "ZOMBIE"
      BY <1>3
    <3> QED
      BY <2>1, <3>1 DEF Zombies, Children
  <2> SUFFICES ASSUME NEW r \in Proc, ptable'[r].state = "SLEEPING"
               PROVE  /\ ptable'[r].chan = nread => pipe'.writeopen /\ (Empty' \/ pipe'.untold)
                      /\ ptable'[r].chan = nwrite => pipe'.readopen /\ Full'
                      /\ ptable'[r].chan = r => Children(ptable', r) # {} /\ Zombies(ptable', r) = {}
                      /\ ~ptable'[r].killed
    BY DEF NoLostWakeup, Sleeps
  <2>3. ptable'[r] = ptable[r] /\ ptable[r].chan # c
    BY <1>3
  <2>4. (Empty' <=> Empty) /\ (Full' <=> Full)
    BY <1>2 DEF Empty, Full
  <2>5. e = "r" \/ e = "w"
    BY <1>1 DEF Ends
  <2> QED
    BY <1>2, <2>1, <2>2, <2>3, <2>4, <2>5 DEF Inv, NoLostWakeup, Sleeps
<1> QED
  BY <1>4, <1>5, <1>6, <1>7 DEF Inv
-----------------------------------------------------------------------------
\* What a copy leaves in the pipe, and whom it finds asleep afterwards.
LEMMA WriteStep ==
  ASSUME Inv, NEW p \in Proc, Runs(p), pipewrite(p)
  PROVE  Inv'
<1>1. PICK k : k = Smaller(left[p], Room)
  OBVIOUS
<1>2. PICK rest : rest = left[p] - k
  OBVIOUS
<1>3. PICK gives_up \in BOOLEAN : gives_up <=> rest > 0 /\ (~pipe.readopen \/ ptable[p].killed)
  OBVIOUS
<1>4. /\ pc[p] = "write"
      /\ pipe' = [pipe EXCEPT !.data = Stored(SubSeq(Addr(left[p]), 1, k)), !.nwrite = (@ + k) % UINT,
                              !.untold = gives_up /\ (@ \/ \E q \in Proc : Sleeps(q, nread))]
      /\ left' = [left EXCEPT ![p] = IF gives_up THEN 0 ELSE rest]
      /\ ptable' = IF gives_up THEN ptable
                   ELSE IF rest = 0 THEN wakeup1(ptable, nread)
                   ELSE sleep(wakeup1(ptable, nread), p, nwrite)
      /\ pc' = IF gives_up \/ rest = 0 THEN [pc EXCEPT ![p] = "user"] ELSE pc
      /\ UNCHANGED file
  BY <1>1, <1>2, <1>3 DEF pipewrite, Go
<1>5. /\ PTypeOK /\ ptable \in Tables /\ pipe \in Pipes /\ left[p] \in Nat /\ closing[p] = NoEnd
      /\ p # initproc
  BY <1>4, NotClosing DEF Inv, PTypeOK, Control, ControlAt
<1>6. k \in 0 .. Room /\ k \in Nat /\ rest \in Nat /\ (rest > 0 => k = Room)
  <2>1. Room \in Nat
    BY <1>5, Counters, CounterTypes DEF Room
  <2> QED
    BY <1>1, <1>2, <1>5, <2>1 DEF Smaller
<1>7. /\ pipe'.nwrite = (pipe.nwrite + k) % UINT /\ pipe'.nread = pipe.nread
      /\ pipe'.readopen = pipe.readopen /\ pipe'.writeopen = pipe.writeopen
      /\ pipe'.untold = (gives_up /\ (pipe.untold \/ \E q \in Proc : Sleeps(q, nread)))
  BY <1>4, <1>5 DEF Pipes
<1>8. pipe'.nwrite \in 0 .. UINT - 1 /\ Count' = Count + k
  BY <1>5, <1>6, <1>7, CountAfterWrite DEF Count
<1>9. pipe' \in Pipes
  <2>1. k \in 0 .. left[p]
    BY <1>1, <1>5, <1>6 DEF Smaller
  <2>2. Stored(SubSeq(Addr(left[p]), 1, k)) \in [0 .. PIPESIZE - 1 -> Nat]
    BY <1>5, <2>1, StoredTyped
  <2> QED
    BY <1>4, <1>5, <1>7, <1>8, <2>2 DEF Pipes
<1>10. Count' <= PIPESIZE /\ (rest > 0 => Full') /\ (Full => Full')
  <2>1. Count \in 0 .. PIPESIZE /\ PIPESIZE \in Nat /\ (Full <=> Count = PIPESIZE)
    BY <1>5, Counters, CounterTypes
  <2>2. pipe'.nread \in 0 .. UINT - 1
    BY <1>5, <1>7, CounterTypes
  <2>3. Full' <=> Count' = PIPESIZE
    BY <1>8, <2>2, Ring DEF Full, Count
  <2> QED
    BY <1>6, <1>8, <2>1, <2>3 DEF Room
<1>11. PICK t \in Tables : t = wakeup1(ptable, nread)
  BY <1>5, WakeupTable
<1>12. \A q \in Proc :
         /\ t[q].parent = ptable[q].parent
         /\ t[q].killed = ptable[q].killed
         /\ ptable[q].state = "SLEEPING" /\ ptable[q].chan = nread => t[q].state = "RUNNABLE"
         /\ ~(ptable[q].state = "SLEEPING" /\ ptable[q].chan = nread) => t[q] = ptable[q]
  BY <1>5, <1>11, WakeupTable
<1>13. /\ ptable' \in Tables
       /\ \A q \in Proc : /\ ptable'[q].parent = ptable[q].parent /\ ptable'[q].killed = ptable[q].killed
                          /\ ptable'[q].state = "ZOMBIE" <=> ptable[q].state = "ZOMBIE"
       /\ \A q \in Proc \ {p} : ptable'[q] = IF gives_up THEN ptable[q] ELSE t[q]
       /\ gives_up \/ rest = 0 => ptable'[p].state = "RUNNABLE"
       /\ ~gives_up /\ rest # 0 => ptable'[p].state = "SLEEPING" /\ ptable'[p].chan = nwrite
  <2>1. CASE gives_up
    <3>1. ptable' = ptable
      BY <1>4, <2>1
    <3>2. ptable' \in Tables /\ ptable'[p].state = "RUNNABLE" /\ \A q \in Proc : ptable'[q] = ptable[q]
      BY <1>5, <3>1 DEF Runs
    <3>3. \A q \in Proc : /\ ptable'[q].parent = ptable[q].parent /\ ptable'[q].killed = ptable[q].killed
                          /\ ptable'[q].state = "ZOMBIE" <=> ptable[q].state = "ZOMBIE"
      BY <3>2
    <3> QED
      BY <2>1, <3>2, <3>3
  <2>2. CASE ~gives_up /\ rest = 0
    BY <1>4, <1>11, <1>12, <2>2 DEF Runs
  <2>3. CASE ~gives_up /\ rest # 0
    <3>1. ptable' = sleep(t, p, nwrite)
      BY <1>4, <1>11, <2>3
    <3>2. /\ ptable' \in Tables
          /\ ptable'[p].state = "SLEEPING" /\ ptable'[p].chan = nwrite
          /\ ptable'[p].parent = t[p].parent /\ ptable'[p].killed = t[p].killed
          /\ \A q \in Proc \ {p} : ptable'[q] = t[q]
      BY <3>1, SleepTable
    <3> QED
      BY <1>12, <2>3, <3>2 DEF Runs
  <2> QED
    BY <2>1, <2>2, <2>3
<1>14. PTypeOK'
  BY <1>4, <1>5, <1>6, <1>9, <1>10, <1>13 DEF PTypeOK, file
<1>15. Control'
  <2>1. ControlAt(p)'
    BY <1>4, <1>5, <1>13 DEF Inv, PTypeOK, Control, ControlAt, file, Runs
  <2>2. ASSUME NEW q \in Proc \ {p}
        PROVE  ControlAt(q)'
    <3>1. ControlAt(q) /\ pc'[q] = pc[q] /\ ofile'[q] = ofile[q] /\ closing'[q] = closing[q]
      BY <1>4 DEF Inv, PTypeOK, Control, file
    <3>2. CASE ptable'[q] = ptable[q]
      BY <3>1, <3>2 DEF ControlAt, Runs
    <3>3. CASE ptable'[q].state = "RUNNABLE" /\ ptable[q].state = "SLEEPING"
      BY <1>13, <3>1, <3>3 DEF ControlAt, Runs
    <3> QED
      BY <1>12, <1>13, <3>2, <3>3
  <2> QED
    BY <2>1, <2>2 DEF Control
<1>16. Counted'
  BY <1>4, <1>7, CountedSame DEF Inv
<1>17. NoLostWakeup'
  <2>1. \A q : Children(ptable', q) = Children(ptable, q) /\ Zombies(ptable', q) = Zombies(ptable, q)
    BY <1>13 DEF Children, Zombies
  <2>2. nread # nwrite /\ p # nwrite
    BY NprocAssumption DEF nread, nwrite, Proc
  <2> SUFFICES ASSUME NEW r \in Proc, ptable'[r].state = "SLEEPING"
               PROVE  /\ ptable'[r].chan = nread => pipe'.writeopen /\ (Empty' \/ pipe'.untold)
                      /\ ptable'[r].chan = nwrite => pipe'.readopen /\ Full'
                      /\ ptable'[r].chan = r => Children(ptable', r) # {} /\ Zombies(ptable', r) = {}
                      /\ ~ptable'[r].killed
    BY DEF NoLostWakeup, Sleeps
  <2>3. CASE r = p
    <3>1. ~gives_up /\ rest # 0 /\ ptable'[r].chan = nwrite
      BY <1>13, <2>3
    <3>2. rest > 0
      BY <1>6, <3>1
    <3>3. pipe.readopen /\ ~ptable[p].killed
      BY <1>3, <3>1, <3>2
    <3>4. pipe'.readopen /\ ~ptable'[r].killed /\ Full'
      BY <1>7, <1>10, <1>13, <2>3, <3>2, <3>3
    <3> QED
      BY <2>2, <2>3, <3>1, <3>4
  <2>4. CASE r # p
    <3>1. ptable'[r] = ptable[r] /\ (ptable[r].chan = nread => gives_up)
      BY <1>12, <1>13, <2>4
    <3>2. ptable[r].chan = nread => Sleeps(r, nread)
      BY <3>1 DEF Sleeps
    <3> QED
      BY <1>7, <1>10, <2>1, <3>1, <3>2 DEF Inv, NoLostWakeup, Sleeps
  <2> QED
    BY <2>3, <2>4
<1> QED
  BY <1>14, <1>15, <1>16, <1>17 DEF Inv

LEMMA ReadStep ==
  ASSUME Inv, NEW p \in Proc, Runs(p), piperead(p)
  PROVE  Inv'
<1>1. PICK n \in ReadSizes : pipe' = [pipe EXCEPT !.nread = (@ + Smaller(n, Count)) % UINT,
                                                 !.untold = @ /\ n < Count]
  BY DEF piperead
<1>2. PICK k : k = Smaller(n, Count)
  OBVIOUS
<1>3. /\ pc[p] = "read" /\ ptable' = wakeup1(ptable, nwrite)
      /\ pc' = [pc EXCEPT ![p] = "user"] /\ UNCHANGED <<file, left>>
  BY DEF piperead, Go
<1>4. /\ PTypeOK /\ ptable \in Tables /\ pipe \in Pipes /\ closing[p] = NoEnd /\ p # initproc
  BY <1>3, NotClosing DEF Inv, PTypeOK, Control, ControlAt
<1>5. Count \in 0 .. PIPESIZE /\ Count \in Nat /\ (Empty <=> Count = 0)
  BY <1>4, Counters, CounterTypes
<1>6. k \in 0 .. Count /\ k \in Nat /\ (~(n < Count) => k = Count)
  BY <1>2, <1>5, PipeAssumption DEF Smaller
<1>7. /\ pipe'.nread = (pipe.nread + k) % UINT /\ pipe'.nwrite = pipe.nwrite
      /\ pipe'.readopen = pipe.readopen /\ pipe'.writeopen = pipe.writeopen
      /\ pipe'.untold = (pipe.untold /\ n < Count)
  BY <1>1, <1>2, <1>4 DEF Pipes
<1>8. pipe'.nread \in 0 .. UINT - 1 /\ Count' = Count - k
  BY <1>4, <1>6, <1>7, CountAfterRead DEF Count
<1>9. pipe' \in Pipes
  BY <1>1, <1>2, <1>4, <1>7, <1>8 DEF Pipes
<1>10. Count' <= PIPESIZE /\ (Empty \/ ~(n < Count) => Empty')
  <2>1. Empty' <=> Count' = 0
    <3>1. pipe'.nwrite \in 0 .. UINT - 1
      BY <1>4, <1>7, CounterTypes
    <3> QED
      BY <1>8, <3>1, Ring DEF Empty, Count
  <2> QED
    BY <1>5, <1>6, <1>8, <2>1, CounterTypes
<1>11. /\ ptable' \in Tables
       /\ \A q \in Proc :
            /\ ptable'[q].parent = ptable[q].parent
            /\ ptable'[q].killed = ptable[q].killed
            /\ ptable[q].state = "SLEEPING" /\ ptable[q].chan = nwrite => ptable'[q].state = "RUNNABLE"
            /\ ~(ptable[q].state = "SLEEPING" /\ ptable[q].chan = nwrite) => ptable'[q] = ptable[q]
  BY <1>3, <1>4, WakeupTable
<1>12. PTypeOK'
  BY <1>3, <1>4, <1>9, <1>10, <1>11 DEF PTypeOK, file
<1>13. Control'
  <2>1. ASSUME NEW q \in Proc
        PROVE  ControlAt(q)'
    <3>1. ControlAt(q) /\ ofile'[q] = ofile[q] /\ closing'[q] = closing[q]
      BY <1>3 DEF Inv, Control, file
    <3>2. (q # p => pc'[q] = pc[q]) /\ (q = p => pc'[q] = "user" /\ ptable'[q] = ptable[q])
      BY <1>3, <1>4, <1>11 DEF PTypeOK, Runs
    <3>3. CASE ptable'[q] = ptable[q]
      BY <1>3, <1>4, <3>1, <3>2, <3>3 DEF ControlAt, Runs
    <3>4. CASE ptable'[q].state = "RUNNABLE" /\ ptable[q].state = "SLEEPING"
      BY <1>11, <3>1, <3>2, <3>4 DEF ControlAt, Runs
    <3> QED
      BY <1>11, <3>3, <3>4
  <2> QED
    BY <2>1 DEF Control
<1>14. Counted'
  BY <1>3, <1>7, CountedSame DEF Inv
<1>15. NoLostWakeup'
  <2>1. \A q : Children(ptable', q) = Children(ptable, q)
    BY <1>11 DEF Children
  <2>2. \A q : Zombies(ptable', q) = Zombies(ptable, q)
    <3>1. \A q \in Proc : ptable'[q].state = "ZOMBIE" <=> ptable[q].state = "ZOMBIE"
      BY <1>11
    <3> QED
      BY <2>1, <3>1 DEF Zombies, Children
  <2> SUFFICES ASSUME NEW r \in Proc, ptable'[r].state = "SLEEPING"
               PROVE  /\ ptable'[r].chan = nread => pipe'.writeopen /\ (Empty' \/ pipe'.untold)
                      /\ ptable'[r].chan = nwrite => pipe'.readopen /\ Full'
                      /\ ptable'[r].chan = r => Children(ptable', r) # {} /\ Zombies(ptable', r) = {}
                      /\ ~ptable'[r].killed
    BY DEF NoLostWakeup, Sleeps
  <2>3. ptable'[r] = ptable[r] /\ ptable[r].chan # nwrite
    BY <1>11
  <2> QED
    BY <1>7, <1>10, <2>1, <2>2, <2>3 DEF Inv, NoLostWakeup, Sleeps
<1> QED
  BY <1>12, <1>13, <1>14, <1>15 DEF Inv
-----------------------------------------------------------------------------
LEMMA InitInv == Init => Inv
<1> SUFFICES ASSUME Init
             PROVE  Inv
  OBVIOUS
<1> USE NprocAssumption, CounterTypes
<1>1. PTypeOK
  <2>1. ptable \in Tables
    BY DEF Init, Tables, Child, Free, initproc, Proc, NoChan
  <2>2. pipe \in Pipes
    BY DEF Init, Pipes
  <2>3. Count <= PIPESIZE
    <3>1. 0 % UINT = 0
      OBVIOUS
    <3> QED
      BY <3>1 DEF Init, Count
  <2>4. /\ page \in {"none", "live", "freed"}
        /\ ref \in [Ends -> 0 .. NPROC] /\ ofile \in [Proc -> SUBSET Ends]
        /\ closing \in [Proc -> Ends \cup {NoEnd}]
        /\ pc \in [Proc -> {"user", "read", "write", "wait", "exit"}]
        /\ left \in [Proc -> Nat]
    BY DEF Init, AfterWait
  <2> QED
    BY <2>1, <2>2, <2>3, <2>4 DEF PTypeOK
<1>2. Control
  BY DEF Init, Control, ControlAt, Child, Free, AfterWait, initproc, Proc, Runs
<1>3. Counted
  <2>1. \A e : Holders(e) = {}
    BY DEF Init, Holders
  <2>2. Cardinality({}) = 0
    BY FS_EmptySet
  <2>3. \A q \in Proc, e \in Ends : ~Uses(q, e)
    BY DEF Init, Uses, Ends, NoEnd
  <2> QED
    BY <2>1, <2>2, <2>3 DEF Init, Counted, Ends
<1>4. NoLostWakeup
  BY DEF Init, NoLostWakeup, Sleeps, Child, Free, initproc
<1> QED
  BY <1>1, <1>2, <1>3, <1>4 DEF Inv

LEMMA NextInv == Inv /\ [Next]_vars => Inv'
<1> SUFFICES ASSUME Inv, [Next]_vars
             PROVE  Inv'
  OBVIOUS
<1>1. CASE UNCHANGED vars
  <2>1. Counted'
    BY <1>1, CountedSame DEF vars, Inv
  <2>2. PTypeOK'
    BY <1>1 DEF vars, file, Inv, PTypeOK, Count
  <2>3. Control'
    BY <1>1 DEF vars, file, Inv, Control, ControlAt, Runs
  <2>4. NoLostWakeup'
    BY <1>1 DEF vars, Inv, NoLostWakeup, Sleeps, Children, Zombies, Empty, Full
  <2> QED
    BY <2>1, <2>2, <2>3, <2>4 DEF Inv
<1>2. ASSUME NEW p \in Proc, Program(p)
      PROVE  Inv'
  <2>1. Runs(p)
    BY <1>2 DEF Program, sys_pipe, Fork, Kill, Read, Write, Close, WaitCall, ExitCall, Calls, InUser
  <2>2. CASE sys_pipe(p)
    BY <2>2, PipeStep
  <2>3. CASE Fork(p)
    BY <2>3, ForkStep
  <2>4. CASE Kill(p)
    BY <2>4, KillStep
  <2>5. CASE Close(p)
    BY <2>1, <2>5, CloseStep DEF Close, Calls, InUser
  <2>6. CASE Read(p) \/ Write(p) \/ WaitCall(p) \/ ExitCall(p)
    BY <2>1, <2>6, PcOnly
  <2> QED
    BY <1>2, <2>2, <2>3, <2>4, <2>5, <2>6 DEF Program
<1>3. ASSUME NEW p \in Proc, Kernel(p)
      PROVE  Inv'
  <2>1. Runs(p)
    BY <1>3 DEF Kernel
  <2>2. CASE pipewrite(p)
    BY <2>1, <2>2, WriteStep
  <2>3. CASE piperead_Sleeps(p) \/ WaitSleeps(p)
    BY <2>1, <2>3, SleepStep
  <2>4. CASE piperead(p)
    BY <2>1, <2>4, ReadStep
  <2>5. CASE pipeclose(p)
    BY <2>5, PipecloseStep
  <2>6. CASE ExitCloses(p)
    BY <2>1, <2>6, CloseStep DEF ExitCloses
  <2>7. CASE Exit(p)
    BY <2>1, <2>7, ExitStep
  <2>8. CASE WaitReaps(p)
    BY <2>1, <2>8, ReapStep
  <2>9. CASE piperead_Killed(p) \/ KilledExits(p) \/ WaitFails(p)
    BY <2>1, <2>9, PcOnly
  <2> QED
    BY <1>3, <2>2, <2>3, <2>4, <2>5, <2>6, <2>7, <2>8, <2>9 DEF Kernel
<1> QED
  BY <1>1, <1>2, <1>3 DEF Next
-----------------------------------------------------------------------------
\* The pipe never holds more than PIPESIZE bytes and the files never count more
\* references than there are processes, wherever nread and nwrite wrap around.
THEOREM PipeTyping == Spec => []PTypeOK
<1>1. Inv => PTypeOK
  BY DEF Inv
<1> QED
  BY <1>1, InitInv, NextInv, PTL DEF Spec

\* Nobody sleeps past the event they wait for in piperead, pipewrite or wait.
THEOREM WakeupsReach == Spec => []NoLostWakeup
<1>1. Inv => NoLostWakeup
  BY DEF Inv
<1> QED
  BY <1>1, InitInv, NextInv, PTL DEF Spec

\* pipeclose frees the page of the pipe exactly when no process is in, or can
\* get into, the code of the pipe.
THEOREM PageOutlivesUsers == Spec => []PageWhileUsed
<1>1. Inv => PageWhileUsed
  BY DEF Inv, Control, ControlAt, Counted, Uses, PageWhileUsed
<1> QED
  BY <1>1, InitInv, NextInv, PTL DEF Spec
=============================================================================
