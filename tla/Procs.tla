------------------------------- MODULE Procs --------------------------------
(***************************************************************************)
(* proc.c without memory: sleep and wakeup, kill, exit and wait on the     *)
(* process table.  Each operator gives the table after a piece of code     *)
(* that runs under ptable.lock, which no other process can interrupt.      *)
(* RUNNING is not told apart from RUNNABLE.                                *)
(***************************************************************************)
EXTENDS Integers, FiniteSets

CONSTANT NPROC

ASSUME NprocAssumption == NPROC \in Nat /\ NPROC >= 2

VARIABLE ptable

Proc == 1 .. NPROC
initproc == 1

(* A process sleeping in wait() uses its own address as the channel. *)
NoChan == 0

Free == [state |-> "UNUSED", chan |-> NoChan, parent |-> 0, killed |-> FALSE]
Child(p) == [state |-> "RUNNABLE", chan |-> NoChan, parent |-> p, killed |-> FALSE]

Runs(p) == ptable[p].state = "RUNNABLE"
Sleeps(p, c) == ptable[p].state = "SLEEPING" /\ ptable[p].chan = c
Children(t, p) == {q \in Proc : t[q].parent = p}
Zombies_Short(t, p) == {q \in Children(t, p) : q < NPROC /\ t[q].state = "ZOMBIE"}
Zombies(t, p) == {q \in Children(t, p) : t[q].state = "ZOMBIE"}

Awake(r) == [r EXCEPT !.state = "RUNNABLE", !.chan = NoChan]
sleep(t, p, c) == [t EXCEPT ![p].state = "SLEEPING", ![p].chan = c]
wakeup1(t, c) == [q \in Proc |-> IF t[q].state = "SLEEPING" /\ t[q].chan = c
                                 THEN Awake(t[q]) ELSE t[q]]

kill_Asleep(t, q) == [t EXCEPT ![q].killed = TRUE]
kill(t, q) ==
  LET r == [t[q] EXCEPT !.killed = TRUE] IN
  [t EXCEPT ![q] = IF r.state = "SLEEPING" THEN Awake(r) ELSE r]

fork(t, p, q) == [t EXCEPT ![q] = Child(p)]

(* exit, from acquire(&ptable.lock) on: wake the parent, give the children *)
(* to init, and wake init if one of them is dead already.                  *)
exit(t, p) ==
  LET woken == wakeup1(t, t[p].parent)
      given == [q \in Proc |-> IF t[q].parent = p THEN [woken[q] EXCEPT !.parent = initproc]
                               ELSE woken[q]]
      told == IF Zombies(t, p) # {} THEN wakeup1(given, initproc) ELSE given
  IN  [told EXCEPT ![p].state = "ZOMBIE"]

reap(t, q) == [t EXCEPT ![q] = Free]
=============================================================================
