---------------------------- MODULE BufferCache -----------------------------
(***************************************************************************)
(* bio.c and ide.c: the cache of disk blocks, one sleep lock per buffer,   *)
(* and the queue of the disk driver.  A buffer is named by the block it    *)
(* holds; which unused buffer bget recycles (the least recently used one)  *)
(* is left open.  A block is one sector, which the disk writes whole.      *)
(***************************************************************************)
EXTENDS Integers, Sequences, FiniteSets, SequencesExt

CONSTANTS Proc, Blocks, NBUF,
          Unread      \* what a recycled buffer holds before the disk fills it

VARIABLES disk,       \* what each block holds on the disk
          bcache,     \* the buffers, by the block they hold
          idequeue,   \* blocks with a request at the disk, the active one first
          call,       \* what each process waits for inside bio.c
          panicked

bio == <<disk, bcache, idequeue, call, panicked>>

Nobody == 0
NoCall == [block |-> -1, wait |-> "nothing"]

(* A buffer bget has just recycled. *)
Fresh == [valid |-> FALSE, dirty |-> FALSE, refcnt |-> 1, lock |-> Nobody, data |-> Unread]

binit == bcache = <<>> /\ idequeue = <<>> /\ call = [p \in Proc |-> NoCall]

Cached(b) == b \in DOMAIN bcache
Holds(p, b) == Cached(b) /\ bcache[b].lock = p
Waits(p, b, what) == call' = [call EXCEPT ![p] = [block |-> b, wait |-> what]]

(* Unused buffers; B_DIRTY marks one that log.c has still to write. *)
Recyclable == {c \in DOMAIN bcache : bcache[c].refcnt = 0 /\ ~bcache[c].dirty}

Full == Cardinality(DOMAIN bcache) >= NBUF
NoBuffers(b) == ~Cached(b) /\ Full /\ Recyclable = {}
Recycled(b) == IF ~Cached(b) /\ Full /\ Recyclable # {}
               THEN {{c} : c \in Recyclable} ELSE {{}}

(* Find the buffer of b or recycle one; its lock is taken in a later step. *)
bget(p, b) ==
  /\ \E gone \in Recycled(b) :
       bcache' = [c \in (DOMAIN bcache \ gone) \cup {b} |->
                    IF ~Cached(c) THEN Fresh
                    ELSE IF c = b THEN [bcache[c] EXCEPT !.refcnt = @ + 1]
                    ELSE bcache[c]]
  /\ Waits(p, b, "lock")
  /\ panicked' = NoBuffers(b)

(* bread: the caller goes on when call[p] waits for nothing any more. *)
bread(p, b) == bget(p, b) /\ UNCHANGED <<disk, idequeue>>

(* acquiresleep in bget, and the read bread starts if the buffer is new. *)
Lock(p) ==
  LET b == call[p].block IN
  /\ call[p].wait = "lock"
  /\ bcache[b].lock = Nobody
  /\ bcache' = [bcache EXCEPT ![b].lock = p]
  /\ IF bcache[b].valid
     THEN Waits(p, b, "nothing") /\ UNCHANGED idequeue
     ELSE Waits(p, b, "disk") /\ idequeue' = Append(idequeue, b)
  /\ UNCHANGED <<disk, panicked>>

(* bwrite of new contents x into a buffer p has locked. *)
bwrite(p, b, x) ==
  /\ bcache' = [bcache EXCEPT ![b].data = x, ![b].dirty = TRUE]
  /\ idequeue' = Append(idequeue, b)
  /\ Waits(p, b, "disk")
  /\ panicked' = ~Holds(p, b)
  /\ UNCHANGED disk

(* The disk has finished the first request and interrupts; the process     *)
(* that sleeps in iderw for this buffer finds it valid and clean.          *)
ideintr ==
  LET b == Head(idequeue) IN
  /\ idequeue # <<>>
  /\ idequeue' = Tail(idequeue)
  /\ disk' = IF bcache[b].dirty THEN [disk EXCEPT ![b] = bcache[b].data] ELSE disk
  /\ bcache' = [bcache EXCEPT ![b].valid = TRUE, ![b].dirty = FALSE,
                             ![b].data = disk'[b]]
  /\ call' = [p \in Proc |-> IF call[p] = [block |-> b, wait |-> "disk"]
                             THEN [call[p] EXCEPT !.wait = "nothing"] ELSE call[p]]
  /\ UNCHANGED panicked

Released_Twice(bs) ==
  [c \in DOMAIN bcache |->
     IF c \in bs THEN [bcache[c] EXCEPT !.lock = Nobody, !.refcnt = @ - 2] ELSE bcache[c]]
(* The buffers after p has released the buffers of bs. *)
Released(bs) ==
  [c \in DOMAIN bcache |->
     IF c \in bs THEN [bcache[c] EXCEPT !.lock = Nobody, !.refcnt = @ - 1] ELSE bcache[c]]

brelse(p, bs) ==
  /\ bcache' = Released(bs)
  /\ call' = [call EXCEPT ![p] = NoCall]
  /\ panicked' = \E b \in bs : ~Holds(p, b)
  /\ UNCHANGED <<disk, idequeue>>
=============================================================================
