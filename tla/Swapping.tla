------------------------------ MODULE Swapping ------------------------------
(***************************************************************************)
(* What CowMemory leaves out: kalloc with an empty free list, and all that *)
(* follows from it.  swap_out picks a victim (final_page), writes its page *)
(* to a swap slot and frees it; handle_page_fault reads a page back; exit  *)
(* and wait release slots; rss, the accessed bits and the pids, which      *)
(* decide who is the victim, are kept.                                     *)
(*                                                                         *)
(* swap_out takes no lock.  Called by a system call it can lose the CPU    *)
(* to a tick at any point, so it is split into steps at the accesses other *)
(* processes can observe; the page-fault handler keeps the CPU (variable   *)
(* cli) except while it sleeps.  write_page_to_swap and                    *)
(* read_page_from_swap sleep, once for the block to be read and once for   *)
(* it to be written: other processes run meanwhile, whoever waits.         *)
(*                                                                         *)
(* Frame numbers and block numbers are both small numbers here, because    *)
(* the code uses one where it means the other.                             *)
(***************************************************************************)
EXTENDS CowMemory, Integers

CONSTANTS
  NSLOTS,    \* NPAGE, the number of swap slots
  SWAPBASE,  \* first swap block
  BPPAGE,    \* blocks per page
  Calls,     \* Calls[p]: what the program in slot p does
  MaxPid,    \* bound on the pids handed out
  AtomicSlots  \* TRUE: no tick between finding a slot free and taking it;
               \* FALSE: what the code allows

Slots == 0..(NSLOTS - 1)
CallNames == {"load", "store", "grow", "shrink", "fork", "exec", "exit", "wait"}

ASSUME SwapAssumption == /\ NSLOTS \in Nat /\ SWAPBASE \in Nat /\ BPPAGE \in Nat \ {0}
                         /\ Calls \in [Proc -> SUBSET CallNames] /\ MaxPid \in Nat
                         /\ Frames \subseteq Nat /\ NoFrame = 0
                         /\ AtomicSlots \in BOOLEAN

VARIABLES
  is_free,    \* swap_slots[i].is_free
  page_perm,  \* swap_slots[i].page_perm
  disk,       \* the content of slot i's blocks
  acc,        \* the entries <<directory, page>> with PTE_A
  rss,        \* proc.rss, in pages
  pid,        \* proc.pid
  nextpid,
  out,        \* out[p]: the swap_out that p is in
  cli,        \* the process that cannot lose the CPU to a tick, or 0
  panic       \* "no", the message of a panic, or "wild"

swapvars == <<is_free, page_perm, disk>>
procvars == <<rss, pid, nextpid>>
svars == <<vars, is_free, page_perm, disk, acc, rss, pid, nextpid, out, cli, panic>>

(* rss is an unsigned int that counts bytes: 2^20 pages and it wraps. *)
RssModulus == 2 ^ 20
Plus(n, k) == (n + k) % RssModulus
Minus_Signed(n, k) == n - k   \* seeded bug
Minus(n, k) == (n + RssModulus - k) % RssModulus

blockno(i) == SWAPBASE + i * BPPAGE
SlotOf(b) == (b - SWAPBASE) \div BPPAGE
SwPte(i) == [NoPte EXCEPT !.sw = TRUE, !.addr = blockno(i)]

(* The locals of swap_out: the victim, the entry pte as page v of the      *)
(* directory d, the slot looked at, the page's frame, its count as read.   *)
NoOut == [at |-> "none", proc |-> 0, d |-> NoFrame, v |-> 0, slot |-> 0,
          pa |-> NoFrame, cnt |-> 0]

(* What eight blocks from b hold: a slot's page, or parts of two slots or  *)
(* of something else.                                                      *)
BlocksAt(b) == IF \E i \in Slots : b = blockno(i) THEN disk[SlotOf(b)] ELSE Junk

SInit ==
  /\ Init
  /\ is_free = [i \in Slots |-> TRUE]
  /\ page_perm = [i \in Slots |-> [w |-> FALSE, u |-> FALSE]]
  /\ disk = [i \in Slots |-> Junk]
  /\ acc = {}
  /\ rss = [p \in Proc |-> 0]
  /\ pid = [p \in Proc |-> IF p = initproc THEN 1 ELSE 0]
  /\ nextpid = 2
  /\ out = [p \in Proc |-> NoOut]
  /\ cli = 0
  /\ panic = "no"

(* p may take a step: no panic, no one else holds the CPU, not in swap_out. *)
Ready(p) == panic = "no" /\ cli \in {0, p} /\ out[p] = NoOut
-----------------------------------------------------------------------------
(***************************************************************************)
(* The victim.                                                             *)
(***************************************************************************)

(* The largest rss, then the smallest pid, then the first slot.  The test  *)
(* for UNUSED is commented out, so a free slot takes part.                 *)
get_victim_process ==
  CHOOSE p \in Proc : \A q \in Proc \ {p} :
    \/ rss[q] < rss[p]
    \/ rss[q] = rss[p] /\ pid[p] < pid[q]
    \/ rss[q] = rss[p] /\ pid[p] = pid[q] /\ p < q

UserPages(v) == {i \in 0..(sz[v] - 1) : Entry(v, i).p /\ Entry(v, i).u}
ColdPages(v) == {i \in UserPages(v) : <<pgdir[v], i>> \notin acc}

HotPages(v) == UserPages(v) \ ColdPages(v)

FlushedPages_Last(v) ==   \* seeded bug
  {i \in HotPages(v) : Cardinality({j \in HotPages(v) : j < i}) % 10 = 9}

(* flush_table clears PTE_A on the first of every ten accessed pages. *)
FlushedPages(v) == {i \in HotPages(v) : Cardinality({j \in HotPages(v) : j < i}) % 10 = 0}

Lowest(S) == CHOOSE i \in S : \A j \in S : i <= j

(* A slot of ptable without a process has a null or a freed directory,     *)
(* which is read as if it were valid when the slot's size is not 0.        *)
Dangling(v) == ~Live(v) /\ sz[v] > 0

(* Where p needs a page from kalloc. *)
AtKalloc(p) ==
  \/ pc[p] \in {"fork_kstack", "fork_dir", "exec_dir", "cow", "swapin"}
  \/ pc[p] = "grow" /\ idx[p] < lim[p]
  \/ pc[p] = "exec" /\ idx[p] < img[p].size + 2

(* p has the CPU and is at one of these points of swap_out. *)
Swaps(p, points) == panic = "no" /\ cli \in {0, p} /\ out[p].at \in points

(* kalloc finds no page: final_page picks the victim, whose rss goes down  *)
(* before a page is found.                                                 *)
SwapOutVictim(p) ==
  /\ Ready(p)
  /\ AtKalloc(p) /\ freelist = {}
  /\ rss' = [rss EXCEPT ![get_victim_process] = Minus(@, 1)]
  /\ out' = [out EXCEPT ![p] = [NoOut EXCEPT !.at = "page", !.proc = get_victim_process]]
  /\ UNCHANGED <<vars, swapvars, acc, pid, nextpid, cli, panic>>

(* get_victim_page: the first page not accessed.  Without one, flush_table *)
(* and once more; without one again final_page returns a null pointer.     *)
SwapOutPage(p) ==
  LET v == out[p].proc
      Found(d, i) == [NoOut EXCEPT !.at = "search", !.d = d, !.v = i] IN
  /\ Swaps(p, {"page", "again"})
  /\ panic' = IF Dangling(v) THEN "wild" ELSE "no"
  /\ out' = [out EXCEPT ![p] =
       IF Dangling(v) THEN @
       ELSE IF ColdPages(v) # {} THEN Found(pgdir[v], Lowest(ColdPages(v)))
       ELSE IF @.at = "page" THEN [@ EXCEPT !.at = "flush"]
       ELSE Found(NoFrame, 0)]
  /\ UNCHANGED <<vars, swapvars, acc, procvars, cli>>

SwapOutFlush(p) ==
  LET v == out[p].proc IN
  /\ Swaps(p, {"flush"})
  /\ panic' = IF Dangling(v) THEN "wild" ELSE "no"
  /\ acc' = IF Dangling(v) THEN acc ELSE acc \ ({pgdir[v]} \X FlushedPages(v))
  /\ out' = [out EXCEPT ![p].at = "again"]
  /\ UNCHANGED <<vars, swapvars, procvars, cli>>

FreeSlot_Any(i) == TRUE   \* seeded bug
FreeSlot(i) == is_free[i]

(* One round of swap_out's loop over the slots. *)
SwapOutSearch(p) ==
  LET i == out[p].slot IN
  /\ Swaps(p, {"search"})
  /\ i < NSLOTS
  /\ out' = [out EXCEPT ![p] = IF FreeSlot(i) THEN [@ EXCEPT !.at = "take"]
                                            ELSE [@ EXCEPT !.slot = @ + 1]]
  /\ cli' = IF FreeSlot(i) /\ AtomicSlots THEN p ELSE cli
  /\ UNCHANGED <<vars, swapvars, acc, procvars, panic>>

SwapFull(p) ==
  /\ Swaps(p, {"search"})
  /\ out[p].slot = NSLOTS
  /\ panic' = "Swap full"
  /\ UNCHANGED <<vars, swapvars, acc, procvars, out, cli>>

(* The slot is taken and write_page_to_swap begins, with the entry as it   *)
(* is now.  A null pointer, an entry of a freed directory and one that is  *)
(* not present any more are used like any other.                           *)
SwapOutTake(p) ==
  LET o == out[p]
      ok == o.d \in Dirs /\ table[o.d][o.v].p
      e == IF ok THEN table[o.d][o.v] ELSE NoPte IN
  /\ Swaps(p, {"take"})
  /\ panic' = IF ok THEN "no" ELSE "wild"
  /\ is_free' = [is_free EXCEPT ![o.slot] = FALSE]
  /\ page_perm' = [page_perm EXCEPT ![o.slot] = [w |-> e.w, u |-> e.u]]
  /\ out' = [out EXCEPT ![p].at = "bread", ![p].pa = e.addr]
  /\ cli' = 0
  /\ UNCHANGED <<vars, disk, acc, procvars>>

(* Seeded bug: the block is not filled before it is written. *)
SwapOutCopy_Unfilled(p) ==
  /\ Swaps(p, {"bread"})
  /\ out' = [out EXCEPT ![p].at = "bwrite"]
  /\ UNCHANGED <<vars, is_free, page_perm, disk, acc, procvars, cli, panic>>

(* The block is there: the page is copied into it, and bwrite sleeps. *)
SwapOutCopy(p) ==
  /\ Swaps(p, {"bread"})
  /\ disk' = [disk EXCEPT ![out[p].slot] = data[out[p].pa]]
  /\ out' = [out EXCEPT ![p].at = "bwrite"]
  /\ UNCHANGED <<vars, is_free, page_perm, acc, procvars, cli, panic>>

(* The block is written: kfree of the page, whatever has become of it      *)
(* during the sleep.  The handler has the CPU again.                       *)
SwapOutKfree(p) ==
  LET f == out[p].pa IN
  /\ Swaps(p, {"bwrite"})
  /\ cli' = IF pc[p] \in {"cow", "swapin"} THEN p ELSE 0
  /\ \/ /\ AtomicRefcnt
        /\ kfree({f})
        /\ panic' = IF f \in freelist THEN "wild" ELSE "no"
        /\ out' = [out EXCEPT ![p].at = "entry"]
     \/ /\ ~AtomicRefcnt
        /\ out' = [out EXCEPT ![p].at = "kfree", ![p].cnt = refcnt[f]]
        /\ UNCHANGED <<kmem, panic>>
  /\ UNCHANGED <<table, ptable, locals, swapvars, acc, procvars>>

(* kfree's second half, when the count was read in a step of its own.      *)
SwapOutKfreed(p) ==
  LET f == out[p].pa IN
  /\ Swaps(p, {"kfree"})
  /\ kfree_read(f, out[p].cnt)
  /\ panic' = IF f \in freelist THEN "wild" ELSE "no"
  /\ out' = [out EXCEPT ![p].at = "entry", ![p].cnt = 0]
  /\ UNCHANGED <<table, ptable, locals, swapvars, acc, procvars, cli>>

(* The entry now names the slot, and kalloc starts again.  Writing to an   *)
(* entry of a freed directory damages other structures.                    *)
SwapOutEntry(p) ==
  LET o == out[p] IN
  /\ Swaps(p, {"entry"})
  /\ table' = [table EXCEPT ![o.d][o.v] = SwPte(o.slot)]
  /\ panic' = IF o.d \in Dirs THEN "no" ELSE "wild"
  /\ out' = [out EXCEPT ![p] = NoOut]
  /\ UNCHANGED <<kmem, ptable, locals, swapvars, acc, procvars, cli>>
-----------------------------------------------------------------------------
(***************************************************************************)
(* handle_page_fault when kalloc may have to wait.                         *)
(***************************************************************************)
FaultCopyWait(p, v) ==
  /\ Ready(p)
  /\ Refused(p, v)
  /\ Shared(Entry(p, v).addr)
  /\ freelist = {}
  /\ pc' = [pc EXCEPT ![p] = "cow"]
  /\ idx' = [idx EXCEPT ![p] = v]
  /\ cli' = p
  /\ UNCHANGED <<kmem, table, ptable, chld, odir, lim, img, ent, tmp,
                 swapvars, acc, procvars, out, panic>>

(* The rest of cow_page, with the entry as it is now. *)
CowResume(p) ==
  /\ Ready(p)
  /\ pc[p] = "cow"
  /\ Entry(p, idx[p]).p
  /\ \E g \in freelist : cow_page(p, idx[p], g)
  /\ Return(p)
  /\ cli' = 0
  /\ UNCHANGED <<ptable, swapvars, acc, procvars, out, panic>>

(* The same after the entry itself was swapped out: its block number is    *)
(* taken for a frame number.                                               *)
CowResumeGone(p) ==
  LET e == Entry(p, idx[p]) IN
  /\ Ready(p)
  /\ pc[p] = "cow"
  /\ ~e.p
  /\ \E g \in freelist :
       /\ freelist' = freelist \ {g}
       /\ refcnt' = [f \in Frames |-> (IF f = g THEN 1 ELSE refcnt[f])
                                        - (IF f = e.addr THEN 1 ELSE 0)]
       /\ data' = [data EXCEPT ![g] = IF e.addr \in Frames THEN data[e.addr] ELSE Junk]
       /\ table' = [table EXCEPT ![pgdir[p]][idx[p]] = [@ EXCEPT !.addr = g, !.w = TRUE]]
  /\ Return(p)
  /\ cli' = 0
  /\ UNCHANGED <<ptable, swapvars, acc, procvars, out, panic>>

FaultSwapIn(p, v) ==
  /\ Ready(p)
  /\ InUser(p) /\ Entry(p, v).sw /\ ~Entry(p, v).p
  /\ pc' = [pc EXCEPT ![p] = "swapin"]
  /\ idx' = [idx EXCEPT ![p] = v]
  /\ cli' = p
  /\ UNCHANGED <<kmem, table, ptable, chld, odir, lim, img, ent, tmp,
                 swapvars, acc, procvars, out, panic>>

SwapInKalloc(p) ==
  /\ Ready(p)
  /\ pc[p] = "swapin"
  /\ \E f \in Frames :
       /\ kalloc(f)
       /\ ent' = [ent EXCEPT ![p] = [NoPte EXCEPT !.addr = f]]
  /\ tmp' = [tmp EXCEPT ![p] = Entry(p, idx[p]).addr]
  /\ rss' = [rss EXCEPT ![p] = Plus(@, 1)]
  /\ pc' = [pc EXCEPT ![p] = "swapin_read"]
  /\ cli' = 0
  /\ UNCHANGED <<data, table, ptable, chld, odir, idx, lim, img,
                 swapvars, acc, pid, nextpid, out, panic>>

(* The page is read from the block found before the sleep.  refcnt_to_disk *)
(* is always 0, and it is stored under the block number the entry holds    *)
(* now; the slot's permissions come back, the slot is free.                *)
SwapInEnd(p) ==
  LET b == tmp[p]
      f == ent[p].addr
      perm == IF SlotOf(b) \in Slots THEN page_perm[SlotOf(b)]
                                     ELSE [w |-> FALSE, u |-> FALSE] IN
  /\ Ready(p)
  /\ pc[p] = "swapin_read"
  /\ data' = [data EXCEPT ![f] = BlocksAt(b)]
  /\ refcnt' = [g \in Frames |-> IF g = Entry(p, idx[p]).addr THEN 0 ELSE refcnt[g]]
  /\ table' = [table EXCEPT ![pgdir[p]][idx[p]] =
                 [UserPte(f, perm.u) EXCEPT !.w = perm.w]]
  /\ is_free' = [i \in Slots |-> is_free[i] \/ i = SlotOf(b)]
  /\ acc' = acc \ {<<pgdir[p], idx[p]>>}
  /\ Return(p)
  /\ UNCHANGED <<freelist, ptable, page_perm, disk, procvars, out, cli, panic>>
-----------------------------------------------------------------------------
(***************************************************************************)
(* The paths of CowMemory, with what they do to rss, pids, slots and       *)
(* accessed bits.                                                          *)
(***************************************************************************)
May(p, call) == Ready(p) /\ call \in Calls[p]
Quiet == UNCHANGED <<swapvars, procvars, out, cli, panic>>
Still == Quiet /\ UNCHANGED acc

(* A load or a store sets PTE_A. *)
Load(p, v) ==
  /\ May(p, "load") /\ InUser(p)
  /\ Entry(p, v).p /\ Entry(p, v).u
  /\ acc' = acc \cup {<<pgdir[p], v>>}
  /\ UNCHANGED vars /\ Quiet

Store(p, v, x) ==
  /\ May(p, "store")
  /\ Write(p, v, x)
  /\ acc' = acc \cup {<<pgdir[p], v>>}
  /\ Quiet

SGrowPage(p) ==
  /\ Ready(p)
  /\ GrowPage(p)
  /\ rss' = [rss EXCEPT ![p] = Plus(@, 1)]
  /\ acc' = acc \ {<<pgdir[p], idx[p]>>}
  /\ UNCHANGED <<swapvars, pid, nextpid, out, cli, panic>>

SForkAlloc(p, c) ==
  /\ May(p, "fork") /\ nextpid <= MaxPid
  /\ ForkAlloc(p, c)
  /\ pid' = [pid EXCEPT ![c] = nextpid]
  /\ nextpid' = nextpid + 1
  /\ UNCHANGED <<swapvars, acc, rss, out, cli, panic>>

(* Each page counts for the child before it is looked at; the child's      *)
(* entry inherits PTE_A with the other flags.                              *)
SForkProtect(p) ==
  /\ Ready(p)
  /\ ForkProtect(p)
  /\ rss' = [rss EXCEPT ![chld[p]] = Plus(@, 1)]
  /\ acc' = (acc \ {<<odir[p], idx[p]>>}) \cup
            {m \in {<<odir[p], idx[p]>>} : <<pgdir[p], idx[p]>> \in acc}
  /\ UNCHANGED <<swapvars, pid, nextpid, out, cli, panic>>

ForkPanic(p) ==
  /\ Ready(p)
  /\ pc[p] = "fork_copy" /\ idx[p] < sz[p] /\ ~Entry(p, idx[p]).p
  /\ panic' = "copyuvm: page not present"
  /\ rss' = [rss EXCEPT ![chld[p]] = Plus(@, 1)]
  /\ UNCHANGED <<vars, swapvars, acc, pid, nextpid, out, cli>>

SExecPage(p) ==
  /\ Ready(p)
  /\ ExecPage(p)
  /\ rss' = [rss EXCEPT ![p] = Plus(@, 1)]
  /\ acc' = acc \ {<<odir[p], idx[p]>>}
  /\ UNCHANGED <<swapvars, pid, nextpid, out, cli, panic>>

(* deallocuvm meets the entries in order. *)
SwappedToFree(p) == {v \in DeallocRange(p) : table[DeallocDir(p)][v].sw
                                             /\ ~table[DeallocDir(p)][v].p}
NextIsSwapped(p) == \E v \in SwappedToFree(p) : \A u \in ToFree(p) : v < u

(* A swapped page: dec_swap_slot_refcnt finds refcnt_to_disk at 0. *)
DeallocPanic(p) ==
  /\ Ready(p)
  /\ pc[p] = "dealloc" /\ NextIsSwapped(p)
  /\ panic' = "refcnt already 0"
  /\ UNCHANGED <<vars, swapvars, acc, procvars, out, cli>>

SDeallocClear(p) ==
  /\ Ready(p)
  /\ DeallocClear(p)
  /\ rss' = [rss EXCEPT ![p] = Minus(@, 1)]
  /\ acc' = acc \ {<<DeallocDir(p), idx[p]>>}
  /\ UNCHANGED <<swapvars, pid, nextpid, out, cli, panic>>

clear_zombie_Forgotten(c) == UNCHANGED is_free   \* seeded bug

(* clear_zombie releases the slots its entries name. *)
clear_zombie(c) ==
  is_free' = [i \in Slots |-> is_free[i] \/ \E v \in Pages :
                 Entry(c, v).sw /\ ~Entry(c, v).p /\ i = SlotOf(Entry(c, v).addr)]

(* clear_zombie, then CowMemory's wait; rss loses the pages and one more   *)
(* "for k-stack".                                                          *)
SWait(p, c) ==
  /\ May(p, "wait")
  /\ Wait(p, c)
  /\ clear_zombie(c)
  /\ rss' = [rss EXCEPT ![c] = Minus(@, 1 + Cardinality({v \in Pages : Entry(c, v).p}))]
  /\ pid' = [pid EXCEPT ![c] = 0]
  /\ UNCHANGED <<page_perm, disk, acc, nextpid, out, cli, panic>>

SNext ==
  \E p \in Proc :
    \/ SwapOutVictim(p)
    \/ SwapOutPage(p)
    \/ SwapOutFlush(p)
    \/ SwapOutSearch(p)
    \/ SwapFull(p)
    \/ SwapOutTake(p)
    \/ SwapOutCopy(p)
    \/ SwapOutKfree(p)
    \/ SwapOutKfreed(p)
    \/ SwapOutEntry(p)
    \/ \E v \in Stored : May(p, "store") /\ FaultCopyWait(p, v)
    \/ CowResume(p)
    \/ CowResumeGone(p)
    \/ \E v \in Pages : May(p, "load") /\ FaultSwapIn(p, v)
    \/ SwapInKalloc(p)
    \/ SwapInEnd(p)
    \/ \E v \in Pages : Load(p, v)
    \/ \E v \in Stored, x \in Values : Store(p, v, x)
    \/ \E v \in Stored : May(p, "store") /\ FaultCopy(p, v) /\ Still
    \/ \E v \in Stored : May(p, "store") /\ FaultReuse(p, v) /\ Still
    \/ \E n \in Deltas : May(p, "grow") /\ SbrkGrow(p, n) /\ Still
    \/ SGrowPage(p)
    \/ Ready(p) /\ GrowDone(p) /\ Still
    \/ \E n \in Deltas : May(p, "shrink") /\ SbrkShrink(p, n) /\ Still
    \/ Ready(p) /\ ~NextIsSwapped(p) /\ DeallocPage(p) /\ Still
    \/ DeallocPanic(p)
    \/ Ready(p) /\ DeallocKfree(p) /\ Still
    \/ SDeallocClear(p)
    \/ Ready(p) /\ SwappedToFree(p) = {} /\ ShrinkDone(p) /\ Still
    \/ \E c \in Proc : SForkAlloc(p, c)
    \/ Ready(p) /\ ForkKstack(p) /\ Still
    \/ Ready(p) /\ ForkSetupkvm(p) /\ Still
    \/ SForkProtect(p)
    \/ ForkPanic(p)
    \/ Ready(p) /\ ForkMap(p) /\ Still
    \/ Ready(p) /\ ForkInc(p) /\ Still
    \/ Ready(p) /\ ForkDone(p) /\ Still
    \/ \E im \in Images : May(p, "exec") /\ ExecStart(p, im) /\ Still
    \/ Ready(p) /\ ExecSetupkvm(p) /\ Still
    \/ SExecPage(p)
    \/ Ready(p) /\ ExecBad(p) /\ Still
    \/ Ready(p) /\ ExecCommit(p) /\ Still
    \/ Ready(p) /\ SwappedToFree(p) = {} /\ FreevmDone(p) /\ Still
    \/ May(p, "exit") /\ Exit(p) /\ Still
    \/ \E c \in Proc : SWait(p, c)

SSpec == SInit /\ [][SNext]_svars
-----------------------------------------------------------------------------
(***************************************************************************)
(* Properties.                                                             *)
(***************************************************************************)
Writing == {"bread", "bwrite", "kfree", "entry"}
SwapPoints == {"page", "flush", "again", "search", "take"} \cup Writing
SPTE == [p : BOOLEAN, sw : BOOLEAN, w : BOOLEAN, u : BOOLEAN, addr : Nat]

(* Types with swapping: the slots, the state of each swap_out, and rss,    *)
(* which stays an unsigned number.                                         *)
STypeOK ==
  /\ freelist \subseteq Frames
  /\ refcnt \in [Frames -> Int]
  /\ data \in [Frames -> Values \cup {Junk}]
  /\ table \in [Frames -> [Pages -> SPTE]]
  /\ pc \in [Proc -> Labels \cup {"cow", "swapin", "swapin_read"}]
  /\ ent \in [Proc -> SPTE]
  /\ is_free \in [Slots -> BOOLEAN]
  /\ page_perm \in [Slots -> [w : BOOLEAN, u : BOOLEAN]]
  /\ disk \in [Slots -> Values \cup {Junk}]
  /\ acc \subseteq Frames \X Pages
  /\ rss \in [Proc -> 0..(RssModulus - 1)]
  /\ pid \in [Proc -> 0..MaxPid]
  /\ nextpid \in 2..(MaxPid + 1)
  /\ out \in [Proc -> [at : {"none"} \cup SwapPoints, proc : Proc \cup {0},
                       d : Frames \cup {NoFrame}, v : Pages, slot : 0..NSLOTS,
                       pa : Frames \cup {NoFrame}, cnt : Int]]
  /\ cli \in Proc \cup {0}
  /\ panic \in {"no", "wild", "Swap full", "copyuvm: page not present", "refcnt already 0"}

(* The entries that name slot i, and the processes writing to it. *)
SlotEntries(i) == {m \in Dirs \X Pages : /\ table[m[1]][m[2]].sw /\ ~table[m[1]][m[2]].p
                                         /\ table[m[1]][m[2]].addr = blockno(i)}
SlotWriters(i) == {p \in Proc : out[p].at \in Writing /\ out[p].slot = i}
SlotUses(i) == Cardinality(SlotEntries(i)) + Cardinality(SlotWriters(i))

(* swap_out takes a slot before it sleeps and handle_page_fault gives it   *)
(* back after it has read: two pages never share a slot, and a free slot   *)
(* is not in use.                                                          *)
SlotExclusive == \A i \in Slots : SlotUses(i) <= (IF is_free[i] THEN 0 ELSE 1)

(* Slots do not leak either: each taken slot is in use, and clear_zombie   *)
(* releases those of a process that exited while swapped out.              *)
SlotsExact == \A i \in Slots : SlotUses(i) = (IF is_free[i] THEN 0 ELSE 1)

(* Every page is on the free list, a kernel stack, a directory, mapped, or *)
(* being filled by handle_page_fault.  An entry whose page swap_out has    *)
(* given to kfree does not count: it is about to name the slot instead.    *)
Leaving == {<<out[p].d, out[p].v>> : p \in {q \in Proc : out[q].at = "entry"}}
StillMapped == {table[m[1]][m[2]].addr : m \in EntriesInUse \ Leaving}
BeingRead == {ent[p].addr : p \in {q \in Proc : pc[q] = "swapin_read"}}
SFramesPartitioned ==
  /\ Frames = freelist \cup Stacks \cup Dirs \cup StillMapped \cup BeingRead
  /\ freelist \cap (Stacks \cup Dirs \cup StillMapped \cup BeingRead) = {}
  /\ BeingRead \cap (Stacks \cup Dirs \cup StillMapped) = {}

(* swap_out always finds what it needs: a program that loads, stores,      *)
(* grows and exits while its parent waits never makes the kernel panic or  *)
(* follow a null pointer, given memory for the kernel's own pages and a    *)
(* slot for each user page.  get_victim_process finds a process with a     *)
(* page, flush_table leaves get_victim_page one to return, and a slot is   *)
(* free.                                                                   *)
NeverPanics == panic = "no"

(* The victim page "is written into an available swap slot": when the      *)
(* write is over and the page is about to be freed, the slot holds what    *)
(* the entry's page holds.                                                 *)
SlotHoldsPage ==
  \A p \in Proc :
    LET o == out[p] IN
    o.at = "bwrite" /\ o.d \in Dirs /\ table[o.d][o.v].p /\ table[o.d][o.v].addr = o.pa
      => disk[o.slot] = data[o.pa]

(* "constraint: pte is present in the pagetable": when cow_page has its    *)
(* new page and copies, the entry is one of a present page.                *)
CowPagePresent ==
  \A p \in Proc : pc[p] = "cow" /\ out[p] = NoOut /\ freelist # {} => Entry(p, idx[p]).p
=============================================================================
