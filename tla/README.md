# Copy-on-write and swapping in xv6: a verification in TLA+

This directory models the parts of this xv6 kernel where several processes,
interrupts and the disk meet: memory with copy-on-write fork, swapping, the log
and the buffer cache, the file system on top of them with the programs and tests
that use it, the console's input, and pipes on top of sleep, wakeup, kill and
wait. TLC checks the modules on small instances. TLAPS proves theorems about the
memory, the log, the pipe and the console's ring for every value of the constants.

Every definition that stands for code is listed in `PROJECT.json` under `map`
with the source lines it models. Definitions marked "seeded bug" are wrong on
purpose: each shows that some property notices that mistake.

## 1. The system

The kernel is taken with one CPU. A system call runs with interrupts on, so a
timer tick may switch to another process between any two of its instructions,
except where it holds a spin lock. Page faults enter through an interrupt gate
and are switched out only where they sleep.

| part | source | state | operations | what makes it right |
|---|---|---|---|---|
| page allocator, reference counts | kalloc.c | free list, `page_to_refcnt` | kalloc, kfree | every page has one owner or is free; counts equal the entries |
| page tables | vm.c | directories, PTE flags | copyuvm_cow, allocuvm, deallocuvm, freevm, clear_zombie | no entry outlives its page, no "remap" panic |
| copy-on-write fault | trap.c, pageswap.c | PTE_W, counts | handle_page_fault, cow_page | a writable page is private |
| swapping | pageswap.c, proc.c | slots, rss, PTE_A, PTE_SW | swap_out, final_page, swap-in | a page comes back as it went; slots neither shared nor lost |
| processes | proc.c | ptable | fork, exit, wait, kill, sleep, wakeup, growproc | no lost wakeup; killed processes die, dead ones are reaped |
| exec | exec.c | old and new directory | exec | all or nothing, also when it fails |
| buffer cache, disk | bio.c, ide.c, sleeplock.c | buffers, idequeue | bget, bread, bwrite, brelse, iderw, ideintr | one copy per block, sleepers woken |
| log | log.c | log header, outstanding, committing | begin_op, log_write, end_op, commit, recovery | operations are all or nothing over power failures |
| pipes, files | pipe.c, file.c | ring buffer, counters, references | pipealloc, pipewrite, piperead, pipeclose, filedup, fileclose | bytes in order, no use after free |
| inodes, directories, calls on files | fs.c, file.c, sysfile.c | disk blocks, inode cache, file table | open, create, link, unlink, mkdir, mknod, chdir, exec, read, write, dup, close, fstat | exact references and link counts, a consistent disk after every crash |
| mkfs | mkfs.c | the first disk image | main | consistent from the start |
| console input | console.c | ring with indices r, w, e | consoleintr, consoleread | no character lost or taken back |
| programs | usertests.c, init.c, sh.c, cat.c, ls.c, echo.c, zombie.c | | sequences of calls | the tests get what they check for |
| interrupt controllers, boot, output | | | | not modelled (section 8) |

How they interact: fork, exec and the fault handler share pages through the
reference counts. An empty free list makes kalloc start a swap_out in the middle
of any of them. Swap traffic and the file system share the buffers. The calls on
files run in transactions of the log. Pipes rest on sleep and wakeup, and exit
closes their ends.

`PROJECT.json` lists under `hazards` the places where this is hard to test, with
the properties that cover each one, or a note saying why none does.

## 2. The modules

| module | models | implements |
|---|---|---|
| `AddressSpaces` | what programs are promised: a private address space each | |
| `CowMemory` | kalloc.c, vm.c, the fault handler, and the memory side of fork, sbrk, exec, exit and wait, while there is free memory | |
| `CowIsolation` | the refinement mapping, and a record of the store each step makes | `AddressSpaces` |
| `CowMemoryInv` | the strengthened invariant `IInv` | |
| `CowMemoryTyping`, `CowMemoryControl` | proofs about `CowMemory` | |
| `Swapping` | `CowMemory` with an empty free list: swap_out, victims, slots, rss, swap-in | |
| `SwapSpaces` | the refinement mapping for `Swapping` | `AddressSpaces` |
| `Transactions` | what the log promises: groups of operations become durable together | |
| `BufferCache` | bio.c, ide.c, and sleep locks as buffers use them | |
| `Log` | log.c over `BufferCache`, power failures, recovery, swap traffic | `Transactions` |
| `Procs` | sleep, wakeup1, kill, fork, exit and wait as operators on ptable | |
| `Stream` | what a pipe promises: bytes that writers hand over come out in order, up to an end of file | |
| `Pipe` | pipe.c over `Procs`, with the reference counts of file.c | `Stream` |
| `Inodes` | fs.c as operators on a state of disk and inode cache: balloc, ialloc, iget, ilock, bmap, itrunc, readi, writei, directories, path elements | |
| `Mkfs` | mkfs.c: the image | |
| `Console` | the input ring of console.c as operators | |
| `Files` | sysfile.c, file.c, namex and iput as steps of processes; fork, wait, kill and exit as far as files go; power failures | |
| `UserTests`, `UserPrograms` | usertests.c, init.c, sh.c, cat.c, ls.c, echo.c and zombie.c as sequences of calls with expected results | |
| `PipeProofs`, `LogProofs`, `ConsoleProofs` | proofs | |
| `MC*` | small instances for TLC | |

**CowMemory.** `freelist`, `refcnt` and `data` are kalloc.c's free list,
`page_to_refcnt` and the pages' contents. `table[d][v]` is the entry for user
page `v` in directory `d` (one frame stands for a directory with its page-table
pages). `state`, `parent`, `sz`, `pgdir` and `kstack` are fields of ptable. `pc`
and the locals `chld`, `odir`, `idx`, `lim`, `img`, `ent` and `tmp` say where a
process is inside a system call. A path is split where another process can see
the difference. fork, for instance, is `fork_kstack`, `fork_dir`, and then per
page `fork_copy` (the parent's entry loses PTE_W), `fork_map` and `fork_inc`.
deallocuvm frees a page before it clears the entry, and so does the model
(`Stale`).

`AtomicRefcnt` says whether a tick may come between reading a count and writing
it back. **FALSE is what the compiled code allows.** TRUE is the kernel one would
have with the counts under a lock. Runs with TRUE therefore show that everything
except that race is right; runs with FALSE show what the race does.

**AddressSpaces** is stated with the stores the programs make: a step that stores
`x` at page `v` of process `p` changes that page to `x` and nothing else, and only
fork, sbrk, exec and exit change a space otherwise. Its variable `store` is mapped
to `did`, which the MC modules add to the state: it holds the store of the step
just made, read off the program's action (`Records`). So a page that comes back
from a slot with another content is not taken for a store.

**Swapping** adds kalloc's other branch. A swap_out is in `out[p]`, with its
locals. It takes no lock, and when it is called from sbrk, fork or exec a tick may
come between any two of its steps:

| step | pageswap.c |
|---|---|
| `SwapOutVictim` | 60: final_page chooses a process and takes a page off its rss |
| `SwapOutPage`, `SwapOutFlush` | 60: it chooses a page of that process, after flush_table if there is none |
| `SwapOutSearch`, `SwapFull` | 61-62 and 83: the loop looks at the next slot, or there is none |
| `SwapOutTake` | 63-65: the slot is taken and gets the permissions, the page is looked up |
| `SwapOutCopy` and the sleeps of write_page_to_swap | 66: once for a block's read, once for its write |
| `SwapOutKfree`, `SwapOutKfreed` | 73: kfree reads the count, writes it back and frees |
| `SwapOutEntry` | 76-79: the entry gets the block number |

Each loop of final_page is one step, the eight blocks of a slot are written as
one, and an update of rss is not split. Whoever sleeps gives up the CPU; otherwise
the fault handler keeps it (`cli`). Panics are values of `panic`. The value "wild"
means that the code goes on with an entry or a page that is no longer what it was.
Behaviour after that is not followed.

`AtomicSlots` is to slots what `AtomicRefcnt` is to counts: **FALSE is what the
code allows**, TRUE excludes a tick between the test of `is_free` and its
assignment.

**Log** has one action per stretch between sleeps of log.c. log_write is two: its
tests are made before it takes log.lock, and another operation may append in
between. A block is one value
and a sector write is atomic. `Crash` empties memory and keeps `disk`; recovery
is then run by process 1 and can itself be interrupted by a crash. The choice of
the buffer to recycle is left open, which includes the LRU order of bget.

**Pipe** has one action per stretch under the pipe's lock. The bytes of one write
are all different, each known by its distance from the end of the writer's buffer
(`Addr`); `got` is what a piperead that returns in a step has copied. `Stream` ties
the two together: what goes in is the next part of a writer's buffer, and what a
reader receives is what has been in longest. The file-system
part of exit (releasing the current directory) is left out; `Files` has it.
`pipe.untold` is the one history variable: the pipe holds bytes that sleeping
readers were not woken for, because a killed writer returned (pipe.c:86).

**Files.** `disk` is the disk as the kernel sees it through the buffers: inodes,
bitmap and blocks. `durable` is the disk that recovery would find, `logged` the
blocks of the running transaction, `active` the processes between begin_op and
end_op. `icache` and `ftable` are the tables of fs.c and file.c. `proc[p]` has the
table entry, the program and its next call, and the locals of the call it is in.
The last end_op copies the logged blocks from `disk` to `durable` in one step,
because `Log` shows that commit and recovery behave like that. A block is `BSIZE`
units; a unit is a directory entry or a datum. A path is a sequence of names.

A call is split where another process can see the difference: where it waits for
an inode's lock, at begin_op and end_op, and between iput's look at `ref` and its
`ref--`. A stretch under one lock that waits for nothing else is one step, since
all that others can see of it is its end. Freeing an inode (itrunc, iupdate,
`valid = 0`, release) is one step for that reason. So is consolewrite, which
gives up and retakes the inode's lock around its output. What sys_open stores in
a file after end_op belongs to a file no other process has. Process 1 runs the
program; its parent, init, is outside the model, and orphans are reaped at once.

A program is a sequence of calls, each with the result it expects. A test fails
when a result differs (`failed`). The loops of the tests are unrolled with their
counts reduced to what the scaled disk needs: a write of more than one chunk, a
file of the largest size, a directory of more than one block. Branches on random
numbers are nondeterministic (`goto`).

## 3. Runs

| run | instance | states | what it shows |
|---|---|---|---|
| `cow` | load `share`: 3 processes of 2 pages; load `exec`: 2 processes of 3 pages with an image; 14 frames, atomic counts | 36,416 | types, `IInv`, exact counts, private writable pages, a partition of the frames, no panic, refinement of `AddressSpaces`; with exec, successful or failing, beside a process that shares the pages |
| `cow_race` | 3 processes, counts not atomic | violation | a writable page that is shared (finding 1) |
| `swap_solo` | 2 processes, 4 pages, 7 frames, 4 slots, workload `Solo` | 25,308 | slots and frames exact, every swap_out finds a page and a slot, pages come back unchanged |
| `swap_duo` | 2 processes, 3 pages, 7 frames, 2 slots, workload `Duo`, counts not atomic, slots atomic | 32,967 | whatever the other races do, no slot has two users and no slot in use is free |
| `swap_slot` | the same, slots not atomic | violation | one slot for two pages (finding 2) |
| `swap_lost`, `swap_cow`, `swap_refcnt` | 2 processes, 3 pages, 6 frames, 3 slots | violations | findings 3, 4 and 5 |
| `fs_log` | 2 processes, 2 home blocks, 1 swap block, 4 buffers, log of 4, 2 crashes | 261,467 | atomic operations, no panic, no lost wakeup, every call returns |
| `pipe` | init and 2 programs, 2-byte pipe, counters modulo 4 | 235,132 | bytes in order, no lost wakeup, no use after free, killed processes exit, orphans are reaped |
| `files` | 33 programs, 3 processes, 14 inodes, 66 blocks of 3 units, one crash | 49,144 | the tests that are modelled get their results; exact references; a consistent disk between transactions and after a crash; no panic; operations fit in the log; the console's ring in order; programs end |
| `files_deadlock` | the program linkunlink, 2 processes | violation | processes that wait for each other's locks (finding 6) |

The passing runs take between half a minute and about three minutes each.

### Why the bounds are enough, and where they are not

- *Processes.* Two are enough for a page that is shared while one side forks,
  faults or exits. The race needs a third: a lost increment must meet a count
  that two others still rely on. So nothing is claimed for counts that are not
  atomic, except about slots: a run with two processes would hide the race, and
  `cow_race` shows it with three.
- *Pages.* The code treats pages independently, except for the order of its
  loops. Two pages give a loop that is interrupted between two iterations; exec
  needs three, one of text, the guard page and the stack.
- *Frames.* The `Cow` runs have enough for all processes at full size (also
  during exec), so that kalloc's other branch is not needed. The swap runs have
  too few.
- *Frame names.* `MCCowMemory` and `MCSwapping` hand out the smallest free frame,
  and most runs use a VIEW (`FrameBlind`) that identifies states equal up to the
  names of frames. In `CowMemory` no definition tells frames apart. In
  `Swapping` frame and block numbers can meet, because handle_page_fault
  uses one for the other. The frames 41 and up lie beyond all block numbers (2,
  10, 18, 26), which keeps that effect out of the other swap runs; `swap_refcnt`
  uses frames 8 to 13 to show it, and no VIEW.
- *Workloads.* `Calls` says which calls each program makes. `Solo` is one
  program whose parent waits. `NeverPanics`, `SlotsExact` and `SwapIsolation` are
  **checked for that workload only**: with more activity the findings and
  observations below make them false. In `Solo` the parent forks while none of its
  pages is in a slot, and `MaxPid` 2 allows one child, so the panics that fork,
  exec and a reused slot of ptable can meet are not in it: `NeverPanics` is about
  finding a page and a slot.
- *Slots.* Two in `swap_duo`: the search passes a slot that is taken and can find
  none free, and two swap_outs can meet at one slot.
- *Stored, Deltas.* Stores go to the pages in `Stored`, sbrk changes the size by
  a member of `Deltas`. sbrk never gives back a program's last page.
- *Log.* Two operations of two blocks can run together, and one that comes when
  a block is already logged has to wait for room. One call per process and two
  crashes allow a crash during the recovery from a crash. LOGSIZE 4 leaves three
  log blocks besides the header, and there are two home blocks, **so the log
  cannot overflow in `fs_log`, and `NoLogPanic` says nothing about that panic**,
  nor about bget's panic with a full log.
  It can be reached in the code: with `Home = {11, 12, 13}`, `NBUF = 8` and no
  crashes TLC finds two operations that each make two writes, the fourth of which
  meets "too big a transaction". Four buffers are enough for this instance; with
  three, bget panics.
- *Pipe.* Writes are of two bytes and reads of one or two, in a pipe of two: a
  write that finds a byte in the pipe is split by a sleep, and counters modulo 4
  wrap after two full pipes. Once the first program's slot of ptable is free it is
  not used again (`MCNext`): the other program could only repeat what the first
  can do after its child is reaped, with the slots exchanged. init never forks.
- *Files.* Each program is a start of its own. The tests of usertests.c run with
  their own processes. `race` is two processes that share an open file in a
  directory and each take one of several pairs of calls; `limits` meets the ends
  of the tables and of a file; `reader` is a reader of the console that is killed
  at any moment; `init` is init, the shell and a command typed at the console.
  NDIRECT 2 and BSIZE 3 give a largest file of 15 units, with the indirect block
  in use. NLOG 24 and MAXOPBLOCKS 8 are the proportions of param.h, so that three
  operations fit and a fourth waits. After the crash the program `reboot` uses
  the disk that recovery leaves. **The workloads fit on the disk and in the
  tables of inodes; where they do not, fs.c panics.**
  `FsConsistent` lets an inode lose its last name and stay allocated: a crash, or
  two overlapping iputs, do that (section 6).

Deadlock is checked in `cow` and `swap_solo`. It is off in the other swap
runs (a panic stops the machine), in `fs_log` and `files` (programs finish) and in `pipe` (a
process may read from a pipe of which it holds the only write end).

### Fairness

The memory specifications have none; they are checked for safety and for
refinement of a safety specification. `Log` has weak fairness of each process's
steps inside the kernel and of the disk. `Pipe` has weak fairness of each
process's steps inside the kernel. The round-robin scheduler visits every
runnable process, timer interrupts bring a running program into trap(), and the
disk is assumed to answer. `Files` has weak fairness of each process, written with
`CanStep(p)`, the condition under which the process can change the state (TLC's
ENABLED on these large steps is too slow; in a run that recorded which processes
stepped, the two agreed in every state), and of the keyboard. Nothing makes a
program of `Log` or `Pipe` enter the kernel by itself,
and a crash never has to happen. init always waits again, as init.c does.

## 4. What is proved

### Memory

`CowMemoryControl` proves, for any number of processes, pages and frames, any
images, and both values of `AtomicRefcnt`:

- `Typing`: `Spec => []TypeOK`;
- `ControlAlways`: `Spec => []Control`.

`TypeOK` alone is not inductive. That `odir[p]` is a frame when a step stores
through it, or that `idx[p]` stays below the size when it is incremented, depends
on where the process is. `Control` says just that: for each value of `pc[p]` what
the locals and the slot of ptable hold, and that no two processes build the same
child. `TypeOK /\ Control` is inductive. `CowMemoryTyping` has one lemma per
action for `TypeOK'`, `CowMemoryControl` one per action for `Control'`; the
theorems combine them.

The proofs use the assumptions named in `CowMemory` (positive sizes, a finite set
of frames without the null frame, sensible images and workloads). TLC evaluates
them in every memory run.

### Pipe

`PipeProofs` proves, for any number of processes, any size of the pipe, any modulus
of its counters that the size divides and any sizes of reads and writes:

- `PipeTyping`: `Spec => []PTypeOK`, with the bound on the bytes in the pipe;
- `WakeupsReach`: `Spec => []NoLostWakeup`;
- `PageOutlivesUsers`: `Spec => []PageWhileUsed`.

The inductive invariant is `PTypeOK /\ Control /\ Counted /\ NoLostWakeup`.
`Counted` says that each end's reference count is the number of processes that
hold it, plus nothing: it is what makes pipeclose come exactly once. `Control` says
what a process's place in the kernel implies (who sleeps, on which channel; only
zombies are left in exit; parents are neither the process itself nor free slots).
There is one lemma per action.

Looking for this proof corrected the property. With three processes it held that
a reader sleeps only beside an empty pipe, or beside a full one that a killed
writer left. With four, a second reader may take part of what that writer left,
and the first then sleeps beside a pipe that is neither full nor empty.
`pipe.untold` states what is true for every number.

### Log

`LogProofs` proves, for any number of processes, blocks, buffers and any size of the
log, over any number of power failures:

- `RoomReturns`: `Spec => []SleepersWoken`;
- `CommitsAlone`: while `committing` is set, no operation is in progress and at
  most one process is in commit.

log.c's counter `outstanding` has to equal the number of processes inside an
operation for both; the invariant says that, and where the committing process is.

### Console

`ConsoleProofs` proves about the operators of `Console`, for any size of the ring:

- `KeysKeepOrder`: consoleintr, for any key, keeps `r <= w <= e <= r + INPUT_BUF`;
- `ReadsKeepOrder`: so does consoleread, wherever it stops.

`cons` changes by these two operators only, in the actions `ConsoleIntr` and
`ConsRead` of `Files`, and is emptied by a crash. That `RingInOrder` is an invariant
of the composed module is checked by TLC and not proved.

## 5. What is only model-checked

- The rest of `IInv`: `Owners`, `NoneLost`, `Filled`, `SameVirtualPage`,
  `Private` and `RefcntExact`. TLC shows that they hold in the reachable states
  of `cow`. That `IInv` is inductive is the aim of the next
  proofs and is not established yet.
- All refinements (`Isolation`, `SwapIsolation`, `AllOrNothing`, `BytesInOrder`).
- Everything about `Swapping` and `Files`, and the panics of `Log`.
- Liveness (`CallsReturn`, `KilledExit`, `OrphansReaped`, `Finishes`), which the
  prover cannot handle.

## 6. Findings

1. `cow_race`, vm.c:415. A count is read, changed and written back with
   interrupts on and no lock (also in kfree, kalloc.c:85-88). A lost increment
   makes a shared page look private, and the fault handler makes it writable in
   place. project.md:11 says pages are made read-only to prevent this.
2. `swap_slot`, pageswap.c:62. swap_out tests `is_free` and clears it without a
   lock. A tick in between lets a second swap_out take the same slot, and one of the
   two pages is overwritten. lab4.md:11 says a slot stores a page and that
   `is_free` denotes its availability.
3. `swap_lost`, pageswap.c:66. The victim's entry stays present and writable
   while its page is being written; a store made meanwhile is neither in the slot
   nor kept. lab4.md:24 says the page is written into the slot.
4. `swap_cow`, pageswap.c:88. cow_page's own kalloc can evict the page it is about
   to copy, after which the entry holds a block number. The comment at
   pageswap.c:86 requires a present entry.
5. `swap_refcnt`, pageswap.c:151. On swap-in `page_to_refcnt` is indexed with the
   block number still in the entry, which clears an unrelated page's count.
   project.md:17 says the count tracks the processes that use the page.
6. `files_deadlock`, sysfile.c:280. create gives up the directory with iunlockput
   while it has the new inode locked; iput locks the directory again (fs.c:334).
   unlink holds the directory by then and waits for the inode (sysfile.c:209). The
   test that reaches it is there "to look for deadlocks" (usertests.c:855).

Observations made on the way. They are in the hazards, and no run of their own
shows them:

- swap_out uses the entry and the page it chose before its sleep (pageswap.c:73).
  Another process may have copied, freed or evicted the page meanwhile.
- fork, and the first sbrk or exec, of a process with a page in a slot panic
  (vm.c:400, pageswap.c:113): `refcnt_to_disk` is never set.
- wait takes a page off rss that was never counted (proc.c:293), the count wraps,
  and a free slot of ptable can become the victim (proc.c:558).
- A writer killed on its way into pipewrite fills the pipe and returns without
  waking the readers (pipe.c:86).
- log_write's limit is one below what begin_op reserves (log.c:218), see *Log* in
  section 3, and it looks before it takes log.lock.
- link(f, ".") waits for a lock that it holds, in dirlink's iput (fs.c:560).
- iput looks at `ref` and decrements it later (fs.c:337-350). When two processes
  drop the last two references at the same time, both may see 2, and an inode
  without names stays allocated, without any crash. The comments at fs.c:119-120
  and fs.c:327-328 say that iput frees it. With "an inode without names is in
  use only while something refers to it" as an invariant, TLC finds this in the
  workload `race`.
- A file that is removed while it is open stays allocated when the machine stops
  before the last close. Nothing frees it at the next start.
- create does not ask whether the directory still has a name (sysfile.c:249). A
  file created in a removed current directory cannot be reached. The ".." of such
  a directory can name an inode that was freed, where ilock panics.
- mkfs rounds the root directory up by a whole block when it is a multiple of BSIZE
  (mkfs.c:164). Reading that block allocates it, outside of a transaction.
- A full disk, inode table or inode cache is a panic, not an error.

## 7. Plan

In this order:

1. Prove `Filled`, then `Owners` and `NoneLost`, then `SameVirtualPage`,
   `Private` and `RefcntExact`, each as a conjunct kept by every action under
   `AtomicRefcnt`. `FramesPartitioned`, `WritableIsPrivate` and `NoPanic` follow
   from `IInv` as theorems.
2. Prove `RefsExact` for `Files`, one lemma per step as in `PipeProofs`.
3. Prove the step simulation from `CowMemory` to `AddressSpaces`.
4. Compose pipes with swapping: a page fault while a spin lock is held.

## 8. What is not modelled

- Spin locks and several CPUs: on one CPU a spin lock is a stretch without
  switches, and the actions are such stretches.
- Segments and the TLB. Entries take effect at once.
- Faults on addresses that were never mapped.
- Argument fetching (syscall.c): it reads the program's memory and changes nothing.
- Interrupt controllers, the keyboard's and the serial port's registers, console
  output and boot: device registers, or code that runs once.
- The process table that Control-P prints.
- The shell's parser and its pipes, lists and redirections, printf and malloc: they
  are sequential and keep no state that the kernel shares. The memory tests of
  usertests.c (mem, sbrktest, bsstest) and testcow1 to testcow3 are behaviours of
  `CowMemory` and `Swapping`, which take their calls in any order, and pipe1 is one
  of `Pipe`; that these tests get the results they check for is not stated. bigargtest,
  argptest, validatetest (arguments) and uio (an I/O port) are left out.
- stressfs.c, ln.c, rm.c, mkdir.c, wc.c, grep.c and kill.c: each is one or two calls
  that the tests make too.
- The old_* files, which are not built, and memide.c, which is used in place of
  ide.c for a disk in memory only.
