------------------------------- MODULE Inodes -------------------------------
(***************************************************************************)
(* fs.c below its path names: the block allocator, the on-disk inodes, the *)
(* inode cache, the contents of an inode and the entries of a directory.   *)
(* Each operator takes the state of the file system as a record            *)
(*   s = [disk |-> [di, free, blk], ic, lh, wr, r, off, data, bad]         *)
(* and returns the state its C function leaves: di the dinodes, free the   *)
(* blocks whose bit in the bitmap is 0, blk the data blocks, ic the inode  *)
(* cache (an inode is cached iff its ref is not 0), lh the blocks in the   *)
(* log and wr those the step has logged with log_write, r what the         *)
(* function returns, bad the panic it raised.                              *)
(*                                                                         *)
(* A block holds BSIZE units; a unit [n, name] is a directory entry, a     *)
(* block number or a byte of a file.                                       *)
(***************************************************************************)
EXTENDS Integers, Sequences, FiniteSets, SequencesExt

CONSTANTS
  Proc,         \* the processes: the holders of an inode's sleep lock
  NINODES,      \* dinodes on the disk, numbered from 1 (inode 0 is unused)
  NINODE,       \* entries of the inode cache
  SIZE,         \* blocks of the disk
  BSIZE,        \* units per block
  NDIRECT,      \* direct block numbers in an inode
  IPB,          \* dinodes per block
  BPB,          \* bits of the bitmap per block
  NLOG, NSWAP   \* blocks of the log and of the swap area

ASSUME InodesAssumption ==
  /\ {NINODES, NINODE, BSIZE, NDIRECT, IPB, BPB, NLOG} \subseteq Nat \ {0}
  /\ SIZE \in Nat /\ NSWAP \in Nat

NoProc == 0

T_DIR == 1
T_FILE == 2
T_DEV == 3

CONSOLE == 1   \* the only major device number with an entry in devsw

ROOTINO == 1
Inum == 1 .. NINODES - 1
NINDIRECT == BSIZE
MAXFILE == NDIRECT + NINDIRECT

\* The super block that mkfs writes and the regions it delimits.
ninodeblocks == (NINODES \div IPB) + 1
nbitmap == (SIZE \div BPB) + 1
logstart == 2 + NSWAP
inodestart == 2 + NLOG + NSWAP
bmapstart == 2 + NLOG + ninodeblocks + NSWAP
nmeta == 2 + NLOG + ninodeblocks + nbitmap + NSWAP

IBLOCK(i) == (i \div IPB) + inodestart
BBLOCK(b) == (b \div BPB) + bmapstart

\* The blocks with contents in the model: the data blocks, and block 0 for the
\* block number 0 that means "none".
Block == {0} \cup nmeta .. SIZE - 1

Zero == [n |-> 0, name |-> ""]
ZeroBlock == [u \in 0 .. BSIZE - 1 |-> Zero]
Byte(v) == [n |-> v, name |-> ""]
Dirent(name, i) == [n |-> i, name |-> name]

NoDinode ==
  [type |-> 0, major |-> 0, nlink |-> 0, size |-> 0, addrs |-> [k \in 0 .. NDIRECT |-> 0]]

NoInode == [ref |-> 0, valid |-> FALSE, lock |-> NoProc, din |-> NoDinode]

Panic(s, msg) == [s EXCEPT !.bad = IF @ = "" THEN msg ELSE @]

\* The log must have room for one more block, also when b is in it already.
log_write(s, b) ==
  LET ok == IF Cardinality(s.lh) >= NLOG - 1 THEN Panic(s, "too big a transaction") ELSE s
  IN [ok EXCEPT !.lh = @ \cup {b}, !.wr = @ \cup {b}]

-----------------------------------------------------------------------------
(* Blocks *)

bzero(s, b) == log_write([s EXCEPT !.disk.blk[b] = ZeroBlock], b)

TakeBlock(s, b) == bzero(log_write([s EXCEPT !.disk.free = @ \ {b}, !.r = b], BBLOCK(b)), b)

balloc(s) ==
  IF s.disk.free = {} THEN Panic([s EXCEPT !.r = 0], "balloc: out of blocks")
  ELSE TakeBlock(s, Min(s.disk.free))

bfree(s, b) ==
  IF b \in s.disk.free THEN Panic(s, "freeing free block")
  ELSE log_write([s EXCEPT !.disk.free = @ \cup {b}], BBLOCK(b))

-----------------------------------------------------------------------------
(* Inodes *)

iupdate(s, i) == log_write([s EXCEPT !.disk.di[i] = s.ic[i].din], IBLOCK(i))

iget(s, i) ==
  IF s.ic[i].ref > 0 THEN [s EXCEPT !.ic[i].ref = @ + 1, !.r = i]
  ELSE IF Cardinality({j \in Inum : s.ic[j].ref > 0}) >= NINODE
  THEN Panic([s EXCEPT !.r = i], "iget: no inodes")
  ELSE [s EXCEPT !.ic[i] = [NoInode EXCEPT !.ref = 1], !.r = i]

idup(s, i) == [s EXCEPT !.ic[i].ref = @ + 1, !.r = i]

TakeInode(s, i, type) ==
  iget(log_write([s EXCEPT !.disk.di[i] = [NoDinode EXCEPT !.type = type]], IBLOCK(i)), i)

ialloc(s, type) ==
  LET free == {i \in Inum : s.disk.di[i].type = 0}
  IN IF free = {} THEN Panic([s EXCEPT !.r = 0], "ialloc: no inodes") ELSE TakeInode(s, Min(free), type)

\* acquiresleep is enabled, for a process other than the holder too, only when
\* the lock is free.
Unlocked(s, i) == s.ic[i].lock = NoProc

ilock(s, p, i) ==
  LET held == [s EXCEPT !.ic[i].lock = p]
      read == [held EXCEPT !.ic[i].din = s.disk.di[i], !.ic[i].valid = TRUE]
  IN IF s.ic[i].ref < 1 THEN Panic(s, "ilock")
     ELSE IF s.ic[i].valid THEN held
     ELSE IF s.disk.di[i].type = 0 THEN Panic(read, "ilock: no type")
     ELSE read

iunlock(s, p, i) ==
  IF s.ic[i].lock # p \/ s.ic[i].ref < 1 THEN Panic(s, "iunlock")
  ELSE [s EXCEPT !.ic[i].lock = NoProc]

\* Block number k of the inode itself, allocated if there is none yet.
Direct(s, i, k) ==
  LET Enter(t) == [t EXCEPT !.ic[i].din.addrs[k] = t.r]
  IN IF s.ic[i].din.addrs[k] # 0 THEN [s EXCEPT !.r = s.ic[i].din.addrs[k]] ELSE Enter(balloc(s))

Indirect_NotLogged(s, k) ==   \* seeded bug
  LET Enter(t) == [t EXCEPT !.disk.blk[s.r][k].n = t.r]
  IN IF s.disk.blk[s.r][k].n # 0 THEN [s EXCEPT !.r = s.disk.blk[s.r][k].n] ELSE Enter(balloc(s))
\* Block number k of the indirect block s.r.
Indirect(s, k) ==
  LET Enter(t) == log_write([t EXCEPT !.disk.blk[s.r][k].n = t.r], s.r)
  IN IF s.disk.blk[s.r][k].n # 0 THEN [s EXCEPT !.r = s.disk.blk[s.r][k].n] ELSE Enter(balloc(s))

bmap(s, i, bn) ==
  IF bn < NDIRECT THEN Direct(s, i, bn)
  ELSE IF bn < MAXFILE THEN Indirect(Direct(s, i, NDIRECT), bn - NDIRECT)
  ELSE Panic([s EXCEPT !.r = 0], "bmap: out of range")

\* The blocks of an inode with block numbers a, in the order itrunc frees them.
BlocksOf(disk, a) ==
  LET Used(b) == b # 0
  IN SelectSeq([k \in 1 .. NDIRECT |-> a[k - 1]]
               \o [k \in 1 .. NINDIRECT |-> disk.blk[a[NDIRECT]][k - 1].n] \o <<a[NDIRECT]>>, Used)

itrunc(s, i) ==
  iupdate([FoldLeft(bfree, s, BlocksOf(s.disk, s.ic[i].din.addrs))
             EXCEPT !.ic[i].din.addrs = NoDinode.addrs, !.ic[i].din.size = 0], i)

LastPut_AnyRef(s, i) == s.ic[i].valid /\ s.ic[i].din.nlink = 0   \* seeded bug
LastPut(s, i) == s.ic[i].valid /\ s.ic[i].din.nlink = 0 /\ s.ic[i].ref = 1

\* iput with the inode's sleep lock held: the last reference to an inode without
\* links frees its blocks and the inode. The lock is released, the reference is
\* dropped later, by iput_drop.
iput_free(s, i) ==
  IF LastPut(s, i)
  THEN [iupdate([itrunc(s, i) EXCEPT !.ic[i].din.type = 0], i) EXCEPT !.ic[i].valid = FALSE]
  ELSE s

iput_drop(s, i) ==
  IF s.ic[i].ref = 1 THEN [s EXCEPT !.ic[i] = NoInode] ELSE [s EXCEPT !.ic[i].ref = @ - 1]

-----------------------------------------------------------------------------
(* Inode contents *)

\* What a read of unit o finds: a block that bmap would have to allocate is zero.
UnitOf(disk, addrs, o) ==
  LET bn == o \div BSIZE
      b == IF bn < NDIRECT THEN addrs[bn] ELSE disk.blk[addrs[NDIRECT]][bn - NDIRECT].n
  IN IF b = 0 THEN Zero ELSE disk.blk[b][o % BSIZE]

Unit(s, i, o) == UnitOf(s.disk, s.ic[i].din.addrs, o)

\* bmap for every block of the n units from off on.
MapBlocks(s, i, off, n) ==
  LET Map(t, bn) == bmap(t, i, bn)
      last == (off + n - 1) \div BSIZE
  IN IF n = 0 THEN s
     ELSE FoldLeft(Map, s, [k \in 1 .. last - off \div BSIZE + 1 |-> off \div BSIZE + k - 1])

\* The n units from off on are the field data of the result. Reading the console
\* is consoleread.
readi(s, i, off, n) ==
  LET size == s.ic[i].din.size
      m == IF off + n > size THEN size - off ELSE n
  IN IF s.ic[i].din.type = T_DEV \/ off > size THEN [s EXCEPT !.r = -1, !.data = <<>>]
     ELSE [MapBlocks(s, i, off, m) EXCEPT !.r = m, !.data = [k \in 1 .. m |-> Unit(s, i, off + k - 1)]]

\* Unit u of block s.r is written.
PutUnit(s, u, unit) == log_write([s EXCEPT !.disk.blk[s.r][u] = unit], s.r)

\* The size and the block numbers reach the disk only when the inode grows.
Grow(s, i, off) ==
  IF off > s.ic[i].din.size THEN iupdate([s EXCEPT !.ic[i].din.size = off], i) ELSE s

writei(s, i, src, off) ==
  LET n == Len(src)
      Put(t, k) == PutUnit(bmap(t, i, (off + k - 1) \div BSIZE), (off + k - 1) % BSIZE, src[k])
  IN IF s.ic[i].din.type = T_DEV
     THEN [s EXCEPT !.r = IF s.ic[i].din.major = CONSOLE THEN n ELSE -1]
     ELSE IF off > s.ic[i].din.size \/ off + n > MAXFILE * BSIZE THEN [s EXCEPT !.r = -1]
     ELSE [Grow(FoldLeft(Put, s, [k \in 1 .. n |-> k]), i, off + n) EXCEPT !.r = n]

stati(s, i) ==
  LET din == s.ic[i].din IN <<i, din.type, din.nlink, din.size>>

-----------------------------------------------------------------------------
(* Directories *)

\* The offsets of the entries of directory dp.
Offsets(s, dp) == 0 .. s.ic[dp].din.size - 1

FoundAt(s, dp, off) == [iget(MapBlocks(s, dp, 0, off + 1), Unit(s, dp, off).n) EXCEPT !.off = off]

\* r is the inode found, with a new reference to it, or 0; off its offset.
dirlookup(s, dp, name) ==
  LET Match(u) == u.n # 0 /\ u.name = name
      found == {o \in Offsets(s, dp) : Match(Unit(s, dp, o))}
  IN IF s.ic[dp].din.type # T_DIR THEN Panic([s EXCEPT !.r = 0], "dirlookup not DIR")
     ELSE IF found = {} THEN [MapBlocks(s, dp, 0, s.ic[dp].din.size) EXCEPT !.r = 0]
     ELSE FoundAt(s, dp, Min(found))

\* dirlink once dirlookup has not found the name: the entry goes in the first
\* free slot or at the end.
dirlink(s, dp, name, i) ==
  LET free == {o \in Offsets(s, dp) : Unit(s, dp, o).n = 0}
      off == Min(free \cup {s.ic[dp].din.size})
      Check(t) == IF t.r # 1 THEN Panic(t, "dirlink") ELSE [t EXCEPT !.r = 0]
  IN Check(writei(s, dp, <<Dirent(name, i)>>, off))

isdirempty(s, dp) == \A o \in Offsets(s, dp) : o >= 2 => Unit(s, dp, o).n = 0

-----------------------------------------------------------------------------
(* Paths: a sequence of names and "/". Names longer than DIRSIZ lose their    *)
(* tail: TooLong gives the names the workloads use of that kind.              *)

TooLong == "123456789012345" :> "12345678901234"

Cut(name) == IF name \in DOMAIN TooLong THEN TooLong[name] ELSE name

SkipSlashes(path) ==
  LET k == SelectInSeq(path, LAMBDA e : e # "/")
  IN IF k = 0 THEN <<>> ELSE SubSeq(path, k, Len(path))

\* [more, name, path]: more is FALSE where the code returns 0.
skipelem(path) ==
  LET p == SkipSlashes(path)
  IN IF p = <<>> THEN [more |-> FALSE, name |-> "", path |-> <<>>]
     ELSE [more |-> TRUE, name |-> Cut(Head(p)), path |-> SkipSlashes(Tail(p))]
=============================================================================
