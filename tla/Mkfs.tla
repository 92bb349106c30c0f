-------------------------------- MODULE Mkfs --------------------------------
(***************************************************************************)
(* mkfs.c: the image of the disk that the kernel boots from. m is the      *)
(* state of the program: the dinodes and the data blocks it has written,   *)
(* freeinode and freeblock.                                                *)
(***************************************************************************)
EXTENDS Inodes

Mkfs_ialloc(m, type) ==
  [m EXCEPT !.di[m.freeinode] = [NoDinode EXCEPT !.type = type, !.nlink = 1],
            !.freeinode = @ + 1]

\* Append one unit to inode i, taking new blocks from freeblock.
AppendUnit(m, i, unit) ==
  LET din == m.di[i]
      fbn == din.size \div BSIZE
      Take(t, k) == IF t.di[i].addrs[k] # 0 THEN t
                    ELSE [t EXCEPT !.di[i].addrs[k] = t.freeblock, !.freeblock = @ + 1]
      direct == Take(m, fbn)
      indirect == Take(m, NDIRECT)
      table == indirect.di[i].addrs[NDIRECT]
      k == fbn - NDIRECT
      listed == IF indirect.blk[table][k].n # 0 THEN indirect
                ELSE [indirect EXCEPT !.blk[table][k].n = indirect.freeblock, !.freeblock = @ + 1]
      t == IF fbn < NDIRECT THEN direct ELSE listed
      x == IF fbn < NDIRECT THEN t.di[i].addrs[fbn] ELSE t.blk[table][k].n
  IN [t EXCEPT !.blk[x][din.size % BSIZE] = unit, !.di[i].size = @ + 1]

iappend(m, i, units) ==
  LET Add(t, u) == AppendUnit(t, i, u) IN FoldLeft(Add, m, units)

\* One of the files named on the command line, [name, data].
AddFile(m, file) ==
  LET i == m.freeinode
      linked == iappend(Mkfs_ialloc(m, T_FILE), ROOTINO, <<Dirent(file.name, i)>>)
  IN iappend(linked, i, file.data)

\* The blocks whose bit balloc leaves 0.
FreeBlocks_Past(m) == m.freeblock .. SIZE   \* seeded bug
FreeBlocks(m) == m.freeblock .. SIZE - 1

\* main(): the root directory, the files, the size of the root directory
\* rounded up to a block, and the bitmap.
Image(files) ==
  LET empty == [di |-> [i \in Inum |-> NoDinode], blk |-> [b \in Block |-> ZeroBlock],
                freeinode |-> 1, freeblock |-> nmeta]
      root == iappend(Mkfs_ialloc(empty, T_DIR), ROOTINO,
                      <<Dirent(".", ROOTINO), Dirent("..", ROOTINO)>>)
      m == FoldLeft(AddFile, root, files)
      size == ((m.di[ROOTINO].size \div BSIZE) + 1) * BSIZE
  IN [di |-> [m.di EXCEPT ![ROOTINO].size = size], free |-> FreeBlocks(m), blk |-> m.blk]
=============================================================================
