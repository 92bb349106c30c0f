-------------------------------- MODULE Files --------------------------------
(***************************************************************************)
(* The file system calls of sysfile.c over file.c and fs.c, made by        *)
(* processes that run programs: sequences of calls with the results the    *)
(* program expects.                                                        *)
(*                                                                         *)
(* A step of a process goes from one place where it may sleep or be        *)
(* overtaken to the next: an inode's sleep lock, begin_op, end_op, or the  *)
(* gap in iput between its look at ref and its decrement of ref. A lock    *)
(* that is taken and released without waiting for another lock in between  *)
(* is one step.                                                            *)
(***************************************************************************)
EXTENDS Mkfs, Console

CONSTANTS
  NFILE, NOFILE,  \* entries of the file table; descriptors of a process
  MAXOPBLOCKS,    \* blocks one operation may log
  Programs,       \* program name -> sequence of calls
  Files0,         \* the files mkfs puts in the root directory
  Keyboard,       \* program name -> the keys pressed while it runs
  MaxCrashes      \* bound on the number of crashes

VARIABLES
  disk,      \* the blocks, as the kernel sees them through the buffer cache
  icache, ftable,
  proc,      \* process -> its table entry, the locals of its call, its program
  active,    \* the processes inside begin_op/end_op (log.outstanding)
  logged,    \* the blocks of the running transaction (log.lh)
  durable,   \* the disk that recovery after a crash finds
  crashes,
  panicked,  \* the panic message, "" if none
  failed,    \* the programs that got a result they did not expect
  cons,      \* the console's input
  keys       \* the keys still to be pressed

fvars == <<disk, icache, ftable, proc, active, logged, durable, crashes, panicked, failed,
           cons, keys>>

ASSUME FilesAssumption ==
  /\ {NFILE, NOFILE, MAXOPBLOCKS} \subseteq Nat \ {0}
  /\ MaxCrashes \in Nat

ELF == 7          \* first unit of a file that exec accepts
AnyResult == -9   \* what a program expects that does not look at the result

NoFile == [ref |-> 0, readable |-> FALSE, writable |-> FALSE, ip |-> 0, off |-> 0]

NoCall == [op |-> ""]

\* Call number at of a program.
CallAt(prog, at) == IF at \in DOMAIN Programs[prog] THEN Programs[prog][at] ELSE NoCall

\* call is the call the process is in or makes next.
NoProcess ==
  [state |-> "UNUSED", parent |-> NoProc, prog |-> "", at |-> 0, call |-> NoCall, killed |-> FALSE,
   ofile |-> [fd \in 0 .. NOFILE - 1 |-> 0], cwd |-> 0,
   pc |-> "user", path |-> <<>>, name |-> "", parentonly |-> FALSE, nret |-> "", pret |-> "",
   ip |-> 0, dp |-> 0, old |-> 0, put |-> 0, f |-> 0, i |-> 0, r |-> 0,
   got |-> <<>>, wrote |-> {}]

Start(q, prog, at) == [q EXCEPT !.prog = prog, !.at = at, !.call = CallAt(prog, at)]

Running(prog) == Start([NoProcess EXCEPT !.state = "RUNNING", !.cwd = ROOTINO], prog, 1)

Boot(image, prog) ==
  /\ disk = image
  /\ icache = [i \in Inum |-> IF i = ROOTINO THEN [NoInode EXCEPT !.ref = 1] ELSE NoInode]
  /\ ftable = [f \in 1 .. NFILE |-> NoFile]
  /\ proc = [p \in Proc |-> IF p = 1 THEN Running(prog) ELSE NoProcess]
  /\ active = {}
  /\ logged = {}
  /\ panicked = ""
  /\ cons = EmptyInput
  /\ keys = IF prog \in DOMAIN Keyboard THEN Keyboard[prog] ELSE <<>>

-----------------------------------------------------------------------------
(* Making a step *)

Call(p) == proc[p].call

Runs(p) == panicked = "" /\ proc[p].state = "RUNNING"

At(p, label) == Runs(p) /\ proc[p].pc = label

CallsOneOf(p, ops) ==
  At(p, "user") /\ ~proc[p].killed /\ Call(p).op \in ops

Calls(p, op) == CallsOneOf(p, {op})

S == [disk |-> disk, ic |-> icache, lh |-> logged, wr |-> {}, r |-> 0, off |-> 0, data |-> <<>>, bad |-> ""]

\* The file system becomes s, process p becomes q.
Becomes(p, after, q) ==
  \E s \in {after} :
    /\ disk' = s.disk
    /\ icache' = s.ic
    /\ logged' = s.lh
    /\ panicked' = IF s.bad # "" THEN s.bad
                   ELSE IF s.wr # {} /\ active = {} THEN "log_write outside of trans"
                   ELSE ""
    /\ proc' = [proc EXCEPT ![p] = [q EXCEPT !.wrote = @ \cup s.wr]]
    /\ UNCHANGED <<durable, crashes, keys>>

Go(p, s, q) == Becomes(p, s, q) /\ UNCHANGED <<ftable, active, failed, cons>>

\* begin_op waits until the log has room for another operation.
LogHasRoom == Cardinality(logged) + (Cardinality(active) + 1) * MAXOPBLOCKS <= NLOG

Begins(p, s, q) ==
  /\ LogHasRoom
  /\ Becomes(p, s, [q EXCEPT !.wrote = {}])
  /\ active' = active \cup {p}
  /\ UNCHANGED <<ftable, failed, cons>>

\* q goes on to drop its reference to inode i, then continues at label ret.
Put(q, i, ret) == [q EXCEPT !.pc = "iput", !.put = i, !.pret = ret]

\* iunlockput
UnlockPut(p, s, q, i, ret) == Go(p, iunlock(s, p, i), Put(q, i, ret))

\* Process q is back in its program.
Result(q) ==
  [Start(q, q.prog, q.at + 1)
     EXCEPT !.pc = "user", !.path = <<>>, !.name = "", !.parentonly = FALSE, !.nret = "", !.pret = "",
            !.ip = 0, !.dp = 0, !.old = 0, !.f = 0, !.i = 0, !.r = 0, !.got = <<>>, !.wrote = {}]

\* The program of p looks at the result r of its call and at the data it read.
Judge(p, r, data) ==
  LET c == Call(p)
      ok == c.want = r /\ (c.op \in {"read", "fstat"} => data \in c.data)
  IN failed' = IF c.want = AnyResult \/ ok \/ proc[p].killed THEN failed ELSE failed \cup {proc[p].prog}

Fail(q) == [q EXCEPT !.pc = "end", !.r = -1]

-----------------------------------------------------------------------------
(* fs.c: namex and iput *)

namex(p, s, q, path, parentonly, ret) ==
  LET start == IF path # <<>> /\ Head(path) = "/" THEN iget(s, ROOTINO) ELSE idup(s, proc[p].cwd)
  IN [s |-> start,
      q |-> [q EXCEPT !.pc = "walk", !.ip = start.r, !.path = path, !.parentonly = parentonly, !.nret = ret]]

Walk(p) ==
  LET q == proc[p]
      e == skipelem(q.path)
      l == ilock(S, p, q.ip)
      next == dirlookup(l, q.ip, e.name)
      gone == [q EXCEPT !.ip = 0]
  IN /\ At(p, "walk")
     /\ \/ /\ ~e.more
           /\ Go(p, S, IF q.parentonly THEN Put(gone, q.ip, q.nret) ELSE [q EXCEPT !.pc = q.nret])
        \/ /\ e.more
           /\ Unlocked(S, q.ip)
           /\ \/ /\ l.ic[q.ip].din.type # T_DIR
                 /\ UnlockPut(p, l, gone, q.ip, q.nret)
              \/ /\ l.ic[q.ip].din.type = T_DIR
                 /\ q.parentonly /\ e.path = <<>>
                 /\ Go(p, iunlock(l, p, q.ip), [q EXCEPT !.pc = q.nret, !.name = e.name])
              \/ /\ l.ic[q.ip].din.type = T_DIR
                 /\ ~(q.parentonly /\ e.path = <<>>)
                 /\ UnlockPut(p, next, [q EXCEPT !.ip = next.r, !.path = e.path], q.ip,
                              IF next.r = 0 THEN q.nret ELSE "walk")

Iput(p) ==
  LET q == proc[p]
      l == [S EXCEPT !.ic[q.put].lock = p]
  IN /\ At(p, "iput")
     /\ Unlocked(S, q.put)
     /\ Go(p, iunlock(iput_free(l, q.put), p, q.put), [q EXCEPT !.pc = "drop"])

Drop(p) ==
  LET q == proc[p]
  IN /\ At(p, "drop")
     /\ Go(p, iput_drop(S, q.put), [q EXCEPT !.pc = q.pret, !.put = 0, !.pret = ""])

-----------------------------------------------------------------------------
(* sysfile.c: the calls that take a path *)

\* What namex is asked for by each call, and where the call goes on after it.
Target(c) ==
  CASE c.op = "open"   -> IF "O_CREATE" \in c.mode THEN [parent |-> TRUE, ret |-> "create"]
                          ELSE [parent |-> FALSE, ret |-> "open"]
    [] c.op = "link"   -> [parent |-> FALSE, ret |-> "link"]
    [] c.op = "unlink" -> [parent |-> TRUE, ret |-> "unlink"]
    [] c.op = "mkdir"  -> [parent |-> TRUE, ret |-> "create"]
    [] c.op = "mknod"  -> [parent |-> TRUE, ret |-> "create"]
    [] c.op = "chdir"  -> [parent |-> FALSE, ret |-> "chdir"]
    [] c.op = "exec"   -> [parent |-> FALSE, ret |-> "exec"]

PathCall(p) ==
  /\ CallsOneOf(p, {"open", "link", "unlink", "mkdir", "mknod", "chdir", "exec"})
  /\ LET w == namex(p, S, proc[p], Call(p).path, Target(Call(p)).parent, Target(Call(p)).ret)
     IN Begins(p, w.s, w.q)

\* A path that names nothing ends the call with -1.
NotFound(p) ==
  /\ Runs(p) /\ proc[p].pc \in {"create", "open", "link", "unlink", "chdir", "exec"}
  /\ proc[p].ip = 0
  /\ Go(p, S, Fail(proc[p]))

\* commit copies the logged blocks.
Commit ==
  LET Copied(b) == b \in logged
  IN [di   |-> [i \in Inum |-> IF Copied(IBLOCK(i)) THEN disk.di[i] ELSE durable.di[i]],
      free |-> {b \in disk.free : Copied(BBLOCK(b))} \cup {b \in durable.free : ~Copied(BBLOCK(b))},
      blk  |-> [b \in Block |-> IF Copied(b) THEN disk.blk[b] ELSE durable.blk[b]]]

\* end_op: the last operation in the transaction commits it.
EndOp(p) ==
  /\ active' = active \ {p}
  /\ durable' = IF active = {p} THEN Commit ELSE durable
  /\ logged' = IF active = {p} THEN {} ELSE logged
  /\ UNCHANGED <<disk, icache, ftable, crashes, panicked, cons, keys>>

End(p) ==
  LET q == proc[p]
      c == Call(p)
  IN /\ At(p, "end")
     /\ EndOp(p)
     /\ proc' = [proc EXCEPT ![p] = IF c.op = "exec" /\ q.r = 0
                                    THEN Start(Result(q), c.child, 1) ELSE Result(q)]
     /\ Judge(p, q.r, <<>>)

\* create, with the parent directory in ip: found or not, once dp is locked.
Create(p) ==
  LET q == proc[p]
      l == ilock(S, p, q.ip)
      found == dirlookup(l, q.ip, q.name)
      type == CASE Call(p).op = "open" -> T_FILE [] Call(p).op = "mkdir" -> T_DIR [] OTHER -> T_DEV
      new == ialloc(found, type)
  IN /\ At(p, "create")
     /\ q.ip # 0
     /\ Unlocked(S, q.ip)
     /\ \/ /\ found.r # 0
           /\ UnlockPut(p, found, [q EXCEPT !.ip = found.r], q.ip, "create_found")
        \/ /\ found.r = 0
           /\ Go(p, new, [q EXCEPT !.pc = "create_new", !.dp = q.ip, !.ip = new.r])

CreateFound(p) ==
  LET q == proc[p]
      l == ilock(S, p, q.ip)
  IN /\ At(p, "create_found")
     /\ Unlocked(S, q.ip)
     /\ IF Call(p).op = "open" /\ l.ic[q.ip].din.type = T_FILE
        THEN Go(p, l, [q EXCEPT !.pc = "open_fd"])
        ELSE UnlockPut(p, l, [q EXCEPT !.ip = 0, !.r = -1], q.ip, "end")

\* dp is locked; the new inode is locked, filled in and entered in dp. It stays
\* locked while dp is unlocked and put.
CreateNew(p) ==
  LET q == proc[p]
      c == Call(p)
      l == ilock(S, p, q.ip)
      new == iupdate([l EXCEPT !.ic[q.ip].din.major = c.n, !.ic[q.ip].din.nlink = 1], q.ip)
      up == iupdate([new EXCEPT !.ic[q.dp].din.nlink = @ + 1], q.dp)
      dots == dirlink(dirlink(up, q.ip, ".", q.ip), q.ip, "..", q.dp)
      linked == dirlink(IF c.op = "mkdir" THEN dots ELSE new, q.dp, q.name, q.ip)
  IN /\ At(p, "create_new")
     /\ Unlocked(S, q.ip)
     /\ UnlockPut(p, linked, [q EXCEPT !.dp = 0], q.dp, IF c.op = "open" THEN "open_fd" ELSE "made")

\* mkdir and mknod: iunlockput(ip).
Made(p) ==
  /\ At(p, "made")
  /\ UnlockPut(p, S, [proc[p] EXCEPT !.ip = 0, !.r = 0], proc[p].ip, "end")

\* open without O_CREATE.
Open(p) ==
  LET q == proc[p]
      l == ilock(S, p, q.ip)
  IN /\ At(p, "open")
     /\ q.ip # 0
     /\ Unlocked(S, q.ip)
     /\ IF l.ic[q.ip].din.type = T_DIR /\ Call(p).mode # {}
        THEN UnlockPut(p, l, [q EXCEPT !.ip = 0, !.r = -1], q.ip, "end")
        ELSE Go(p, l, [q EXCEPT !.pc = "open_fd"])

FreeFiles == {f \in 1 .. NFILE : ftable[f].ref = 0}
FreeFds(q) == {fd \in 0 .. NOFILE - 1 : q.ofile[fd] = 0}

\* filealloc and fdalloc, with ip locked. A file without a descriptor is closed
\* again.
OpenFd(p) ==
  LET q == proc[p]
      f == Min(FreeFiles)
      fd == Min(FreeFds(q))
      mode == Call(p).mode
  IN /\ At(p, "open_fd")
     /\ \/ /\ FreeFiles = {} \/ FreeFds(q) = {}
           /\ UnlockPut(p, S, [q EXCEPT !.ip = 0, !.r = -1], q.ip, "end")
        \/ /\ FreeFiles # {} /\ FreeFds(q) # {}
           /\ Becomes(p, iunlock(S, p, q.ip), [q EXCEPT !.pc = "end", !.ofile[fd] = f, !.ip = 0, !.r = fd])
           /\ ftable' = [ftable EXCEPT ![f] = [ref |-> 1, readable |-> "O_WRONLY" \notin mode,
                                              writable |-> mode \cap {"O_WRONLY", "O_RDWR"} # {},
                                              ip |-> q.ip, off |-> 0]]
           /\ UNCHANGED <<active, failed, cons>>

Link(p) ==
  LET q == proc[p]
      l == ilock(S, p, q.ip)
      more == iunlock(iupdate([l EXCEPT !.ic[q.ip].din.nlink = @ + 1], q.ip), p, q.ip)
      w == namex(p, more, [q EXCEPT !.old = q.ip], Call(p).new, TRUE, "link_dir")
  IN /\ At(p, "link")
     /\ q.ip # 0
     /\ Unlocked(S, q.ip)
     /\ IF l.ic[q.ip].din.type = T_DIR
        THEN UnlockPut(p, l, [q EXCEPT !.ip = 0, !.r = -1], q.ip, "end")
        ELSE Go(p, w.s, w.q)

\* The directory of the new name is in ip, the linked inode in old. A name that
\* is there already is put with the directory locked.
LinkDir(p) ==
  LET q == proc[p]
      l == ilock(S, p, q.ip)
      found == dirlookup(l, q.ip, q.name)
  IN /\ At(p, "link_dir")
     /\ \/ /\ q.ip = 0
           /\ Go(p, S, [q EXCEPT !.pc = "link_bad"])
        \/ /\ q.ip # 0
           /\ Unlocked(S, q.ip)
           /\ IF found.r # 0
              THEN Go(p, found, Put([q EXCEPT !.dp = q.ip, !.ip = 0], found.r, "link_exists"))
              ELSE UnlockPut(p, dirlink(found, q.ip, q.name, q.old), [q EXCEPT !.ip = 0], q.ip, "linked")

LinkExists(p) ==
  /\ At(p, "link_exists")
  /\ UnlockPut(p, S, [proc[p] EXCEPT !.dp = 0], proc[p].dp, "link_bad")

LinkBad_Counted(p) ==   \* seeded bug
  LET q == proc[p]
  IN /\ At(p, "link_bad")
     /\ Unlocked(S, q.old)
     /\ UnlockPut(p, ilock(S, p, q.old), [q EXCEPT !.old = 0, !.r = -1], q.old, "end")
LinkBad(p) ==
  LET q == proc[p]
      l == ilock(S, p, q.old)
  IN /\ At(p, "link_bad")
     /\ Unlocked(S, q.old)
     /\ UnlockPut(p, iupdate([l EXCEPT !.ic[q.old].din.nlink = @ - 1], q.old),
                  [q EXCEPT !.old = 0, !.r = -1], q.old, "end")

Linked_Kept(p) ==   \* seeded bug
  /\ At(p, "linked")
  /\ Go(p, S, [proc[p] EXCEPT !.old = 0, !.r = 0, !.pc = "end"])
Linked(p) ==
  /\ At(p, "linked")
  /\ Go(p, S, Put([proc[p] EXCEPT !.old = 0, !.r = 0], proc[p].old, "end"))

Unlink(p) ==
  LET q == proc[p]
      l == ilock(S, p, q.ip)
      found == dirlookup(l, q.ip, q.name)
      bad(s) == UnlockPut(p, s, [q EXCEPT !.ip = 0, !.r = -1], q.ip, "end")
  IN /\ At(p, "unlink")
     /\ q.ip # 0
     /\ Unlocked(S, q.ip)
     /\ IF q.name \in {".", ".."} THEN bad(l)
        ELSE IF found.r = 0 THEN bad(found)
        ELSE Go(p, found, [q EXCEPT !.pc = "unlink_ip", !.dp = q.ip, !.ip = found.r, !.i = found.off])

\* dp is locked, i is the offset of the entry of ip in it.
UnlinkIp(p) ==
  LET q == proc[p]
      l == ilock(S, p, q.ip)
      isdir == l.ic[q.ip].din.type = T_DIR
      wiped == writei(l, q.dp, <<Zero>>, q.i)
      dp == IF isdir THEN iupdate([wiped EXCEPT !.ic[q.dp].din.nlink = @ - 1], q.dp) ELSE wiped
  IN /\ At(p, "unlink_ip")
     /\ Unlocked(S, q.ip)
     /\ IF l.ic[q.ip].din.nlink < 1 THEN Go(p, Panic(l, "unlink: nlink < 1"), q)
        ELSE IF isdir /\ ~isdirempty(l, q.ip)
        THEN UnlockPut(p, l, [q EXCEPT !.ip = 0], q.ip, "unlink_bad")
        ELSE UnlockPut(p, dp, [q EXCEPT !.dp = 0], q.dp, "unlinked")

UnlinkBad(p) ==
  /\ At(p, "unlink_bad")
  /\ UnlockPut(p, S, [proc[p] EXCEPT !.dp = 0, !.r = -1], proc[p].dp, "end")

Unlinked(p) ==
  LET q == proc[p]
  IN /\ At(p, "unlinked")
     /\ UnlockPut(p, iupdate([S EXCEPT !.ic[q.ip].din.nlink = @ - 1], q.ip),
                  [q EXCEPT !.ip = 0, !.r = 0], q.ip, "end")

\* The old current directory is put, the new one keeps the reference of ip.
Chdir(p) ==
  LET q == proc[p]
      l == ilock(S, p, q.ip)
  IN /\ At(p, "chdir")
     /\ q.ip # 0
     /\ Unlocked(S, q.ip)
     /\ IF l.ic[q.ip].din.type # T_DIR
        THEN UnlockPut(p, l, [q EXCEPT !.ip = 0, !.r = -1], q.ip, "end")
        ELSE Go(p, iunlock(l, p, q.ip), Put([q EXCEPT !.cwd = q.ip, !.ip = 0, !.r = 0], q.cwd, "end"))

\* exec's use of the file: the header is read and checked.
Exec(p) ==
  LET q == proc[p]
      l == ilock(S, p, q.ip)
      t == readi(l, q.ip, 0, 1)
  IN /\ At(p, "exec")
     /\ q.ip # 0
     /\ Unlocked(S, q.ip)
     /\ UnlockPut(p, t, [q EXCEPT !.ip = 0, !.r = IF t.r = 1 /\ t.data[1].n = ELF THEN 0 ELSE -1],
                  q.ip, "end")

-----------------------------------------------------------------------------
(* sysfile.c and file.c: the calls that take a descriptor *)

\* argfd: the file of the descriptor of the call, 0 if there is none.
Argfd(p) == IF Call(p).fd \in 0 .. NOFILE - 1 THEN proc[p].ofile[Call(p).fd] ELSE 0

\* A call that returns r without an operation on the disk.
Returns(p, s, q, r, data) == Becomes(p, s, Result(q)) /\ Judge(p, r, data) /\ UNCHANGED <<active, cons>>

BadFd(p) ==
  LET f == Argfd(p)
      op == Call(p).op
  IN /\ CallsOneOf(p, {"dup", "close", "fstat", "read", "write"})
     /\ f # 0 => \/ op = "dup" /\ FreeFds(proc[p]) = {}
                 \/ op = "read" /\ ~ftable[f].readable
                 \/ op = "write" /\ ~ftable[f].writable
     /\ Returns(p, S, proc[p], -1, <<>>)
     /\ UNCHANGED ftable

Dup(p) ==
  LET q == proc[p]
      f == Argfd(p)
      fd == Min(FreeFds(q))
  IN /\ Calls(p, "dup") /\ f # 0 /\ FreeFds(q) # {}
     /\ Returns(p, S, [q EXCEPT !.ofile[fd] = f], fd, <<>>)
     /\ ftable' = [ftable EXCEPT ![f].ref = @ + 1]

\* fileclose up to begin_op: f loses one of several references, or the last one,
\* which leaves the inode in ip, to be put at label close_put.
CloseShared(f) ==
  /\ ftable[f].ref > 1
  /\ ftable' = [ftable EXCEPT ![f].ref = @ - 1]

CloseLast(p, q, f, ret) ==
  /\ ftable[f].ref = 1
  /\ ftable' = [ftable EXCEPT ![f] = NoFile]
  /\ Becomes(p, S, [q EXCEPT !.pc = "close_put", !.ip = ftable[f].ip, !.nret = ret])
  /\ UNCHANGED <<active, failed, cons>>

Close(p) ==
  LET f == Argfd(p)
      q == [proc[p] EXCEPT !.ofile[Call(p).fd] = 0]
  IN /\ Calls(p, "close") /\ f # 0
     /\ \/ CloseShared(f) /\ Returns(p, S, q, 0, <<>>)
        \/ CloseLast(p, q, f, "end")

ClosePut(p) ==
  LET q == proc[p]
  IN /\ At(p, "close_put")
     /\ Begins(p, S, Put([q EXCEPT !.ip = 0, !.r = 0, !.nret = ""], q.ip, q.nret))

Fstat(p) ==
  LET ip == ftable[Argfd(p)].ip
      l == ilock(S, p, ip)
  IN /\ Calls(p, "fstat") /\ Argfd(p) # 0
     /\ Unlocked(S, ip)
     /\ Returns(p, iunlock(l, p, ip), proc[p], 0, stati(l, ip))
     /\ UNCHANGED ftable

IsConsole(s, i) == s.ic[i].din.type = T_DEV /\ s.ic[i].din.major = CONSOLE

\* f->off after r units were read or written.
Advance_Not(off, r) == off   \* seeded bug
Advance(off, r) == IF r > 0 THEN off + r ELSE off

\* fileread; a reader of the console goes on without the lock of its inode.
Read(p) ==
  LET f == Argfd(p)
      ip == ftable[f].ip
      l == ilock(S, p, ip)
      t == readi(l, ip, ftable[f].off, Call(p).n)
  IN /\ Calls(p, "read") /\ f # 0 /\ ftable[f].readable
     /\ Unlocked(S, ip)
     /\ IF IsConsole(l, ip)
        THEN Go(p, iunlock(l, p, ip), [proc[p] EXCEPT !.pc = "cons_read", !.f = f])
        ELSE /\ Returns(p, iunlock(t, p, ip), proc[p], t.r, [k \in DOMAIN t.data |-> t.data[k].n])
             /\ ftable' = [ftable EXCEPT ![f].off = Advance(@, t.r)]

\* consoleread, woken when there is input or the process is killed.
ConsRead(p) ==
  LET q == proc[p]
      t == consoleread(cons, q.got, Call(p).n)
  IN /\ At(p, "cons_read")
     /\ \/ /\ cons.r # cons.w \/ t.done
           /\ cons' = t.c
           /\ Becomes(p, S, [q EXCEPT !.pc = IF t.done THEN "cons_done" ELSE @, !.got = t.dst, !.r = Len(t.dst)])
        \/ /\ cons.r = cons.w /\ ~t.done
           /\ q.killed
           /\ cons' = cons
           /\ Becomes(p, S, [q EXCEPT !.pc = "cons_done", !.r = -1])
     /\ UNCHANGED <<ftable, active, failed>>

ConsDone(p) ==
  LET q == proc[p]
      ip == ftable[q.f].ip
  IN /\ At(p, "cons_done")
     /\ Unlocked(S, ip)
     /\ Returns(p, iunlock(ilock(S, p, ip), p, ip), q, q.r, q.got)
     /\ ftable' = [ftable EXCEPT ![q.f].off = Advance(@, q.r)]

ConsoleIntr ==
  /\ panicked = "" /\ keys # <<>>
  /\ cons' = consoleintr(cons, Head(keys))
  /\ keys' = Tail(keys)
  /\ UNCHANGED <<disk, icache, ftable, proc, active, logged, durable, crashes, panicked, failed>>

\* filewrite: as many operations as it takes, i units are written so far.
Chunk_Whole == MAXOPBLOCKS * BSIZE   \* seeded bug
Chunk == ((MAXOPBLOCKS - 1 - 1 - 2) \div 2) * BSIZE

Write(p) ==
  LET q == proc[p]
      f == Argfd(p)
  IN /\ Calls(p, "write") /\ f # 0 /\ ftable[f].writable
     /\ IF Call(p).data = <<>> THEN Returns(p, S, q, 0, <<>>) /\ UNCHANGED ftable
        ELSE Begins(p, S, [q EXCEPT !.pc = "write", !.f = f])

WriteIp(p) ==
  LET q == proc[p]
      ip == ftable[q.f].ip
      n == Min({Len(Call(p).data) - q.i, Chunk})
      t == writei(ilock(S, p, ip), ip, [k \in 1 .. n |-> Byte(Call(p).data[q.i + k])], ftable[q.f].off)
  IN /\ At(p, "write")
     /\ Unlocked(S, ip)
     /\ Becomes(p, iunlock(t, p, ip), [q EXCEPT !.pc = "write_end", !.r = t.r])
     /\ ftable' = [ftable EXCEPT ![q.f].off = Advance(@, t.r)]
     /\ UNCHANGED <<active, failed, cons>>

WriteEnd(p) ==
  LET q == proc[p]
      i == q.i + q.r
  IN /\ At(p, "write_end")
     /\ EndOp(p)
     /\ IF q.r >= 0 /\ i < Len(Call(p).data)
        THEN proc' = [proc EXCEPT ![p].pc = "write_more", ![p].i = i] /\ UNCHANGED failed
        ELSE /\ proc' = [proc EXCEPT ![p] = Result(q)]
             /\ Judge(p, IF q.r >= 0 THEN i ELSE -1, Call(p).data)

WriteMore(p) == At(p, "write_more") /\ Begins(p, S, [proc[p] EXCEPT !.pc = "write"])

-----------------------------------------------------------------------------
(* proc.c: what fork, exit and wait do to the files of a process *)

Fork(p) ==
  LET q == proc[p]
      free == {c \in Proc : proc[c].state = "UNUSED"}
      child == [Running(Call(p).child) EXCEPT !.parent = p, !.ofile = q.ofile, !.cwd = q.cwd]
      s == idup(S, q.cwd)
      Copies(f) == Cardinality({fd \in DOMAIN q.ofile : q.ofile[fd] = f})
  IN /\ Calls(p, "fork")
     /\ IF free = {} THEN Returns(p, S, q, -1, <<>>) /\ UNCHANGED ftable
        ELSE /\ icache' = s.ic
             /\ ftable' = [f \in DOMAIN ftable |-> [ftable[f] EXCEPT !.ref = @ + Copies(f)]]
             /\ proc' = [proc EXCEPT ![p] = Result(q), ![Min(free)] = child]
             /\ Judge(p, 1, <<>>)
             /\ UNCHANGED <<disk, active, logged, durable, crashes, panicked, cons, keys>>

Wait(p) ==
  LET q == proc[p]
      children == {c \in Proc : proc[c].parent = p /\ proc[c].state # "UNUSED"}
      dead == {c \in children : proc[c].state = "ZOMBIE"}
  IN /\ Calls(p, "wait")
     /\ children = {} \/ dead # {}
     /\ proc' = IF dead = {} THEN [proc EXCEPT ![p] = Result(q)]
                ELSE [proc EXCEPT ![p] = Result(q), ![Min(dead)] = NoProcess]
     /\ Judge(p, IF dead = {} THEN -1 ELSE 1, <<>>)
     /\ UNCHANGED <<disk, icache, ftable, active, logged, durable, crashes, panicked, cons, keys>>

Killed_Not(q) == q   \* seeded bug
Killed(q) == [q EXCEPT !.killed = TRUE]

\* kill of a child; the program goes through its children one by one.
Kill(p) ==
  LET children == {c \in Proc : proc[c].parent = p /\ proc[c].state # "UNUSED" /\ ~proc[c].killed}
  IN /\ Calls(p, "kill")
     /\ proc' = IF children = {} THEN [proc EXCEPT ![p] = Result(@)]
                ELSE [proc EXCEPT ![p] = Result(@), ![Min(children)] = Killed(@)]
     /\ Judge(p, IF children = {} THEN -1 ELSE 0, <<>>)
     /\ UNCHANGED <<disk, icache, ftable, active, logged, durable, crashes, panicked, cons, keys>>

\* exit, and what trap does with a killed process when it is in, or comes back
\* to, its program.
ExitCall(p) ==
  /\ Calls(p, "exit") \/ (At(p, "user") /\ proc[p].killed)
  /\ Go(p, S, [proc[p] EXCEPT !.pc = "exit"])

\* exit closes the descriptors one by one, then puts the current directory.
ExitClose(p) ==
  LET q == proc[p]
      open == {fd \in DOMAIN q.ofile : q.ofile[fd] # 0}
      f == q.ofile[Min(open)]
      closed == [q EXCEPT !.ofile[Min(open)] = 0]
  IN /\ At(p, "exit")
     /\ open # {}
     /\ \/ CloseShared(f) /\ Becomes(p, S, closed) /\ UNCHANGED <<active, failed, cons>>
        \/ CloseLast(p, closed, f, "exit_end")

ExitCwd(p) ==
  LET q == proc[p]
  IN /\ At(p, "exit")
     /\ \A fd \in DOMAIN q.ofile : q.ofile[fd] = 0
     /\ q.cwd # 0
     /\ Begins(p, S, Put([q EXCEPT !.cwd = 0], q.cwd, "exit_end"))

ExitEnd(p) ==
  /\ At(p, "exit_end")
  /\ EndOp(p)
  /\ proc' = [proc EXCEPT ![p].pc = "exit", ![p].wrote = {}]
  /\ UNCHANGED failed

\* The children go to init, which waits for every zombie it gets; so does this
\* process if its parent has gone.
ExitZombie(p) ==
  LET q == proc[p]
      Orphan(c) == proc[c].parent = p
  IN /\ At(p, "exit")
     /\ \A fd \in DOMAIN q.ofile : q.ofile[fd] = 0
     /\ q.cwd = 0
     /\ proc' = [c \in Proc |->
                   IF c = p THEN IF q.parent = NoProc THEN NoProcess
                                 ELSE [NoProcess EXCEPT !.state = "ZOMBIE", !.parent = q.parent, !.killed = q.killed]
                   ELSE IF Orphan(c) THEN IF proc[c].state = "ZOMBIE" THEN NoProcess
                                          ELSE [proc[c] EXCEPT !.parent = NoProc]
                   ELSE proc[c]]
     /\ UNCHANGED <<disk, icache, ftable, active, logged, durable, crashes, panicked, failed, cons, keys>>

\* The machine stops and boots from the durable disk.
Crash(prog) ==
  /\ crashes < MaxCrashes
  /\ panicked = ""
  /\ crashes' = crashes + 1
  /\ disk' = durable
  /\ icache' = [i \in Inum |-> IF i = ROOTINO THEN [NoInode EXCEPT !.ref = 1] ELSE NoInode]
  /\ ftable' = [f \in 1 .. NFILE |-> NoFile]
  /\ proc' = [p \in Proc |-> IF p = 1 THEN Running(prog) ELSE NoProcess]
  /\ active' = {} /\ logged' = {}
  /\ cons' = EmptyInput /\ keys' = <<>>
  /\ UNCHANGED <<durable, panicked, failed>>

-----------------------------------------------------------------------------
(* The specification *)

Goto(p) ==
  /\ Calls(p, "goto")
  /\ \E to \in Call(p).to : proc' = [proc EXCEPT ![p] = Start(@, @.prog, to)]
  /\ UNCHANGED <<disk, icache, ftable, active, logged, durable, crashes, panicked, failed, cons, keys>>

Step(p) ==
  \/ PathCall(p) \/ NotFound(p) \/ Walk(p) \/ Iput(p) \/ Drop(p) \/ End(p)
  \/ Create(p) \/ CreateFound(p) \/ CreateNew(p) \/ Made(p) \/ Open(p) \/ OpenFd(p)
  \/ Link(p) \/ LinkDir(p) \/ LinkExists(p) \/ LinkBad(p) \/ Linked(p)
  \/ Unlink(p) \/ UnlinkIp(p) \/ UnlinkBad(p) \/ Unlinked(p)
  \/ Chdir(p) \/ Exec(p)
  \/ BadFd(p) \/ Dup(p) \/ Close(p) \/ ClosePut(p) \/ Fstat(p)
  \/ Read(p) \/ ConsRead(p) \/ ConsDone(p)
  \/ Write(p) \/ WriteIp(p) \/ WriteEnd(p) \/ WriteMore(p)
  \/ Fork(p) \/ Wait(p) \/ Kill(p) \/ ExitCall(p) \/ ExitClose(p) \/ ExitCwd(p) \/ ExitEnd(p) \/ ExitZombie(p)
  \/ Goto(p)

FNext == (\E p \in Proc : Step(p)) \/ ConsoleIntr \/ Crash("reboot")

FInit(tests) ==
  \E t \in tests :
    /\ Boot(Image(Files0), t)
    /\ durable = disk
    /\ crashes = 0
    /\ failed = {}

-----------------------------------------------------------------------------
(* Properties *)

\* Every variable has its type: in particular no reference count of the inode
\* cache or of the file table (fs.c, file.c) becomes negative.
FTypeOK ==
  /\ \A d \in {disk, durable} :
       DOMAIN d.di = Inum /\ d.free \subseteq Block /\ DOMAIN d.blk = Block
  /\ \A i \in Inum : icache[i].ref \in Nat /\ icache[i].lock \in Proc \cup {NoProc}
  /\ \A f \in 1 .. NFILE : ftable[f].ref \in Nat /\ ftable[f].ip \in Inum \cup {0}
  /\ \A p \in Proc : \A fd \in 0 .. NOFILE - 1 : proc[p].ofile[fd] \in 0 .. NFILE
  /\ active \subseteq Proc
  /\ crashes \in 0 .. MaxCrashes

\* None of the panics of fs.c, sysfile.c and log_write is reached: "freeing free
\* block", "ilock: no type", "unlink: nlink < 1", "dirlink", "log_write outside of
\* trans" and the others. This is for files that fit on the disk and in the tables,
\* a root directory that does not fill its last block (mkfs.c:164), and programs
\* that leave a removed directory by chdir("/").
NoFsPanic == panicked = ""

\* The file system and process tests of usertests.c that UserTests has (not pipe1,
\* uio and those of memory and of arguments), the way from init to a command, and
\* the reader get the results they check for, in whatever order the processes run.
TestsPass == failed = {}

\* No operation logs more than the MAXOPBLOCKS blocks that begin_op reserved for
\* it: filewrite's chunks, create, link, unlink and the truncation in iput fit.
OpFits == \A p \in active : Cardinality(proc[p].wrote) <= MAXOPBLOCKS

\* The references to inode i: from open files, current directories and the local
\* variables of calls.
Holders(i) ==
    Cardinality({f \in 1 .. NFILE : ftable[f].ref > 0 /\ ftable[f].ip = i})
  + Cardinality({l \in Proc \X {"cwd", "ip", "dp", "old", "put"} : proc[l[1]][l[2]] = i})

\* ip->ref and f->ref are the number of pointers to the inode and to the file, on
\* every path through the calls; a process outside the kernel holds no inode lock
\* and is in no transaction.
RefsExact ==
  panicked = "" =>
    /\ \A i \in Inum : icache[i].ref = Holders(i)
    /\ \A f \in 1 .. NFILE :
         ftable[f].ref = Cardinality({h \in Proc \X (0 .. NOFILE - 1) : proc[h[1]].ofile[h[2]] = f})
    /\ \A p \in Proc : proc[p].pc = "user" => p \notin active /\ \A i \in Inum : icache[i].lock # p

\* A disk as a checker of file systems wants it. Directories that cannot be reached
\* from the root are lost: removed while in use.
Consistent(d) ==
  LET used == {i \in Inum : d.di[i].type # 0}
      alldirs == {i \in used : d.di[i].type = T_DIR}
      UnitAt(i, o) == UnitOf(d, d.di[i].addrs, o)
      Below(R, k) == R \cup {i \in alldirs : \E j \in R : \E o \in 2 .. d.di[j].size - 1 : UnitAt(j, o).n = i}
      dirs == FoldLeft(Below, {ROOTINO}, [k \in 1 .. Cardinality(alldirs) - 1 |-> k])
      slots == UNION {{i} \X (0 .. d.di[i].size - 1) : i \in dirs}
      entries == {[dir |-> e[1], off |-> e[2], n |-> UnitAt(e[1], e[2]).n, name |-> UnitAt(e[1], e[2]).name] :
                    e \in {e \in slots : UnitAt(e[1], e[2]).n # 0}}
      names(i) == {e \in entries : e.n = i /\ e.name \notin {".", ".."}}
      children(i) == {e \in entries : e.n = i /\ e.name = ".." /\ e.dir # i}
      blocks == [i \in Inum |-> BlocksOf(d, d.di[i].addrs)]
  IN \* entries name inodes in use, and no two of a directory have the same name
     /\ \A e \in entries : e.n \in used
     /\ \A e, f \in entries : e.dir = f.dir /\ e.name = f.name => e = f
     \* a directory begins with itself and the directory it is in
     /\ \A i \in dirs : /\ UnitAt(i, 0) = Dirent(".", i)
                        /\ UnitAt(i, 1).name = ".."
                        /\ \A e \in names(i) : UnitAt(i, 1).n = e.dir
     \* nlink counts the entries, unless the inode is lost: no entry names it
     /\ \A i \in used : \/ names(i) = {} /\ i # ROOTINO
                        \/ d.di[i].nlink = Cardinality(names(i)) + Cardinality(children(i))
                                            + (IF i = ROOTINO THEN 1 ELSE 0)
     \* every block is free or in exactly one place of one inode
     /\ \A i \in Inum : IsInjective(blocks[i])
     /\ \A i, j \in Inum : i # j => Range(blocks[i]) \cap Range(blocks[j]) = {}
     /\ UNION {Range(blocks[i]) : i \in Inum} = Block \ ({0} \cup d.free)

\* Between transactions, and after a crash, the disk is consistent: directories,
\* link counts, inodes and the bitmap agree, whatever ran at the same time.
FsConsistent == panicked = "" /\ active = {} => Consistent(disk)

\* When no operation is in progress, what is in the buffers is on the disk: every
\* change of fs.c to a buffer is followed by a log_write of that block. (An inode
\* changed in the cache and not passed to iupdate shows in FsConsistent.)
Committed == panicked = "" /\ active = {} => durable = disk

\* The indices of the console's ring are in order and at most INPUT_BUF apart, so
\* no character is overwritten before it is read.
RingInOrder == ConsoleOK(cons)

\* The inode whose sleep lock process p waits for or takes next, 0 if none.
Wants(p) ==
  LET q == proc[p]
      fd == Argfd(p)
  IN CASE Calls(p, "fstat") -> IF fd = 0 THEN 0 ELSE ftable[fd].ip
       [] Calls(p, "read") -> IF fd = 0 \/ ~ftable[fd].readable THEN 0 ELSE ftable[fd].ip
       [] q.pc = "walk" /\ skipelem(q.path).more -> q.ip
       [] q.pc \in {"create", "create_found", "create_new", "open", "link", "link_dir", "unlink", "unlink_ip",
                    "chdir", "exec"} -> q.ip
       [] q.pc = "iput" -> q.put
       [] q.pc = "link_bad" -> q.old
       [] q.pc \in {"write", "cons_done"} -> ftable[q.f].ip
       [] OTHER -> 0

\* Some processes wait for locks that they hold among themselves.
LockCycle ==
  \E P \in SUBSET Proc \ {{}} : \A p \in P : Wants(p) # 0 /\ icache[Wants(p)].lock \in P

\* The calls take inode locks in an order in which no processes can wait for each
\* other. (create, unlink and link do not: see the run files_deadlock.)
NoLockCycle == ~LockCycle

\* What process p waits for, other than a lock, is there: room in the log, input
\* from the console, a dead child or none at all.
Served(p) ==
  LET q == proc[p]
      waits == CallsOneOf(p, {"open", "link", "unlink", "mkdir", "mknod", "chdir", "exec"})
               \/ q.pc \in {"close_put", "write_more"}
               \/ (Calls(p, "write") /\ Argfd(p) # 0 /\ ftable[Argfd(p)].writable /\ Call(p).data # <<>>)
               \/ (q.pc = "exit" /\ q.cwd # 0 /\ \A fd \in DOMAIN q.ofile : q.ofile[fd] = 0)
      children == {c \in Proc : proc[c].parent = p /\ proc[c].state # "UNUSED"}
  IN /\ waits => LogHasRoom
     /\ q.pc = "cons_read" => cons.r # cons.w \/ q.killed \/ Len(q.got) = Call(p).n
     /\ Calls(p, "wait") => children = {} \/ \E c \in children : proc[c].state = "ZOMBIE"

\* Process p can make a step that changes the state: <<Step(p)>>_fvars is enabled.
CanStep(p) ==
  /\ Runs(p)
  /\ At(p, "user") => proc[p].killed \/ Call(p).op # ""
  /\ Calls(p, "goto") => Call(p).to # {proc[p].at}
  /\ Wants(p) # 0 => Unlocked(S, Wants(p))
  /\ Served(p)

\* Weak fairness of each process's steps, with its enabling condition written out as
\* CanStep(p): a process that can go on for ever goes on. The round-robin scheduler
\* of proc.c visits every runnable process. Keys are pressed in the end.
Fairness ==
  /\ \A p \in Proc : []<>~CanStep(p) \/ []<><<proc'[p] # proc[p]>>_fvars
  /\ WF_fvars(ConsoleIntr)

Finished(p) == proc[p].state # "RUNNING" \/ (At(p, "user") /\ Call(p).op = "")

\* Every program comes to its end: no call sleeps for ever for the log, an inode, a
\* child or a key, and a killed process exits, unless the locks are in a cycle.
Finishes == <>(LockCycle \/ \A p \in Proc : Finished(p))
=============================================================================
