------------------------------ MODULE UserTests ------------------------------
(***************************************************************************)
(* The file system tests of usertests.c, and other programs of the image,  *)
(* as sequences of calls with the results the C code checks for. A loop is *)
(* unrolled to the few rounds its comment gives; a block has 3 units here. *)
(* A test that goes on whatever a call returns expects AnyOf.              *)
(***************************************************************************)
EXTENDS Integers, Sequences, SequencesExt

AnyOf == -9   \* Files!AnyResult

call == [op |-> "", path |-> <<>>, new |-> <<>>, mode |-> {}, fd |-> -1, n |-> 0, data |-> <<>>,
         want |-> 0, child |-> "", to |-> {}]

open(path, mode, want) == [call EXCEPT !.op = "open", !.path = path, !.mode = mode, !.want = want]
mkdir(path, want) == [call EXCEPT !.op = "mkdir", !.path = path, !.want = want]
mknod(path, major, want) == [call EXCEPT !.op = "mknod", !.path = path, !.n = major, !.want = want]
chdir(path, want) == [call EXCEPT !.op = "chdir", !.path = path, !.want = want]
unlink(path, want) == [call EXCEPT !.op = "unlink", !.path = path, !.want = want]
link(old, new, want) == [call EXCEPT !.op = "link", !.path = old, !.new = new, !.want = want]
exec(path, prog, want) == [call EXCEPT !.op = "exec", !.path = path, !.child = prog, !.want = want]
close(fd, want) == [call EXCEPT !.op = "close", !.fd = fd, !.want = want]
dup(fd, want) == [call EXCEPT !.op = "dup", !.fd = fd, !.want = want]
write(fd, data, want) == [call EXCEPT !.op = "write", !.fd = fd, !.data = data, !.want = want]
read(fd, n, want, oneof) == [call EXCEPT !.op = "read", !.fd = fd, !.n = n, !.want = want, !.data = oneof]
fstat(fd, want, oneof) == [call EXCEPT !.op = "fstat", !.fd = fd, !.want = want, !.data = oneof]
fork(child, want) == [call EXCEPT !.op = "fork", !.child = child, !.want = want]
wait(want) == [call EXCEPT !.op = "wait", !.want = want]
kill(want) == [call EXCEPT !.op = "kill", !.want = want]
exit == [call EXCEPT !.op = "exit"]

\* The program goes on at one of the calls in to (a branch on a random number).
goto(to) == [call EXCEPT !.op = "goto", !.to = to]

RDONLY == {}
RDWR == {"O_RDWR"}
WRONLY == {"O_WRONLY"}
CREATE == {"O_CREATE"}
CREATE_RDWR == {"O_CREATE", "O_RDWR"}

\* Paths: "a/b/c" from its names; "/a/b/c".
rel(names) == [k \in 1 .. 2 * Len(names) - 1 |-> IF k % 2 = 1 THEN names[(k + 1) \div 2] ELSE "/"]
abs(names) == <<"/">> \o rel(names)
root == <<"/">>

Repeat(calls, n) == FlattenSeq([k \in 1 .. n |-> calls])

-----------------------------------------------------------------------------
(* Inodes whose last reference goes away in an unusual place *)

iputtest ==
  <<mkdir(<<"iputdir">>, 0), chdir(<<"iputdir">>, 0), unlink(rel(<<"..", "iputdir">>), 0), chdir(root, 0)>>

exitiputtest == <<fork("exitiput_child", 1), wait(1)>>
exitiput_child ==
  <<mkdir(<<"iputdir">>, 0), chdir(<<"iputdir">>, 0), unlink(rel(<<"..", "iputdir">>), 0), exit>>

openiputtest ==
  <<mkdir(<<"oidir">>, 0), fork("openiput_child", 1), unlink(<<"oidir">>, 0), wait(1)>>
openiput_child == <<open(<<"oidir">>, RDWR, -1), exit>>

iref ==   \* 1 round of 51
  <<mkdir(<<"irefd">>, 0), chdir(<<"irefd">>, 0), mkdir(<<>>, -1), link(<<"README">>, <<>>, -1),
    open(<<>>, CREATE, -1), open(<<"xx">>, CREATE, 0), close(0, 0), unlink(<<"xx">>, 0), chdir(root, 0)>>

-----------------------------------------------------------------------------
(* One process *)

opentest == <<open(<<"echo">>, RDONLY, 0), close(0, 0), open(<<"doesnotexist">>, RDONLY, -1)>>

writetest ==   \* 2 rounds of 100, 4 units a round
  <<open(<<"small">>, CREATE_RDWR, 0)>> \o Repeat(<<write(0, <<1, 1>>, 2), write(0, <<2, 2>>, 2)>>, 2)
  \o <<close(0, 0), open(<<"small">>, RDONLY, 0), read(0, 8, 8, {<<1, 1, 2, 2, 1, 1, 2, 2>>}),
       close(0, 0), unlink(<<"small">>, 0)>>

\* The largest file, MAXFILE blocks.
writetest1(blocks) ==
  <<open(<<"big">>, CREATE_RDWR, 0)>> \o [k \in 1 .. blocks |-> write(0, <<k, 0, 0>>, 3)]
  \o <<close(0, 0), open(<<"big">>, RDONLY, 0)>>
  \o [k \in 1 .. blocks |-> read(0, 3, 3, {<<k, 0, 0>>})]
  \o <<read(0, 3, 0, {<<>>}), close(0, 0), unlink(<<"big">>, 0)>>

createtest ==   \* 2 names of 52
  FlattenSeq([k \in 1 .. 2 |-> <<open(<<<<"a0", "a1">>[k]>>, CREATE_RDWR, 0), close(0, 0)>>])
  \o <<unlink(<<"a0">>, 0), unlink(<<"a1">>, 0)>>

dirtest == <<mkdir(<<"dir0">>, 0), chdir(<<"dir0">>, 0), chdir(<<"..">>, 0), unlink(<<"dir0">>, 0)>>

exectest == <<exec(<<"echo">>, "echo", 0)>>
echo == <<exit>>

unlinkread ==
  <<open(<<"unlinkread">>, CREATE_RDWR, 0), write(0, <<5, 6>>, 2), close(0, 0),
    open(<<"unlinkread">>, RDWR, 0), unlink(<<"unlinkread">>, 0),
    open(<<"unlinkread">>, CREATE_RDWR, 1), write(1, <<7>>, 1), close(1, 0),
    read(0, 9, 2, {<<5, 6>>}), write(0, <<5, 6, 0, 0>>, 4), close(0, 0), unlink(<<"unlinkread">>, 0)>>

linktest ==
  <<unlink(<<"lf1">>, -1), unlink(<<"lf2">>, -1), open(<<"lf1">>, CREATE_RDWR, 0), write(0, <<5, 6>>, 2),
    close(0, 0), link(<<"lf1">>, <<"lf2">>, 0), unlink(<<"lf1">>, 0), open(<<"lf1">>, RDONLY, -1),
    open(<<"lf2">>, RDONLY, 0), read(0, 9, 2, {<<5, 6>>}), close(0, 0),
    link(<<"lf2">>, <<"lf2">>, -1), unlink(<<"lf2">>, 0), link(<<"lf2">>, <<"lf1">>, -1),
    link(<<".">>, <<"lf1">>, -1)>>

bigdir ==   \* 5 names of 500: the last one is in a block of the indirect block
  LET names == <<"x0", "x1", "x2", "x3", "x4">>
  IN <<unlink(<<"bd">>, -1), open(<<"bd">>, CREATE, 0), close(0, 0)>>
     \o [k \in 1 .. 5 |-> link(<<"bd">>, <<names[k]>>, 0)]
     \o <<unlink(<<"bd">>, 0)>> \o [k \in 1 .. 5 |-> unlink(<<names[k]>>, 0)]

bigwrite ==   \* sizes of 4 and 10 units: within a block more than, and larger than, one operation
  LET units(n) == [k \in 1 .. n |-> 1]
      round(n, m) == <<open(<<"bigwrite">>, CREATE_RDWR, 0), write(0, units(n), n), write(0, units(m), m),
                       close(0, 0), unlink(<<"bigwrite">>, 0)>>
  IN <<unlink(<<"bigwrite">>, -1)>> \o round(4, 4) \o round(10, 5)

bigfile ==   \* 2 writes of 20
  <<unlink(<<"bigfile">>, -1), open(<<"bigfile">>, CREATE_RDWR, 0), write(0, <<1, 1, 1, 1>>, 4),
    write(0, <<2, 2, 2, 2>>, 4), close(0, 0), open(<<"bigfile">>, RDONLY, 0)>>
  \o [k \in 1 .. 4 |-> read(0, 2, 2, {<<(k + 1) \div 2, (k + 1) \div 2>>})]
  \o <<read(0, 2, 0, {<<>>}), close(0, 0), unlink(<<"bigfile">>, 0)>>

fourteen ==
  LET n14 == "12345678901234"
      n15 == "123456789012345"
  IN <<mkdir(<<n14>>, 0), mkdir(rel(<<n14, n15>>), 0), open(rel(<<n15, n15, n15>>), CREATE, 0), close(0, 0),
       open(rel(<<n14, n14, n14>>), RDONLY, 0), close(0, 0), mkdir(rel(<<n14, n14>>), -1),
       mkdir(rel(<<n15, n14>>), -1)>>

rmdot ==
  <<mkdir(<<"dots">>, 0), chdir(<<"dots">>, 0), unlink(<<".">>, -1), unlink(<<"..">>, -1), chdir(root, 0),
    unlink(rel(<<"dots", ".">>), -1), unlink(rel(<<"dots", "..">>), -1), unlink(<<"dots">>, 0)>>

dirfile ==
  LET xx == rel(<<"dirfile", "xx">>)
  IN <<open(<<"dirfile">>, CREATE, 0), close(0, 0), chdir(<<"dirfile">>, -1), open(xx, RDONLY, -1),
       open(xx, CREATE, -1), mkdir(xx, -1), unlink(xx, -1), link(<<"README">>, xx, -1), unlink(<<"dirfile">>, 0),
       open(<<".">>, RDWR, -1), open(<<".">>, RDONLY, 0), write(0, <<1>>, -1), close(0, 0)>>

subdir ==
  LET ff == rel(<<"dd", "ff">>)
      dd2 == rel(<<"dd", "dd">>)
      ff2 == rel(<<"dd", "dd", "ff">>)
      ffff == rel(<<"dd", "dd", "ffff">>)
      xx2 == rel(<<"dd", "dd", "xx">>)
      underfile == rel(<<"dd", "ff", "ff">>)
      undernone == rel(<<"dd", "xx", "ff">>)
  IN <<unlink(<<"ff">>, -1), mkdir(<<"dd">>, 0), open(ff, CREATE_RDWR, 0), write(0, <<1, 2>>, 2), close(0, 0),
       unlink(<<"dd">>, -1), mkdir(abs(<<"dd", "dd">>), 0), open(ff2, CREATE_RDWR, 0), write(0, <<3, 4>>, 2),
       close(0, 0), open(rel(<<"dd", "dd", "..", "ff">>), RDONLY, 0), read(0, 9, 2, {<<1, 2>>}), close(0, 0),
       link(ff2, ffff, 0), unlink(ff2, 0), open(ff2, RDONLY, -1),
       chdir(<<"dd">>, 0), chdir(rel(<<"dd", "..", "..", "dd">>), 0),
       chdir(rel(<<"dd", "..", "..", "..", "dd">>), 0), chdir(rel(<<".", "..">>), 0),
       open(ffff, RDONLY, 0), read(0, 9, 2, {<<3, 4>>}), close(0, 0),
       open(ff2, RDONLY, -1), open(underfile, CREATE_RDWR, -1), open(undernone, CREATE_RDWR, -1),
       open(<<"dd">>, CREATE, -1), open(<<"dd">>, RDWR, -1), open(<<"dd">>, WRONLY, -1),
       link(underfile, xx2, -1), link(undernone, xx2, -1), link(ff, ffff, -1),
       mkdir(underfile, -1), mkdir(undernone, -1), mkdir(ffff, -1),
       unlink(undernone, -1), unlink(underfile, -1), chdir(ff, -1), chdir(rel(<<"dd", "xx">>), -1),
       unlink(ffff, 0), unlink(ff, 0), unlink(<<"dd">>, -1), unlink(dd2, 0), unlink(<<"dd">>, 0)>>

-----------------------------------------------------------------------------
(* Several processes *)

exitwait == Repeat(<<fork("exiting", 1), wait(1)>>, 2)   \* 2 rounds of 100
exiting == <<exit>>

\* The process table has room for two children.
forktest == <<fork("exiting", 1), fork("exiting", 1), fork("exiting", -1), wait(1), wait(1), wait(-1)>>

\* 2 of the 3 children; the pipe that tells of the third is left out.
preempt == <<fork("looping", 1), fork("looping", 1), kill(0), kill(0), wait(1), wait(1)>>
looping == <<goto({1})>>

\* Two processes share a descriptor and its offset; 1 write of 1000 each.
sharedfd ==
  <<unlink(<<"sharedfd">>, -1), open(<<"sharedfd">>, CREATE_RDWR, 0), fork("sharedfd_child", 1),
    write(0, <<5, 5>>, 2), wait(1), close(0, 0), open(<<"sharedfd">>, RDONLY, 0),
    read(0, 9, 4, {<<5, 5, 6, 6>>, <<6, 6, 5, 5>>}), close(0, 0), unlink(<<"sharedfd">>, 0)>>
sharedfd_child == <<write(0, <<6, 6>>, 2), exit>>

\* 2 of the 4 processes, 1 of the 12 writes.
fourfiles ==
  <<unlink(<<"f0">>, -1), fork("fourfiles_0", 1), unlink(<<"f1">>, AnyOf), fork("fourfiles_1", 1),
    wait(1), wait(1), open(<<"f0">>, RDONLY, 0), read(0, 9, 4, {<<1, 1, 1, 1>>}), close(0, 0),
    unlink(<<"f0">>, 0), open(<<"f1">>, RDONLY, 0), read(0, 9, 4, {<<2, 2, 2, 2>>}), close(0, 0),
    unlink(<<"f1">>, 0)>>
fourfiles_0 == <<open(<<"f0">>, CREATE_RDWR, 0)>> \o <<write(0, <<1, 1, 1, 1>>, 4), exit>>
fourfiles_1 == <<open(<<"f1">>, CREATE_RDWR, 0)>> \o <<write(0, <<2, 2, 2, 2>>, 4), exit>>

\* 1 of the 4 processes, N = 3 instead of 20.
createdelete ==
  <<fork("createdelete_child", 1), wait(1), open(<<"p1">>, RDONLY, -1)>>
  \o FlattenSeq([k \in 1 .. 2 |->
       LET name == <<<<"p0", "p2">>[k]>> IN <<open(name, RDONLY, 0), close(0, 0), unlink(name, 0)>>])
createdelete_child ==
  FlattenSeq([k \in 1 .. 3 |-> <<open(<<<<"p0", "p1", "p2">>[k]>>, CREATE_RDWR, 0), close(0, 0)>>])
  \o <<unlink(<<"p1">>, 0), exit>>

\* Rounds 0 and 1 of 40: both processes create C0, both link C0 to C1; then one
\* opens each name while the other removes it, 1 time of 4.
concreate ==
  <<unlink(<<"C0">>, -1), fork("concreate_0", 1), open(<<"C0">>, CREATE_RDWR, 0), close(0, 0), wait(1),
    unlink(<<"C1">>, -1), fork("concreate_1", 1), link(<<"C0">>, <<"C1">>, AnyOf), wait(1),
    open(<<"C0">>, RDONLY, 0), close(0, 0), open(<<"C1">>, RDONLY, 0), close(0, 0),
    fork("concreate_2", 1), unlink(<<"C0">>, 0), wait(1),
    fork("concreate_3", 1), open(<<"C1">>, RDONLY, AnyOf), close(0, AnyOf), wait(1)>>
concreate_0 == <<open(<<"C0">>, CREATE_RDWR, 0), close(0, 0), exit>>
concreate_1 == <<link(<<"C0">>, <<"C1">>, AnyOf), exit>>
concreate_2 == <<open(<<"C0">>, RDONLY, AnyOf), close(0, AnyOf), exit>>
concreate_3 == <<unlink(<<"C1">>, 0), exit>>

\* The three things each process does in random order; 1 round of 100.
linkunlink_loop == <<goto({2, 5, 7}), open(<<"x">>, CREATE_RDWR, AnyOf), close(0, AnyOf), goto({8}),
                     link(<<"cat">>, <<"x">>, AnyOf), goto({8}), unlink(<<"x">>, AnyOf)>>
linkunlink_child == linkunlink_loop \o <<exit>>
linkunlink ==
  LET Shift(c) == [c EXCEPT !.to = {k + 2 : k \in c.to}]
  IN <<unlink(<<"x">>, -1), fork("linkunlink_child", 1)>>
     \o [k \in DOMAIN linkunlink_loop |-> Shift(linkunlink_loop[k])] \o <<wait(1)>>
=============================================================================
