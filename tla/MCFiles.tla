------------------------------- MODULE MCFiles -------------------------------
(* Small instances of Files: the programs that run on it, one for each start. *)
EXTENDS Files, UserPrograms

CONSTANT Tests   \* the programs to start with

MCFiles0 ==
  <<[name |-> "README", data |-> <<Byte(1)>>]>>
  \o [k \in 1 .. 4 |-> [name |-> <<"cat", "echo", "sh", "ls">>[k], data |-> <<Byte(ELF)>>]]

\* A reader of the console that may be killed before, while or after it reads.
reader == <<mknod(<<"console">>, 1, 0), open(<<"console">>, RDONLY, 0), fork("reader_child", 1), kill(0), wait(1)>>
reader_child == <<read(0, 3, 3, {<<99, 97, 98>>}), exit>>

\* Descriptors, files and operations at their limits.
limits ==
  <<close(0, -1), close(9, -1), write(0, <<1>>, -1), read(0, 1, -1, {<<>>}), exec(<<"README">>, "", -1),
    open(<<"big">>, CREATE_RDWR, 0), write(0, [k \in 1 .. 15 |-> 1], 15), write(0, <<9>>, -1), write(0, <<>>, 0),
    open(<<"big">>, WRONLY, 1), read(1, 1, -1, {<<>>}), dup(1, 2), open(<<"big">>, RDONLY, 3),
    open(<<"big">>, RDONLY, -1), dup(0, -1), write(3, <<1>>, -1), close(1, 0), close(2, 0),
    mknod(<<"dev">>, 2, 0), open(<<"dev">>, RDWR, 1), read(1, 1, -1, {<<>>}), write(1, <<1>>, -1), close(1, 0),
    unlink(<<"big">>, 0), unlink(<<"dev">>, 0), fstat(3, 0, {<<7, 2, 0, 15>>}), close(0, 0), close(3, 0)>>

\* After n calls: one of the alternatives, each two calls, and then the rest.
OneOf(n, alternatives) ==
  LET k == Len(alternatives)
      end == n + 3 * k + 2
  IN <<goto({n + 3 * j - 1 : j \in 1 .. k})>>
     \o FlattenSeq([j \in 1 .. k |-> alternatives[j] \o <<goto({end})>>])

\* Two processes share an open file d/f. One removes f and d, or opens f anew, or
\* goes to d and creates x there; the other one removes f and d, or links f and
\* removes the link, or makes d/e and removes it, or writes.
file == rel(<<"d", "f">>)
removes == <<unlink(file, AnyOf), unlink(<<"d">>, AnyOf)>>
race ==
  <<mkdir(<<"d">>, 0), open(file, CREATE_RDWR, 0), fork("race_child", 1)>>
  \o OneOf(3, <<removes, <<open(file, CREATE_RDWR, AnyOf), close(1, AnyOf)>>,
                <<chdir(<<"d">>, AnyOf), open(<<"x">>, CREATE_RDWR, AnyOf)>>>>)
  \o <<close(0, AnyOf), wait(1), chdir(root, 0)>>
race_child ==
  OneOf(0, <<removes, <<link(file, <<"g">>, AnyOf), unlink(<<"g">>, AnyOf)>>,
             <<mkdir(rel(<<"d", "e">>), AnyOf), unlink(rel(<<"d", "e">>), AnyOf)>>,
             <<write(0, <<2, 2, 2>>, AnyOf), close(0, 0)>>>>)
  \o <<exit>>

\* The disk that recovery leaves can be used.
reboot ==
  <<open(<<"new">>, CREATE_RDWR, 0), write(0, <<1>>, 1), close(0, 0), mkdir(<<"newd">>, 0), unlink(<<"newd">>, 0),
    unlink(<<"new">>, 0)>>

MCPrograms ==
  [iputtest |-> iputtest, exitiputtest |-> exitiputtest, exitiput_child |-> exitiput_child,
   openiputtest |-> openiputtest, openiput_child |-> openiput_child, iref |-> iref, opentest |-> opentest,
   writetest |-> writetest, writetest1 |-> writetest1(MAXFILE), createtest |-> createtest,
   dirtest |-> dirtest, exectest |-> exectest, echo |-> echo, unlinkread |-> unlinkread,
   linktest |-> linktest, bigdir |-> bigdir, bigwrite |-> bigwrite, bigfile |-> bigfile,
   fourteen |-> fourteen, rmdot |-> rmdot, dirfile |-> dirfile, subdir |-> subdir,
   exitwait |-> exitwait, exiting |-> exiting, forktest |-> forktest, preempt |-> preempt, looping |-> looping,
   sharedfd |-> sharedfd, sharedfd_child |-> sharedfd_child, fourfiles |-> fourfiles,
   fourfiles_0 |-> fourfiles_0, fourfiles_1 |-> fourfiles_1, createdelete |-> createdelete,
   createdelete_child |-> createdelete_child, concreate |-> concreate, concreate_0 |-> concreate_0,
   concreate_1 |-> concreate_1, concreate_2 |-> concreate_2, concreate_3 |-> concreate_3,
   linkunlink |-> linkunlink, linkunlink_child |-> linkunlink_child,
   init |-> init, init_child |-> init_child, sh |-> sh, runcmd |-> runcmd, cat |-> cat,
   ls |-> ls(<<1, 1, 2, 3, 4, 5, 6, 0, 0>>, <<".", "..", "README", "cat", "echo", "sh", "ls">>),
   zombie |-> zombie,
   reader |-> reader, reader_child |-> reader_child, limits |-> limits, race |-> race, race_child |-> race_child, reboot |-> reboot]

MCKeyboard == [init |-> typed, reader |-> <<97, 98, 21, 99, 97, 98, 98, 127, 16, 99, 97>>]

MCInit == FInit(Tests)
MCSpec == MCInit /\ [][FNext]_fvars /\ Fairness
=============================================================================
