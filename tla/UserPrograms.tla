---------------------------- MODULE UserPrograms ----------------------------
(***************************************************************************)
(* Other programs of the image as the calls they make: the way from init   *)
(* to a command that the shell runs, typed on the console; ls, cat and     *)
(* zombie. What they print is one unit a call.                             *)
(***************************************************************************)
EXTENDS UserTests

\* The shell is sent to run "cat < README > out".
init ==
  <<open(<<"console">>, RDWR, -1), mknod(<<"console">>, 1, 0), open(<<"console">>, RDWR, 0), dup(0, 1), dup(0, 2),
    write(1, <<1>>, 1), fork("init_child", 1), wait(1)>>
init_child == <<exec(<<"sh">>, "sh", 0)>>

\* One command, which is read up to its newline (10), and an end of file.
sh ==
  <<open(<<"console">>, RDWR, 3), close(3, 0),
    write(2, <<1>>, 1), read(0, 1, 1, {<<97>>}), read(0, 1, 1, {<<10>>}), fork("runcmd", 1), wait(1),
    write(2, <<1>>, 1), read(0, 1, 0, {<<>>}), exit>>
runcmd ==
  <<close(1, 0), open(<<"out">>, {"O_CREATE", "O_WRONLY"}, 1), close(0, 0), open(<<"README">>, RDONLY, 0),
    exec(<<"cat">>, "cat", 0)>>
cat == <<read(0, 3, 1, {<<1>>}), write(1, <<1>>, 1), read(0, 3, 0, {<<>>}), exit>>

\* b, backspace, a, newline, end of file.
typed == <<98, 8, 97, 10, 4>>

\* ls of the root directory with the given entries: stat of each one in use.
stat(path) == <<open(path, RDONLY, 1), fstat(1, AnyOf, {}), close(1, 0)>>
ls(inums, names) ==
  <<open(<<".">>, RDONLY, 0), fstat(0, 0, {<<1, 1, 1, Len(inums)>>})>>
  \o FlattenSeq([k \in DOMAIN inums |->
       <<read(0, 1, 1, {<<inums[k]>>})>> \o IF inums[k] = 0 THEN <<>> ELSE stat(rel(<<".", names[k]>>))])
  \o <<read(0, 1, 0, {<<>>}), close(0, 0), exit>>

zombie == <<fork("exiting", 1), exit>>
=============================================================================
