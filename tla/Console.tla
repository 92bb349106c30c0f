------------------------------- MODULE Console -------------------------------
(***************************************************************************)
(* console.c's input: a ring of INPUT_BUF characters c = [buf, r, w, e]    *)
(* with a read, a write and an edit index. The keys between w and e can    *)
(* still be edited; those between r and w are there for consoleread.       *)
(*                                                                         *)
(* The indices are unsigned ints in the code.  It compares and subtracts   *)
(* them and takes them modulo INPUT_BUF, which divides 2^32: with indices  *)
(* at most INPUT_BUF apart all of that is the same on numbers that do not  *)
(* wrap.                                                                   *)
(***************************************************************************)
EXTENDS Naturals, Sequences, FiniteSetsExt

CONSTANT INPUT_BUF   \* size of the ring

ASSUME ConsoleAssumption == INPUT_BUF \in Nat \ {0}

\* Keys and characters are numbers; these have a meaning.
NEWLINE == 10
RETURN == 13
CTRL_D == 4
CTRL_P == 16
CTRL_U == 21
CTRL_H == 8
DELETE == 127

EmptyInput == [buf |-> [k \in 0 .. INPUT_BUF - 1 |-> 0], r |-> 0, w |-> 0, e |-> 0]

\* The indices are in order and no more than the ring apart.
ConsoleOK(c) == c.r <= c.w /\ c.w <= c.e /\ c.e <= c.r + INPUT_BUF

\* Control-U goes back to the last newline or to w.
KillLine(c) ==
  LET Stop(k) == k = c.w \/ c.buf[(k - 1) % INPUT_BUF] = NEWLINE
  IN [c EXCEPT !.e = CHOOSE k \in c.w .. c.e : Stop(k) /\ \A j \in k + 1 .. c.e : ~Stop(j)]

Full_Late(c) == c.e - c.r > INPUT_BUF   \* seeded bug
Full(c) == c.e - c.r >= INPUT_BUF

\* The characters are given to the readers at the end of a line, at an end of
\* file, and when the ring is full.
Default(c, key) ==
  LET put == [c EXCEPT !.buf[c.e % INPUT_BUF] = key, !.e = @ + 1]
  IN IF key = 0 \/ Full(c) THEN c
     ELSE IF key \in {NEWLINE, CTRL_D} \/ put.e = put.r + INPUT_BUF THEN [put EXCEPT !.w = put.e]
     ELSE put

Backspace(c) == IF c.e # c.w THEN [c EXCEPT !.e = @ - 1] ELSE c

\* Control-P lists the processes and leaves the ring alone.
consoleintr(c, key) ==
  CASE key = CTRL_P            -> c
    [] key = CTRL_U            -> KillLine(c)
    [] key \in {CTRL_H, DELETE} -> Backspace(c)
    [] OTHER                   -> Default(c, IF key = RETURN THEN NEWLINE ELSE key)

\* consoleread from where it is, with the characters dst read so far of the n
\* asked for, to where it returns (done) or sleeps. An end of file after other
\* characters stays in the ring for the next call.
consoleread(c, dst, n) ==
  LET Char(j) == c.buf[j % INPUT_BUF]
      ends == {j \in c.r .. c.w - 1 : Char(j) \in {NEWLINE, CTRL_D} \/ Len(dst) + j - c.r + 1 = n}
      j == Min(ends)
      Text(k) == dst \o [i \in 1 .. k - c.r |-> Char(c.r + i - 1)]
  IN CASE n = Len(dst) -> [c |-> c, dst |-> dst, done |-> TRUE]
       [] n > Len(dst) /\ ends = {} -> [c |-> [c EXCEPT !.r = c.w], dst |-> Text(c.w), done |-> FALSE]
       [] n > Len(dst) /\ ends # {} /\ Char(j) = CTRL_D ->
            [c |-> [c EXCEPT !.r = IF Text(j) = <<>> THEN j + 1 ELSE j], dst |-> Text(j), done |-> TRUE]
       [] OTHER -> [c |-> [c EXCEPT !.r = j + 1], dst |-> Text(j + 1), done |-> TRUE]
=============================================================================
