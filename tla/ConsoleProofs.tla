---------------------------- MODULE ConsoleProofs ----------------------------
(***************************************************************************)
(* For every size of the ring, every key and every reader: the three       *)
(* indices of console.c stay in order and at most the ring apart.          *)
(***************************************************************************)
EXTENDS Console, WellFoundedInduction, TLAPS

Inputs == [buf : [0 .. INPUT_BUF - 1 -> Int], r : Nat, w : Nat, e : Nat]
Input(c) == c \in Inputs /\ ConsoleOK(c)

\* A nonempty set of numbers has a least and, when bounded, a greatest element.
LEMMA LeastNumber ==
  ASSUME NEW T \in SUBSET Nat, T # {}
  PROVE  \E m \in T : \A k \in T : m <= k
<1> DEFINE R == OpToRel(<, Nat)
<1>1. \A x, y \in Nat : x < y => <<x, y>> \in R
  BY DEF OpToRel
<1>2. IsWellFoundedOn(R, Nat)
  BY NatLessThanWellFounded, Zenon
<1> HIDE DEF R
<1>3. PICK m \in T : \A k \in T : ~(<<k, m>> \in R)
  BY <1>2, WFMin
<1>4. \A k \in T : ~(k < m)
  BY <1>1, <1>3
<1> QED
  BY <1>4

LEMMA GreatestNumber ==
  ASSUME NEW n \in Nat, NEW T \in SUBSET (0 .. n), T # {}
  PROVE  \E m \in T : \A k \in T : k <= m
<1> DEFINE U == {x \in Nat : \E k \in T : x = n - k}
<1>1. U \in SUBSET Nat /\ U # {}
  <2>1. PICK k \in T : TRUE
    OBVIOUS
  <2>2. n - k \in U
    BY <2>1
  <2> QED
    BY <2>2
<1>2. PICK m \in U : \A k \in U : m <= k
  BY <1>1, LeastNumber
<1>3. PICK t \in T : m = n - t
  OBVIOUS
<1>4. \A k \in T : n - k \in U
  OBVIOUS
<1> QED
  BY <1>2, <1>3, <1>4

\* The ring with one index set to x.
LEMMA IndexSet ==
  ASSUME NEW c \in Inputs, NEW x \in Nat
  PROVE  /\ [c EXCEPT !.e = x] \in Inputs /\ [c EXCEPT !.e = x].e = x
         /\ [c EXCEPT !.e = x].r = c.r /\ [c EXCEPT !.e = x].w = c.w
         /\ [c EXCEPT !.r = x] \in Inputs /\ [c EXCEPT !.r = x].r = x
         /\ [c EXCEPT !.r = x].w = c.w /\ [c EXCEPT !.r = x].e = c.e
  BY DEF Inputs

\* The ring with one more character at its end.
LEMMA CharacterPut ==
  ASSUME NEW c \in Inputs, NEW key \in Int,
         NEW put, put = [c EXCEPT !.buf[c.e % INPUT_BUF] = key, !.e = @ + 1]
  PROVE  put \in Inputs /\ put.r = c.r /\ put.w = c.w /\ put.e = c.e + 1
<1>1. c.e \in Nat /\ c.e % INPUT_BUF \in 0 .. INPUT_BUF - 1
  BY ConsoleAssumption DEF Inputs
<1>2. PICK i : i = c.e % INPUT_BUF
  OBVIOUS
<1>3. put = [c EXCEPT !.buf = [c.buf EXCEPT ![i] = key], !.e = c.e + 1]
  BY <1>2
<1>4. [c.buf EXCEPT ![i] = key] \in [0 .. INPUT_BUF - 1 -> Int]
  BY <1>1, <1>2 DEF Inputs
<1>5. PICK b \in [0 .. INPUT_BUF - 1 -> Int] : b = [c.buf EXCEPT ![i] = key]
  BY <1>4
<1>6. put = [c EXCEPT !.buf = b, !.e = c.e + 1]
  BY <1>3, <1>5
<1>7. PICK d \in Inputs : d = [c EXCEPT !.buf = b]
  BY <1>5 DEF Inputs
<1>8. d.r = c.r /\ d.w = c.w /\ c.e + 1 \in Nat
  BY <1>1, <1>7 DEF Inputs
<1>9. put = [d EXCEPT !.e = c.e + 1]
  BY <1>6, <1>7
<1>10. PICK x \in Nat : x = c.e + 1
  BY <1>8
<1>11. put = [d EXCEPT !.e = x]
  BY <1>9, <1>10
<1>12. put \in Inputs /\ put.e = x /\ put.r = d.r /\ put.w = d.w
  <2>1. /\ [d EXCEPT !.e = x] \in Inputs /\ [d EXCEPT !.e = x].e = x
        /\ [d EXCEPT !.e = x].r = d.r /\ [d EXCEPT !.e = x].w = d.w
    BY IndexSet, Zenon
  <2> QED
    BY <1>11, <2>1, Zenon
<1> QED
  BY <1>8, <1>10, <1>12

LEMMA EmptyInputOK == Input(EmptyInput)
  BY ConsoleAssumption DEF Input, Inputs, ConsoleOK, EmptyInput

\* The edit index may move within the line being edited, the read index up to w.
LEMMA EditMoves ==
  ASSUME NEW c, Input(c), NEW x \in c.w .. c.e
  PROVE  Input([c EXCEPT !.e = x])
<1> DEFINE d == [c EXCEPT !.e = x]
<1>1. c \in Inputs /\ ConsoleOK(c)
  BY DEF Input
<1>2. c.r \in Nat /\ c.w \in Nat /\ c.e \in Nat
  BY <1>1 DEF Inputs
<1>3. x \in Nat /\ c.w <= x /\ x <= c.e
  BY <1>2
<1>4. d \in Inputs /\ d.r = c.r /\ d.w = c.w /\ d.e = x
  BY <1>1, <1>3 DEF Inputs
<1> HIDE DEF d
<1>5. ConsoleOK(d)
  BY <1>1, <1>2, <1>3, <1>4, ConsoleAssumption DEF ConsoleOK
<1>6. Input(d)
  BY <1>4, <1>5 DEF Input
<1> QED
  BY <1>6 DEF d

LEMMA ReadMoves ==
  ASSUME NEW c, Input(c), NEW x \in c.r .. c.w
  PROVE  Input([c EXCEPT !.r = x])
<1> DEFINE d == [c EXCEPT !.r = x]
<1>1. c \in Inputs /\ ConsoleOK(c)
  BY DEF Input
<1>2. c.r \in Nat /\ c.w \in Nat /\ c.e \in Nat
  BY <1>1 DEF Inputs
<1>3. x \in Nat /\ c.r <= x /\ x <= c.w
  BY <1>2
<1>4. d \in Inputs /\ d.r = x /\ d.w = c.w /\ d.e = c.e
  BY <1>1, <1>3 DEF Inputs
<1> HIDE DEF d
<1>5. ConsoleOK(d)
  BY <1>1, <1>2, <1>3, <1>4, ConsoleAssumption DEF ConsoleOK
<1>6. Input(d)
  BY <1>4, <1>5 DEF Input
<1> QED
  BY <1>6 DEF d

\* Control-U stops at w or before, never past e.
LEMMA KillLineOK ==
  ASSUME NEW c, Input(c)
  PROVE  Input(KillLine(c))
<1> DEFINE Stop(k) == k = c.w \/ c.buf[(k - 1) % INPUT_BUF] = NEWLINE
           T == {k \in c.w .. c.e : Stop(k)}
           Last(k) == Stop(k) /\ \A j \in k + 1 .. c.e : ~Stop(j)
           stop == CHOOSE k \in c.w .. c.e : Last(k)
<1>1. c.w \in Nat /\ c.e \in Nat /\ c.w <= c.e
  BY DEF Input, Inputs, ConsoleOK
<1>2. c.w \in T /\ T \in SUBSET (0 .. c.e)
  BY <1>1
<1>3. PICK m \in T : \A k \in T : k <= m
  BY <1>1, <1>2, GreatestNumber
<1>4. m \in c.w .. c.e /\ Last(m)
  <2>1. m \in c.w .. c.e /\ Stop(m)
    OBVIOUS
  <2>2. ASSUME NEW j \in m + 1 .. c.e, Stop(j)
        PROVE  FALSE
    <3>1. j \in T
      BY <1>1, <2>1, <2>2
    <3> QED
      BY <1>1, <1>3, <2>1, <3>1
  <2> QED
    BY <2>1, <2>2
<1> HIDE DEF Last
<1>5. stop \in c.w .. c.e
  BY <1>4
<1>6. KillLine(c) = [c EXCEPT !.e = stop]
  BY DEF KillLine, Last
<1>7. PICK x \in c.w .. c.e : KillLine(c) = [c EXCEPT !.e = x]
  BY <1>5, <1>6
<1> QED
  BY <1>7, EditMoves

LEMMA DefaultOK ==
  ASSUME NEW c, Input(c), NEW key \in Int
  PROVE  Input(Default(c, key))
<1> DEFINE put == [c EXCEPT !.buf[c.e % INPUT_BUF] = key, !.e = @ + 1]
<1>1. CASE key = 0 \/ Full(c)
  BY <1>1 DEF Default
<1>2. CASE ~(key = 0 \/ Full(c))
  <2>1. c.e + 1 <= c.r + INPUT_BUF
    BY <1>2, ConsoleAssumption DEF Full, Input, Inputs
  <2>2. put \in Inputs /\ put.r = c.r /\ put.w = c.w /\ put.e = c.e + 1
    BY CharacterPut DEF Input
  <2> HIDE DEF put
  <2>3. Default(c, key) = put \/ Default(c, key) = [put EXCEPT !.w = put.e]
    BY <1>2 DEF Default, put
  <2>4. Input(put)
    BY <2>1, <2>2 DEF Input, Inputs, ConsoleOK
  <2>5. Input([put EXCEPT !.w = put.e])
    BY <2>1, <2>2 DEF Input, Inputs, ConsoleOK
  <2> QED
    BY <2>3, <2>4, <2>5
<1> QED
  BY <1>1, <1>2

\* Whatever key is pressed, consoleintr overwrites no character that has not been
\* read and takes back none that was given to the readers.
THEOREM KeysKeepOrder ==
  ASSUME NEW c, Input(c), NEW key \in Int
  PROVE  Input(consoleintr(c, key))
<1> USE DEF CTRL_P, CTRL_U, CTRL_H, DELETE
<1>1. CASE key = CTRL_U
  <2>1. consoleintr(c, key) = KillLine(c)
    BY <1>1 DEF consoleintr
  <2> QED
    BY <2>1, KillLineOK
<1>2. CASE key \in {CTRL_H, DELETE}
  <2>1. consoleintr(c, key) = Backspace(c)
    BY <1>2 DEF consoleintr
  <2>2. c.w \in Nat /\ c.e \in Nat /\ c.w <= c.e
    BY DEF Input, Inputs, ConsoleOK
  <2>3. c.e # c.w => c.e - 1 \in c.w .. c.e
    BY <2>2
  <2>4. CASE c.e # c.w
    <3>1. Input([c EXCEPT !.e = c.e - 1])
      BY <2>3, <2>4, EditMoves
    <3> QED
      BY <2>1, <2>4, <3>1 DEF Backspace
  <2>5. CASE c.e = c.w
    BY <2>1, <2>5 DEF Backspace
  <2> QED
    BY <2>4, <2>5
<1>3. CASE key = CTRL_P
  <2>1. consoleintr(c, key) = c
    BY <1>3 DEF consoleintr
  <2> QED
    BY <2>1
<1>4. CASE key \notin {CTRL_P, CTRL_U, CTRL_H, DELETE}
  <2>1. PICK k \in Int : consoleintr(c, key) = Default(c, k)
    BY <1>4 DEF consoleintr, RETURN, NEWLINE
  <2> QED
    BY <2>1, DefaultOK
<1> QED
  BY <1>1, <1>2, <1>3, <1>4

\* consoleread, wherever it stops, has read up to w at most.
THEOREM ReadsKeepOrder ==
  ASSUME NEW c, Input(c), NEW dst, NEW n \in Nat, Len(dst) \in 0 .. n
  PROVE  Input(consoleread(c, dst, n).c)
<1> DEFINE Char(j) == c.buf[j % INPUT_BUF]
           ends == {j \in c.r .. c.w - 1 : Char(j) \in {NEWLINE, CTRL_D} \/ Len(dst) + j - c.r + 1 = n}
           j == Min(ends)
<1>1. c.r \in Nat /\ c.w \in Nat /\ c.e \in Nat /\ c.r <= c.w /\ c.w <= c.e
  BY DEF Input, Inputs, ConsoleOK
<1>2. ends # {} => j \in c.r .. c.w - 1
  <2>1. ends \in SUBSET Nat
    BY <1>1
  <2>2. ends # {} => \E x \in ends : \A y \in ends : x <= y
    BY <2>1, LeastNumber
  <2> HIDE DEF ends
  <2>3. ends # {} => Min(ends) \in ends
    BY <2>2 DEF Min
  <2> QED
    BY <2>3 DEF ends
<1> HIDE DEF ends, j
<1>3. \E x \in c.r .. c.w : consoleread(c, dst, n).c = [c EXCEPT !.r = x]
  <2>1. CASE n = Len(dst)
    <3>1. consoleread(c, dst, n) = [c |-> c, dst |-> dst, done |-> TRUE]
      <4>1. ~(n > Len(dst))
        BY <2>1
      <4> QED
        BY <2>1, <4>1 DEF consoleread
    <3>2. c = [c EXCEPT !.r = c.r]
      BY DEF Input, Inputs
    <3> QED
      BY <1>1, <3>1, <3>2
  <2>2. CASE n # Len(dst) /\ ends = {}
    <3>1. consoleread(c, dst, n).c = [c EXCEPT !.r = c.w]
      <4>1. n > Len(dst)
        BY <2>2
      <4> QED
        BY <2>2, <4>1 DEF consoleread, ends
    <3> QED
      BY <1>1, <3>1
  <2>3. CASE n # Len(dst) /\ ends # {}
    <3>1. \/ consoleread(c, dst, n).c = [c EXCEPT !.r = j]
          \/ consoleread(c, dst, n).c = [c EXCEPT !.r = j + 1]
      BY <2>3 DEF consoleread, ends, j
    <3>2. j \in c.r .. c.w /\ j + 1 \in c.r .. c.w
      BY <1>1, <1>2, <2>3
    <3> QED
      BY <3>1, <3>2
  <2> QED
    BY <2>1, <2>2, <2>3
<1>4. PICK x \in c.r .. c.w : consoleread(c, dst, n).c = [c EXCEPT !.r = x]
  BY <1>3
<1> QED
  BY <1>4, ReadMoves
==============================================================================
