--------------------------- MODULE AddressSpaces ---------------------------
(***************************************************************************)
(* What the memory system promises a user program: every process has an    *)
(* address space of its own, whose pages only that process changes.        *)
(*                                                                         *)
(* Nothing here knows of frames, reference counts, page tables or swap     *)
(* slots.  fork gives the child the parent's contents, sbrk and exec change *)
(* the extent of one space, exit ends it, and a store changes one page of  *)
(* one process.  A store is something the program does, not the kernel:    *)
(* the variable store says which one the program made, so that nothing     *)
(* else can pass for one.  CowMemory and Swapping are shown to implement   *)
(* this.                                                                   *)
(***************************************************************************)
EXTENDS Naturals

CONSTANTS
  NPROC,    \* slots of the process table
  NPages,   \* pages of the user part of an address space
  Values,   \* contents of a page
  Zero,     \* the content of a page cleared by the kernel
  InitCode, \* the content of the first process's only page
  Images    \* what exec can load: [size, text, args], see ImageSpace

VARIABLES
  space,   \* space[p]: the contents of p's pages 0 .. size-1
  store    \* the store a program made last, <<process, page, value>>, when
           \* nothing has happened since

NoStore == <<>>

Proc == 1..NPROC

(* A slot without a running program has no pages. *)
NoSpace == [v \in {} |-> Zero]

Spaces == UNION {[0..(n-1) -> Values] : n \in 0..NPages}

(* An executable's pages, the page below the stack, the stack. *)
ImageSpace(im) ==
  [v \in 0..(im.size + 1) |-> IF v < im.size THEN im.text
                              ELSE IF v = im.size THEN Zero ELSE im.args]

Init ==
  /\ space = [p \in Proc |-> IF p = 1 THEN [v \in 0..0 |-> InitCode] ELSE NoSpace]
  /\ store = NoStore

Store(p, v, x) ==
  /\ v \in DOMAIN space[p]
  /\ space' = [space EXCEPT ![p][v] = x]
  /\ store' = <<p, v, x>>

Fork(p, c) ==
  /\ space[p] # NoSpace
  /\ space[c] = NoSpace
  /\ space' = [space EXCEPT ![c] = space[p]]
  /\ store' = NoStore

Resize(p, n) ==
  /\ space[p] # NoSpace
  /\ space' = [space EXCEPT ![p] =
       [v \in 0..(n-1) |-> IF v \in DOMAIN space[p] THEN space[p][v] ELSE Zero]]
  /\ store' = NoStore

Exec(p, im) ==
  /\ space[p] # NoSpace
  /\ space' = [space EXCEPT ![p] = ImageSpace(im)]
  /\ store' = NoStore

Exit(p) == space' = [space EXCEPT ![p] = NoSpace] /\ store' = NoStore

(* Whatever else the kernel or a program does changes no page. *)
Other == UNCHANGED space /\ store' = NoStore

Next ==
  \E p \in Proc :
    \/ \E v \in 0..(NPages-1), x \in Values : Store(p, v, x)
    \/ \E c \in Proc : Fork(p, c)
    \/ \E n \in 1..NPages : Resize(p, n)
    \/ \E im \in Images : Exec(p, im)
    \/ Exit(p)
    \/ Other

Spec == Init /\ [][Next]_<<space, store>>
=============================================================================
