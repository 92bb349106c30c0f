---------------------------- MODULE CowIsolation ----------------------------
(***************************************************************************)
(* CowMemory implements AddressSpaces.                                     *)
(***************************************************************************)
EXTENDS CowMemory

VARIABLE did   \* the store the last step made, <<process, page, value>>, or <<>>

(* did follows the stores S that the step can have been. *)
Records(S) == did' \in IF S = {} THEN {<<>>} ELSE S
Writes == {s \in Proc \X Stored \X Values : Write(s[1], s[2], s[3])}

(* What a program sees: the contents of the pages below its size, where a  *)
(* shrinking process has already given up the pages above its new size.    *)
VisibleSize(p) == IF Shrinking(p) THEN lim[p] ELSE sz[p]
VisibleSpace ==
  [p \in Proc |-> IF state[p] = "RUNNABLE"
                  THEN [v \in 0..(VisibleSize(p) - 1) |-> data[Entry(p, v).addr]]
                  ELSE [v \in {} |-> Zero]]

AS == INSTANCE AddressSpaces WITH space <- VisibleSpace, store <- did

(* Copy-on-write sharing is invisible: processes behave as if each had a   *)
(* private copy of its pages from the moment of fork.  A page changes only *)
(* when its own process stores to it, and then to the value stored;        *)
(* cow_page, copyuvm_cow, kfree and a neighbour's store never change it.   *)
Isolation == AS!Spec
=============================================================================
