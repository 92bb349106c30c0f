----------------------------- MODULE SwapSpaces -----------------------------
(***************************************************************************)
(* Swapping implements AddressSpaces.                                      *)
(***************************************************************************)
EXTENDS Swapping, CowIsolation

SwapStores == {s \in Proc \X Stored \X Values : Store(s[1], s[2], s[3])}

(* The content of p's page v: in memory, or in the slot its entry names or *)
(* is about to name, when p itself is in the swap_out that has just freed  *)
(* the page.  Another process could look at the page at that moment.       *)
PageContent(p, v) ==
  LET e == Entry(p, v) IN
  IF out[p].at = "entry" /\ <<out[p].d, out[p].v>> = <<pgdir[p], v>>
  THEN disk[out[p].slot]
  ELSE IF e.p THEN data[e.addr] ELSE BlocksAt(e.addr)

SwappedSpace ==
  [p \in Proc |-> IF state[p] = "RUNNABLE"
                  THEN [v \in 0..(VisibleSize(p) - 1) |-> PageContent(p, v)]
                  ELSE [v \in {} |-> Zero]]

SAS == INSTANCE AddressSpaces WITH space <- SwappedSpace, store <- did

(* Swapping is invisible to programs: swap_out and handle_page_fault may   *)
(* move a page between memory and a slot any number of times, and it comes *)
(* back to its place with the content it left with.  It changes only when  *)
(* its process stores to it, and then to the value stored.                 *)
SwapIsolation == SAS!Spec
=============================================================================
