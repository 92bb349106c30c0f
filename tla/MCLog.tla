------------------------------- MODULE MCLog --------------------------------
(***************************************************************************)
(* Log on a small disk: the header, the log, the home blocks of files and  *)
(* one block of a swap slot.                                               *)
(***************************************************************************)
EXTENDS Log

MCBlocks == {Header} \cup LogArea \cup Home \cup Swap
=============================================================================
