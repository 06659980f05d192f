----------------------------- MODULE MCNetwork -------------------------------
(***************************************************************************)
(* Small instances of Network: ids 1..4 or 1..5 with 2 for the bootloader, *)
(* so that two or three ids can be given and one more is offered but       *)
(* refused, as 128 is.                                                     *)
(***************************************************************************)
EXTENDS Network

CONSTANTS n1, n2

OneNode == {n1}
TwoNodes == {n1, n2}
=============================================================================
