------------------------------- MODULE MCFlash -------------------------------
(***************************************************************************)
(* Small instances of Flash: four sectors, firmware of three blocks (all   *)
(* sectors but the last) or of one.                                        *)
(***************************************************************************)
EXTENDS Flash, TLC

CONSTANTS n1, n2, n3

TwoNodes == {n1, n2}
ThreeNodes == {n1, n2, n3}
MCBlocks == [n \in Nodes |-> IF n = n1 THEN 3 ELSE 1]
=============================================================================
