------------------------------ MODULE MCControls ------------------------------
(***************************************************************************)
(* Small instances of Controls.                                            *)
(***************************************************************************)
EXTENDS Controls

CONSTANTS r1, r2, p1, p2

TwoRequests == {r1, r2}
TwoPins == {p1, p2}
=============================================================================
