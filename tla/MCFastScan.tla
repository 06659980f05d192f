----------------------------- MODULE MCFastScan ------------------------------
(***************************************************************************)
(* A small instance of FastScan: addresses of two parts of two bits.       *)
(***************************************************************************)
EXTENDS FastScan

Addr(p0, p1) == [p \in Parts |-> IF p = 0 THEN p0 ELSE p1]

(* Addresses that share prefixes, one of them outside the range mask, so   *)
(* that every stage succeeds for some and fails for others.                *)
FewNodes == {Addr({}, {}), Addr({}, {0}), Addr({1}, {0, 1})}
MCRange == Addr({}, {0})
OneCached == {Addr({}, {0})}
GoodOrLossy == {"good", "lossy"}
=============================================================================
