---------------------------- MODULE MCDirectory ------------------------------
(* A device with a locator, whose firmware also lists a protocol that the   *)
(* server does not know, and one without, one of whose protocols has the    *)
(* wrong version.                                                           *)
EXTENDS Directory, TLC

CONSTANTS d1, d2

TwoDevices == {d1, d2}

MCReports == (d1 :> {"locator", "fan"})
             @@ (d2 :> {"server_timeout", "adc"})
MCRefuses == (d1 :> {}) @@ (d2 :> {"server_timeout"})
=============================================================================
