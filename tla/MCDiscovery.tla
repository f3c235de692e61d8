---------------------------- MODULE MCDiscovery ----------------------------
(* Discovery with two addresses and two ports. *)
EXTENDS Discovery

CONSTANTS p1, p2

TwoIps == {1, 2}
TwoPorts == {p1, p2}
=============================================================================
