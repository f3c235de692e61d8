----------------------------- MODULE MCCollect -----------------------------
(* Collect with two firewalls and two switches. *)
EXTENDS Collect, TLC

CONSTANTS f1, f2, s1, s2

TwoFirewalls == <<f1, f2>>
TwoSwitches == <<s1, s2>>
OneMacOrTwo == [s \in {s1, s2} |-> IF s = s1 THEN 1 ELSE 2]
HostSymmetry == Permutations(Mac) \cup Permutations(Port)
=============================================================================
