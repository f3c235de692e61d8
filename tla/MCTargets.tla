----------------------------- MODULE MCTargets -----------------------------
(* Targets with two devices, two addresses and two profiles. *)
EXTENDS Targets

CONSTANTS d1, d2, a1, a2, default, other

TwoDevices == {d1, d2}
TwoAddresses == {a1, a2}
TwoProfiles == {default, other}
OneProfile == {default}
NamesBoth == [d \in TwoDevices |-> IF d = d1 THEN default ELSE other]
Homes == [d \in TwoDevices |-> IF d = d1 THEN a1 ELSE a2]
OneSeed == {a1}
SeedNamesOther == [a \in OneSeed |-> other]
NoneUnusable == {}
OtherUnusable == {other}
=============================================================================
