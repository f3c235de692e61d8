-------------------------- MODULE MCNetBoxRecords --------------------------
(* NetBoxRecords with one or two MACs and addresses; device ids are         *)
(* interchangeable.                                                         *)
EXTENDS NetBoxRecords, TLC

TwoMacs == {1, 2}
OneMac == {1}
TwoAddresses == {1, 2}
OneAddress == {1}
Protecting == {"protect"}
Adopting == {"adopt"}
DeviceSymmetry == Permutations(Device)
=============================================================================
