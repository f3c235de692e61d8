---------------------------- MODULE MCScanCycle ----------------------------
(* ScanCycle with a fixed set of API threads and `--once` processes. *)
EXTENDS ScanCycle

CONSTANTS a1, o1

OneApi == {a1}
OneOnce == {o1}
NoWorkers == {}
=============================================================================
