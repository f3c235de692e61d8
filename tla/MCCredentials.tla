---------------------------- MODULE MCCredentials ----------------------------
(* Credentials with one name, which a switch and a firewall may use, and    *)
(* two keys.  Profiles of different names share nothing; a built-in one is  *)
(* one of the operator that is never taken out of the configuration.        *)
EXTENDS Credentials, TLC

CONSTANTS core, switch, firewall

OneProfile == {core}
NoBuiltin == {}
TwoTargets == {switch, firewall}
OneFirewall == {firewall}
KeySymmetry == Permutations(Key)
=============================================================================
