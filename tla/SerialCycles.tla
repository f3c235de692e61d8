---------------------------- MODULE SerialCycles ----------------------------
(***************************************************************************)
(* What the cycle lock promises (cycle_lock in src/app/main.py): scan      *)
(* cycles run one at a time whoever starts them, and what they write is    *)
(* dated by cycles that follow each other, so neither the store nor NetBox *)
(* ever goes back to an older pass over the network.                       *)
(***************************************************************************)
EXTENDS Integers

CONSTANTS
    Worker,    \* everything that can start a cycle
    Nobody     \* no cycle is running

VARIABLES
    active,    \* the worker whose cycle is running
    storeAt,   \* start of the newest cycle merged into the store
    netboxAt   \* start of the newest cycle that wrote to NetBox

vars == <<active, storeAt, netboxAt>>

Init ==
    /\ active = Nobody
    /\ storeAt = 0
    /\ netboxAt = 0

Begin(w) ==
    /\ active = Nobody
    /\ active' = w
    /\ UNCHANGED <<storeAt, netboxAt>>

\* A running cycle writes what it collected, one destination at a time.
Write ==
    /\ active \in Worker
    /\ \/ storeAt' \in Int /\ storeAt' >= storeAt /\ netboxAt' = netboxAt
       \/ netboxAt' \in Int /\ netboxAt' >= netboxAt /\ storeAt' = storeAt
    /\ UNCHANGED active

\* The cycle is over, or its process died.
End ==
    /\ active \in Worker
    /\ active' = Nobody
    /\ UNCHANGED <<storeAt, netboxAt>>

Next == (\E w \in Worker : Begin(w)) \/ Write \/ End

Spec == Init /\ [][Next]_vars
=============================================================================
