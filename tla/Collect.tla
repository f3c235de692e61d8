------------------------------ MODULE Collect ------------------------------
(***************************************************************************)
(* One pass over the network: collect_all in src/app/main.py polls the     *)
(* firewalls (src/app/collectors/fortigate.py) and then the switches       *)
(* (src/app/collectors/snmp.py) in inventory order, and each merges what   *)
(* it knows into one observation per MAC.  A source may fail before it     *)
(* said anything or half way; the pass goes on.  What the pass saw then    *)
(* replaces the addresses in the store (module Discovery has the rest of   *)
(* that transaction).                                                      *)
(*                                                                         *)
(* Abstracted: names, VLANs, L3 interfaces, descriptions and captures are  *)
(* payload; a location names the bridge port, not the interface it is      *)
(* translated to.  An optional endpoint of a firewall or a walk of a       *)
(* switch that fails is an empty reply, as it is in the code.              *)
(***************************************************************************)
EXTENDS Integers, Sequences, FiniteSets, SequencesExt

CONSTANTS
    Firewalls,    \* the firewalls, in inventory order
    Switches,     \* the switches, in inventory order
    Mac,          \* MAC addresses
    Ip,           \* IP addresses
    Port,         \* bridge ports of a switch
    Threshold,    \* uplink_mac_threshold of each switch
    NoLocation,   \* obs.location is None
    MaxEntries    \* bound on the length of a forwarding database

Sources == Firewalls \o Switches
Switch == ToSet(Switches)

ASSUME CollectAssumption ==
    /\ Firewalls \in Seq(ToSet(Firewalls)) /\ Switches \in Seq(Switch)
    /\ IsInjective(Sources)
    /\ IsFiniteSet(Mac)
    /\ Threshold \in [Switch -> Nat] /\ MaxEntries \in Nat
    /\ NoLocation \notin [switch: Switch, port: Port]

VARIABLES
    next,       \* the source to poll, one past the last at the end
    obs,        \* result.observations; `seen` tells whether there is one
    answered,   \* did any source answer?
    store,      \* the addresses of each endpoint in the store
    learned     \* history: the (MAC, port) pairs each switch reported in this pass

vars == <<next, obs, answered, store, learned>>

Location == [switch: Switch, port: Port]
Observation == [seen: BOOLEAN, ips: SUBSET Ip, static: BOOLEAN, fixed: SUBSET Ip,
                dynamic: SUBSET Ip, location: Location \cup {NoLocation}]
Blank == [seen |-> FALSE, ips |-> {}, static |-> FALSE, fixed |-> {}, dynamic |-> {},
          location |-> NoLocation]

TypeOK ==
    /\ next \in 1 .. Len(Sources) + 1
    /\ obs \in [Mac -> Observation]
    /\ answered \in BOOLEAN
    /\ store \in [Mac -> SUBSET Ip]
    /\ learned \in [Switch -> SUBSET (Mac \X Port)]

NothingLearned == [s \in Switch |-> {}]

Init ==
    /\ next = 1
    /\ obs = [m \in Mac |-> Blank]
    /\ answered = FALSE
    /\ store = [m \in Mac |-> {}]
    /\ learned = NothingLearned

-----------------------------------------------------------------------------
(* A firewall: the DHCP configuration, the ARP table and the leases, each   *)
(* merged into the observation `o` of one MAC.                              *)

PerMac == [Mac -> SUBSET Ip]
FirewallReply == [pool: SUBSET Ip, fixed: PerMac, arp: PerMac, leases: PerMac, marked: PerMac]

\* Variant used as a mutant: what was a lease before stays one.
WithReserved_StaysDynamic(o, ips) ==
    IF ips = {} THEN o
    ELSE [o EXCEPT !.seen = TRUE, !.static = TRUE, !.fixed = @ \cup ips, !.ips = @ \cup ips]

\* The reservations of _collect_dhcp_config; blocked ones are left out.
WithReserved(o, ips) ==
    IF ips = {} THEN o
    ELSE [o EXCEPT !.seen = TRUE, !.static = TRUE, !.fixed = @ \cup ips, !.ips = @ \cup ips,
                   !.dynamic = @ \ ips]

\* _collect_arp
WithArp(o, ips, pool) ==
    IF ips = {} THEN o
    ELSE [o EXCEPT !.seen = TRUE, !.ips = @ \cup ips,
                   !.dynamic = @ \cup ((ips \cap pool) \ o.fixed)]

\* _collect_leases: `marked` leases say that they are reservations.
WithLeases(o, ips, marked, pool) ==
    IF ips \cup marked = {} THEN o
    ELSE [o EXCEPT !.seen = TRUE, !.ips = @ \cup ips \cup marked,
                   !.static = @ \/ marked # {}, !.fixed = @ \cup marked,
                   !.dynamic = (@ \cup ((ips \cap pool) \ o.fixed)) \ marked]

\* The observation of m when the first `upto` of the three merges are done.  One that
\* raised half way is a merge of the part it had come to.
FromFirewall(o, m, r, upto) ==
    LET reserved == WithReserved(o, r.fixed[m])
        heard    == WithArp(reserved, r.arp[m], r.pool)
    IN  CASE upto = 0 -> o
          [] upto = 1 -> reserved
          [] upto = 2 -> heard
          [] OTHER    -> WithLeases(heard, r.leases[m], r.marked[m], r.pool)

\* The try of collect_all: a source is done, or it raised.
Polled(complete) ==
    /\ next' = next + 1
    /\ answered' = (answered \/ complete)

\* collect: arp_table() comes first and raises when the firewall is away; an
\* exception later on, among the leases too, leaves what was merged so far.
PollFirewall(r, upto) ==
    /\ next <= Len(Firewalls)
    /\ obs' = [m \in Mac |-> FromFirewall(obs[m], m, r, upto)]
    /\ Polled(upto = 4)
    /\ UNCHANGED <<store, learned>>

-----------------------------------------------------------------------------
(* A switch: the forwarding database in the order it was walked, and the    *)
(* ARP table of an L3 switch.                                               *)

\* What _read_fdb returns: the first of three ways to walk the table that
\* yields anything; a MAC may be in it once per VLAN.
Fdb == BoundedSeq([mac: Mac, port: Port], MaxEntries)

Learned(fdb) == {<<e.mac, e.port>> : e \in ToSet(fdb)}
MacsOn(pairs, p) == {m \in Mac : <<m, p>> \in pairs}

\* Variant used as a mutant: one MAC more is taken for an access port.
Uplink_OneMore(s, fdb, p) == Cardinality(MacsOn(Learned(fdb), p)) > Threshold[s] + 1

\* More MACs than an access port of the switch has.
Uplink(s, fdb, p) == Cardinality(MacsOn(Learned(fdb), p)) > Threshold[s]

\* The entries that tell where m is connected.
Access(s, fdb, m) == {i \in DOMAIN fdb : fdb[i].mac = m /\ ~Uplink(s, fdb, fdb[i].port)}

\* _merge_fdb: the first access port of the first switch is the location.
WithFdb(o, m, s, fdb) ==
    IF m \notin {e.mac : e \in ToSet(fdb)} THEN o
    ELSE [o EXCEPT !.seen = TRUE,
                   !.location = IF @ # NoLocation \/ Access(s, fdb, m) = {} THEN @
                                ELSE [switch |-> s, port |-> fdb[Min(Access(s, fdb, m))].port]]

\* _merge_snmp_arp
WithSnmpArp(o, ips) ==
    IF ips = {} THEN o ELSE [o EXCEPT !.seen = TRUE, !.ips = @ \cup ips]

\* The observation of m when the first `upto` of the two merges are done.
FromSwitch(o, m, s, fdb, arp, upto) ==
    LET located == WithFdb(o, m, s, fdb)
    IN  CASE upto = 0 -> o
          [] upto = 1 -> located
          [] OTHER    -> WithSnmpArp(located, arp[m])

\* collect: the sysDescr probe raises when the switch is away.
PollSwitch(fdb, arp, upto) ==
    /\ next > Len(Firewalls) /\ next <= Len(Sources)
    /\ obs' = [m \in Mac |-> FromSwitch(obs[m], m, Sources[next], fdb, arp, upto)]
    /\ learned' = [learned EXCEPT ![Sources[next]] = IF upto = 0 THEN {} ELSE Learned(fdb)]
    /\ Polled(upto = 3)
    /\ UNCHANGED store

-----------------------------------------------------------------------------
\* Variant used as a mutant: whatever was heard of counts as observed.
Skipped_Unseen(o) == ~o.seen

\* persist_result skips an observation without address and location.
Skipped(o) == o.ips = {} /\ o.location = NoLocation

\* The end of the pass: nothing is stored when no source answered, in a dry run or
\* when the store fails, and _apply_addresses otherwise.  The next pass starts empty.
Deliver(stored) ==
    /\ next > Len(Sources)
    /\ store' = IF ~answered \/ ~stored THEN store
                ELSE [m \in Mac |-> IF Skipped(obs[m]) THEN store[m] ELSE obs[m].ips]
    /\ next' = 1
    /\ obs' = [m \in Mac |-> Blank]
    /\ answered' = FALSE
    /\ learned' = NothingLearned

Next ==
    \/ \E r \in FirewallReply, upto \in 0 .. 4 : PollFirewall(r, upto)
    \/ \E fdb \in Fdb, arp \in PerMac, upto \in 0 .. 3 : PollSwitch(fdb, arp, upto)
    \/ \E stored \in BOOLEAN : Deliver(stored)

Spec == Init /\ [][Next]_vars

-----------------------------------------------------------------------------
(* Properties.                                                              *)

\* "A static reservation beats a lease" (README.md:350), whichever firewall, table
\* or lease says so first and whatever failed in between: an address that any
\* source declared reserved for a MAC is never a temporary one of that MAC as well.
\* A lease of another MAC for the reserved address is accepted (fortigate.py:291).
ReservationBeatsLease ==
    \A m \in Mac : obs[m].fixed \cap obs[m].dynamic = {}

\* "Uplinks are not access ports" (README.md:353): a MAC is located exactly when a
\* switch of this pass learned it on a port with few enough MACs, and then at such
\* a port of the first such switch of the inventory.
LocationsAreAccessPorts ==
    \A m \in Mac :
        LET ports(s) == {p \in Port : <<m, p>> \in learned[s]
                                        /\ Cardinality(MacsOn(learned[s], p)) <= Threshold[s]}
            candidates == {i \in DOMAIN Switches : ports(Switches[i]) # {}}
        IN  IF candidates = {} THEN obs[m].location = NoLocation
            ELSE LET first == CHOOSE i \in candidates : \A j \in candidates : i <= j
                 IN  obs[m].location \in
                        {[switch |-> Switches[first], port |-> p] : p \in ports(Switches[first])}

\* The store takes an address from a MAC only when a source that answered in this very
\* pass told its addresses or a switch saw it on an access port: neither a pass without
\* an answer (README.md:373) nor a MAC heard behind an uplink alone loses anything.  A
\* MAC on an access port does, also when the one firewall that knew its address failed.
LossesAreObserved ==
    [][\A m \in Mac : store[m] \ store'[m] # {} =>
          /\ answered
          /\ \/ obs[m].ips # {}
             \/ \E s \in Switch, p \in Port :
                   <<m, p>> \in learned[s] /\ Cardinality(MacsOn(learned[s], p)) <= Threshold[s]]_vars

=============================================================================
