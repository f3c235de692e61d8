--------------------------- MODULE CollectProofs ---------------------------
(* Theorems about Collect. *)
EXTENDS Collect, FiniteSetTheorems, WellFoundedInduction, TLAPS

\* A set of numbers has a least one.
LEMMA MinIsLeast ==
    ASSUME NEW S, S \subseteq Nat, S # {}
    PROVE  Min(S) \in S /\ \A n \in S : Min(S) <= n
  <1>1. IsWellFoundedOn(OpToRel(<, Nat), Nat)
    BY NatLessThanWellFounded
  <1>2. PICK x \in S : \A n \in S : ~(<<n, x>> \in OpToRel(<, Nat))
    BY <1>1, WFMin
  <1>3. ASSUME NEW n \in S PROVE x <= n
    <2>1. CASE n < x
      <3>1. <<n, x>> \in Nat \X Nat /\ <<n, x>>[1] < <<n, x>>[2]
        BY <2>1
      <3>2. <<n, x>> \in OpToRel(<, Nat)
        BY <3>1 DEF OpToRel
      <3> QED
        BY <3>2, <1>2
    <2> QED
      BY <2>1
  <1> QED
    BY <1>3 DEF Min

-----------------------------------------------------------------------------
(* What a merge leaves of one observation.                                  *)

\* The property, for one observation.
Kept(o) == o.fixed \cap o.dynamic = {}

LEMMA FirewallMerges ==
    ASSUME NEW o \in Observation, NEW m \in Mac, NEW r \in FirewallReply, NEW upto \in 0 .. 4
    PROVE  /\ FromFirewall(o, m, r, upto) \in Observation
           /\ Kept(o) => Kept(FromFirewall(o, m, r, upto))
  <1> DEFINE reserved == WithReserved(o, r.fixed[m])
             heard == WithArp(reserved, r.arp[m], r.pool)
             leased == WithLeases(heard, r.leases[m], r.marked[m], r.pool)
  <1>1. /\ r.fixed[m] \subseteq Ip /\ r.arp[m] \subseteq Ip /\ r.pool \subseteq Ip
        /\ r.leases[m] \subseteq Ip /\ r.marked[m] \subseteq Ip
    BY DEF FirewallReply, PerMac
  <1>2. reserved \in Observation /\ (Kept(o) => Kept(reserved))
    BY <1>1 DEF WithReserved, Observation, Kept
  <1>3. heard \in Observation /\ (Kept(reserved) => Kept(heard))
    BY <1>1, <1>2 DEF WithArp, Observation, Kept
  <1>4. leased \in Observation /\ (Kept(heard) => Kept(leased))
    BY <1>1, <1>3 DEF WithLeases, Observation, Kept
  <1>5. FromFirewall(o, m, r, upto) \in {o, reserved, heard, leased}
    BY DEF FromFirewall
  <1> QED
    BY <1>2, <1>3, <1>4, <1>5

\* A forwarding database is a sequence of entries.
LEMMA FdbType ==
    ASSUME NEW fdb \in Fdb
    PROVE  \E n : fdb \in [1 .. n -> [mac: Mac, port: Port]] /\ n \in Nat
  BY CollectAssumption DEF Fdb, BoundedSeq, SeqOf

LEMMA SwitchMerges ==
    ASSUME NEW o \in Observation, NEW m \in Mac, NEW s \in Switch, NEW fdb \in Fdb,
           NEW arp \in PerMac, NEW upto \in 0 .. 3
    PROVE  /\ FromSwitch(o, m, s, fdb, arp, upto) \in Observation
           /\ Kept(o) => Kept(FromSwitch(o, m, s, fdb, arp, upto))
  <1> DEFINE located == WithFdb(o, m, s, fdb)
             heard == WithSnmpArp(located, arp[m])
  <1>1. \A i \in DOMAIN fdb : fdb[i].port \in Port /\ i \in Nat
    BY FdbType
  <1>2. Access(s, fdb, m) # {} => fdb[Min(Access(s, fdb, m))].port \in Port
    <2>1. Access(s, fdb, m) \subseteq Nat /\ Access(s, fdb, m) \subseteq DOMAIN fdb
      BY <1>1 DEF Access
    <2> QED
      BY <2>1, <1>1, MinIsLeast
  <1>3. located \in Observation /\ (Kept(o) => Kept(located))
    BY <1>2 DEF WithFdb, Observation, Location, Kept
  <1>4. heard \in Observation /\ (Kept(located) => Kept(heard))
    BY <1>3 DEF WithSnmpArp, Observation, PerMac, Kept
  <1>5. FromSwitch(o, m, s, fdb, arp, upto) \in {o, located, heard}
    BY DEF FromSwitch
  <1> QED
    BY <1>3, <1>4, <1>5

-----------------------------------------------------------------------------
(* The pass.  The inductive invariant is the property and the types.        *)

ReservedInv == TypeOK /\ ReservationBeatsLease

\* The switches come after the firewalls.
LEMMA SourceFacts ==
    /\ Len(Firewalls) \in Nat /\ Len(Sources) \in Nat /\ Len(Firewalls) <= Len(Sources)
    /\ \A i \in 1 .. Len(Sources) : i > Len(Firewalls) => Sources[i] \in Switch
  <1>1. Len(Firewalls) \in Nat /\ Len(Switches) \in Nat
    BY CollectAssumption
  <1>2. Len(Sources) = Len(Firewalls) + Len(Switches)
    BY CollectAssumption DEF Sources
  <1>3. ASSUME NEW i \in 1 .. Len(Sources), i > Len(Firewalls)
        PROVE  Sources[i] \in Switch
    <2>1. Sources[i] = Switches[i - Len(Firewalls)]
      BY <1>1, <1>2, <1>3, CollectAssumption DEF Sources
    <2>2. i - Len(Firewalls) \in 1 .. Len(Switches)
      BY <1>1, <1>2, <1>3
    <2> QED
      BY <2>1, <2>2, CollectAssumption
  <1> QED
    BY <1>1, <1>2, <1>3

LEMMA ReservedInit == Init => ReservedInv
  <1> SUFFICES ASSUME Init PROVE ReservedInv
    OBVIOUS
  <1>1. next \in 1 .. Len(Sources) + 1
    BY SourceFacts DEF Init
  <1>2. obs \in [Mac -> Observation] /\ ReservationBeatsLease
    BY DEF Init, Blank, Observation, ReservationBeatsLease
  <1>3. learned \in [Switch -> SUBSET (Mac \X Port)]
    BY DEF Init, NothingLearned
  <1> QED
    BY <1>1, <1>2, <1>3 DEF Init, ReservedInv, TypeOK

\* Sources are polled one after the other.
LEMMA PollType ==
    ASSUME TypeOK, NEW complete \in BOOLEAN, Polled(complete), next <= Len(Sources)
    PROVE  /\ next' \in 1 .. Len(Sources) + 1
           /\ answered' \in BOOLEAN
  BY SourceFacts DEF TypeOK, Polled

LEMMA LearnedType ==
    ASSUME NEW fdb \in Fdb
    PROVE  Learned(fdb) \subseteq Mac \X Port
  <1>1. \A i \in DOMAIN fdb : fdb[i] \in [mac: Mac, port: Port]
    BY FdbType
  <1> QED
    BY <1>1 DEF Learned, ToSet

LEMMA ReservedStep ==
    ASSUME ReservedInv, [Next]_vars
    PROVE  ReservedInv'
  <1> USE DEF ReservedInv
  <1>1. ASSUME NEW r \in FirewallReply, NEW upto \in 0 .. 4, PollFirewall(r, upto)
        PROVE  ReservedInv'
    <2>1. \A m \in Mac : /\ FromFirewall(obs[m], m, r, upto) \in Observation
                         /\ Kept(FromFirewall(obs[m], m, r, upto))
      BY FirewallMerges DEF TypeOK, ReservationBeatsLease, Kept
    <2>2. obs' \in [Mac -> Observation] /\ ReservationBeatsLease'
      BY <1>1, <2>1 DEF PollFirewall, ReservationBeatsLease, Kept
    <2>3. next <= Len(Sources)
      BY <1>1, SourceFacts DEF PollFirewall, TypeOK
    <2>4. /\ next' \in 1 .. Len(Sources) + 1
          /\ answered' \in BOOLEAN
      BY <1>1, <2>3, PollType DEF PollFirewall
    <2> QED
      BY <1>1, <2>2, <2>4 DEF PollFirewall, TypeOK
  <1>2. ASSUME NEW fdb \in Fdb, NEW arp \in PerMac, NEW upto \in 0 .. 3,
               PollSwitch(fdb, arp, upto)
        PROVE  ReservedInv'
    <2>1. Sources[next] \in Switch
      BY <1>2, SourceFacts DEF PollSwitch, TypeOK
    <2>2. \A m \in Mac : /\ FromSwitch(obs[m], m, Sources[next], fdb, arp, upto) \in Observation
                         /\ Kept(FromSwitch(obs[m], m, Sources[next], fdb, arp, upto))
      BY <2>1, SwitchMerges DEF TypeOK, ReservationBeatsLease, Kept
    <2>3. obs' \in [Mac -> Observation] /\ ReservationBeatsLease'
      BY <1>2, <2>2 DEF PollSwitch, ReservationBeatsLease, Kept
    <2>4. learned' \in [Switch -> SUBSET (Mac \X Port)]
      BY <1>2, LearnedType DEF PollSwitch, TypeOK
    <2>5. /\ next' \in 1 .. Len(Sources) + 1
          /\ answered' \in BOOLEAN
      BY <1>2, PollType DEF PollSwitch
    <2> QED
      BY <1>2, <2>3, <2>4, <2>5 DEF PollSwitch, TypeOK
  <1>3. ASSUME NEW stored \in BOOLEAN, Deliver(stored)
        PROVE  ReservedInv'
    <2>1. next' \in 1 .. Len(Sources) + 1
      BY <1>3, SourceFacts DEF Deliver
    <2>2. store' \in [Mac -> SUBSET Ip]
      BY <1>3 DEF Deliver, TypeOK, Observation
    <2>3. obs' \in [Mac -> Observation] /\ ReservationBeatsLease'
      BY <1>3 DEF Deliver, Blank, Observation, ReservationBeatsLease
    <2>4. learned' \in [Switch -> SUBSET (Mac \X Port)]
      BY <1>3 DEF Deliver, NothingLearned
    <2> QED
      BY <1>3, <2>1, <2>2, <2>3, <2>4 DEF Deliver, TypeOK
  <1>4. CASE UNCHANGED vars
    BY <1>4 DEF vars, TypeOK, ReservationBeatsLease
  <1> QED
    BY <1>1, <1>2, <1>3, <1>4 DEF Next

LEMMA ReservedInvariant == Spec => []ReservedInv
  <1> QED
    BY ReservedInit, ReservedStep, PTL DEF Spec

\* Every pass keeps its types, whatever the sources reply and wherever they fail.
THEOREM CollectTypeCorrect == Spec => []TypeOK
  <1>1. ReservedInv => TypeOK
    BY DEF ReservedInv
  <1> QED
    BY <1>1, ReservedInvariant, PTL

\* An address that any firewall, table or lease declared reserved is never a
\* temporary one, for any inventory.
THEOREM ReservationsWin == Spec => []ReservationBeatsLease
  <1>1. ReservedInv => ReservationBeatsLease
    BY DEF ReservedInv
  <1> QED
    BY <1>1, ReservedInvariant, PTL

-----------------------------------------------------------------------------
(* Locations.  A switch that is not polled yet has told nothing, so what the *)
(* first switches with an access port said is never overruled.               *)

AccessPorts(s, pairs, m) ==
    {p \in Port : <<m, p>> \in pairs /\ Cardinality(MacsOn(pairs, p)) <= Threshold[s]}

\* The property, with a witness instead of the choice.
Located(m, l, o) ==
    \/ /\ \A i \in DOMAIN Switches : AccessPorts(Switches[i], l[Switches[i]], m) = {}
       /\ o.location = NoLocation
    \/ \E i \in DOMAIN Switches :
          /\ \A j \in DOMAIN Switches : j < i => AccessPorts(Switches[j], l[Switches[j]], m) = {}
          /\ \E p \in AccessPorts(Switches[i], l[Switches[i]], m) :
                o.location = [switch |-> Switches[i], port |-> p]

Unpolled ==
    \A i \in DOMAIN Switches : Len(Firewalls) + i >= next => learned[Switches[i]] = {}

LocationInv == ReservedInv /\ Unpolled /\ \A m \in Mac : Located(m, learned, obs[m])

LEMMA SwitchFacts ==
    /\ Len(Firewalls) \in Nat /\ Len(Switches) \in Nat
    /\ Len(Sources) = Len(Firewalls) + Len(Switches)
    /\ DOMAIN Switches = 1 .. Len(Switches)
    /\ \A i \in DOMAIN Switches : /\ Switches[i] \in Switch
                                  /\ Sources[Len(Firewalls) + i] = Switches[i]
    /\ \A i, j \in DOMAIN Switches : Switches[i] = Switches[j] => i = j
  <1>1. Len(Firewalls) \in Nat /\ Len(Switches) \in Nat /\ DOMAIN Switches = 1 .. Len(Switches)
    BY CollectAssumption
  <1>2. Len(Sources) = Len(Firewalls) + Len(Switches)
        /\ DOMAIN Sources = 1 .. Len(Firewalls) + Len(Switches)
    BY CollectAssumption DEF Sources
  <1>3. \A i \in DOMAIN Switches : /\ Switches[i] \in Switch
                                   /\ Sources[Len(Firewalls) + i] = Switches[i]
    BY <1>1, <1>2, CollectAssumption DEF Sources
  <1>4. ASSUME NEW i \in DOMAIN Switches, NEW j \in DOMAIN Switches, Switches[i] = Switches[j]
        PROVE  i = j
    <2>1. Sources[Len(Firewalls) + i] = Sources[Len(Firewalls) + j]
      BY <1>3, <1>4
    <2>2. Len(Firewalls) + i \in DOMAIN Sources /\ Len(Firewalls) + j \in DOMAIN Sources
      BY <1>1, <1>2
    <2>3. Len(Firewalls) + i = Len(Firewalls) + j
      BY <2>1, <2>2, CollectAssumption DEF IsInjective
    <2> QED
      BY <1>1, <2>3
  <1> QED
    BY <1>1, <1>2, <1>3, <1>4

LEMMA NothingAccessed ==
    ASSUME NEW s, NEW m
    PROVE  AccessPorts(s, {}, m) = {}
  BY DEF AccessPorts

\* What the table of one switch says of one MAC.
LEMMA AccessIsAccess ==
    ASSUME NEW s \in Switch, NEW fdb \in Fdb, NEW m \in Mac
    PROVE  /\ \A i \in Access(s, fdb, m) : fdb[i].port \in AccessPorts(s, Learned(fdb), m)
           /\ Access(s, fdb, m) = {} => AccessPorts(s, Learned(fdb), m) = {}
           /\ m \notin {e.mac : e \in ToSet(fdb)} => Access(s, fdb, m) = {}
  <1>1. \A i \in DOMAIN fdb : fdb[i] \in [mac: Mac, port: Port]
    BY FdbType
  <1>2. \A p : Cardinality(MacsOn(Learned(fdb), p)) \in Nat
    <2>1. \A p : MacsOn(Learned(fdb), p) \subseteq Mac
      BY DEF MacsOn
    <2> QED
      BY <2>1, CollectAssumption, FS_Subset, FS_CardinalityType
  <1>3. \A p : ~Uplink(s, fdb, p) <=> Cardinality(MacsOn(Learned(fdb), p)) <= Threshold[s]
    BY <1>2, CollectAssumption DEF Uplink
  <1>4. \A i \in DOMAIN fdb : <<fdb[i].mac, fdb[i].port>> \in Learned(fdb)
    BY DEF Learned, ToSet
  <1>5. ASSUME NEW p \in Port, <<m, p>> \in Learned(fdb)
        PROVE  \E i \in DOMAIN fdb : fdb[i].mac = m /\ fdb[i].port = p
    BY <1>5 DEF Learned, ToSet
  <1>6. \A i \in Access(s, fdb, m) : fdb[i].port \in AccessPorts(s, Learned(fdb), m)
    BY <1>1, <1>3, <1>4 DEF Access, AccessPorts
  <1>7. ASSUME Access(s, fdb, m) = {} PROVE AccessPorts(s, Learned(fdb), m) = {}
    <2> SUFFICES ASSUME NEW p \in AccessPorts(s, Learned(fdb), m) PROVE FALSE
      OBVIOUS
    <2>1. p \in Port /\ <<m, p>> \in Learned(fdb) /\ ~Uplink(s, fdb, p)
      BY <1>3 DEF AccessPorts
    <2>2. PICK i \in DOMAIN fdb : fdb[i].mac = m /\ fdb[i].port = p
      BY <1>5, <2>1
    <2>3. i \in Access(s, fdb, m)
      BY <2>1, <2>2 DEF Access
    <2> QED
      BY <1>7, <2>3
  <1>8. m \notin {e.mac : e \in ToSet(fdb)} => Access(s, fdb, m) = {}
    BY DEF Access, ToSet
  <1> QED
    BY <1>6, <1>7, <1>8

\* What the poll of a switch makes of a location: access ports locate what is not
\* located yet.
Placed(o, now, s, ports) ==
    IF o.location # NoLocation \/ ports = {} THEN now.location = o.location
    ELSE \E p \in ports : now.location = [switch |-> s, port |-> p]

Said(fdb, upto) == IF upto = 0 THEN {} ELSE Learned(fdb)

LEMMA WithFdbEffect ==
    ASSUME NEW o \in Observation, NEW m \in Mac, NEW s \in Switch, NEW fdb \in Fdb,
           NEW arp \in PerMac, NEW upto \in 0 .. 3
    PROVE  Placed(o, FromSwitch(o, m, s, fdb, arp, upto), s, AccessPorts(s, Said(fdb, upto), m))
  <1> DEFINE located == WithFdb(o, m, s, fdb)
             ports == AccessPorts(s, Learned(fdb), m)
             a == Access(s, fdb, m)
             where == [switch |-> s, port |-> fdb[Min(a)].port]
  <1>1. IF o.location # NoLocation \/ a = {} THEN located.location = o.location
        ELSE located.location = where
    <2>1. m \notin {e.mac : e \in ToSet(fdb)} => a = {}
      BY AccessIsAccess
    <2> HIDE DEF a, where
    <2> QED
      BY <2>1 DEF WithFdb, Observation, a, where
  <1>2. a # {} => Min(a) \in a /\ fdb[Min(a)].port \in ports
    <2>1. a \subseteq Nat
      BY FdbType DEF Access
    <2> QED
      BY <2>1, MinIsLeast, AccessIsAccess
  <1>3. a = {} => ports = {}
    BY AccessIsAccess
  <1>4. located \in Observation
    <2>1. FromSwitch(o, m, s, fdb, arp, 1) \in Observation
      BY SwitchMerges
    <2> QED
      BY <2>1 DEF FromSwitch
  <1> HIDE DEF located, a
  <1>5. WithSnmpArp(located, arp[m]).location = located.location
    BY <1>4 DEF WithSnmpArp, Observation
  <1>6. CASE upto = 0
    BY <1>6, NothingAccessed DEF FromSwitch, Placed, Said
  <1>7. CASE upto # 0
    <2>1. FromSwitch(o, m, s, fdb, arp, upto).location = located.location
      BY <1>5, <1>7 DEF FromSwitch, located
    <2>2. IF o.location # NoLocation \/ ports = {} THEN located.location = o.location
          ELSE \E p \in ports : located.location = [switch |-> s, port |-> p]
      BY <1>1, <1>2, <1>3
    <2> QED
      BY <1>7, <2>1, <2>2 DEF Placed, Said
  <1> QED
    BY <1>6, <1>7

\* A firewall says nothing of locations.
LEMMA FirewallLocation ==
    ASSUME NEW o \in Observation, NEW m \in Mac, NEW r \in FirewallReply, NEW upto \in 0 .. 4
    PROVE  FromFirewall(o, m, r, upto).location = o.location
  <1> DEFINE reserved == WithReserved(o, r.fixed[m])
             heard == WithArp(reserved, r.arp[m], r.pool)
             leased == WithLeases(heard, r.leases[m], r.marked[m], r.pool)
  <1>1. reserved \in Observation /\ heard \in Observation
    <2>1. /\ FromFirewall(o, m, r, 1) \in Observation
          /\ FromFirewall(o, m, r, 2) \in Observation
      BY FirewallMerges
    <2> QED
      BY <2>1 DEF FromFirewall
  <1>2. reserved.location = o.location
    BY DEF WithReserved, Observation
  <1> HIDE DEF reserved
  <1>3. heard.location = reserved.location
    BY <1>1 DEF WithArp, Observation
  <1> HIDE DEF heard
  <1>4. leased.location = heard.location
    BY <1>1 DEF WithLeases, Observation
  <1>5. FromFirewall(o, m, r, upto) \in {o, reserved, heard, leased}
    BY DEF FromFirewall, reserved, heard
  <1> QED
    BY <1>2, <1>3, <1>4, <1>5

LEMMA LocationInit == Init => LocationInv
  <1> SUFFICES ASSUME Init PROVE LocationInv
    OBVIOUS
  <1>1. \A i \in DOMAIN Switches : learned[Switches[i]] = {}
    BY SwitchFacts DEF Init, NothingLearned
  <1>2. \A m \in Mac : obs[m].location = NoLocation
    BY DEF Init, Blank
  <1>3. \A m \in Mac : Located(m, learned, obs[m])
    BY <1>1, <1>2, NothingAccessed DEF Located
  <1> QED
    BY <1>1, <1>3, ReservedInit DEF LocationInv, Unpolled

\* A location is a place.
LEMMA PlacesArePlaces ==
    ASSUME NEW i \in DOMAIN Switches, NEW p \in Port
    PROVE  [switch |-> Switches[i], port |-> p] # NoLocation
  BY SwitchFacts, CollectAssumption

LEMMA LocationStep ==
    ASSUME LocationInv, [Next]_vars
    PROVE  LocationInv'
  <1>1. ReservedInv' /\ TypeOK
    BY ReservedStep DEF LocationInv, ReservedInv
  <1>2. ASSUME NEW r \in FirewallReply, NEW upto \in 0 .. 4, PollFirewall(r, upto)
        PROVE  LocationInv'
    <2>1. \A m \in Mac : obs'[m].location = obs[m].location
      BY <1>1, <1>2, FirewallLocation DEF PollFirewall, TypeOK
    <2>2. \A m \in Mac : Located(m, learned, obs'[m])
      BY <2>1 DEF LocationInv, Located
    <2>3. Unpolled'
      BY <1>1, <1>2, SwitchFacts DEF LocationInv, Unpolled, PollFirewall, Polled, TypeOK
    <2> QED
      BY <1>1, <1>2, <2>2, <2>3 DEF LocationInv, PollFirewall
  <1>3. ASSUME NEW fdb \in Fdb, NEW arp \in PerMac, NEW upto \in 0 .. 3,
               PollSwitch(fdb, arp, upto)
        PROVE  LocationInv'
    <2> DEFINE k == next - Len(Firewalls)
               said == Said(fdb, upto)
    <2>1. /\ k \in DOMAIN Switches /\ Switches[k] \in Switch
          /\ Sources[next] = Switches[k] /\ next = Len(Firewalls) + k
      <3>1. next \in Nat /\ k \in 1 .. Len(Switches) /\ next = Len(Firewalls) + k
        BY <1>1, <1>3, SwitchFacts DEF PollSwitch, TypeOK
      <3> QED
        BY <3>1, SwitchFacts
    <2> HIDE DEF k, said
    <2>2. /\ learned'[Switches[k]] = said
          /\ \A j \in DOMAIN Switches : j # k => learned'[Switches[j]] = learned[Switches[j]]
      <3>1. learned' = [learned EXCEPT ![Switches[k]] = said]
        BY <1>3, <2>1 DEF PollSwitch, said, Said
      <3> QED
        BY <1>1, <2>1, <3>1, SwitchFacts DEF TypeOK
    <2>3. Unpolled'
      <3>1. next' = next + 1 /\ next \in Nat
        BY <1>1, <1>3 DEF PollSwitch, Polled, TypeOK
      <3>2. \A j \in DOMAIN Switches : Len(Firewalls) + j >= next' => j # k /\ Len(Firewalls) + j >= next
        BY <3>1, <2>1, SwitchFacts
      <3> QED
        BY <3>2, <2>2 DEF LocationInv, Unpolled
    <2>4. \A j \in DOMAIN Switches : j >= k => learned[Switches[j]] = {}
      BY <2>1, SwitchFacts DEF LocationInv, Unpolled
    <2>5. ASSUME NEW m \in Mac PROVE Located(m, learned', obs'[m])
      <3> DEFINE before(j) == AccessPorts(Switches[j], learned[Switches[j]], m)
                 after(j) == AccessPorts(Switches[j], learned'[Switches[j]], m)
                 was == obs[m].location
                 is == obs'[m].location
      <3>1. \A j \in DOMAIN Switches : /\ j >= k => before(j) = {}
                                       /\ j # k => after(j) = before(j)
        BY <2>2, <2>4, NothingAccessed
      <3>2. IF was # NoLocation \/ after(k) = {} THEN is = was
            ELSE \E p \in after(k) : is = [switch |-> Switches[k], port |-> p]
        <4>1. obs'[m] = FromSwitch(obs[m], m, Switches[k], fdb, arp, upto)
          BY <1>3, <2>1 DEF PollSwitch
        <4>2. obs[m] \in Observation
          BY <1>1 DEF TypeOK
        <4>3. Placed(obs[m], FromSwitch(obs[m], m, Switches[k], fdb, arp, upto), Switches[k],
                     AccessPorts(Switches[k], said, m))
          BY <4>2, <2>1, WithFdbEffect DEF said
        <4> QED
          BY <4>1, <4>3, <2>2 DEF Placed
      <3>3. /\ \A j \in DOMAIN Switches : before(j) = {}
            /\ was = NoLocation
            \/ \E i \in DOMAIN Switches :
                  /\ \A j \in DOMAIN Switches : j < i => before(j) = {}
                  /\ \E p \in before(i) : was = [switch |-> Switches[i], port |-> p]
        BY DEF LocationInv, Located
      <3>4. SUFFICES
              \/ /\ \A j \in DOMAIN Switches : after(j) = {}
                 /\ is = NoLocation
              \/ \E i \in DOMAIN Switches :
                    /\ \A j \in DOMAIN Switches : j < i => after(j) = {}
                    /\ \E p \in after(i) : is = [switch |-> Switches[i], port |-> p]
        BY DEF Located
      <3>5. \A i \in DOMAIN Switches : before(i) \subseteq Port
        BY DEF AccessPorts
      <3> HIDE DEF before, after, was, is
      <3>6. CASE was = NoLocation
        <4>1. \A j \in DOMAIN Switches : before(j) = {}
          BY <3>3, <3>5, <3>6, PlacesArePlaces
        <4> QED
          BY <4>1, <3>1, <3>2, <3>6, <2>1, SwitchFacts
      <3>7. CASE was # NoLocation
        <4>1. PICK i \in DOMAIN Switches :
                  /\ \A j \in DOMAIN Switches : j < i => before(j) = {}
                  /\ \E p \in before(i) : was = [switch |-> Switches[i], port |-> p]
          BY <3>3, <3>7
        <4>2. i < k
          BY <4>1, <3>1, <2>1, SwitchFacts
        <4>3. after(i) = before(i) /\ is = was
          BY <4>2, <3>1, <3>2, <3>7, <2>1, SwitchFacts
        <4>4. \A j \in DOMAIN Switches : j < i => after(j) = {}
          BY <4>1, <4>2, <3>1, <2>1, SwitchFacts
        <4> QED
          BY <4>1, <4>3, <4>4
      <3> QED
        BY <3>6, <3>7
    <2> QED
      BY <1>1, <2>3, <2>5 DEF LocationInv
  <1>4. ASSUME NEW stored \in BOOLEAN, Deliver(stored)
        PROVE  LocationInv'
    <2>1. \A i \in DOMAIN Switches : learned'[Switches[i]] = {}
      BY <1>4, SwitchFacts DEF Deliver, NothingLearned
    <2>2. \A m \in Mac : obs'[m].location = NoLocation
      BY <1>4 DEF Deliver, Blank
    <2>3. \A m \in Mac : Located(m, learned', obs'[m])
      BY <2>1, <2>2, NothingAccessed DEF Located
    <2> QED
      BY <1>1, <2>1, <2>3 DEF LocationInv, Unpolled
  <1>5. CASE UNCHANGED vars
    BY <1>1, <1>5 DEF LocationInv, Unpolled, vars
  <1> QED
    BY <1>2, <1>3, <1>4, <1>5 DEF Next

LEMMA LocationInvariant == Spec => []LocationInv
  <1> QED
    BY LocationInit, LocationStep, PTL DEF Spec

\* A MAC is located exactly when a switch of the pass learned it on a port with few
\* enough MACs, and then at such a port of the first such switch, for any inventory.
THEOREM LocationsAreKept == Spec => []LocationsAreAccessPorts
  <1>1. ASSUME LocationInv, NEW m \in Mac
        PROVE  LET ports(s) == AccessPorts(s, learned[s], m)
                   candidates == {i \in DOMAIN Switches : ports(Switches[i]) # {}}
               IN  IF candidates = {} THEN obs[m].location = NoLocation
                   ELSE LET first == CHOOSE i \in candidates : \A j \in candidates : i <= j
                        IN  obs[m].location \in
                               {[switch |-> Switches[first], port |-> p] : p \in ports(Switches[first])}
    <2> DEFINE ports(s) == AccessPorts(s, learned[s], m)
               candidates == {i \in DOMAIN Switches : ports(Switches[i]) # {}}
               first == CHOOSE i \in candidates : \A j \in candidates : i <= j
    <2> SUFFICES IF candidates = {} THEN obs[m].location = NoLocation
                 ELSE obs[m].location \in
                         {[switch |-> Switches[first], port |-> p] : p \in ports(Switches[first])}
      OBVIOUS
    <2>1. /\ \A i \in DOMAIN Switches : ports(Switches[i]) = {}
          /\ obs[m].location = NoLocation
          \/ \E i \in DOMAIN Switches :
                /\ \A j \in DOMAIN Switches : j < i => ports(Switches[j]) = {}
                /\ \E p \in ports(Switches[i]) :
                      obs[m].location = [switch |-> Switches[i], port |-> p]
      BY <1>1 DEF LocationInv, Located
    <2> HIDE DEF ports
    <2>2. CASE candidates = {}
      BY <2>1, <2>2
    <2>3. CASE candidates # {}
      <3>1. PICK i \in DOMAIN Switches :
                /\ \A j \in DOMAIN Switches : j < i => ports(Switches[j]) = {}
                /\ \E p \in ports(Switches[i]) :
                      obs[m].location = [switch |-> Switches[i], port |-> p]
        BY <2>1, <2>3
      <3>2. i \in candidates /\ \A j \in candidates : i <= j
        BY <3>1, SwitchFacts
      <3>3. \A j \in candidates : (\A n \in candidates : j <= n) => j = i
        BY <3>2, SwitchFacts
      <3>4. first = i
        <4> HIDE DEF candidates
        <4> QED
          BY <3>2, <3>3
      <3> HIDE DEF first
      <3> QED
        BY <2>3, <3>1, <3>4
    <2> QED
      BY <2>2, <2>3
  <1>2. LocationInv => LocationsAreAccessPorts
    BY <1>1 DEF LocationsAreAccessPorts, AccessPorts
  <1> QED
    BY <1>2, LocationInvariant, PTL

\* The store takes an address from a MAC only when the pass that is delivered had an
\* answer and told where the MAC is or which addresses it has, for any inventory.
THEOREM NothingIsLostUnseen == Spec => LossesAreObserved
  <1> DEFINE Observed(m) ==
                 /\ answered
                 /\ \/ obs[m].ips # {}
                    \/ \E s \in Switch, p \in Port :
                          <<m, p>> \in learned[s] /\ Cardinality(MacsOn(learned[s], p)) <= Threshold[s]
             Losses == \A m \in Mac : store[m] \ store'[m] # {} => Observed(m)
  <1>1. ASSUME LocationInv, [Next]_vars
        PROVE  [Losses]_vars
    <2>1. ASSUME NEW stored \in BOOLEAN, Deliver(stored)
          PROVE  Losses
      <3> SUFFICES ASSUME NEW m \in Mac, store[m] \ store'[m] # {}
                   PROVE  Observed(m)
        OBVIOUS
      <3>1. answered /\ ~Skipped(obs[m])
        BY <2>1 DEF Deliver
      <3>2. CASE obs[m].ips # {}
        BY <3>1, <3>2
      <3>3. CASE obs[m].location # NoLocation
        <4>1. PICK i \in DOMAIN Switches : \E p \in AccessPorts(Switches[i], learned[Switches[i]], m) : TRUE
          BY <1>1, <3>3 DEF LocationInv, Located
        <4> QED
          BY <3>1, <4>1, SwitchFacts DEF AccessPorts
      <3> QED
        BY <3>1, <3>2, <3>3 DEF Skipped
    <2>2. CASE UNCHANGED store
      BY <2>2
    <2>3. CASE \E stored \in BOOLEAN : Deliver(stored)
      BY <2>1, <2>3
    <2> QED
      BY <1>1, <2>2, <2>3 DEF Next, PollFirewall, PollSwitch, vars
  <1>2. [][Losses]_vars => LossesAreObserved
    BY DEF LossesAreObserved
  <1> HIDE DEF Losses
  <1> QED
    BY <1>1, <1>2, LocationInvariant, PTL DEF Spec

=============================================================================
