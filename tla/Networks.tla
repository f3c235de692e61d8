------------------------------ MODULE Networks ------------------------------
(***************************************************************************)
(* VLANs, prefixes, DHCP ranges and the polled switches themselves: what a *)
(* cycle writes of them into the store (src/app/store/persist.py) and into *)
(* NetBox (src/app/backends/netbox/sync.py), call by call.                 *)
(*                                                                         *)
(* A cycle bootstraps the client, writes the store and then makes four     *)
(* passes over NetBox.  A call that is rejected is logged and swallowed, a *)
(* failed read or a dead process ends the cycle, and people edit the same  *)
(* records between two passes.  A process may be restarted at any moment,  *)
(* with or without DRY_RUN.                                                *)
(*                                                                         *)
(* Abstracted: a description is the interface it is made of, the payload   *)
(* of a range is the label of its pool, a switch has only a device type    *)
(* and the source that last wrote it.  Timestamps are left out: that a     *)
(* pass stamps last_seen is not counted as a change.                       *)
(***************************************************************************)
EXTENDS Catalogue

CONSTANTS
    Vid,          \* VLAN ids
    Net,          \* networks
    Pool,         \* address ranges
    Name,         \* names switches give to VLANs
    Iface,        \* routed interfaces
    Label,        \* labels of DHCP pools
    Host,         \* names of switches
    NoVid, NoName,
    Hand,         \* a name, description or label somebody typed
    FactSets,     \* what a cycle may collect, see Collected
    MaxFaults,    \* bound on edits by people and steps that lose calls, together
    MaxRestarts   \* bound on restarts

VARIABLES
    vlans, prefixes, ranges, devices, \* the records in NetBox
    store,        \* the rows of the store
    stage,        \* the pass the running cycle makes next
    facts,        \* what the running cycle has collected
    stored,       \* whether it has written the store
    intact,       \* history: no call of the running cycle was lost
    synced,       \* history: what the cycle that just ended has written, if intact
    edits, losses, restarts

netbox == <<objects, vlans, prefixes, ranges, devices>>
counters == <<edits, losses, restarts>>
vars == <<objects, clientVars, vlans, prefixes, ranges, devices, store, stage, facts,
          stored, intact, synced, counters>>

-----------------------------------------------------------------------------
(* Facts and records.                                                       *)

\* CollectionResult: switches, l3_interfaces and pools, in the order of the inventory.
SwitchFact == [host: Host, names: [Vid -> Name \cup {NoName}], model: Model \cup {NoModel}]
IfaceFact == [iface: Iface, net: Net, vid: Vid \cup {NoVid}]
PoolFact == [pool: Pool, label: Label]
Collected == [switches: Seq(SwitchFact), ifaces: Seq(IfaceFact), pools: Seq(PoolFact)]
NoFacts == [switches |-> <<>>, ifaces |-> <<>>, pools |-> <<>>]

ASSUME NetworksAssumption ==
    /\ NoVid \notin Vid
    /\ NoName \notin Name \cup Iface \cup Label \cup {Hand}
    /\ Hand \notin Name \cup Iface \cup Label
    /\ (Model \cup {NoModel}) \cap {"placeholder", "human"} = {}
    /\ MaxFaults \in Nat /\ MaxRestarts \in Nat
    /\ \A f \in FactSets : f \in Collected

\* `mine` is the tag auto-discovered, with which the scanner knows its records.
NoVlan == [name |-> NoName, mine |-> FALSE]
NoPrefix == [from |-> NoName, vid |-> NoVid, mine |-> FALSE]
NoRange == [label |-> NoName, mine |-> FALSE]
NoSwitch == [type |-> NoModel, source |-> "none"]

VlanRow == [name: Name \cup Iface \cup {Hand}, mine: BOOLEAN]
PrefixRow == [from: Iface \cup {Hand}, vid: Vid \cup {NoVid}, mine: BOOLEAN]
RangeRow == [label: Label \cup {Hand}, mine: BOOLEAN]
\* "placeholder" is one of the types bootstrap() makes, "human" one somebody chose.
SwitchRow == [type: Model \cup {"placeholder", "human"}, source: {"", "snmp"}]

StoreRows == [vlans: [Vid -> Name \cup {NoName}], prefixes: [Net -> Iface \cup {NoName}],
              pools: [Pool -> Label \cup {NoName}]]

TypeOK ==
    /\ CatalogueTypeOK
    /\ vlans \in [Vid -> VlanRow \cup {NoVlan}]
    /\ prefixes \in [Net -> PrefixRow \cup {NoPrefix}]
    /\ ranges \in [Pool -> RangeRow \cup {NoRange}]
    /\ devices \in [Host -> SwitchRow \cup {NoSwitch}]
    /\ store \in StoreRows
    /\ stage \in {"idle", "vlans", "prefixes", "pools", "devices"}
    /\ {facts, synced} \subseteq FactSets \cup {NoFacts}
    /\ stored \in BOOLEAN /\ intact \in BOOLEAN
    /\ edits \in Nat /\ losses \in Nat /\ edits + losses <= MaxFaults /\ restarts \in 0 .. MaxRestarts

Init ==
    /\ CatalogueInit
    /\ vlans = [v \in Vid |-> NoVlan] /\ prefixes = [n \in Net |-> NoPrefix]
    /\ ranges = [p \in Pool |-> NoRange] /\ devices = [h \in Host |-> NoSwitch]
    /\ store = [vlans |-> [v \in Vid |-> NoName], prefixes |-> [n \in Net |-> NoName],
                pools |-> [p \in Pool |-> NoName]]
    /\ stage = "idle" /\ facts = NoFacts /\ synced = NoFacts
    /\ stored = FALSE /\ intact = TRUE
    /\ edits = 0 /\ losses = 0 /\ restarts = 0

\* NetBox and the client as one record, and whether anything was written.
World == [objects |-> objects, cache |-> cache, bootstrapped |-> bootstrapped, dry |-> dry,
          vlans |-> vlans, prefixes |-> prefixes, ranges |-> ranges, devices |-> devices,
          wrote |-> FALSE]
Becomes(w) ==
    /\ objects' = w.objects /\ cache' = w.cache /\ bootstrapped' = w.bootstrapped
    /\ vlans' = w.vlans /\ prefixes' = w.prefixes
    /\ ranges' = w.ranges /\ devices' = w.devices

\* tag_ids: a record is made without the tag when the tag is not known.
Tagged(w) == Known(w, "tag")

-----------------------------------------------------------------------------
(* The store, all in the transaction of the cycle.                          *)

\* The switches that name a VLAN, the interfaces of a network and the pools of a
\* range, by their places in the result.
Named(f, v) == {k \in DOMAIN f.switches : f.switches[k].names[v] # NoName}
OnNet(f, n) == {k \in DOMAIN f.ifaces : f.ifaces[k].net = n}
OfPool(f, p) == {k \in DOMAIN f.pools : f.pools[k].pool = p}

FirstName(f, v) == f.switches[Min(Named(f, v))].names[v]

\* _persist_vlans: the last switch names a VLAN.
StoredVlan(f, v) ==
    IF Named(f, v) = {} THEN store.vlans[v] ELSE f.switches[Max(Named(f, v))].names[v]

\* Variant used as a mutant: the last interface of a network, like _persist_vlans.
StoredPrefix_Last(f, n) ==
    IF OnNet(f, n) = {} THEN store.prefixes[n] ELSE f.ifaces[Max(OnNet(f, n))].iface

\* _persist_prefixes: the first interface of a network.
StoredPrefix(f, n) ==
    IF OnNet(f, n) = {} THEN store.prefixes[n] ELSE f.ifaces[Min(OnNet(f, n))].iface

\* _persist_pools: the last pool of a range.
StoredPool(f, p) ==
    IF OfPool(f, p) = {} THEN store.pools[p] ELSE f.pools[Max(OfPool(f, p))].label

Persisted(f) ==
    [vlans    |-> [v \in Vid |-> StoredVlan(f, v)],
     prefixes |-> [n \in Net |-> StoredPrefix(f, n)],
     pools    |-> [p \in Pool |-> StoredPool(f, p)]]

-----------------------------------------------------------------------------
(* The four passes.  `lost` holds the calls of a pass that have no effect.  *)

\* Variant used as a mutant: a VLAN that exists keeps its name.
Renamed_Never(w, f, v, lost) ==
    IF Named(f, v) = {} \/ w.dry \/ v \in lost \/ w.vlans[v] # NoVlan THEN w.vlans[v]
    ELSE [name |-> FirstName(f, v), mine |-> Tagged(w)]

\* sync_vlans: the first switch names a VLAN; only own records are renamed.
Renamed(w, f, v, lost) ==
    LET row == w.vlans[v]
    IN  IF Named(f, v) = {} \/ w.dry \/ v \in lost THEN row
        ELSE IF row = NoVlan THEN [name |-> FirstName(f, v), mine |-> Tagged(w)]
        ELSE IF row.mine THEN [row EXCEPT !.name = FirstName(f, v)]
        ELSE row

WithVlans(w, f, lost) ==
    IF ~Known(w, "site") THEN w
    ELSE LET rows == [v \in Vid |-> Renamed(w, f, v, lost)]
         IN  [w EXCEPT !.vlans = rows, !.wrote = @ \/ rows # w.vlans]

\* _ensure_vlan: a VLAN no switch has named is named after the interface.
WithVlan(w, i, lost) ==
    IF i.vid = NoVid \/ ~Known(w, "site") \/ w.dry \/ i.vid \in lost THEN w
    ELSE IF w.vlans[i.vid] # NoVlan THEN w
    ELSE [w EXCEPT !.vlans[i.vid] = [name |-> i.iface, mine |-> Tagged(w)], !.wrote = TRUE]

\* The VLAN a new prefix is linked to: none when it could not be read or created.
Linked(w, i, lost) ==
    IF i.vid # NoVid /\ i.vid \notin lost /\ Known(w, "site") /\ w.vlans[i.vid] # NoVlan
    THEN i.vid ELSE NoVid

\* What sync_prefixes does about the first interface of a network.
WithPrefix(w, i, lost) ==
    LET row == w.prefixes[i.net]
        linked == WithVlan(w, i, lost)
        new == [from |-> i.iface, vid |-> Linked(linked, i, lost), mine |-> Tagged(w)]
    IN  IF row = NoPrefix
        THEN IF w.dry \/ i.net \in lost THEN linked
             ELSE [linked EXCEPT !.prefixes[i.net] = new, !.wrote = TRUE]
        ELSE IF ~row.mine \/ row.from = i.iface \/ w.dry \/ i.net \in lost THEN w
        ELSE [w EXCEPT !.prefixes[i.net].from = i.iface, !.wrote = TRUE]

\* Variant used as a mutant: every interface of a network has its turn.
Heads_All(f) == DOMAIN f.ifaces

\* `seen`: the interfaces that are the first of their network.
Heads(f) == {k \in DOMAIN f.ifaces : k = Min(OnNet(f, f.ifaces[k].net))}

WithPrefixes(w, f, lost) ==
    InOrder(LAMBDA k, v : WithPrefix(v, f.ifaces[k], lost), w, Heads(f))

\* Variant used as a mutant: does not look at the tag.
WithPool_Any(w, before, q, lost) ==
    IF w.dry \/ q.pool \in lost THEN w
    ELSE [w EXCEPT !.ranges[q.pool] = [label |-> q.label, mine |-> TRUE]]

\* sync_dhcp_pools knows the ranges there were when it began: NetBox rejects the
\* second of two new ranges with the same addresses.
WithPool(w, before, q, lost) ==
    LET row == w.ranges[q.pool]
    IN  IF w.dry \/ q.pool \in lost THEN w
        ELSE IF before[q.pool] = NoRange
        THEN IF row # NoRange THEN w
             ELSE [w EXCEPT !.ranges[q.pool] = [label |-> q.label, mine |-> Tagged(w)],
                            !.wrote = TRUE]
        ELSE IF ~row.mine \/ row.label = q.label THEN w
        ELSE [w EXCEPT !.ranges[q.pool].label = q.label, !.wrote = TRUE]

WithPools(w, f, lost) ==
    InOrder(LAMBDA k, v : WithPool(v, w.ranges, f.pools[k], lost), w, DOMAIN f.pools)

\* _discovered_hardware, or the placeholder; NoModel when neither is known.
TypeFor(w, s) ==
    IF s.model # NoModel /\ Known(w, s.model) THEN s.model
    ELSE IF Known(w, "type") THEN "placeholder" ELSE NoModel

\* is_generic_type, or a type the scanner itself put there
Replaceable(row) == row.type = "placeholder" \/ row.source = "snmp"

\* Variant used as a mutant: does not check that there is a device type.
WithDevice_NoType(w, s, lost) ==
    LET row == w.devices[s.host]
        new == IF row # NoSwitch /\ ~Replaceable(row) THEN row.type ELSE TypeFor(w, s)
    IN  IF ~Known(w, "site") \/ ~Known(w, "role") \/ w.dry \/ s.host \in lost THEN w
        ELSE [w EXCEPT !.devices[s.host] = [type |-> new, source |-> "snmp"]]

\* _ensure_infrastructure_device; NetBox rejects custom fields it does not have.
WithDevice(w, s, lost) ==
    LET type == TypeFor(w, s)
        row == w.devices[s.host]
        new == IF row # NoSwitch /\ ~Replaceable(row) THEN row.type ELSE type
    IN  IF type = NoModel \/ ~Known(w, "site") \/ ~Known(w, "role") \/ w.dry
           \/ s.host \in lost \/ "fields" \notin w.objects
        THEN w
        ELSE [w EXCEPT !.devices[s.host] = [type |-> new, source |-> "snmp"],
                       !.wrote = @ \/ row # [type |-> new, source |-> "snmp"]]

\* sync_infrastructure, for the switches
WithSwitch(w, s, lost) ==
    WithDevice(IF s.model = NoModel THEN w ELSE Ensured(w, s.model, lost), s, lost)

WithDevices(w, f, lost) ==
    InOrder(LAMBDA k, v : WithSwitch(v, f.switches[k], lost), w, DOMAIN f.switches)

\* One synchronisation of which every call arrives.
Pass(w, f) == WithDevices(WithPools(WithPrefixes(WithVlans(w, f, {}), f, {}), f, {}), f, {})

-----------------------------------------------------------------------------
(* The cycle.                                                               *)

\* bootstrap(), the collection and the store.  A bootstrap that cannot read ends the
\* cycle; a store that fails does not.
Begin(f, lost, upto, storing) ==
    /\ stage = "idle"
    /\ bootstrapped => lost = {} /\ upto = Len(Order)
    /\ LET w == Bootstrapped(World, lost, upto)
       IN  /\ Becomes(w)
           /\ IF w.bootstrapped
              THEN /\ stage' = "vlans" /\ facts' = f
                   /\ stored' = (storing /\ ~dry)
                   /\ store' = IF storing /\ ~dry THEN Persisted(f) ELSE store
              ELSE UNCHANGED <<stage, facts, stored, store>>
    /\ losses' = losses + IF lost = {} THEN 0 ELSE 1
    /\ clean' = (clean /\ lost = {})
    /\ intact' = (lost = {})
    /\ synced' = NoFacts
    /\ UNCHANGED <<dry, edits, restarts>>

\* A pass ends, and with it the cycle when its reads failed or its process died.
Ends(next, lost, aborted) ==
    /\ aborted => lost # {}
    /\ losses' = losses + IF lost = {} THEN 0 ELSE 1
    /\ stage' = IF aborted THEN "idle" ELSE next
    /\ facts' = IF stage' = "idle" THEN NoFacts ELSE facts
    /\ intact' = (intact /\ lost = {})
    /\ synced' = IF next = "idle" /\ intact' THEN facts ELSE NoFacts
    /\ UNCHANGED <<dry, store, stored, edits, restarts>>

SyncVlans(lost, aborted) ==
    /\ stage = "vlans"
    /\ Becomes(WithVlans(World, facts, lost))
    /\ Ends("prefixes", lost, aborted)
    /\ UNCHANGED clean

SyncPrefixes(lost, aborted) ==
    /\ stage = "prefixes"
    /\ Becomes(WithPrefixes(World, facts, lost))
    /\ Ends("pools", lost, aborted)
    /\ UNCHANGED clean

SyncDhcpPools(lost, aborted) ==
    /\ stage = "pools"
    /\ Becomes(WithPools(World, facts, lost))
    /\ Ends("devices", lost, aborted)
    /\ UNCHANGED clean

SyncInfrastructure(lost, aborted) ==
    /\ stage = "devices"
    /\ Becomes(WithDevices(World, facts, lost))
    /\ Ends("idle", lost, aborted)
    /\ clean' = (clean /\ lost \cap Model = {})

\* A new process knows nothing of NetBox and may have another DRY_RUN.
Restart(mode) ==
    /\ restarts < MaxRestarts
    /\ restarts' = restarts + 1
    /\ cache' = Empty /\ bootstrapped' = FALSE /\ dry' = mode /\ clean' = TRUE
    /\ stage' = "idle" /\ facts' = NoFacts /\ stored' = FALSE /\ intact' = TRUE
    /\ synced' = NoFacts
    /\ UNCHANGED <<netbox, store, edits, losses>>

-----------------------------------------------------------------------------
(* People in NetBox: they make records by hand, take the scanner's over by  *)
(* removing its tag, and choose the type of a device.                       *)

Edit ==
    /\ edits + losses < MaxFaults
    /\ edits' = edits + 1
    /\ intact' = FALSE /\ synced' = NoFacts
    /\ UNCHANGED <<objects, clientVars, store, stage, facts, stored, losses, restarts>>

EditVlan(v) ==
    /\ Edit
    /\ vlans' = [vlans EXCEPT ![v] = [name |-> IF @ = NoVlan THEN Hand ELSE @.name, mine |-> FALSE]]
    /\ UNCHANGED <<prefixes, ranges, devices>>

EditPrefix(n) ==
    /\ Edit
    /\ prefixes' = [prefixes EXCEPT ![n] =
                       IF @ = NoPrefix THEN [from |-> Hand, vid |-> NoVid, mine |-> FALSE]
                       ELSE [@ EXCEPT !.mine = FALSE]]
    /\ UNCHANGED <<vlans, ranges, devices>>

EditRange(p) ==
    /\ Edit
    /\ ranges' = [ranges EXCEPT ![p] = [label |-> IF @ = NoRange THEN Hand ELSE @.label, mine |-> FALSE]]
    /\ UNCHANGED <<vlans, prefixes, devices>>

EditDevice(h) ==
    /\ Edit
    /\ devices' = [devices EXCEPT ![h] = IF @ = NoSwitch THEN [type |-> "human", source |-> ""]
                                         ELSE [@ EXCEPT !.type = "human"]]
    /\ UNCHANGED <<vlans, prefixes, ranges>>

-----------------------------------------------------------------------------
\* Calls that get lost in one step: none, one or all of S.
LostOf(S) == IF edits + losses = MaxFaults THEN {{}} ELSE {{}} \cup {{x} : x \in S} \cup {S}

Starts ==
    \E f \in FactSets, lost \in LostOf(Basics), upto \in 0 .. Len(Order), storing \in BOOLEAN :
        Begin(f, lost, upto, storing)
Syncs == \E aborted \in BOOLEAN :
    \/ \E lost \in LostOf(Vid) : SyncVlans(lost, aborted)
    \/ \E lost \in LostOf(Vid \cup Net) : SyncPrefixes(lost, aborted)
    \/ \E lost \in LostOf(Pool) : SyncDhcpPools(lost, aborted)
    \/ \E lost \in LostOf(Host \cup Model) : SyncInfrastructure(lost, aborted)
People ==
    \/ \E v \in Vid : EditVlan(v)
    \/ \E n \in Net : EditPrefix(n)
    \/ \E p \in Pool : EditRange(p)
    \/ \E h \in Host : EditDevice(h)

Next == Starts \/ Syncs \/ People \/ \E mode \in BOOLEAN : Restart(mode)

Spec == Init /\ [][Next]_vars

-----------------------------------------------------------------------------
(* Properties.                                                              *)

\* After the VLAN and prefix passes of an intact cycle, an own VLAN that a switch
\* names carries the name the first switch gives it, even if the VLAN was made for
\* a prefix by this or an earlier cycle ("a VLAN carries its real dot1q name",
\* sync.py:130).
SwitchNamesVlan ==
    stage \in {"pools", "devices"} /\ intact /\ ~dry =>
        \A v \in Vid : Named(facts, v) # {} /\ vlans[v].mine => vlans[v].name = FirstName(facts, v)

\* No two switches of the inventory share the name h.
Single(f, h) ==
    \A i, j \in DOMAIN f.switches : f.switches[i].host = h /\ f.switches[j].host = h => i = j

\* Two firewalls that serve the same range, two switches of one name, or a device whose
\* type a human chose, are written on every pass; README, section 5.
Steady(f) ==
    /\ \A p \in Pool : \A i, j \in OfPool(f, p) : i = j
    /\ \A h \in Host : Single(f, h)
    /\ \A i \in DOMAIN f.switches : devices[f.switches[i].host].type # "human"

\* Synchronising the same facts once more writes nothing: what one pass wrote is
\* what the next one compares with (apply_changes, sync.py:90-110).
SecondPassIsQuiet ==
    synced # NoFacts /\ Steady(synced) => ~Pass(World, synced).wrote

\* After an intact cycle that wrote the store, both sides tell the same of what the
\* scanner owns, although each of them reduces several reports to one in its own
\* code: of a network, and of a VLAN or a range on which the reports agree.
StoreAgrees ==
    synced # NoFacts /\ stored =>
        /\ \A n \in Net : OnNet(synced, n) # {} /\ prefixes[n].mine =>
               prefixes[n].from = store.prefixes[n]
        /\ \A v \in Vid : vlans[v].mine
                /\ Cardinality({synced.switches[k].names[v] : k \in Named(synced, v)}) = 1 =>
               vlans[v].name = store.vlans[v]
        /\ \A p \in Pool : ranges[p].mine
                /\ Cardinality({synced.pools[k].label : k \in OfPool(synced, p)}) = 1 =>
               ranges[p].label = store.pools[p]

\* What a cycle collected is in NetBox.
Recorded(f) ==
    /\ \A v \in Vid : Named(f, v) # {} => vlans[v] # NoVlan
    /\ \A n \in Net : OnNet(f, n) # {} => prefixes[n] # NoPrefix
    /\ \A p \in Pool : OfPool(f, p) # {} => ranges[p] # NoRange
    /\ \A i \in DOMAIN f.switches : devices[f.switches[i].host] # NoSwitch

\* Whatever an earlier process lost, a process that loses no create of its own has
\* the whole catalogue after its bootstrap, failed reads included, and an intact
\* cycle of it records everything ("Create everything the sync depends on. Safe to
\* call every cycle", client.py:285).
RestartRepairs ==
    clean /\ bootstrapped /\ ~dry =>
        /\ Basics \subseteq objects
        /\ \A item \in Basics \ {"fields"} : cache[item] = "id"
        /\ Recorded(synced)

\* In a dry run the scanner changes nothing ("Single funnel for every mutating call,
\* so DRY_RUN is airtight", client.py:270); otherwise it changes no VLAN, prefix or
\* range that is not its own, and not the type of a device that it has not written
\* before, unless two switches share its name (sync.py:428-429).
OnlyOwnWrites ==
    [][edits' = edits =>
        /\ dry => UNCHANGED <<netbox, store>>
        /\ \A v \in Vid : vlans[v] # NoVlan /\ ~vlans[v].mine => vlans'[v] = vlans[v]
        /\ \A n \in Net : prefixes[n] # NoPrefix /\ ~prefixes[n].mine => prefixes'[n] = prefixes[n]
        /\ \A p \in Pool : ranges[p] # NoRange /\ ~ranges[p].mine => ranges'[p] = ranges[p]
        /\ \A h \in Host : devices[h] = [type |-> "human", source |-> ""] /\ Single(facts, h) =>
               devices'[h].type = "human"]_vars
=============================================================================
