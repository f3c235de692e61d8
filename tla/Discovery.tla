------------------------------ MODULE Discovery ------------------------------
(***************************************************************************)
(* The scanspot store (src/app/store/persist.py): what one scan cycle does *)
(* to the endpoints, their addresses and the event log.                    *)
(*                                                                         *)
(* A cycle reaches the store as ONE transaction (_record_run in main.py    *)
(* under session_scope): merge the observations, age out the endpoints     *)
(* that were not seen, prune the log.  It commits as a whole or leaves no  *)
(* trace, so it is one action here.  Cycles are serialised by the cycle    *)
(* lock, which module ScanCycle is about.                                  *)
(*                                                                         *)
(* Abstracted: hostname, firewall, VLAN, vendor, prefix length and address *)
(* kind are payload, overwritten when present and read by no decision      *)
(* below.  The `moved` payload keeps the destination port.                 *)
(***************************************************************************)
EXTENDS Integers, FiniteSets

CONSTANTS
    Mac,             \* the MAC addresses that may be observed
    Ip,              \* IP addresses, numbered in the order sorted() gives them
    Port,            \* the (switch, port) locations a FDB can report
    NoPort,          \* no location known
    OfflineAfter,    \* lifecycle.offline_after_hours, in clock ticks
    Retention,       \* lifecycle.event_retention_days, in ticks; 0 = no limit
    KeepPerType,     \* lifecycle.event_keep_per_type; 0 = no limit
    MaxClock,        \* bound on the clock
    MaxCycles        \* bound on the number of committed cycles

ASSUME DiscoveryAssumption ==
    /\ Ip \subseteq Nat
    /\ NoPort \notin Port
    /\ OfflineAfter \in Nat
    /\ Retention \in Nat
    /\ KeepPerType \in Nat
    /\ MaxClock \in Nat
    /\ MaxCycles \in Nat

VARIABLES
    endpoints,   \* one row per MAC; status "unknown" stands for no row
    addresses,   \* per MAC and IP the address row; NoAddress for no row
    events,      \* the event log, a set of rows
    clock,       \* wall clock; it never runs backwards
    lastCycle,   \* started_at of the newest committed cycle, 0 before the first
    cycles       \* how many cycles committed: the order of the event ids

vars == <<endpoints, addresses, events, clock, lastCycle, cycles>>

NoIp == -1
NoEndpoint == [status |-> "unknown", port |-> NoPort, firstSeen |-> 0, lastSeen |-> 0]
NoAddress == [since |-> 0, last |-> 0]

Lifecycle == {"discovered", "returned", "went_offline"}
EventType == Lifecycle \cup {"moved", "ip_added", "ip_removed"}

EndpointRow == [status: {"unknown", "active", "offline"}, port: Port \cup {NoPort},
                firstSeen: Nat, lastSeen: Nat]
AddressRow == [since: Nat, last: Nat]
EventRow == [mac: Mac, type: EventType, ip: Ip \cup {NoIp}, port: Port \cup {NoPort},
             at: Nat, cycle: Nat, rank: Int]

\* Types of the tables.
TypeOK ==
    /\ endpoints \in [Mac -> EndpointRow]
    /\ addresses \in [Mac -> [Ip -> AddressRow]]
    /\ events \subseteq EventRow
    /\ clock \in Nat \ {0}
    /\ lastCycle \in Nat
    /\ cycles \in Nat

-----------------------------------------------------------------------------
(* What the collectors hand over: for each MAC the addresses and, when one  *)
(* is known, the switch port.                                               *)

Sighting == [ips: SUBSET Ip, port: Port \cup {NoPort}]

\* persist_result skips an observation with neither an address nor a location,
\* so an empty sighting also stands for a MAC that nothing reported.
Seen(s) == s.ips # {} \/ s.port # NoPort

Observations == [Mac -> Sighting]

Known(m) == endpoints[m].status # "unknown"
Held(m) == {ip \in Ip : addresses[m][ip] # NoAddress}

-----------------------------------------------------------------------------
(* The endpoint row after the merge and after the ageing.                   *)

\* _apply_endpoint
Merged(m, s, now) ==
    IF ~Seen(s) THEN endpoints[m]
    ELSE [status    |-> "active",
          port      |-> IF s.port = NoPort THEN endpoints[m].port ELSE s.port,
          firstSeen |-> IF Known(m) THEN endpoints[m].firstSeen ELSE now,
          lastSeen  |-> now]

\* Variant used as a mutant: the window is closed one tick early.
Stale_Early(row, now) == row.status = "active" /\ row.lastSeen <= now - OfflineAfter

\* Variant used as a mutant: endpoints that are offline already are aged again.
Stale_Again(row, now) == row.status # "unknown" /\ row.lastSeen < now - OfflineAfter

\* The filter of mark_stale_offline: active, and last seen before the cutoff.
Stale(row, now) == row.status = "active" /\ row.lastSeen < now - OfflineAfter

\* Variant used as a mutant: a status outside the vocabulary of models.py.
Aged_Misnamed(row, now) == IF Stale(row, now) THEN [row EXCEPT !.status = "stale"] ELSE row

\* mark_stale_offline
Aged(row, now) == IF Stale(row, now) THEN [row EXCEPT !.status = "offline"] ELSE row

\* Variant used as a mutant: leftovers are kept instead of deleted.
MergedAddress_KeepsLeftovers(m, s, ip, now) ==
    IF ip \notin s.ips THEN addresses[m][ip]
    ELSE [since |-> IF ip \in Held(m) THEN addresses[m][ip].since ELSE now,
          last  |-> now]

\* _apply_addresses: a reported address is added or refreshed, a row that is
\* not reported any more is deleted; a MAC that was not seen keeps its rows.
MergedAddress(m, s, ip, now) ==
    IF ~Seen(s) THEN addresses[m][ip]
    ELSE IF ip \notin s.ips THEN NoAddress
    ELSE [since |-> IF ip \in Held(m) THEN addresses[m][ip].since ELSE now,
          last  |-> now]

-----------------------------------------------------------------------------
(* The rows a cycle appends to the log.                                     *)

\* _event: created_at is the start of the cycle.  (created_at, id) orders the
\* log; ids grow with the cycle and, inside a cycle, with the rank.
Event(m, type, ip, port, rank, now) ==
    [mac |-> m, type |-> type, ip |-> ip, port |-> port,
     at |-> now, cycle |-> cycles + 1, rank |-> rank]

\* Variant used as a mutant: a return is not recorded.
LifecycleEvents_NoReturn(m, s, now) ==
    {Event(m, type, NoIp, NoPort, 0, now) : type \in
        {t \in {"discovered"} : Seen(s) /\ ~Known(m)} \cup
        {t \in {"went_offline"} : Stale(Merged(m, s, now), now)}}

LifecycleEvents(m, s, now) ==
    {Event(m, type, NoIp, NoPort, 0, now) : type \in
        {t \in {"discovered"} : Seen(s) /\ ~Known(m)} \cup
        {t \in {"returned"} : Seen(s) /\ endpoints[m].status = "offline"} \cup
        {t \in {"went_offline"} : Stale(Merged(m, s, now), now)}}

\* A first location is recorded silently; only a change of location is a move.
MoveEvents(m, s, now) ==
    {Event(m, "moved", NoIp, p, 0, now) : p \in
        {q \in {s.port} \ {NoPort, endpoints[m].port} : endpoints[m].port # NoPort}}

\* Variant used as a mutant: the removal of an address is not recorded.
AddressEvents_NoRemoval(m, s, loaded, now) ==
    {Event(m, "ip_added", ip, NoPort, ip, now) : ip \in s.ips \ Held(m)}

\* Added in sorted order; removed in the order the rows were loaded, which the
\* query leaves open (`loaded`).
AddressEvents(m, s, loaded, now) ==
    {Event(m, "ip_added", ip, NoPort, ip, now) : ip \in s.ips \ Held(m)} \cup
    {Event(m, "ip_removed", ip, NoPort, loaded[ip], now) :
        ip \in {i \in Held(m) \ s.ips : Seen(s)}}

NewEvents(obs, loaded, now) ==
    UNION {LifecycleEvents(m, obs[m], now) \cup MoveEvents(m, obs[m], now)
             \cup AddressEvents(m, obs[m], loaded, now) : m \in Mac}

-----------------------------------------------------------------------------
(* prune_events: the date cut first, then the newest KeepPerType rows of    *)
(* each endpoint and type.                                                  *)

Newer(e, f) ==
    \/ e.at > f.at
    \/ e.at = f.at /\ e.cycle > f.cycle
    \/ e.at = f.at /\ e.cycle = f.cycle /\ e.rank > f.rank

SameHistory(e, f) == e.mac = f.mac /\ e.type = f.type

Recent(log, now) == {e \in log : Retention = 0 \/ e.at >= now - Retention}

Rivals(log, e) == {f \in log : SameHistory(f, e) /\ Newer(f, e)}

Latest(log) ==
    {e \in log : KeepPerType = 0 \/ Cardinality(Rivals(log, e)) < KeepPerType}

Pruned(log, now) == Latest(Recent(log, now))

-----------------------------------------------------------------------------
Init ==
    /\ endpoints = [m \in Mac |-> NoEndpoint]
    /\ addresses = [m \in Mac |-> [ip \in Ip |-> NoAddress]]
    /\ events = {}
    /\ clock = 1
    /\ lastCycle = 0
    /\ cycles = 0

\* The orders in which the address rows of an endpoint may be loaded.
LoadOrders == {f \in [Ip -> Ip] : \A i, j \in Ip : f[i] = f[j] => i = j}

\* One committed _record_run(persist=True): persist_result, mark_stale_offline
\* and prune_events, in that order, all dated at the start of the cycle.
Cycle(obs, loaded) ==
    /\ cycles < MaxCycles
    /\ endpoints' = [m \in Mac |-> Aged(Merged(m, obs[m], clock), clock)]
    /\ addresses' = [m \in Mac |-> [ip \in Ip |-> MergedAddress(m, obs[m], ip, clock)]]
    /\ events' = Pruned(events \cup NewEvents(obs, loaded, clock), clock)
    /\ lastCycle' = clock
    /\ cycles' = cycles + 1
    /\ UNCHANGED clock

Tick ==
    /\ clock < MaxClock
    /\ clock' = clock + 1
    /\ UNCHANGED <<endpoints, addresses, events, lastCycle, cycles>>

Next ==
    \/ \E obs \in Observations, loaded \in LoadOrders : Cycle(obs, loaded)
    \/ Tick

Spec == Init /\ [][Next]_vars

-----------------------------------------------------------------------------
(* Properties.                                                              *)

\* An endpoint is offline exactly when its last sighting had passed the offline
\* window by the newest cycle, and a sighting always brings it back
\* (_apply_endpoint and mark_stale_offline in one transaction).  At the window's
\* very end this is the code's side: persist.py:434 asks for more than the window,
\* where README.md:364 flags from exactly 48 hours on.
StatusMatchesAge ==
    \A m \in Mac : Known(m) =>
        ((endpoints[m].status = "offline") <=> (endpoints[m].lastSeen < lastCycle - OfflineAfter))

\* Every stored address was confirmed by the very sighting that dates its
\* endpoint: an endpoint seen again keeps none that it no longer has, and no
\* address outlives or predates its endpoint (_apply_addresses, persist.py:229).
\* An endpoint that falls silent keeps its address, whoever holds it next.
AddressesAreCurrent ==
    \A m \in Mac : \A ip \in Held(m) :
        /\ Known(m)
        /\ addresses[m][ip].last = endpoints[m].lastSeen
        /\ addresses[m][ip].since \in endpoints[m].firstSeen .. endpoints[m].lastSeen

LifecycleLog(m) == {e \in events : e.mac = m /\ e.type \in Lifecycle}

\* Whatever pruning removed, the newest surviving lifecycle event of an endpoint
\* tells its present status: reading the log never shows an endpoint offline
\* that is active, or the reverse (persist_result, mark_stale_offline and
\* prune_events together).
LogAgreesWithStatus ==
    \A m \in Mac : LifecycleLog(m) # {} =>
        \E e \in LifecycleLog(m) :
            /\ (e.type = "went_offline") <=> (endpoints[m].status = "offline")
            /\ \A f \in LifecycleLog(m) : f = e \/ Newer(e, f)

\* With both limits disabled the log is complete: an address is held exactly when
\* the newest event about it is `ip_added`, dated when the row says it appeared.
AddressLogReplays ==
    (Retention = 0 /\ KeepPerType = 0) =>
        \A m \in Mac, ip \in Ip :
            LET about == {e \in events : e.mac = m /\ e.ip = ip}
                newest == {e \in about : \A f \in about : ~Newer(f, e)}
            IN  IF ip \in Held(m)
                THEN {<<e.type, e.at>> : e \in newest} = {<<"ip_added", addresses[m][ip].since>>}
                ELSE \A e \in newest : e.type = "ip_removed"

\* With both limits disabled the lifecycle events balance: one discovery per
\* endpoint, and each disappearance but a current one has its return.
LifecycleBalances ==
    (Retention = 0 /\ KeepPerType = 0) =>
        \A m \in Mac :
            LET count(type) == Cardinality({e \in events : e.mac = m /\ e.type = type})
            IN  /\ count("discovered") = IF Known(m) THEN 1 ELSE 0
                /\ count("went_offline") - count("returned")
                     = IF endpoints[m].status = "offline" THEN 1 ELSE 0
=============================================================================
