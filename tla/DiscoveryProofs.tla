--------------------------- MODULE DiscoveryProofs ---------------------------
(* Theorems about module Discovery, for every value of its constants. *)
EXTENDS Discovery, FiniteSetTheorems, TLAPS

-----------------------------------------------------------------------------
(* What the helpers return.                                                 *)

LEMMA MergedType ==
    ASSUME TypeOK, NEW m \in Mac, NEW s \in Sighting
    PROVE  Merged(m, s, clock) \in EndpointRow
  <1>1. endpoints[m] \in EndpointRow
    BY DEF TypeOK
  <1>2. clock \in Nat
    BY DEF TypeOK
  <1>3. CASE ~Seen(s)
    BY <1>1, <1>3 DEF Merged
  <1>4. CASE Seen(s)
    BY <1>1, <1>2, <1>4 DEF Merged, EndpointRow, Sighting
  <1> QED
    BY <1>3, <1>4

LEMMA AgedType ==
    ASSUME NEW row \in EndpointRow, NEW now
    PROVE  Aged(row, now) \in EndpointRow
  BY DEF Aged, EndpointRow

LEMMA MergedAddressType ==
    ASSUME TypeOK, NEW m \in Mac, NEW s \in Sighting, NEW ip \in Ip
    PROVE  MergedAddress(m, s, ip, clock) \in AddressRow
  <1>1. addresses[m][ip] \in AddressRow /\ clock \in Nat
    BY DEF TypeOK
  <1>2. NoAddress \in AddressRow
    BY DEF NoAddress, AddressRow
  <1> QED
    BY <1>1, <1>2 DEF MergedAddress, AddressRow

\* Pruning only removes rows.
LEMMA PrunedSubset ==
    ASSUME NEW log, NEW now
    PROVE  Pruned(log, now) \subseteq log
  BY DEF Pruned, Latest, Recent

LEMMA EventTypeOK ==
    ASSUME TypeOK, NEW m \in Mac, NEW type \in EventType, NEW ip \in Ip \cup {NoIp},
           NEW port \in Port \cup {NoPort}, NEW rank \in Int
    PROVE  Event(m, type, ip, port, rank, clock) \in EventRow
  <1>1. clock \in Nat /\ cycles + 1 \in Nat
    BY DEF TypeOK
  <1> QED
    BY <1>1 DEF Event, EventRow

LEMMA NewEventsType ==
    ASSUME TypeOK, NEW obs \in Observations, NEW loaded \in LoadOrders
    PROVE  NewEvents(obs, loaded, clock) \subseteq EventRow
  <1> SUFFICES ASSUME NEW m \in Mac
               PROVE  /\ LifecycleEvents(m, obs[m], clock) \subseteq EventRow
                      /\ MoveEvents(m, obs[m], clock) \subseteq EventRow
                      /\ AddressEvents(m, obs[m], loaded, clock) \subseteq EventRow
    BY DEF NewEvents
  <1>1. obs[m].ips \subseteq Ip /\ obs[m].port \in Port \cup {NoPort}
    BY DEF Observations, Sighting
  <1>2. ASSUME NEW ip \in Ip
        PROVE  ip \in Int /\ loaded[ip] \in Int
    <2>1. loaded[ip] \in Ip
      BY DEF LoadOrders
    <2>2. ip \in Nat /\ loaded[ip] \in Nat
      BY <2>1, DiscoveryAssumption, Zenon
    <2> QED
      BY <2>2
  <1>3. LifecycleEvents(m, obs[m], clock) \subseteq EventRow
    <2> SUFFICES ASSUME NEW type \in Lifecycle
                 PROVE  Event(m, type, NoIp, NoPort, 0, clock) \in EventRow
      BY DEF LifecycleEvents, Lifecycle
    <2> type \in EventType /\ NoIp \in Ip \cup {NoIp} /\ NoPort \in Port \cup {NoPort} /\ 0 \in Int
      BY DEF EventType
    <2> QED
      BY EventTypeOK
  <1>4. MoveEvents(m, obs[m], clock) \subseteq EventRow
    <2> SUFFICES ASSUME NEW port \in Port \cup {NoPort}
                 PROVE  Event(m, "moved", NoIp, port, 0, clock) \in EventRow
      BY <1>1 DEF MoveEvents
    <2> "moved" \in EventType /\ NoIp \in Ip \cup {NoIp} /\ 0 \in Int
      BY DEF EventType
    <2> QED
      BY EventTypeOK
  <1>5. AddressEvents(m, obs[m], loaded, clock) \subseteq EventRow
    <2>1. ASSUME NEW ip \in Ip
          PROVE  /\ Event(m, "ip_added", ip, NoPort, ip, clock) \in EventRow
                 /\ Event(m, "ip_removed", ip, NoPort, loaded[ip], clock) \in EventRow
      BY <1>2, EventTypeOK DEF EventType
    <2> QED
      BY <1>1, <2>1 DEF AddressEvents, Held
  <1> QED
    BY <1>3, <1>4, <1>5

-----------------------------------------------------------------------------
(* Types.                                                                   *)

LEMMA TypeInit == Init => TypeOK
  BY DiscoveryAssumption DEF Init, TypeOK, NoEndpoint, NoAddress, EndpointRow, AddressRow

LEMMA TypeStep ==
    ASSUME TypeOK, [Next]_vars
    PROVE  TypeOK'
  <1>1. ASSUME NEW obs \in Observations, NEW loaded \in LoadOrders, Cycle(obs, loaded)
        PROVE  TypeOK'
    <2>1. endpoints' \in [Mac -> EndpointRow]
      <3> SUFFICES ASSUME NEW m \in Mac
                   PROVE  Aged(Merged(m, obs[m], clock), clock) \in EndpointRow
        BY <1>1 DEF Cycle
      <3> obs[m] \in Sighting
        BY DEF Observations
      <3> QED
        BY MergedType, AgedType
    <2>2. addresses' \in [Mac -> [Ip -> AddressRow]]
      <3> SUFFICES ASSUME NEW m \in Mac, NEW ip \in Ip
                   PROVE  MergedAddress(m, obs[m], ip, clock) \in AddressRow
        BY <1>1 DEF Cycle
      <3> obs[m] \in Sighting
        BY DEF Observations
      <3> QED
        BY MergedAddressType
    <2>3. events' \subseteq EventRow
      <3>1. events' \subseteq events \cup NewEvents(obs, loaded, clock)
        BY <1>1, PrunedSubset DEF Cycle
      <3> QED
        BY <3>1, NewEventsType DEF TypeOK
    <2>4. clock' \in Nat \ {0} /\ lastCycle' \in Nat /\ cycles' \in Nat
      BY <1>1 DEF Cycle, TypeOK
    <2> QED
      BY <2>1, <2>2, <2>3, <2>4 DEF TypeOK
  <1>2. CASE Tick
    BY <1>2 DEF Tick, TypeOK
  <1>3. CASE UNCHANGED vars
    BY <1>3 DEF vars, TypeOK
  <1> QED
    BY <1>1, <1>2, <1>3 DEF Next

\* The rows of the endpoint, address and event tables keep their types
\* through every cycle.
THEOREM TypeCorrect == Spec => []TypeOK
  <1>1. Init => TypeOK
    BY TypeInit
  <1>2. TypeOK /\ [Next]_vars => TypeOK'
    BY TypeStep
  <1> QED
    BY <1>1, <1>2, PTL DEF Spec

-----------------------------------------------------------------------------
(* Status and age.  The inductive invariant adds to the property that no    *)
(* sighting is dated after the newest cycle and that cycle not in the future.*)

AgeInv ==
    /\ lastCycle <= clock
    /\ \A m \in Mac : endpoints[m].lastSeen <= lastCycle
    /\ StatusMatchesAge

\* The row a cycle leaves for one endpoint, case by case.
LEMMA RowAfterCycle ==
    ASSUME TypeOK, AgeInv, NEW m \in Mac, NEW s \in Sighting,
           NEW row, row = Aged(Merged(m, s, clock), clock)
    PROVE  /\ row.lastSeen <= clock
           /\ row.status # "unknown" =>
                ((row.status = "offline") <=> (row.lastSeen < clock - OfflineAfter))
           /\ Seen(s) => row.status = "active" /\ ~Stale(Merged(m, s, clock), clock)
           /\ Stale(Merged(m, s, clock), clock) => row.status = "offline"
           /\ ~Seen(s) /\ ~Stale(Merged(m, s, clock), clock) => row = endpoints[m]
  <1>1. /\ endpoints[m] \in EndpointRow /\ endpoints[m].lastSeen <= lastCycle
        /\ clock \in Nat /\ lastCycle \in Nat /\ lastCycle <= clock /\ OfflineAfter \in Nat
    BY DiscoveryAssumption DEF TypeOK, AgeInv
  <1>2. CASE Seen(s)
    <2>1. /\ Merged(m, s, clock).status = "active"
          /\ Merged(m, s, clock).lastSeen = clock
      BY <1>2 DEF Merged
    <2>2. ~Stale(Merged(m, s, clock), clock)
      BY <1>1, <2>1 DEF Stale
    <2> QED
      BY <1>1, <1>2, <2>1, <2>2 DEF Aged
  <1>3. CASE ~Seen(s)
    <2>1. Merged(m, s, clock) = endpoints[m]
      BY <1>3 DEF Merged
    <2>2. CASE Stale(endpoints[m], clock)
      BY <1>1, <1>3, <2>1, <2>2 DEF Aged, Stale, EndpointRow
    <2>3. CASE ~Stale(endpoints[m], clock)
      <3>1. row = endpoints[m]
        BY <2>1, <2>3 DEF Aged
      <3>2. endpoints[m].status = "offline" => endpoints[m].lastSeen < lastCycle - OfflineAfter
        BY DEF AgeInv, StatusMatchesAge, Known
      <3> QED
        BY <1>1, <1>3, <2>1, <2>3, <3>1, <3>2 DEF Stale, EndpointRow
    <2> QED
      BY <2>2, <2>3
  <1> QED
    BY <1>2, <1>3

LEMMA AgeStep ==
    ASSUME TypeOK, AgeInv, [Next]_vars
    PROVE  AgeInv'
  <1>1. ASSUME NEW obs \in Observations, NEW loaded \in LoadOrders, Cycle(obs, loaded)
        PROVE  AgeInv'
    <2>1. lastCycle' = clock /\ clock' = clock /\ clock \in Nat
      BY <1>1 DEF Cycle, TypeOK
    <2>2. ASSUME NEW m \in Mac
          PROVE  /\ endpoints'[m].lastSeen <= clock
                 /\ endpoints'[m].status # "unknown" =>
                      ((endpoints'[m].status = "offline")
                         <=> (endpoints'[m].lastSeen < clock - OfflineAfter))
      <3>1. endpoints'[m] = Aged(Merged(m, obs[m], clock), clock)
        BY <1>1 DEF Cycle
      <3>2. obs[m] \in Sighting
        BY DEF Observations
      <3> QED
        BY <3>1, <3>2, RowAfterCycle
    <2> QED
      BY <2>1, <2>2 DEF AgeInv, StatusMatchesAge, Known
  <1>2. CASE Tick
    BY <1>2 DEF Tick, TypeOK, AgeInv, StatusMatchesAge, Known
  <1>3. CASE UNCHANGED vars
    BY <1>3 DEF vars, AgeInv, StatusMatchesAge, Known
  <1> QED
    BY <1>1, <1>2, <1>3 DEF Next

LEMMA AgeInvariant == Spec => [](TypeOK /\ AgeInv)
  <1>1. Init => TypeOK /\ AgeInv
    <2>1. Init => AgeInv
      BY DEF Init, AgeInv, StatusMatchesAge, Known, NoEndpoint
    <2> QED
      BY <2>1, TypeInit
  <1>2. TypeOK /\ AgeInv /\ [Next]_vars => TypeOK' /\ AgeInv'
    BY TypeStep, AgeStep
  <1> QED
    BY <1>1, <1>2, PTL DEF Spec

\* After every cycle an endpoint is offline exactly when its last sighting has
\* passed the offline window, whatever the collectors reported and when.
THEOREM StatusFollowsAge == Spec => []StatusMatchesAge
  <1>1. AgeInv => StatusMatchesAge
    BY DEF AgeInv
  <1> QED
    BY AgeInvariant, <1>1, PTL

-----------------------------------------------------------------------------
(* The log and the status.                                                  *)

LifecycleRows(log, m) == {e \in log : e.mac = m /\ e.type \in Lifecycle}

Newest(log, m, e) ==
    e \in LifecycleRows(log, m) /\ \A f \in LifecycleRows(log, m) : f = e \/ Newer(e, f)

\* Newer is asymmetric on typed rows.
LEMMA NewerAsymmetric ==
    ASSUME NEW e \in EventRow, NEW f \in EventRow, Newer(e, f)
    PROVE  ~Newer(f, e) /\ e # f /\ f.at <= e.at
  BY DEF Newer, EventRow

\* Pruning keeps the newest lifecycle row of an endpoint, or, when that one is
\* past the retention, leaves none: this is why the log cannot lie.
LEMMA PruningKeepsNewest ==
    ASSUME NEW log \in SUBSET EventRow, NEW m, NEW e, Newest(log, m, e), NEW now \in Nat
    PROVE  Newest(Pruned(log, now), m, e) \/ LifecycleRows(Pruned(log, now), m) = {}
  <1>1. e \in log /\ e.mac = m /\ e.type \in Lifecycle /\ e \in EventRow
    BY DEF Newest, LifecycleRows
  <1>2. Pruned(log, now) \subseteq Recent(log, now) /\ Recent(log, now) \subseteq log
    BY DEF Pruned, Latest, Recent
  <1>3. CASE e \in Recent(log, now)
    <2>1. Rivals(Recent(log, now), e) = {}
      <3> SUFFICES ASSUME NEW f \in Rivals(Recent(log, now), e)
                   PROVE  FALSE
        OBVIOUS
      <3>1. f \in log /\ f.mac = m /\ f.type \in Lifecycle /\ Newer(f, e)
        BY <1>1, <1>2 DEF Rivals, SameHistory
      <3>2. f = e \/ Newer(e, f)
        BY <3>1 DEF Newest, LifecycleRows
      <3>3. ~Newer(e, f) /\ f # e
        BY <1>1, <3>1, NewerAsymmetric
      <3> QED
        BY <3>2, <3>3
    <2>2. Cardinality(Rivals(Recent(log, now), e)) = 0
      BY <2>1, FS_EmptySet
    <2>3. e \in Pruned(log, now)
      <3>1. KeepPerType = 0 \/ 0 < KeepPerType
        BY DiscoveryAssumption
      <3> QED
        BY <1>3, <2>2, <3>1 DEF Pruned, Latest
    <2>4. LifecycleRows(Pruned(log, now), m) \subseteq LifecycleRows(log, m)
      BY <1>2 DEF LifecycleRows
    <2> QED
      BY <1>1, <2>3, <2>4 DEF Newest, LifecycleRows
  <1>4. CASE e \notin Recent(log, now)
    <2>1. Retention # 0 /\ ~(e.at >= now - Retention)
      BY <1>1, <1>4 DEF Recent
    <2>2. ASSUME NEW f \in LifecycleRows(Pruned(log, now), m)
          PROVE  FALSE
      <3>1. f \in log /\ f \in EventRow /\ f.at >= now - Retention
        BY <1>2, <2>1, <2>2 DEF LifecycleRows, Recent
      <3>2. f \in LifecycleRows(log, m)
        BY <1>2, <2>2 DEF LifecycleRows
      <3>3. f.at <= e.at
        <4>1. f = e \/ Newer(e, f)
          BY <3>2 DEF Newest
        <4>2. e.at \in Nat
          BY <1>1 DEF EventRow
        <4> QED
          BY <1>1, <3>1, <4>1, <4>2, NewerAsymmetric
      <3>4. e.at \in Int /\ f.at \in Int /\ now - Retention \in Int
        BY <1>1, <3>1, DiscoveryAssumption DEF EventRow
      <3> QED
        BY <2>1, <3>1, <3>3, <3>4
    <2> QED
      BY <2>2
  <1> QED
    BY <1>3, <1>4

LogInv ==
    /\ \A e \in events : e.at <= lastCycle /\ e.cycle <= cycles
    /\ \A m \in Mac : LifecycleRows(events, m) # {} =>
          \E e \in LifecycleRows(events, m) :
              /\ Newest(events, m, e)
              /\ (e.type = "went_offline") <=> (endpoints[m].status = "offline")

\* The lifecycle rows one cycle appends for one endpoint.
LEMMA NewLifecycleRows ==
    ASSUME NEW obs \in Observations, NEW loaded, NEW m \in Mac
    PROVE  LifecycleRows(NewEvents(obs, loaded, clock), m) = LifecycleEvents(m, obs[m], clock)
  <1>1. ASSUME NEW n \in Mac, NEW e \in LifecycleEvents(n, obs[n], clock)
        PROVE  e.mac = n /\ e.type \in Lifecycle
    BY <1>1 DEF LifecycleEvents, Event, Lifecycle
  <1>2. ASSUME NEW n \in Mac, NEW e \in MoveEvents(n, obs[n], clock)
        PROVE  e.type \notin Lifecycle
    BY <1>2 DEF MoveEvents, Event, Lifecycle
  <1>3. ASSUME NEW n \in Mac, NEW e \in AddressEvents(n, obs[n], loaded, clock)
        PROVE  e.type \notin Lifecycle
    BY <1>3 DEF AddressEvents, Event, Lifecycle
  <1>4. ASSUME NEW e \in LifecycleRows(NewEvents(obs, loaded, clock), m)
        PROVE  e \in LifecycleEvents(m, obs[m], clock)
    <2>1. e.mac = m /\ e.type \in Lifecycle /\ e \in NewEvents(obs, loaded, clock)
      BY <1>4 DEF LifecycleRows
    <2>2. PICK n \in Mac : \/ e \in LifecycleEvents(n, obs[n], clock)
                           \/ e \in MoveEvents(n, obs[n], clock)
                           \/ e \in AddressEvents(n, obs[n], loaded, clock)
      BY <2>1 DEF NewEvents
    <2>3. e \in LifecycleEvents(n, obs[n], clock)
      BY <1>2, <1>3, <2>1, <2>2
    <2> QED
      BY <1>1, <2>1, <2>3
  <1>5. ASSUME NEW e \in LifecycleEvents(m, obs[m], clock)
        PROVE  e \in LifecycleRows(NewEvents(obs, loaded, clock), m)
    BY <1>1, <1>5 DEF LifecycleRows, NewEvents
  <1> QED
    BY <1>4, <1>5

\* An appended row is newer than every row of the log.
LEMMA AppendedIsNewer ==
    ASSUME TypeOK, AgeInv, LogInv, NEW e, e.at = clock, e.cycle = cycles + 1, NEW f \in events
    PROVE  Newer(e, f)
  <1>1. f.at \in Nat /\ f.cycle \in Nat /\ clock \in Nat /\ cycles \in Nat /\ lastCycle \in Nat
    BY DEF TypeOK, EventRow
  <1>2. f.at <= clock /\ f.cycle < cycles + 1
    BY <1>1 DEF LogInv, AgeInv
  <1> QED
    BY <1>1, <1>2 DEF Newer

\* Before pruning, the log of a cycle has a newest lifecycle row that tells the
\* endpoint's new status, or no lifecycle row at all.
LEMMA LogBeforePruning ==
    ASSUME TypeOK, AgeInv, LogInv,
           NEW obs \in Observations, NEW loaded, NEW m \in Mac,
           NEW log, log = events \cup NewEvents(obs, loaded, clock),
           NEW row, row = Aged(Merged(m, obs[m], clock), clock)
    PROVE  \/ LifecycleRows(log, m) = {}
           \/ \E e : /\ Newest(log, m, e)
                     /\ (e.type = "went_offline") <=> (row.status = "offline")
  <1> DEFINE new == LifecycleEvents(m, obs[m], clock)
  <1>0. obs[m] \in Sighting
    BY DEF Observations
  <1>1. LifecycleRows(log, m) = LifecycleRows(events, m) \cup new
    BY NewLifecycleRows DEF LifecycleRows
  <1>2. /\ row.status # "unknown" =>
             ((row.status = "offline") <=> (row.lastSeen < clock - OfflineAfter))
        /\ Seen(obs[m]) => row.status = "active" /\ ~Stale(Merged(m, obs[m], clock), clock)
        /\ Stale(Merged(m, obs[m], clock), clock) => row.status = "offline"
        /\ ~Seen(obs[m]) /\ ~Stale(Merged(m, obs[m], clock), clock) => row = endpoints[m]
    BY <1>0, RowAfterCycle
  <1>3. ASSUME NEW type \in Lifecycle,
               new = {Event(m, type, NoIp, NoPort, 0, clock)},
               (type = "went_offline") <=> (row.status = "offline")
        PROVE  \E e : /\ Newest(log, m, e)
                      /\ (e.type = "went_offline") <=> (row.status = "offline")
    <2> DEFINE e == Event(m, type, NoIp, NoPort, 0, clock)
    <2>1. e.at = clock /\ e.cycle = cycles + 1 /\ e.mac = m /\ e.type = type
      BY DEF Event
    <2>2. e \in LifecycleRows(log, m)
      BY <1>1, <1>3
    <2>3. \A f \in LifecycleRows(events, m) : Newer(e, f)
      <3> SUFFICES ASSUME NEW f \in LifecycleRows(events, m)
                   PROVE  Newer(e, f)
        OBVIOUS
      <3> f \in events
        BY DEF LifecycleRows
      <3> HIDE DEF e
      <3> QED
        BY <2>1, AppendedIsNewer
    <2>4. Newest(log, m, e)
      BY <1>1, <1>3, <2>2, <2>3 DEF Newest
    <2> QED
      BY <1>3, <2>1, <2>4
  <1>4. CASE Seen(obs[m]) /\ ~Known(m)
    <2>1. endpoints[m].status = "unknown"
      BY <1>4 DEF Known
    <2>2. new = {Event(m, "discovered", NoIp, NoPort, 0, clock)}
      BY <1>2, <1>4, <2>1 DEF LifecycleEvents
    <2>3. "discovered" \in Lifecycle /\ "discovered" # "went_offline" /\ row.status # "offline"
      BY <1>2, <1>4 DEF Lifecycle
    <2> QED
      BY <1>3, <2>2, <2>3
  <1>5. CASE Seen(obs[m]) /\ endpoints[m].status = "offline"
    <2>1. Known(m)
      BY <1>5 DEF Known
    <2>2. new = {Event(m, "returned", NoIp, NoPort, 0, clock)}
      BY <1>2, <1>5, <2>1 DEF LifecycleEvents
    <2>3. "returned" \in Lifecycle /\ "returned" # "went_offline" /\ row.status # "offline"
      BY <1>2, <1>5 DEF Lifecycle
    <2> QED
      BY <1>3, <2>2, <2>3
  <1>6. CASE Stale(Merged(m, obs[m], clock), clock)
    <2>1. ~Seen(obs[m]) /\ row.status = "offline"
      BY <1>2, <1>6
    <2>2. new = {Event(m, "went_offline", NoIp, NoPort, 0, clock)}
      BY <1>6, <2>1 DEF LifecycleEvents
    <2>3. "went_offline" \in Lifecycle
      BY DEF Lifecycle
    <2> QED
      BY <1>3, <2>1, <2>2, <2>3
  <1>7. CASE /\ ~(Seen(obs[m]) /\ ~Known(m))
             /\ ~(Seen(obs[m]) /\ endpoints[m].status = "offline")
             /\ ~Stale(Merged(m, obs[m], clock), clock)
    <2>1. new = {}
      BY <1>7 DEF LifecycleEvents
    <2>2. (row.status = "offline") <=> (endpoints[m].status = "offline")
      BY <1>2, <1>7
    <2>3. LifecycleRows(log, m) = LifecycleRows(events, m)
      BY <1>1, <2>1
    <2>4. CASE LifecycleRows(events, m) # {}
      <3>1. PICK e \in LifecycleRows(events, m) :
              /\ Newest(events, m, e)
              /\ (e.type = "went_offline") <=> (endpoints[m].status = "offline")
        BY <2>4 DEF LogInv
      <3>2. Newest(log, m, e)
        BY <2>3, <3>1 DEF Newest
      <3> QED
        BY <2>2, <3>1, <3>2
    <2> QED
      BY <2>3, <2>4
  <1> QED
    BY <1>4, <1>5, <1>6, <1>7

LEMMA LogStep ==
    ASSUME TypeOK, AgeInv, LogInv, [Next]_vars
    PROVE  LogInv'
  <1>1. ASSUME NEW obs \in Observations, NEW loaded \in LoadOrders, Cycle(obs, loaded)
        PROVE  LogInv'
    <2> DEFINE log == events \cup NewEvents(obs, loaded, clock)
    <2>1. events' = Pruned(log, clock) /\ lastCycle' = clock /\ cycles' = cycles + 1
      BY <1>1 DEF Cycle
    <2>2. log \subseteq EventRow /\ clock \in Nat
      BY NewEventsType DEF TypeOK
    <2>3. ASSUME NEW e \in events'
          PROVE  e.at <= lastCycle' /\ e.cycle <= cycles'
      <3>1. e \in events \/ e \in NewEvents(obs, loaded, clock)
        BY <2>1, PrunedSubset
      <3>2. CASE e \in events
        <4>1. e.at \in Nat /\ e.cycle \in Nat /\ lastCycle \in Nat /\ cycles \in Nat
          BY <3>2 DEF TypeOK, EventRow
        <4> QED
          BY <2>1, <2>2, <3>2, <4>1 DEF LogInv, AgeInv
      <3>3. CASE e \in NewEvents(obs, loaded, clock)
        <4>1. e.at = clock /\ e.cycle = cycles + 1
          BY <3>3 DEF NewEvents, LifecycleEvents, MoveEvents, AddressEvents, Event
        <4>2. clock \in Nat /\ cycles + 1 \in Nat
          BY DEF TypeOK
        <4> QED
          BY <2>1, <4>1, <4>2
      <3> QED
        BY <3>1, <3>2, <3>3
    <2>4. ASSUME NEW m \in Mac, LifecycleRows(events', m) # {}
          PROVE  \E e \in LifecycleRows(events', m) :
                    /\ Newest(events', m, e)
                    /\ (e.type = "went_offline") <=> (endpoints'[m].status = "offline")
      <3>1. endpoints'[m] = Aged(Merged(m, obs[m], clock), clock)
        BY <1>1 DEF Cycle
      <3>2. LifecycleRows(log, m) # {}
        BY <2>1, <2>4, PrunedSubset DEF LifecycleRows
      <3>3. PICK e : /\ Newest(log, m, e)
                     /\ (e.type = "went_offline") <=> (endpoints'[m].status = "offline")
        <4> DEFINE row == Aged(Merged(m, obs[m], clock), clock)
        <4>1. \/ LifecycleRows(log, m) = {}
              \/ \E e : /\ Newest(log, m, e)
                        /\ (e.type = "went_offline") <=> (row.status = "offline")
          BY LogBeforePruning
        <4> QED
          BY <3>1, <3>2, <4>1
      <3>4. Newest(events', m, e)
        BY <2>1, <2>2, <2>4, <3>3, PruningKeepsNewest
      <3> QED
        BY <3>3, <3>4 DEF Newest
    <2> QED
      BY <2>3, <2>4 DEF LogInv, LifecycleRows, Newest
  <1>2. CASE Tick
    BY <1>2 DEF Tick, LogInv, LifecycleRows, Newest
  <1>3. CASE UNCHANGED vars
    BY <1>3 DEF vars, LogInv, LifecycleRows, Newest
  <1> QED
    BY <1>1, <1>2, <1>3 DEF Next

\* However the log is pruned, its newest surviving lifecycle row of an endpoint
\* tells the endpoint's present status, for every retention and every
\* keep-per-type limit.
THEOREM LogTellsStatus == Spec => []LogAgreesWithStatus
  <1>1. Init => LogInv
    BY DEF Init, LogInv, LifecycleRows
  <1>2. TypeOK /\ AgeInv /\ LogInv /\ [Next]_vars => LogInv'
    BY LogStep
  <1>3. LogInv => LogAgreesWithStatus
    BY DEF LogInv, LogAgreesWithStatus, LifecycleLog, LifecycleRows, Newest
  <1> QED
    BY <1>1, <1>2, <1>3, AgeInvariant, PTL DEF Spec

-----------------------------------------------------------------------------
(* The addresses.  Beside the property, an endpoint is not last seen before *)
(* it was first seen.                                                       *)

CurrentInv ==
    /\ \A m \in Mac : Known(m) => endpoints[m].firstSeen <= endpoints[m].lastSeen
    /\ AddressesAreCurrent

\* Ageing changes nothing but the status, and forgets no endpoint.
LEMMA AgedKeepsDates ==
    ASSUME NEW row \in EndpointRow, NEW now
    PROVE  /\ Aged(row, now).firstSeen = row.firstSeen
           /\ Aged(row, now).lastSeen = row.lastSeen
           /\ Aged(row, now).status = "unknown" <=> row.status = "unknown"
  BY DEF Aged, Stale, EndpointRow

LEMMA CurrentStep ==
    ASSUME TypeOK, AgeInv, CurrentInv, [Next]_vars
    PROVE  CurrentInv'
  <1>1. ASSUME NEW obs \in Observations, NEW loaded \in LoadOrders, Cycle(obs, loaded)
        PROVE  CurrentInv'
    <2> SUFFICES ASSUME NEW m \in Mac
                 PROVE  /\ Known(m)' => endpoints'[m].firstSeen <= endpoints'[m].lastSeen
                        /\ \A ip \in Held(m)' :
                              /\ Known(m)'
                              /\ addresses'[m][ip].last = endpoints'[m].lastSeen
                              /\ addresses'[m][ip].since \in
                                    endpoints'[m].firstSeen .. endpoints'[m].lastSeen
      BY DEF CurrentInv, AddressesAreCurrent
    <2> DEFINE s == obs[m]
               row == Merged(m, s, clock)
               old == endpoints[m]
    <2>1. s \in Sighting
      BY DEF Observations
    <2>2. /\ old \in EndpointRow /\ clock \in Nat /\ old.lastSeen <= clock
          /\ old.firstSeen \in Nat /\ old.lastSeen \in Nat
      BY DEF TypeOK, EndpointRow, AgeInv
    <2>3. /\ endpoints'[m].firstSeen = row.firstSeen
          /\ endpoints'[m].lastSeen = row.lastSeen
          /\ Known(m)' <=> row.status # "unknown"
      <3>1. endpoints'[m] = Aged(row, clock)
        BY <1>1 DEF Cycle
      <3>2. row \in EndpointRow
        BY <2>1, MergedType
      <3> HIDE DEF row
      <3> QED
        BY <3>1, <3>2, AgedKeepsDates DEF Known
    <2>4. \A ip \in Ip : addresses'[m][ip] = MergedAddress(m, s, ip, clock)
      BY <1>1 DEF Cycle
    <2>5. CASE ~Seen(s)
      <3>1. row = old /\ \A ip \in Ip : addresses'[m][ip] = addresses[m][ip]
        BY <2>4, <2>5 DEF Merged, MergedAddress
      <3>2. Held(m)' = Held(m) /\ (Known(m)' <=> Known(m))
        BY <2>3, <3>1 DEF Held, Known
      <3> HIDE DEF row, old
      <3>3. Known(m) => old.firstSeen <= old.lastSeen
        BY DEF CurrentInv, old
      <3>4. \A ip \in Held(m) : /\ Known(m)
                                /\ addresses[m][ip].last = old.lastSeen
                                /\ addresses[m][ip].since \in old.firstSeen .. old.lastSeen
        BY DEF CurrentInv, AddressesAreCurrent, old
      <3>5. Held(m) \subseteq Ip
        BY DEF Held
      <3> QED
        BY <2>3, <3>1, <3>2, <3>3, <3>4, <3>5
    <2>6. CASE Seen(s)
      <3>1. /\ row.lastSeen = clock /\ row.status # "unknown"
            /\ row.firstSeen = IF Known(m) THEN old.firstSeen ELSE clock
        BY <2>6 DEF Merged
      <3> HIDE DEF row
      <3>2. row.firstSeen \in Nat /\ row.firstSeen <= clock
        BY <2>2, <3>1 DEF CurrentInv
      <3>3. ASSUME NEW ip \in Held(m)'
            PROVE  /\ addresses'[m][ip].last = clock
                   /\ addresses'[m][ip].since \in row.firstSeen .. clock
        <4>1. ip \in Ip /\ addresses'[m][ip] # NoAddress
          BY <3>3 DEF Held
        <4>2. addresses'[m][ip] =
                [since |-> IF ip \in Held(m) THEN addresses[m][ip].since ELSE clock,
                 last  |-> clock]
          BY <2>4, <2>6, <4>1 DEF MergedAddress
        <4>3. CASE ip \in Held(m)
          <5>1. Known(m) /\ addresses[m][ip].since \in old.firstSeen .. old.lastSeen
            BY <4>3 DEF CurrentInv, AddressesAreCurrent
          <5>2. addresses[m][ip].since \in Nat
            BY <4>1 DEF TypeOK, AddressRow
          <5> QED
            BY <2>2, <3>1, <4>2, <4>3, <5>1, <5>2
        <4>4. CASE ip \notin Held(m)
          BY <2>2, <3>2, <4>2, <4>4
        <4> QED
          BY <4>3, <4>4
      <3> QED
        BY <2>2, <2>3, <3>1, <3>2, <3>3
    <2> QED
      BY <2>5, <2>6
  <1>2. CASE Tick
    BY <1>2 DEF Tick, CurrentInv, AddressesAreCurrent, Known, Held
  <1>3. CASE UNCHANGED vars
    BY <1>3 DEF vars, CurrentInv, AddressesAreCurrent, Known, Held
  <1> QED
    BY <1>1, <1>2, <1>3 DEF Next

LEMMA CurrentInvariant == Spec => []CurrentInv
  <1>1. Init => CurrentInv
    BY DEF Init, CurrentInv, AddressesAreCurrent, Known, Held, NoEndpoint
  <1>2. TypeOK /\ AgeInv /\ CurrentInv /\ [Next]_vars => CurrentInv'
    BY CurrentStep
  <1> QED
    BY <1>1, <1>2, AgeInvariant, PTL DEF Spec

\* Every stored address was confirmed by the sighting that dates its endpoint and
\* appeared while the endpoint was known, for any number of cycles.
THEOREM AddressesStayCurrent == Spec => []AddressesAreCurrent
  <1>1. CurrentInv => AddressesAreCurrent
    BY DEF CurrentInv
  <1> QED
    BY <1>1, CurrentInvariant, PTL

-----------------------------------------------------------------------------
(* The complete log.                                                        *)

Unlimited == Retention = 0 /\ KeepPerType = 0

\* Without limits a cycle only appends.
LEMMA NothingPruned ==
    ASSUME Unlimited, NEW log, NEW now
    PROVE  Pruned(log, now) = log
  BY DEF Unlimited, Pruned, Latest, Recent

LEMMA LogInvariant == Spec => [](TypeOK /\ AgeInv /\ LogInv)
  <1>1. Init => LogInv
    BY DEF Init, LogInv, LifecycleRows
  <1>2. TypeOK /\ AgeInv /\ LogInv /\ [Next]_vars => LogInv'
    BY LogStep
  <1> QED
    BY <1>1, <1>2, AgeInvariant, PTL DEF Spec

About(log, m, ip) == {e \in log : e.mac = m /\ e.ip = ip}

NewestAbout(log, m, ip, e) ==
    e \in About(log, m, ip) /\ \A f \in About(log, m, ip) : f = e \/ Newer(e, f)

ReplayInv ==
    \A m \in Mac, ip \in Ip :
        IF ip \in Held(m)
        THEN \E e : /\ NewestAbout(events, m, ip, e)
                    /\ e.type = "ip_added" /\ e.at = addresses[m][ip].since
        ELSE \/ About(events, m, ip) = {}
             \/ \E e : NewestAbout(events, m, ip, e) /\ e.type = "ip_removed"

Added(m, ip) == Event(m, "ip_added", ip, NoPort, ip, clock)
Removed(m, ip, loaded) == Event(m, "ip_removed", ip, NoPort, loaded[ip], clock)

\* The rows one cycle appends about one address.
LEMMA NewRowsAbout ==
    ASSUME NEW obs \in Observations, NEW loaded, NEW m \in Mac, NEW ip \in Ip
    PROVE  About(NewEvents(obs, loaded, clock), m, ip) =
             IF ip \in obs[m].ips \ Held(m) THEN {Added(m, ip)}
             ELSE IF Seen(obs[m]) /\ ip \in Held(m) \ obs[m].ips THEN {Removed(m, ip, loaded)}
             ELSE {}
  <1>1. ip # NoIp
    <2>1. ip \in Nat
      BY DiscoveryAssumption, Zenon
    <2> QED
      BY <2>1 DEF NoIp
  <1>2. ASSUME NEW n \in Mac, NEW e \in LifecycleEvents(n, obs[n], clock)
        PROVE  e.ip = NoIp
    BY <1>2 DEF LifecycleEvents, Event
  <1>3. ASSUME NEW n \in Mac, NEW e \in MoveEvents(n, obs[n], clock)
        PROVE  e.ip = NoIp
    BY <1>3 DEF MoveEvents, Event
  <1>4. ASSUME NEW n \in Mac, NEW e \in AddressEvents(n, obs[n], loaded, clock)
        PROVE  /\ e.mac = n
               /\ \/ e.ip \in obs[n].ips \ Held(n) /\ e = Added(n, e.ip)
                  \/ Seen(obs[n]) /\ e.ip \in Held(n) \ obs[n].ips /\ e = Removed(n, e.ip, loaded)
    BY <1>4 DEF AddressEvents, Added, Removed, Event
  <1>5. ASSUME NEW e \in About(NewEvents(obs, loaded, clock), m, ip)
        PROVE  \/ ip \in obs[m].ips \ Held(m) /\ e = Added(m, ip)
               \/ Seen(obs[m]) /\ ip \in Held(m) \ obs[m].ips /\ e = Removed(m, ip, loaded)
    <2>1. e.mac = m /\ e.ip = ip /\ e \in NewEvents(obs, loaded, clock)
      BY <1>5 DEF About
    <2>2. PICK n \in Mac : \/ e \in LifecycleEvents(n, obs[n], clock)
                           \/ e \in MoveEvents(n, obs[n], clock)
                           \/ e \in AddressEvents(n, obs[n], loaded, clock)
      BY <2>1 DEF NewEvents
    <2>3. e \in AddressEvents(n, obs[n], loaded, clock)
      BY <1>1, <1>2, <1>3, <2>1, <2>2
    <2> QED
      BY <1>4, <2>1, <2>3
  <1>6. ASSUME ip \in obs[m].ips \ Held(m)
        PROVE  Added(m, ip) \in About(NewEvents(obs, loaded, clock), m, ip)
    <2>1. Added(m, ip) \in AddressEvents(m, obs[m], loaded, clock)
      BY <1>6 DEF AddressEvents, Added
    <2>2. Added(m, ip).mac = m /\ Added(m, ip).ip = ip
      BY DEF Added, Event
    <2> QED
      BY <2>1, <2>2 DEF About, NewEvents
  <1>7. ASSUME Seen(obs[m]), ip \in Held(m) \ obs[m].ips
        PROVE  Removed(m, ip, loaded) \in About(NewEvents(obs, loaded, clock), m, ip)
    <2>1. Removed(m, ip, loaded) \in AddressEvents(m, obs[m], loaded, clock)
      BY <1>7 DEF AddressEvents, Removed
    <2>2. Removed(m, ip, loaded).mac = m /\ Removed(m, ip, loaded).ip = ip
      BY DEF Removed, Event
    <2> QED
      BY <2>1, <2>2 DEF About, NewEvents
  <1> QED
    BY <1>5, <1>6, <1>7

\* A row that a cycle appends is the newest about its address.
LEMMA AppendedIsNewest ==
    ASSUME TypeOK, AgeInv, LogInv, NEW m, NEW ip, NEW log, NEW e, e.at = clock,
           e.cycle = cycles + 1, About(log, m, ip) = About(events, m, ip) \cup {e}
    PROVE  NewestAbout(log, m, ip, e)
  <1>1. \A f \in About(events, m, ip) : Newer(e, f)
    BY AppendedIsNewer DEF About
  <1> QED
    BY <1>1 DEF NewestAbout

LEMMA ReplayStep ==
    ASSUME Unlimited, TypeOK, AgeInv, LogInv, ReplayInv, [Next]_vars
    PROVE  ReplayInv'
  <1>1. ASSUME NEW obs \in Observations, NEW loaded \in LoadOrders, Cycle(obs, loaded)
        PROVE  ReplayInv'
    <2> SUFFICES ASSUME NEW m \in Mac, NEW ip \in Ip
                 PROVE  IF ip \in Held(m)'
                        THEN \E e : /\ NewestAbout(events', m, ip, e)
                                    /\ e.type = "ip_added" /\ e.at = addresses'[m][ip].since
                        ELSE \/ About(events', m, ip) = {}
                             \/ \E e : NewestAbout(events', m, ip, e) /\ e.type = "ip_removed"
      BY DEF ReplayInv, NewestAbout, About, Newer
    <2> DEFINE s == obs[m]
               new == About(NewEvents(obs, loaded, clock), m, ip)
    <2>1. About(events', m, ip) = About(events, m, ip) \cup new
      <3>1. events' = events \cup NewEvents(obs, loaded, clock)
        BY <1>1, NothingPruned DEF Cycle
      <3> QED
        BY <3>1 DEF About
    <2>2. new = IF ip \in s.ips \ Held(m) THEN {Added(m, ip)}
                ELSE IF Seen(s) /\ ip \in Held(m) \ s.ips THEN {Removed(m, ip, loaded)}
                ELSE {}
      BY NewRowsAbout
    <2> HIDE DEF new
    <2>3. addresses'[m][ip] = MergedAddress(m, s, ip, clock)
      BY <1>1 DEF Cycle
    <2>4. s.ips \subseteq Ip
      BY DEF Observations, Sighting
    <2>5. clock # 0
      BY DEF TypeOK
    <2>6. Seen(s) => (ip \in Held(m)' <=> ip \in s.ips)
      <3>1. ip \in s.ips /\ Seen(s) => addresses'[m][ip].last = clock
        BY <2>3 DEF MergedAddress
      <3>2. NoAddress.last = 0
        BY DEF NoAddress
      <3>3. Seen(s) /\ ip \notin s.ips => addresses'[m][ip] = NoAddress
        BY <2>3 DEF MergedAddress
      <3> QED
        BY <2>5, <3>1, <3>2, <3>3 DEF Held
    <2>7. CASE ip \in s.ips \ Held(m)
      <3>1. Seen(s)
        BY <2>7 DEF Seen
      <3>2. ip \in Held(m)' /\ addresses'[m][ip].since = clock
        BY <2>3, <2>6, <2>7, <3>1 DEF MergedAddress
      <3>3. /\ Added(m, ip).at = clock /\ Added(m, ip).cycle = cycles + 1
            /\ Added(m, ip).type = "ip_added"
        BY DEF Added, Event
      <3>4. NewestAbout(events', m, ip, Added(m, ip))
        BY <2>1, <2>2, <2>7, <3>3, AppendedIsNewest
      <3> QED
        BY <3>2, <3>3, <3>4
    <2>8. CASE Seen(s) /\ ip \in Held(m) \ s.ips
      <3>1. ip \notin Held(m)'
        BY <2>6, <2>8
      <3>2. /\ Removed(m, ip, loaded).at = clock /\ Removed(m, ip, loaded).cycle = cycles + 1
            /\ Removed(m, ip, loaded).type = "ip_removed"
        BY DEF Removed, Event
      <3>3. NewestAbout(events', m, ip, Removed(m, ip, loaded))
        BY <2>1, <2>2, <2>8, <3>2, AppendedIsNewest
      <3> QED
        BY <3>1, <3>2, <3>3
    <2>9. CASE /\ ~(ip \in s.ips \ Held(m))
               /\ ~(Seen(s) /\ ip \in Held(m) \ s.ips)
      <3>1. About(events', m, ip) = About(events, m, ip)
        BY <2>1, <2>2, <2>9
      <3>2. ip \in Held(m)' <=> ip \in Held(m)
        <4>1. CASE Seen(s)
          BY <2>6, <2>9, <4>1
        <4>2. CASE ~Seen(s)
          BY <2>3, <4>2 DEF MergedAddress, Held
        <4> QED
          BY <4>1, <4>2
      <3>3. ip \in Held(m) => addresses'[m][ip].since = addresses[m][ip].since
        BY <2>3, <2>9 DEF MergedAddress
      <3>4. \A e : NewestAbout(events', m, ip, e) <=> NewestAbout(events, m, ip, e)
        BY <3>1 DEF NewestAbout
      <3>5. IF ip \in Held(m)
            THEN \E e : /\ NewestAbout(events, m, ip, e)
                        /\ e.type = "ip_added" /\ e.at = addresses[m][ip].since
            ELSE \/ About(events, m, ip) = {}
                 \/ \E e : NewestAbout(events, m, ip, e) /\ e.type = "ip_removed"
        BY DEF ReplayInv
      <3> QED
        BY <3>1, <3>2, <3>3, <3>4, <3>5
    <2> QED
      BY <2>7, <2>8, <2>9
  <1>2. CASE Tick
    BY <1>2 DEF Tick, ReplayInv, NewestAbout, About, Newer, Held
  <1>3. CASE UNCHANGED vars
    BY <1>3 DEF vars, ReplayInv, NewestAbout, About, Newer, Held
  <1> QED
    BY <1>1, <1>2, <1>3 DEF Next

LEMMA ReplayIsReplay ==
    ASSUME TypeOK, ReplayInv
    PROVE  AddressLogReplays
  <1> SUFFICES ASSUME NEW m \in Mac, NEW ip \in Ip
               PROVE  LET newest == {e \in About(events, m, ip) :
                                       \A f \in About(events, m, ip) : ~Newer(f, e)}
                      IN  IF ip \in Held(m)
                          THEN {<<e.type, e.at>> : e \in newest}
                                 = {<<"ip_added", addresses[m][ip].since>>}
                          ELSE \A e \in newest : e.type = "ip_removed"
    BY DEF AddressLogReplays, About
  <1> DEFINE newest == {e \in About(events, m, ip) :
                           \A f \in About(events, m, ip) : ~Newer(f, e)}
  <1>1. ASSUME NEW e, NewestAbout(events, m, ip, e)
        PROVE  newest = {e}
    <2>1. About(events, m, ip) \subseteq EventRow
      BY DEF About, TypeOK
    <2>2. e \in About(events, m, ip) /\ \A f \in About(events, m, ip) : f = e \/ Newer(e, f)
      BY <1>1 DEF NewestAbout
    <2>3. \A f \in About(events, m, ip) : ~Newer(f, e)
      <3> SUFFICES ASSUME NEW f \in About(events, m, ip), Newer(f, e)
                   PROVE  FALSE
        OBVIOUS
      <3>1. ~Newer(e, f) /\ f # e
        BY <2>1, <2>2, NewerAsymmetric
      <3> QED
        BY <2>2, <3>1
    <2> QED
      BY <2>2, <2>3
  <1>2. CASE ip \in Held(m)
    <2>1. PICK e : /\ NewestAbout(events, m, ip, e)
                   /\ e.type = "ip_added" /\ e.at = addresses[m][ip].since
      BY <1>2 DEF ReplayInv
    <2>2. newest = {e}
      BY <1>1, <2>1
    <2> HIDE DEF newest
    <2>3. {<<f.type, f.at>> : f \in newest} = {<<"ip_added", addresses[m][ip].since>>}
      BY <2>1, <2>2
    <2> QED
      BY <1>2, <2>3 DEF newest
  <1>3. CASE ip \notin Held(m)
    <2>1. CASE About(events, m, ip) = {}
      BY <1>3, <2>1
    <2>2. CASE About(events, m, ip) # {}
      <3>1. PICK e : NewestAbout(events, m, ip, e) /\ e.type = "ip_removed"
        BY <1>3, <2>2 DEF ReplayInv
      <3>2. newest = {e}
        BY <1>1, <3>1
      <3> QED
        BY <1>3, <3>1, <3>2
    <2> QED
      BY <2>1, <2>2
  <1> QED
    BY <1>2, <1>3

\* Without limits the newest event about an address tells whether an endpoint holds
\* it, and since when, whatever the collectors reported and in whatever order rows
\* were loaded.
THEOREM LogReplaysAddresses == Spec => []AddressLogReplays
  <1>1. CASE ~Unlimited
    <2>1. AddressLogReplays
      BY <1>1 DEF AddressLogReplays, Unlimited
    <2> QED
      BY <2>1, PTL
  <1>2. CASE Unlimited
    <2>1. Init => ReplayInv
      BY DEF Init, ReplayInv, Held, About
    <2>2. TypeOK /\ AgeInv /\ LogInv /\ ReplayInv /\ [Next]_vars => ReplayInv'
      BY <1>2, ReplayStep
    <2>3. TypeOK /\ ReplayInv => AddressLogReplays
      BY ReplayIsReplay
    <2> QED
      BY <2>1, <2>2, <2>3, LogInvariant, PTL DEF Spec
  <1> QED
    BY <1>1, <1>2

-----------------------------------------------------------------------------
(* The balance of the lifecycle events.                                     *)

OfType(log, m, type) == {e \in log : e.mac = m /\ e.type = type}
Count(m, type) == Cardinality(OfType(events, m, type))

BalanceInv ==
    \A m \in Mac :
        /\ \A type \in Lifecycle : IsFiniteSet(OfType(events, m, type))
        /\ Count(m, "discovered") = IF Known(m) THEN 1 ELSE 0
        /\ Count(m, "went_offline") - Count(m, "returned")
             = IF endpoints[m].status = "offline" THEN 1 ELSE 0

\* What makes a cycle append a lifecycle event of a type.
Happens(m, s, type) ==
    \/ type = "discovered" /\ Seen(s) /\ ~Known(m)
    \/ type = "returned" /\ Seen(s) /\ endpoints[m].status = "offline"
    \/ type = "went_offline" /\ Stale(Merged(m, s, clock), clock)

\* A cycle appends one lifecycle event of a type, or none.
LEMMA CountAfterCycle ==
    ASSUME Unlimited, TypeOK, AgeInv, LogInv, BalanceInv, NEW obs \in Observations,
           NEW loaded \in LoadOrders, Cycle(obs, loaded), NEW m \in Mac, NEW type \in Lifecycle
    PROVE  /\ IsFiniteSet(OfType(events', m, type))
           /\ Count(m, type) \in Nat
           /\ Count(m, type)' = Count(m, type) + (IF Happens(m, obs[m], type) THEN 1 ELSE 0)
  <1> DEFINE e == Event(m, type, NoIp, NoPort, 0, clock)
             old == OfType(events, m, type)
  <1>1. OfType(events', m, type)
          = old \cup OfType(LifecycleEvents(m, obs[m], clock), m, type)
    <2>1. events' = events \cup NewEvents(obs, loaded, clock)
      BY NothingPruned DEF Cycle
    <2>2. OfType(NewEvents(obs, loaded, clock), m, type)
            = OfType(LifecycleRows(NewEvents(obs, loaded, clock), m), m, type)
      BY DEF OfType, LifecycleRows
    <2>3. LifecycleRows(NewEvents(obs, loaded, clock), m) = LifecycleEvents(m, obs[m], clock)
      BY NewLifecycleRows
    <2> QED
      BY <2>1, <2>2, <2>3 DEF OfType
  <1>2. OfType(LifecycleEvents(m, obs[m], clock), m, type)
          = IF Happens(m, obs[m], type) THEN {e} ELSE {}
    BY DEF OfType, LifecycleEvents, Event, Happens
  <1>3. e \notin old
    <2>1. e.cycle = cycles + 1
      BY DEF Event
    <2>2. \A f \in events : f.cycle \in Nat /\ f.cycle <= cycles
      BY DEF LogInv, TypeOK, EventRow
    <2>3. cycles \in Nat
      BY DEF TypeOK
    <2> HIDE DEF e
    <2>4. e \notin events
      BY <2>1, <2>2, <2>3
    <2> QED
      BY <2>4 DEF OfType
  <1>4. IsFiniteSet(old)
    BY DEF BalanceInv
  <1> HIDE DEF e, old
  <1>5. /\ Cardinality(old) \in Nat /\ IsFiniteSet(old \cup {e})
        /\ Cardinality(old \cup {e}) = Cardinality(old) + 1
    BY <1>3, <1>4, FS_CardinalityType, FS_AddElement
  <1>6. OfType(events', m, type) = IF Happens(m, obs[m], type) THEN old \cup {e} ELSE old
    BY <1>1, <1>2
  <1>7. Count(m, type) = Cardinality(old) /\ Count(m, type)' = Cardinality(OfType(events', m, type))
    BY DEF Count, old, OfType
  <1> QED
    BY <1>4, <1>5, <1>6, <1>7

LEMMA BalanceStep ==
    ASSUME Unlimited, TypeOK, AgeInv, LogInv, BalanceInv, [Next]_vars
    PROVE  BalanceInv'
  <1>1. ASSUME NEW obs \in Observations, NEW loaded \in LoadOrders, Cycle(obs, loaded)
        PROVE  BalanceInv'
    <2> SUFFICES ASSUME NEW m \in Mac
                 PROVE  /\ \A type \in Lifecycle : IsFiniteSet(OfType(events', m, type))
                        /\ Count(m, "discovered")' = IF Known(m)' THEN 1 ELSE 0
                        /\ Count(m, "went_offline")' - Count(m, "returned")'
                             = IF endpoints'[m].status = "offline" THEN 1 ELSE 0
      BY DEF BalanceInv, OfType
    <2> DEFINE s == obs[m]
               row == endpoints'[m]
               more(type) == IF Happens(m, s, type) THEN 1 ELSE 0
    <2>1. \A type \in Lifecycle : /\ IsFiniteSet(OfType(events', m, type))
                                  /\ Count(m, type) \in Nat
                                  /\ Count(m, type)' = Count(m, type) + more(type)
      BY <1>1, CountAfterCycle
    <2>2. {"discovered", "returned", "went_offline"} = Lifecycle
      BY DEF Lifecycle
    <2>3. /\ Count(m, "discovered") = IF Known(m) THEN 1 ELSE 0
          /\ Count(m, "went_offline") - Count(m, "returned")
               = IF endpoints[m].status = "offline" THEN 1 ELSE 0
      BY DEF BalanceInv
    <2>4. /\ Seen(s) => row.status = "active" /\ ~Stale(Merged(m, s, clock), clock)
          /\ Stale(Merged(m, s, clock), clock) => row.status = "offline"
          /\ ~Seen(s) /\ ~Stale(Merged(m, s, clock), clock) => row = endpoints[m]
      <3>1. s \in Sighting /\ row = Aged(Merged(m, s, clock), clock)
        BY <1>1 DEF Observations, Cycle
      <3> QED
        BY <3>1, RowAfterCycle
    <2>5. Stale(Merged(m, s, clock), clock) => ~Seen(s) /\ endpoints[m].status = "active"
      BY <2>4 DEF Merged, Stale
    <2>6. Known(m) <=> endpoints[m].status # "unknown"
      BY DEF Known
    <2>7. Known(m)' <=> row.status # "unknown"
      BY DEF Known
    <2>8. /\ more("discovered") = IF Seen(s) /\ ~Known(m) THEN 1 ELSE 0
          /\ more("returned") = IF Seen(s) /\ endpoints[m].status = "offline" THEN 1 ELSE 0
          /\ more("went_offline") = IF Stale(Merged(m, s, clock), clock) THEN 1 ELSE 0
      BY DEF Happens
    <2> HIDE DEF s, row, more
    <2>9. Count(m, "discovered")' = IF Known(m)' THEN 1 ELSE 0
      <3>1. Known(m)' <=> Known(m) \/ Seen(s)
        BY <2>4, <2>5, <2>6, <2>7
      <3> QED
        BY <2>1, <2>2, <2>3, <2>8, <3>1
    <2>10. Count(m, "went_offline")' - Count(m, "returned")'
             = IF row.status = "offline" THEN 1 ELSE 0
      <3>1. CASE Seen(s)
        BY <2>1, <2>2, <2>3, <2>4, <2>8, <3>1
      <3>2. CASE Stale(Merged(m, s, clock), clock)
        BY <2>1, <2>2, <2>3, <2>4, <2>5, <2>8, <3>2
      <3>3. CASE ~Seen(s) /\ ~Stale(Merged(m, s, clock), clock)
        BY <2>1, <2>2, <2>3, <2>4, <2>8, <3>3
      <3> QED
        BY <3>1, <3>2, <3>3
    <2> QED
      BY <2>1, <2>9, <2>10 DEF row
  <1>2. CASE Tick
    BY <1>2 DEF Tick, BalanceInv, Count, OfType, Known
  <1>3. CASE UNCHANGED vars
    BY <1>3 DEF vars, BalanceInv, Count, OfType, Known
  <1> QED
    BY <1>1, <1>2, <1>3 DEF Next

\* Without limits the log holds one discovery per endpoint, and each disappearance but
\* a current one has its return, for any history of cycles.
THEOREM LifecycleStaysBalanced == Spec => []LifecycleBalances
  <1>1. CASE ~Unlimited
    <2>1. LifecycleBalances
      BY <1>1 DEF LifecycleBalances, Unlimited
    <2> QED
      BY <2>1, PTL
  <1>2. CASE Unlimited
    <2>1. Init => BalanceInv
      <3> SUFFICES ASSUME Init PROVE BalanceInv
        OBVIOUS
      <3>1. \A m, type : OfType(events, m, type) = {}
        BY DEF Init, OfType
      <3>2. \A m, type : IsFiniteSet(OfType(events, m, type)) /\ Count(m, type) = 0
        BY <3>1, FS_EmptySet DEF Count
      <3> QED
        BY <3>2 DEF Init, BalanceInv, Known, NoEndpoint
    <2>2. TypeOK /\ AgeInv /\ LogInv /\ BalanceInv /\ [Next]_vars => BalanceInv'
      BY <1>2, BalanceStep
    <2>3. BalanceInv => LifecycleBalances
      BY DEF BalanceInv, LifecycleBalances, Count, OfType
    <2> QED
      BY <2>1, <2>2, <2>3, LogInvariant, PTL DEF Spec
  <1> QED
    BY <1>1, <1>2

=============================================================================
