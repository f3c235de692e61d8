--------------------------- MODULE NetworksProofs ---------------------------
(* Theorems about Networks and the catalogue. *)
EXTENDS Networks, FiniteSetTheorems, WellFoundedInduction, TLAPS

-----------------------------------------------------------------------------
(* The invariant.  What is remembered of the catalogue is true; a process    *)
(* that lost nothing has all of it; and every pass of an intact cycle leaves *)
(* behind what the later ones and the next cycle compare with.               *)

\* What the client remembers of an item is true.
Honest(objs, memory) ==
    /\ memory["fields"] = "unknown"
    /\ \A item \in Item : /\ memory[item] = "id" => item \in objs
                          /\ memory[item] = "none" => item \notin objs

\* What a bootstrap that came to its end has tried.
Tried(memory) ==
    /\ \A item \in {"tag", "site", "role", "maker", "pool"} : memory[item] # "unknown"
    /\ memory["maker"] = "id" => memory["type"] # "unknown"

CatalogueInv ==
    /\ Honest(objects, cache)
    /\ bootstrapped => Tried(cache)
    /\ stage # "idle" => bootstrapped
    /\ clean /\ ~dry => /\ \A item \in Basics : cache[item] # "none"
                        /\ bootstrapped => "fields" \in objects

\* A record that is the scanner's needed a site; a row the scanner has not written is a
\* person's.
OwnInv ==
    /\ \A v \in Vid : vlans[v].mine => "site" \in objects
    /\ \A h \in Host : devices[h].source = "" => devices[h].type = "human"

FirstIface(f, n) == f.ifaces[Min(OnNet(f, n))].iface

VlansDone(w, f) ==
    \A v \in Vid : Named(f, v) # {} =>
        /\ w.vlans[v].mine => w.vlans[v].name = FirstName(f, v)
        /\ Known(w, "site") => w.vlans[v] # NoVlan

PrefixesDone(w, f) ==
    \A n \in Net : OnNet(f, n) # {} =>
        /\ w.prefixes[n] # NoPrefix
        /\ w.prefixes[n].mine => w.prefixes[n].from = FirstIface(f, n)

PoolsDone(w, f) ==
    \A p \in Pool : OfPool(f, p) # {} =>
        /\ w.ranges[p] # NoRange
        /\ w.ranges[p].mine => \E k \in OfPool(f, p) : w.ranges[p].label = f.pools[k].label

\* What a device needs besides its type.
Ready(w) == Known(w, "site") /\ Known(w, "role") /\ "fields" \in w.objects

DeviceDone(w, f, k) ==
    LET s == f.switches[k]
    IN  /\ s.model # NoModel => w.cache[s.model] # "unknown"
        /\ Ready(w) /\ TypeFor(w, s) # NoModel =>
              /\ w.devices[s.host] # NoSwitch
              /\ Single(f, s.host) => /\ w.devices[s.host].source = "snmp"
                                      /\ w.devices[s.host].type \in {TypeFor(w, s), "human"}

DevicesDone(w, f) == \A k \in DOMAIN f.switches : DeviceDone(w, f, k)

StageInv ==
    /\ intact /\ ~dry =>
          /\ stage \in {"prefixes", "pools", "devices"} => VlansDone(World, facts)
          /\ stage \in {"pools", "devices"} => PrefixesDone(World, facts)
          /\ stage = "devices" => PoolsDone(World, facts)
    /\ synced # NoFacts => stage = "idle" /\ bootstrapped /\ intact
    /\ synced # NoFacts /\ ~dry => /\ VlansDone(World, synced) /\ PrefixesDone(World, synced)
                                   /\ PoolsDone(World, synced) /\ DevicesDone(World, synced)

\* What the transaction of the cycle left in the store.
StoreHas(f) ==
    /\ \A v \in Vid : Named(f, v) # {} =>
          store.vlans[v] = f.switches[Max(Named(f, v))].names[v]
    /\ \A n \in Net : OnNet(f, n) # {} => store.prefixes[n] = FirstIface(f, n)
    /\ \A p \in Pool : OfPool(f, p) # {} => store.pools[p] = f.pools[Max(OfPool(f, p))].label

StoreInv ==
    stored => /\ ~dry
              /\ stage # "idle" => StoreHas(facts)
              /\ synced # NoFacts => StoreHas(synced)

IInv == TypeOK /\ CatalogueInv /\ OwnInv /\ StageInv /\ StoreInv

-----------------------------------------------------------------------------
(* Places in a result.                                                      *)

\* The first place of several.
LEMMA MinIsLeast ==
    ASSUME NEW S, S \subseteq Nat, S # {}
    PROVE  Min(S) \in S /\ \A n \in S : Min(S) <= n
  <1>1. IsWellFoundedOn(OpToRel(<, Nat), Nat)
    BY NatLessThanWellFounded
  <1>2. PICK x \in S : \A n \in S : ~(<<n, x>> \in OpToRel(<, Nat))
    BY <1>1, WFMin
  <1>3. ASSUME NEW n \in S PROVE x <= n
    <2>1. CASE n < x
      <3>1. <<n, x>> \in Nat \X Nat /\ <<n, x>>[1] < <<n, x>>[2]
        BY <2>1
      <3>2. <<n, x>> \in OpToRel(<, Nat)
        BY <3>1 DEF OpToRel
      <3> QED
        BY <3>2, <1>2
    <2> QED
      BY <2>1
  <1> QED
    BY <1>3 DEF Min

\* The loops of the model, as folds.
BootTurn(lost, w, k) == Provided(w, Order[k], lost)
BootLoop == INSTANCE FoldLemmas WITH Op <- BootTurn, Pick <- Max

PrefixTurn(c, w, k) == WithPrefix(w, c[1].ifaces[k], c[2])
PrefixLoop == INSTANCE FoldLemmas WITH Op <- PrefixTurn, Pick <- Max

PoolTurn(c, w, k) == WithPool(w, c[3], c[1].pools[k], c[2])
PoolLoop == INSTANCE FoldLemmas WITH Op <- PoolTurn, Pick <- Max

SwitchTurn(c, w, k) == WithSwitch(w, c[1].switches[k], c[2])
SwitchLoop == INSTANCE FoldLemmas WITH Op <- SwitchTurn, Pick <- Max

\* The last place of several.
LEMMA MaxIsGreatest ==
    ASSUME NEW S, S \subseteq Nat, IsFiniteSet(S), S # {}
    PROVE  Max(S) \in S /\ \A n \in S : Max(S) >= n
  <1>1. BootLoop!IsFiniteSet(S)
    BY DEF IsFiniteSet, BootLoop!IsFiniteSet
  <1>2. BootLoop!Highest(S) \in S /\ \A n \in S : BootLoop!Highest(S) >= n
    BY <1>1, BootLoop!HighestExists
  <1> QED
    BY <1>2 DEF BootLoop!Highest, Max

\* The loops over places can pick the last.
LEMMA PlacePicks ==
    ASSUME NEW S \in SUBSET Nat, IsFiniteSet(S)
    PROVE  /\ BootLoop!IsFiniteSet(S) /\ BootLoop!Picks(S)
           /\ PrefixLoop!IsFiniteSet(S) /\ PrefixLoop!Picks(S)
           /\ PoolLoop!IsFiniteSet(S) /\ PoolLoop!Picks(S)
           /\ SwitchLoop!IsFiniteSet(S) /\ SwitchLoop!Picks(S)
  <1>1. \A s \in SUBSET S : s # {} => Max(s) \in s
    <2> SUFFICES ASSUME NEW s \in SUBSET S, s # {} PROVE Max(s) \in s
      OBVIOUS
    <2>1. IsFiniteSet(s) /\ s \subseteq Nat
      BY FS_Subset
    <2> QED
      BY <2>1, MaxIsGreatest
  <1> QED
    BY <1>1 DEF IsFiniteSet, BootLoop!IsFiniteSet, PrefixLoop!IsFiniteSet, PoolLoop!IsFiniteSet,
                SwitchLoop!IsFiniteSet, BootLoop!Picks, PrefixLoop!Picks, PoolLoop!Picks,
                SwitchLoop!Picks

\* What the parts of a result are.
LEMMA CollectedFacts ==
    ASSUME NEW f \in Collected
    PROVE  /\ DOMAIN f.switches \in SUBSET Nat /\ IsFiniteSet(DOMAIN f.switches)
           /\ DOMAIN f.ifaces \in SUBSET Nat /\ IsFiniteSet(DOMAIN f.ifaces)
           /\ DOMAIN f.pools \in SUBSET Nat /\ IsFiniteSet(DOMAIN f.pools)
           /\ \A k \in DOMAIN f.switches : f.switches[k] \in SwitchFact
           /\ \A k \in DOMAIN f.ifaces : f.ifaces[k] \in IfaceFact
           /\ \A k \in DOMAIN f.pools : f.pools[k] \in PoolFact
  <1>1. /\ f.switches \in Seq(SwitchFact) /\ f.ifaces \in Seq(IfaceFact)
        /\ f.pools \in Seq(PoolFact)
    BY DEF Collected
  <1>2. ASSUME NEW T, NEW s \in Seq(T)
        PROVE  /\ DOMAIN s \in SUBSET Nat /\ IsFiniteSet(DOMAIN s)
               /\ \A k \in DOMAIN s : s[k] \in T
    <2>1. DOMAIN s = 1 .. Len(s) /\ Len(s) \in Nat
      OBVIOUS
    <2>2. IsFiniteSet(1 .. Len(s))
      BY <2>1, FS_Interval
    <2> QED
      BY <2>1, <2>2
  <1> QED
    BY <1>1, <1>2

\* What is read off the places.
LEMMA PlacesAreTyped ==
    ASSUME NEW f \in Collected
    PROVE  /\ \A v \in Vid : Named(f, v) # {} =>
                  /\ FirstName(f, v) \in Name
                  /\ f.switches[Max(Named(f, v))].names[v] \in Name
                  /\ Min(Named(f, v)) \in Named(f, v)
                  /\ Max(Named(f, v)) \in Named(f, v)
           /\ \A n \in Net : OnNet(f, n) # {} =>
                  /\ FirstIface(f, n) \in Iface
                  /\ Min(OnNet(f, n)) \in OnNet(f, n)
           /\ \A p \in Pool : OfPool(f, p) # {} =>
                  /\ f.pools[Max(OfPool(f, p))].label \in Label
                  /\ Max(OfPool(f, p)) \in OfPool(f, p)
  <1>1. ASSUME NEW v \in Vid, Named(f, v) # {}
        PROVE  /\ FirstName(f, v) \in Name
               /\ f.switches[Max(Named(f, v))].names[v] \in Name
               /\ Min(Named(f, v)) \in Named(f, v)
               /\ Max(Named(f, v)) \in Named(f, v)
    <2>1. Named(f, v) \subseteq Nat /\ IsFiniteSet(Named(f, v))
      BY CollectedFacts, FS_Subset DEF Named
    <2>2. Min(Named(f, v)) \in Named(f, v) /\ Max(Named(f, v)) \in Named(f, v)
      BY <1>1, <2>1, MinIsLeast, MaxIsGreatest
    <2>3. \A k \in Named(f, v) : f.switches[k].names[v] \in Name
      BY CollectedFacts DEF Named, SwitchFact
    <2> QED
      BY <2>2, <2>3 DEF FirstName
  <1>2. ASSUME NEW n \in Net, OnNet(f, n) # {}
        PROVE  FirstIface(f, n) \in Iface /\ Min(OnNet(f, n)) \in OnNet(f, n)
    <2>1. OnNet(f, n) \subseteq Nat
      BY CollectedFacts DEF OnNet
    <2>2. Min(OnNet(f, n)) \in OnNet(f, n)
      BY <1>2, <2>1, MinIsLeast
    <2>3. \A k \in OnNet(f, n) : f.ifaces[k].iface \in Iface
      BY CollectedFacts DEF OnNet, IfaceFact
    <2> QED
      BY <2>2, <2>3 DEF FirstIface
  <1>3. ASSUME NEW p \in Pool, OfPool(f, p) # {}
        PROVE  f.pools[Max(OfPool(f, p))].label \in Label /\ Max(OfPool(f, p)) \in OfPool(f, p)
    <2>1. OfPool(f, p) \subseteq Nat /\ IsFiniteSet(OfPool(f, p))
      BY CollectedFacts, FS_Subset DEF OfPool
    <2>2. Max(OfPool(f, p)) \in OfPool(f, p)
      BY <1>3, <2>1, MaxIsGreatest
    <2>3. \A k \in OfPool(f, p) : f.pools[k].label \in Label
      BY CollectedFacts DEF OfPool, PoolFact
    <2> QED
      BY <2>2, <2>3
  <1> QED
    BY <1>1, <1>2, <1>3

\* What a cycle carries is a result of the collection.
LEMMA FactsAreCollected ==
    ASSUME TypeOK
    PROVE  facts \in Collected /\ synced \in Collected /\ FactSets \subseteq Collected
  <1>1. NoFacts \in Collected
    BY DEF NoFacts, Collected
  <1>2. FactSets \subseteq Collected
    BY NetworksAssumption
  <1> QED
    BY <1>1, <1>2 DEF TypeOK

-----------------------------------------------------------------------------
(* The catalogue.                                                           *)

Worlds ==
    [objects: SUBSET Item, cache: [Item -> {"unknown", "none", "id"}], bootstrapped: BOOLEAN,
     dry: BOOLEAN, vlans: [Vid -> VlanRow \cup {NoVlan}], prefixes: [Net -> PrefixRow \cup {NoPrefix}],
     ranges: [Pool -> RangeRow \cup {NoRange}], devices: [Host -> SwitchRow \cup {NoSwitch}],
     wrote: BOOLEAN]

\* From w to y the client has only learned, or made, items.
Remembers(w, y) ==
    /\ y.dry = w.dry
    /\ y.vlans = w.vlans
    /\ y.prefixes = w.prefixes
    /\ y.ranges = w.ranges
    /\ \A i \in Item : w.cache[i] # "unknown" => y.cache[i] = w.cache[i]
    /\ w.objects \subseteq y.objects
    /\ w.dry => y.objects = w.objects /\ y.wrote = w.wrote
    /\ Honest(w.objects, w.cache) => Honest(y.objects, y.cache)

\* _ensure settles its item, truthfully, and touches no other.
LEMMA EnsuredEffect ==
    ASSUME NEW w \in Worlds, NEW item \in Item \ {"fields"}, NEW lost,
           NEW y, y = Ensured(w, item, lost)
    PROVE  /\ y \in Worlds /\ Remembers(w, y)
           /\ y.devices = w.devices /\ y.bootstrapped = w.bootstrapped
           /\ y.cache[item] # "unknown"
           /\ \A i \in Item \ {item} : y.cache[i] = w.cache[i]
           /\ y.objects \subseteq w.objects \cup {item}
           /\ item \notin lost /\ ~w.dry /\ w.cache[item] # "none" => y.cache[item] # "none"
           /\ w.cache[item] # "unknown" => y = w
  <1>1. /\ w.objects \subseteq Item /\ w.cache \in [Item -> {"unknown", "none", "id"}]
        /\ w.dry \in BOOLEAN /\ w.wrote \in BOOLEAN
    BY DEF Worlds
  <1>2. CASE w.cache[item] # "unknown"
    <2>1. y = w
      BY <1>2 DEF Ensured
    <2> QED
      BY <1>1, <1>2, <2>1 DEF Remembers
  <1>3. CASE w.cache[item] = "unknown" /\ item \in w.objects
    <2>1. y = [w EXCEPT !.cache[item] = "id"]
      BY <1>3 DEF Ensured
    <2>2. /\ y \in Worlds /\ y.cache = [w.cache EXCEPT ![item] = "id"]
          /\ y.objects = w.objects /\ y.dry = w.dry /\ y.wrote = w.wrote
          /\ y.vlans = w.vlans /\ y.prefixes = w.prefixes /\ y.ranges = w.ranges
          /\ y.devices = w.devices /\ y.bootstrapped = w.bootstrapped
      BY <2>1 DEF Worlds
    <2>3. \A i \in Item : y.cache[i] = IF i = item THEN "id" ELSE w.cache[i]
      BY <1>1, <2>2
    <2>4. Honest(w.objects, w.cache) => Honest(y.objects, y.cache)
      BY <1>3, <2>2, <2>3 DEF Honest, Item, Basics, Order, Range
    <2> QED
      BY <1>1, <1>3, <2>2, <2>3, <2>4 DEF Remembers
  <1>4. CASE w.cache[item] = "unknown" /\ item \notin w.objects /\ (w.dry \/ item \in lost)
    <2>1. y = [w EXCEPT !.cache[item] = "none"]
      BY <1>4 DEF Ensured
    <2>2. /\ y \in Worlds /\ y.cache = [w.cache EXCEPT ![item] = "none"]
          /\ y.objects = w.objects /\ y.dry = w.dry /\ y.wrote = w.wrote
          /\ y.vlans = w.vlans /\ y.prefixes = w.prefixes /\ y.ranges = w.ranges
          /\ y.devices = w.devices /\ y.bootstrapped = w.bootstrapped
      BY <2>1 DEF Worlds
    <2>3. \A i \in Item : y.cache[i] = IF i = item THEN "none" ELSE w.cache[i]
      BY <1>1, <2>2
    <2>4. Honest(w.objects, w.cache) => Honest(y.objects, y.cache)
      BY <1>4, <2>2, <2>3 DEF Honest, Item, Basics, Order, Range
    <2> QED
      BY <1>1, <1>4, <2>2, <2>3, <2>4 DEF Remembers
  <1>5. CASE w.cache[item] = "unknown" /\ item \notin w.objects /\ ~w.dry /\ item \notin lost
    <2>1. y = [w EXCEPT !.cache[item] = "id", !.objects = @ \cup {item}, !.wrote = TRUE]
      BY <1>5 DEF Ensured
    <2> DEFINE objs == w.objects \cup {item}
               memory == [w.cache EXCEPT ![item] = "id"]
    <2>0. /\ y = [w EXCEPT !.cache = memory, !.objects = objs, !.wrote = TRUE]
          /\ objs \in SUBSET Item /\ memory \in [Item -> {"unknown", "none", "id"}]
      BY <1>1, <2>1
    <2> HIDE DEF objs, memory
    <2>2. /\ y \in Worlds /\ y.cache = [w.cache EXCEPT ![item] = "id"]
          /\ y.objects = w.objects \cup {item} /\ y.dry = w.dry
          /\ y.vlans = w.vlans /\ y.prefixes = w.prefixes /\ y.ranges = w.ranges
          /\ y.devices = w.devices /\ y.bootstrapped = w.bootstrapped
      BY <2>0 DEF Worlds, objs, memory
    <2>3. \A i \in Item : y.cache[i] = IF i = item THEN "id" ELSE w.cache[i]
      BY <1>1, <2>2
    <2>4. Honest(w.objects, w.cache) => Honest(y.objects, y.cache)
      BY <1>5, <2>2, <2>3 DEF Honest, Item, Basics, Order, Range
    <2> QED
      BY <1>1, <1>5, <2>2, <2>3, <2>4 DEF Remembers
  <1> QED
    BY <1>1, <1>2, <1>3, <1>4, <1>5

\* _ensure_custom_fields makes the fields unless its call is lost.
LEMMA FieldsEffect ==
    ASSUME NEW w \in Worlds, NEW lost, NEW y, y = WithFields(w, lost)
    PROVE  /\ y \in Worlds /\ Remembers(w, y)
           /\ y.devices = w.devices /\ y.bootstrapped = w.bootstrapped /\ y.cache = w.cache
           /\ "fields" \notin lost /\ ~w.dry => "fields" \in y.objects
  <1>1. "fields" \in Item
    <2>1. Order[1] = "fields" /\ 1 \in DOMAIN Order
      BY DEF Order
    <2> QED
      BY <2>1 DEF Item, Basics, Range
  <1>2. CASE "fields" \in w.objects \cup lost \/ w.dry
    <2>1. y = w
      BY <1>2 DEF WithFields
    <2> QED
      BY <1>2, <2>1 DEF Remembers
  <1>3. CASE ~("fields" \in w.objects \cup lost \/ w.dry)
    <2>1. y = [w EXCEPT !.objects = @ \cup {"fields"}, !.wrote = TRUE]
      BY <1>3 DEF WithFields
    <2>2. /\ y \in Worlds /\ y.cache = w.cache
          /\ y.objects = w.objects \cup {"fields"} /\ y.dry = w.dry
          /\ y.vlans = w.vlans /\ y.prefixes = w.prefixes /\ y.ranges = w.ranges
          /\ y.devices = w.devices /\ y.bootstrapped = w.bootstrapped
      BY <1>1, <2>1 DEF Worlds
    <2>3. Honest(w.objects, w.cache) => Honest(y.objects, y.cache)
      BY <2>2 DEF Honest
    <2> QED
      BY <1>3, <2>2, <2>3 DEF Remembers
  <1> QED
    BY <1>2, <1>3

\* The seven things bootstrap() ensures.
LEMMA OrderFacts ==
    /\ Len(Order) = 7
    /\ Order[1] = "fields" /\ Order[2] = "tag" /\ Order[3] = "site" /\ Order[4] = "role"
    /\ Order[5] = "maker" /\ Order[6] = "type" /\ Order[7] = "pool"
    /\ Basics = {"fields", "tag", "site", "role", "maker", "type", "pool"}
    /\ Basics \subseteq Item
  <1>1. /\ Len(Order) = 7 /\ DOMAIN Order = 1 .. 7
        /\ Order[1] = "fields" /\ Order[2] = "tag" /\ Order[3] = "site" /\ Order[4] = "role"
        /\ Order[5] = "maker" /\ Order[6] = "type" /\ Order[7] = "pool"
    BY DEF Order
  <1>2. \A k \in 1 .. 7 : k = 1 \/ k = 2 \/ k = 3 \/ k = 4 \/ k = 5 \/ k = 6 \/ k = 7
    OBVIOUS
  <1>3. Basics = {Order[k] : k \in 1 .. 7}
    BY <1>1 DEF Basics, Range
  <1> HIDE DEF Order
  <1>4. Basics = {"fields", "tag", "site", "role", "maker", "type", "pool"}
    BY <1>1, <1>2, <1>3
  <1> QED
    BY <1>1, <1>4 DEF Item

\* From w to y the first items of the catalogue at the places T were provided.
Provides(w, y, T, lost) ==
    /\ Remembers(w, y)
    /\ y.devices = w.devices /\ y.bootstrapped = w.bootstrapped
    /\ \A k \in T : k # 1 /\ k # 6 => y.cache[Order[k]] # "unknown"
    /\ 5 \in T /\ 6 \in T /\ y.cache["maker"] = "id" => y.cache["type"] # "unknown"
    /\ lost = {} /\ ~w.dry =>
          /\ 1 \in T => "fields" \in y.objects
          /\ (\A i \in Basics : w.cache[i] # "none") => \A i \in Basics : y.cache[i] # "none"

\* The client goes on remembering.
LEMMA RemembersTrans ==
    ASSUME NEW w, NEW x, NEW y, Remembers(w, x), Remembers(x, y)
    PROVE  Remembers(w, y)
  BY DEF Remembers

\* One turn of bootstrap().
LEMMA ProvidedEffect ==
    ASSUME NEW w \in Worlds, NEW T \in SUBSET (1 .. 7), NEW k \in T, NEW lost,
           \A j \in T : k >= j, NEW x \in Worlds, Provides(w, x, T \ {k}, lost),
           NEW y, y = Provided(x, Order[k], lost)
    PROVE  y \in Worlds /\ Provides(w, y, T, lost)
  <1>1. k \in {1, 2, 3, 4, 5, 6, 7}
    OBVIOUS
  <1>2. x.dry = w.dry
    BY DEF Provides, Remembers
  <1>3. CASE k = 1
    <2>1. y = WithFields(x, lost)
      BY <1>3, OrderFacts DEF Provided
    <2>2. /\ y \in Worlds /\ Remembers(x, y)
          /\ y.devices = x.devices /\ y.bootstrapped = x.bootstrapped /\ y.cache = x.cache
          /\ "fields" \notin lost /\ ~x.dry => "fields" \in y.objects
      BY <2>1, FieldsEffect
    <2>3. Remembers(w, y)
      BY <2>2, RemembersTrans DEF Provides
    <2>4. \A j \in T : j = 1
      BY <1>3
    <2> QED
      BY <1>2, <2>2, <2>3, <2>4 DEF Provides
  <1>4. CASE k = 6 /\ ~Known(x, "maker")
    <2>1. y = x
      BY <1>4, OrderFacts DEF Provided
    <2>2. x.cache["maker"] # "id"
      BY <1>4 DEF Known
    <2> QED
      BY <1>4, <2>1, <2>2 DEF Provides
  <1>5. CASE k # 1 /\ ~(k = 6 /\ ~Known(x, "maker"))
    <2> DEFINE item == Order[k]
    <2>1. item \in Basics \ {"fields"} /\ item \in Item \ {"fields"}
      BY <1>1, <1>5, OrderFacts
    <2>2. y = Ensured(x, item, lost)
      BY <1>1, <1>5, <2>1, OrderFacts DEF Provided
    <2>3. /\ y \in Worlds /\ Remembers(x, y)
          /\ y.devices = x.devices /\ y.bootstrapped = x.bootstrapped
          /\ y.cache[item] # "unknown"
          /\ \A i \in Item \ {item} : y.cache[i] = x.cache[i]
          /\ item \notin lost /\ ~x.dry /\ x.cache[item] # "none" => y.cache[item] # "none"
      <3> HIDE DEF item
      <3> QED
        BY <2>1, <2>2, EnsuredEffect
    <2>4. Remembers(w, y)
      BY <2>3, RemembersTrans DEF Provides
    <2>5. \A j \in T : j # 1 /\ j # 6 => y.cache[Order[j]] # "unknown"
      <3> SUFFICES ASSUME NEW j \in T, j # 1, j # 6
                   PROVE  y.cache[Order[j]] # "unknown"
        OBVIOUS
      <3>1. j \in {2, 3, 4, 5, 7}
        OBVIOUS
      <3>2. Order[j] \in Item
        BY <3>1, OrderFacts
      <3>3. CASE j = k
        BY <2>3, <3>3
      <3>4. CASE j # k
        <4>1. x.cache[Order[j]] # "unknown"
          BY <3>4 DEF Provides
        <4> QED
          BY <2>3, <3>2, <4>1 DEF Remembers
      <3> QED
        BY <3>3, <3>4
    <2>6. 5 \in T /\ 6 \in T /\ y.cache["maker"] = "id" => y.cache["type"] # "unknown"
      <3> SUFFICES ASSUME 5 \in T, 6 \in T, y.cache["maker"] = "id"
                   PROVE  y.cache["type"] # "unknown"
        OBVIOUS
      <3>1. k = 6 \/ k = 7
        BY <1>1
      <3>2. CASE k = 6
        BY <2>3, <3>2, OrderFacts
      <3>3. CASE k = 7
        <4>1. y.cache["maker"] = x.cache["maker"] /\ y.cache["type"] = x.cache["type"]
          BY <2>3, <3>3, OrderFacts
        <4>2. 5 \in T \ {k} /\ 6 \in T \ {k}
          BY <3>3
        <4> QED
          BY <4>1, <4>2 DEF Provides
      <3> QED
        BY <3>1, <3>2, <3>3
    <2>7. lost = {} /\ ~w.dry /\ 1 \in T => "fields" \in y.objects
      BY <1>5, <2>3 DEF Provides, Remembers
    <2>8. lost = {} /\ ~w.dry /\ (\A i \in Basics : w.cache[i] # "none")
            => \A i \in Basics : y.cache[i] # "none"
      <3> SUFFICES ASSUME lost = {}, ~w.dry, \A i \in Basics : w.cache[i] # "none",
                          NEW i \in Basics
                   PROVE  y.cache[i] # "none"
        OBVIOUS
      <3>1. x.cache[i] # "none" /\ i \in Item
        BY OrderFacts DEF Provides
      <3> QED
        BY <1>2, <2>3, <3>1
    <2> QED
      BY <2>3, <2>4, <2>5, <2>6, <2>7, <2>8 DEF Provides
  <1> QED
    BY <1>3, <1>4, <1>5

\* The bootstrap, of which `upto` items were done.
LEMMA CatalogueEffect ==
    ASSUME NEW w \in Worlds, NEW lost, NEW upto \in 0 .. 7,
           NEW y, y = WithCatalogue(w, lost, upto)
    PROVE  y \in Worlds /\ Provides(w, y, 1 .. upto, lost)
  <1> DEFINE S == 1 .. upto
             W == [T \in SUBSET S |-> {x \in Worlds : Provides(w, x, T, lost)}]
  <1>1. y = BootLoop!Iter(lost, w, S)[S]
    BY DEF WithCatalogue, InOrder, MapThenFoldSet, BootLoop!Iter, BootTurn, Max
  <1>2. S \in SUBSET Nat /\ S \subseteq 1 .. 7 /\ IsFiniteSet(S)
    <2>1. upto \in Int /\ 1 \in Int /\ S \subseteq 1 .. 7 /\ 1 .. 7 \subseteq Nat
      OBVIOUS
    <2>2. IsFiniteSet(1 .. upto)
      BY <2>1, FS_Interval
    <2> QED
      BY <2>1, <2>2
  <1>3. BootLoop!IsFiniteSet(S) /\ BootLoop!Picks(S)
    BY <1>2, PlacePicks
  <1>4. w \in W[{}]
    BY DEF Provides, Remembers
  <1>5. \A T \in SUBSET S : T # {} =>
           \A x \in W[T \ {Max(T)}] : BootTurn(lost, x, Max(T)) \in W[T]
    <2> SUFFICES ASSUME NEW T \in SUBSET S, T # {},
                        NEW x \in Worlds, Provides(w, x, T \ {Max(T)}, lost)
                 PROVE  /\ BootTurn(lost, x, Max(T)) \in Worlds
                        /\ Provides(w, BootTurn(lost, x, Max(T)), T, lost)
      OBVIOUS
    <2>1. Max(T) \in T /\ \A j \in T : Max(T) >= j
      <3>1. IsFiniteSet(T) /\ T \subseteq Nat
        BY <1>2, FS_Subset
      <3> QED
        BY <3>1, MaxIsGreatest
    <2>2. T \in SUBSET (1 .. 7)
      BY <1>2
    <2> QED
      BY <2>1, <2>2, ProvidedEffect DEF BootTurn
  <1>6. y \in W[S]
    <2> HIDE DEF W, S
    <2> QED
      BY <1>1, <1>3, <1>4, <1>5, BootLoop!FoldKeeps
  <1> QED
    BY <1>6

-----------------------------------------------------------------------------
(* The VLAN pass.                                                           *)

\* NetBox and the client, as a state has them.
LEMMA WorldIsTyped ==
    ASSUME TypeOK
    PROVE  World \in Worlds
  BY DEF TypeOK, CatalogueTypeOK, World, Worlds

\* From w to y the client has learned nothing.
SameClient(w, y) ==
    /\ y.objects = w.objects /\ y.cache = w.cache
    /\ y.bootstrapped = w.bootstrapped /\ y.dry = w.dry

\* What sync_vlans does to VLANs that it does not know for its own, and when it is
\* intact to all; and that doing it over again is doing nothing.
AfterVlans(w, y, f, lost) ==
    /\ SameClient(w, y)
    /\ y.prefixes = w.prefixes /\ y.ranges = w.ranges /\ y.devices = w.devices
    /\ w.dry => y = w
    /\ \A v \in Vid : w.vlans[v] # NoVlan /\ ~w.vlans[v].mine => y.vlans[v] = w.vlans[v]
    /\ \A v \in Vid : y.vlans[v].mine => w.vlans[v].mine \/ Known(w, "site")
    /\ lost = {} /\ ~w.dry /\ Known(w, "site") => VlansDone(y, f)
    /\ VlansDone(w, f) => y = w

\* What sync_vlans makes of one VLAN.
LEMMA RenamedEffect ==
    ASSUME NEW w \in Worlds, NEW f \in Collected, NEW lost, NEW v \in Vid,
           NEW row, row = Renamed(w, f, v, lost)
    PROVE  /\ row \in VlanRow \cup {NoVlan}
           /\ w.dry \/ Named(f, v) = {} => row = w.vlans[v]
           /\ w.vlans[v] # NoVlan /\ ~w.vlans[v].mine => row = w.vlans[v]
           /\ v \notin lost /\ ~w.dry /\ Named(f, v) # {} =>
                  row # NoVlan /\ (row.mine => row.name = FirstName(f, v))
           /\ Named(f, v) # {} /\ w.vlans[v] # NoVlan
                  /\ (w.vlans[v].mine => w.vlans[v].name = FirstName(f, v)) => row = w.vlans[v]
  <1> DEFINE old == w.vlans[v]
             name == FirstName(f, v)
             mine == Tagged(w)
  <1>1. old \in VlanRow \cup {NoVlan} /\ w.dry \in BOOLEAN
    BY DEF Worlds
  <1>2. Named(f, v) # {} => name \in Name
    BY PlacesAreTyped
  <1>3. mine \in BOOLEAN
    BY DEF Tagged, Known
  <1>4. row = IF Named(f, v) = {} \/ w.dry \/ v \in lost THEN old
              ELSE IF old = NoVlan THEN [name |-> name, mine |-> mine]
              ELSE IF old.mine THEN [old EXCEPT !.name = name]
              ELSE old
    BY DEF Renamed
  <1>5. NoName \notin Name \cup Iface \cup {Hand}
    BY NetworksAssumption
  <1>6. old # NoVlan => old \in VlanRow
    BY <1>1
  <1> HIDE DEF old, name, mine
  <1>7. CASE Named(f, v) = {} \/ w.dry \/ v \in lost
    BY <1>1, <1>4, <1>7 DEF old
  <1>8. CASE ~(Named(f, v) = {} \/ w.dry \/ v \in lost) /\ old = NoVlan
    <2>1. row = [name |-> name, mine |-> mine]
      BY <1>4, <1>8
    <2>2. row \in VlanRow /\ row.name = name
      BY <1>2, <1>3, <1>8, <2>1 DEF VlanRow
    <2>3. row # NoVlan
      BY <1>2, <1>5, <1>8, <2>2 DEF NoVlan
    <2> QED
      BY <1>8, <2>2, <2>3 DEF old, name
  <1>9. CASE ~(Named(f, v) = {} \/ w.dry \/ v \in lost) /\ old # NoVlan
    <2>1. CASE old.mine
      <3>1. row = [old EXCEPT !.name = name]
        BY <1>4, <1>9, <2>1
      <3>2. row \in VlanRow /\ row.name = name
        BY <1>2, <1>6, <1>9, <3>1 DEF VlanRow
      <3>3. row # NoVlan
        BY <1>2, <1>5, <1>9, <3>2 DEF NoVlan
      <3>4. old.name = name => row = old
        BY <1>6, <1>9, <3>1 DEF VlanRow
      <3> QED
        BY <1>9, <2>1, <3>2, <3>3, <3>4 DEF old, name
    <2>2. CASE ~old.mine
      BY <1>4, <1>6, <1>9, <2>2 DEF old
    <2> QED
      BY <2>1, <2>2
  <1> QED
    BY <1>7, <1>8, <1>9

\* What sync_vlans makes of all.
LEMMA VlansEffect ==
    ASSUME NEW w \in Worlds, NEW f \in Collected, NEW lost, NEW y, y = WithVlans(w, f, lost)
    PROVE  y \in Worlds /\ AfterVlans(w, y, f, lost)
  <1>1. CASE ~Known(w, "site")
    <2>1. y = w
      BY <1>1 DEF WithVlans
    <2> QED
      BY <1>1, <2>1 DEF AfterVlans, SameClient
  <1>2. CASE Known(w, "site")
    <2> DEFINE rows == [v \in Vid |-> Renamed(w, f, v, lost)]
               wrote == w.wrote \/ rows # w.vlans
    <2>1. y = [w EXCEPT !.vlans = rows, !.wrote = wrote]
      BY <1>2 DEF WithVlans
    <2>2. rows \in [Vid -> VlanRow \cup {NoVlan}]
      BY RenamedEffect
    <2>3. wrote \in BOOLEAN
      BY DEF Worlds
    <2>4. \A v \in Vid :
             /\ w.dry \/ Named(f, v) = {} => rows[v] = w.vlans[v]
             /\ w.vlans[v] # NoVlan /\ ~w.vlans[v].mine => rows[v] = w.vlans[v]
             /\ v \notin lost /\ ~w.dry /\ Named(f, v) # {} =>
                    rows[v] # NoVlan /\ (rows[v].mine => rows[v].name = FirstName(f, v))
             /\ Named(f, v) # {} /\ w.vlans[v] # NoVlan
                    /\ (w.vlans[v].mine => w.vlans[v].name = FirstName(f, v)) => rows[v] = w.vlans[v]
      BY RenamedEffect
    <2>5. w.vlans = [v \in Vid |-> w.vlans[v]] /\ rows = [v \in Vid |-> rows[v]]
      BY DEF Worlds
    <2>6. rows = w.vlans => wrote = w.wrote
      BY DEF Worlds
    <2> HIDE DEF rows, wrote
    <2>7. /\ y \in Worlds /\ y.vlans = rows
          /\ y.objects = w.objects /\ y.cache = w.cache /\ y.bootstrapped = w.bootstrapped
          /\ y.dry = w.dry /\ y.prefixes = w.prefixes /\ y.ranges = w.ranges
          /\ y.devices = w.devices
      BY <2>1, <2>2, <2>3 DEF Worlds
    <2>8. rows = w.vlans => y = w
      BY <2>1, <2>6 DEF Worlds
    <2>9. w.dry => y = w
      BY <2>4, <2>5, <2>8
    <2>10. lost = {} /\ ~w.dry => VlansDone(y, f)
      BY <2>4, <2>7 DEF VlansDone
    <2>11. VlansDone(w, f) => y = w
      <3> SUFFICES ASSUME VlansDone(w, f) PROVE \A v \in Vid : rows[v] = w.vlans[v]
        BY <2>5, <2>8
      <3> QED
        BY <1>2, <2>4 DEF VlansDone
    <2> QED
      BY <1>2, <2>4, <2>7, <2>9, <2>10, <2>11 DEF AfterVlans, SameClient
  <1> QED
    BY <1>1, <1>2

-----------------------------------------------------------------------------
(* The prefix pass.                                                         *)

\* The VLAN of a routed interface exists or is made; nothing else changes.
LEMMA VlanEffect ==
    ASSUME NEW w \in Worlds, NEW i \in IfaceFact, NEW lost, NEW y, y = WithVlan(w, i, lost)
    PROVE  /\ y \in Worlds /\ SameClient(w, y)
           /\ y.prefixes = w.prefixes /\ y.ranges = w.ranges /\ y.devices = w.devices
           /\ w.dry => y = w
           /\ \A v \in Vid : y.vlans[v] # w.vlans[v] => w.vlans[v] = NoVlan /\ Known(w, "site")
  <1>1. CASE i.vid = NoVid \/ ~Known(w, "site") \/ w.dry \/ i.vid \in lost \/ w.vlans[i.vid] # NoVlan
    <2>1. y = w
      BY <1>1 DEF WithVlan
    <2> QED
      BY <2>1 DEF SameClient
  <1>2. CASE ~(i.vid = NoVid \/ ~Known(w, "site") \/ w.dry \/ i.vid \in lost \/ w.vlans[i.vid] # NoVlan)
    <2> DEFINE row == [name |-> i.iface, mine |-> Tagged(w)]
               rows == [w.vlans EXCEPT ![i.vid] = row]
    <2>1. y = [w EXCEPT !.vlans = rows, !.wrote = TRUE]
      BY <1>2 DEF WithVlan
    <2>2. row \in VlanRow /\ i.vid \in Vid
      BY <1>2 DEF VlanRow, IfaceFact, Tagged, Known
    <2>3. rows \in [Vid -> VlanRow \cup {NoVlan}]
      BY <2>2 DEF Worlds
    <2>4. \A v \in Vid : v # i.vid => rows[v] = w.vlans[v]
      BY DEF Worlds
    <2> HIDE DEF rows
    <2>5. /\ y \in Worlds /\ y.vlans = rows
          /\ y.objects = w.objects /\ y.cache = w.cache /\ y.bootstrapped = w.bootstrapped
          /\ y.dry = w.dry /\ y.prefixes = w.prefixes /\ y.ranges = w.ranges
          /\ y.devices = w.devices
      BY <2>1, <2>3 DEF Worlds
    <2> QED
      BY <1>2, <2>4, <2>5 DEF SameClient
  <1> QED
    BY <1>1, <1>2

\* A prefix that is up to date with the interface i.
PrefixDone(w, i) ==
    /\ w.prefixes[i.net] # NoPrefix
    /\ w.prefixes[i.net].mine => w.prefixes[i.net].from = i.iface

\* After the turn of the interface i.
AfterPrefix(w, y, i, lost) ==
    /\ SameClient(w, y)
    /\ y.ranges = w.ranges /\ y.devices = w.devices
    /\ w.dry => y = w
    /\ \A v \in Vid : y.vlans[v] # w.vlans[v] => w.vlans[v] = NoVlan /\ Known(w, "site")
    /\ \A n \in Net : n # i.net => y.prefixes[n] = w.prefixes[n]
    /\ w.prefixes[i.net] # NoPrefix /\ ~w.prefixes[i.net].mine =>
           y.prefixes[i.net] = w.prefixes[i.net]
    /\ i.net \notin lost /\ ~w.dry => PrefixDone(y, i)
    /\ PrefixDone(w, i) => y = w

\* What sync_prefixes makes of the first interface of a network.
LEMMA PrefixEffect ==
    ASSUME NEW w \in Worlds, NEW i \in IfaceFact, NEW lost, NEW y, y = WithPrefix(w, i, lost)
    PROVE  y \in Worlds /\ AfterPrefix(w, y, i, lost)
  <1> DEFINE row == w.prefixes[i.net]
             linked == WithVlan(w, i, lost)
             new == [from |-> i.iface, vid |-> Linked(linked, i, lost), mine |-> Tagged(w)]
  <1>1. /\ row \in PrefixRow \cup {NoPrefix} /\ i.net \in Net /\ i.iface \in Iface
        /\ i.vid \in Vid \cup {NoVid}
    BY DEF Worlds, IfaceFact
  <1>2. /\ linked \in Worlds /\ SameClient(w, linked)
        /\ linked.prefixes = w.prefixes /\ linked.ranges = w.ranges /\ linked.devices = w.devices
        /\ w.dry => linked = w
        /\ \A v \in Vid : linked.vlans[v] # w.vlans[v] => w.vlans[v] = NoVlan /\ Known(w, "site")
    BY VlanEffect
  <1>3. NoName \notin Name \cup Iface \cup {Hand}
    BY NetworksAssumption
  <1>4. y = IF row = NoPrefix
            THEN IF w.dry \/ i.net \in lost THEN linked
                 ELSE [linked EXCEPT !.prefixes[i.net] = new, !.wrote = TRUE]
            ELSE IF ~row.mine \/ row.from = i.iface \/ w.dry \/ i.net \in lost THEN w
            ELSE [w EXCEPT !.prefixes[i.net].from = i.iface, !.wrote = TRUE]
    BY DEF WithPrefix
  <1>5. new \in PrefixRow /\ new.from = i.iface
    BY <1>1 DEF PrefixRow, Linked, Tagged, Known
  <1> HIDE DEF linked, new
  <1>6. CASE row = NoPrefix /\ (w.dry \/ i.net \in lost)
    BY <1>2, <1>4, <1>6 DEF PrefixDone, AfterPrefix, SameClient
  <1>7. CASE row = NoPrefix /\ ~(w.dry \/ i.net \in lost)
    <2> DEFINE rows == [linked.prefixes EXCEPT ![i.net] = new]
    <2>1. y = [linked EXCEPT !.prefixes = rows, !.wrote = TRUE]
      BY <1>4, <1>7
    <2>2. rows \in [Net -> PrefixRow \cup {NoPrefix}]
      BY <1>2, <1>5 DEF Worlds
    <2>3. /\ rows[i.net] = new
          /\ \A n \in Net : n # i.net => rows[n] = w.prefixes[n]
      BY <1>1, <1>2 DEF Worlds
    <2> HIDE DEF rows
    <2>4. /\ y \in Worlds /\ y.prefixes = rows /\ y.vlans = linked.vlans
          /\ y.objects = linked.objects /\ y.cache = linked.cache
          /\ y.bootstrapped = linked.bootstrapped
          /\ y.dry = linked.dry /\ y.ranges = linked.ranges /\ y.devices = linked.devices
      BY <1>2, <2>1, <2>2 DEF Worlds
    <2>5. new # NoPrefix
      BY <1>1, <1>3, <1>5 DEF NoPrefix
    <2> QED
      BY <1>2, <1>5, <1>7, <2>3, <2>4, <2>5 DEF SameClient, PrefixDone, AfterPrefix
  <1>8. CASE row # NoPrefix /\ (~row.mine \/ row.from = i.iface \/ w.dry \/ i.net \in lost)
    <2>1. y = w
      BY <1>4, <1>8
    <2> QED
      BY <1>8, <2>1 DEF SameClient, PrefixDone, AfterPrefix
  <1>9. CASE row # NoPrefix /\ ~(~row.mine \/ row.from = i.iface \/ w.dry \/ i.net \in lost)
    <2> DEFINE renamed == [row EXCEPT !.from = i.iface]
               rows == [w.prefixes EXCEPT ![i.net] = renamed]
    <2>1. y = [w EXCEPT !.prefixes = rows, !.wrote = TRUE]
      BY <1>4, <1>9
    <2>2. renamed \in PrefixRow /\ renamed.from = i.iface
      BY <1>1, <1>9 DEF PrefixRow
    <2> HIDE DEF renamed
    <2>3. rows \in [Net -> PrefixRow \cup {NoPrefix}]
      BY <2>2 DEF Worlds
    <2>4. /\ rows[i.net] = renamed
          /\ \A n \in Net : n # i.net => rows[n] = w.prefixes[n]
      BY <1>1 DEF Worlds
    <2> HIDE DEF rows
    <2>5. /\ y \in Worlds /\ y.prefixes = rows /\ y.vlans = w.vlans
          /\ y.objects = w.objects /\ y.cache = w.cache /\ y.bootstrapped = w.bootstrapped
          /\ y.dry = w.dry /\ y.ranges = w.ranges /\ y.devices = w.devices
      BY <2>1, <2>3 DEF Worlds
    <2>6. renamed # NoPrefix
      BY <1>1, <1>3, <2>2 DEF NoPrefix
    <2> QED
      BY <1>9, <2>2, <2>4, <2>5, <2>6 DEF SameClient, PrefixDone, AfterPrefix
  <1> QED
    BY <1>6, <1>7, <1>8, <1>9

\* After the turns of the interfaces at the places T.
AfterPrefixes(w, y, f, T, lost) ==
    /\ SameClient(w, y)
    /\ y.ranges = w.ranges /\ y.devices = w.devices
    /\ w.dry => y = w
    /\ \A v \in Vid : y.vlans[v] # w.vlans[v] => w.vlans[v] = NoVlan /\ Known(w, "site")
    /\ \A n \in Net : (\A k \in T : f.ifaces[k].net # n) => y.prefixes[n] = w.prefixes[n]
    /\ \A n \in Net : w.prefixes[n] # NoPrefix /\ ~w.prefixes[n].mine =>
           y.prefixes[n] = w.prefixes[n]
    /\ lost = {} /\ ~w.dry => \A k \in T : PrefixDone(y, f.ifaces[k])
    /\ (\A k \in T : PrefixDone(w, f.ifaces[k])) => y = w

\* One turn of sync_prefixes.
LEMMA PrefixTurnEffect ==
    ASSUME NEW w \in Worlds, NEW f \in Collected, NEW T \in SUBSET Heads(f), NEW k \in T,
           NEW lost, NEW x \in Worlds, AfterPrefixes(w, x, f, T \ {k}, lost),
           NEW y, y = WithPrefix(x, f.ifaces[k], lost)
    PROVE  y \in Worlds /\ AfterPrefixes(w, y, f, T, lost)
  <1> DEFINE i == f.ifaces[k]
  <1>1. /\ T \subseteq DOMAIN f.ifaces /\ i \in IfaceFact /\ i.net \in Net
        /\ y = WithPrefix(x, i, lost)
    BY CollectedFacts DEF Heads, IfaceFact
  <1>2. \A j \in T : j # k => f.ifaces[j].net # i.net
    <2>1. \A j \in T : j = Min(OnNet(f, f.ifaces[j].net))
      BY DEF Heads
    <2> QED
      BY <2>1
  <1>3. \A j \in T : f.ifaces[j].net \in Net
    BY <1>1, CollectedFacts DEF IfaceFact
  <1>4. /\ y \in Worlds /\ SameClient(x, y)
        /\ y.ranges = x.ranges /\ y.devices = x.devices
        /\ x.dry => y = x
        /\ \A v \in Vid : y.vlans[v] # x.vlans[v] => x.vlans[v] = NoVlan /\ Known(x, "site")
        /\ \A n \in Net : n # i.net => y.prefixes[n] = x.prefixes[n]
        /\ x.prefixes[i.net] # NoPrefix /\ ~x.prefixes[i.net].mine =>
               y.prefixes[i.net] = x.prefixes[i.net]
        /\ i.net \notin lost /\ ~x.dry => PrefixDone(y, i)
        /\ PrefixDone(x, i) => y = x
    <2> HIDE DEF i
    <2>1. y \in Worlds /\ AfterPrefix(x, y, i, lost)
      BY <1>1, PrefixEffect
    <2> QED
      BY <2>1 DEF AfterPrefix
  <1>5. x.prefixes[i.net] = w.prefixes[i.net]
    BY <1>1, <1>2 DEF AfterPrefixes
  <1> HIDE DEF i
  <1>6. SameClient(w, y) /\ x.dry = w.dry /\ Known(x, "site") = Known(w, "site")
    BY <1>4 DEF AfterPrefixes, SameClient, Known
  <1>7. \A v \in Vid : y.vlans[v] # w.vlans[v] => w.vlans[v] = NoVlan /\ Known(w, "site")
    BY <1>4, <1>6 DEF AfterPrefixes
  <1>8. \A n \in Net : (\A j \in T : f.ifaces[j].net # n) => y.prefixes[n] = w.prefixes[n]
    BY <1>4 DEF AfterPrefixes, i
  <1>9. \A n \in Net : w.prefixes[n] # NoPrefix /\ ~w.prefixes[n].mine =>
            y.prefixes[n] = w.prefixes[n]
    <2> SUFFICES ASSUME NEW n \in Net, w.prefixes[n] # NoPrefix, ~w.prefixes[n].mine
                 PROVE  y.prefixes[n] = w.prefixes[n]
      OBVIOUS
    <2>1. x.prefixes[n] = w.prefixes[n]
      BY DEF AfterPrefixes
    <2> QED
      BY <1>4, <2>1
  <1>10. lost = {} /\ ~w.dry => \A j \in T : PrefixDone(y, f.ifaces[j])
    <2> SUFFICES ASSUME lost = {}, ~w.dry, NEW j \in T PROVE PrefixDone(y, f.ifaces[j])
      OBVIOUS
    <2>1. CASE j = k
      BY <1>4, <1>6, <2>1 DEF i
    <2>2. CASE j # k
      <3>1. PrefixDone(x, f.ifaces[j])
        BY <2>2 DEF AfterPrefixes
      <3>2. y.prefixes[f.ifaces[j].net] = x.prefixes[f.ifaces[j].net]
        BY <1>2, <1>3, <1>4, <2>2
      <3> QED
        BY <3>1, <3>2 DEF PrefixDone
    <2> QED
      BY <2>1, <2>2
  <1>11. (\A j \in T : PrefixDone(w, f.ifaces[j])) => y = w
    <2> SUFFICES ASSUME \A j \in T : PrefixDone(w, f.ifaces[j]) PROVE y = w
      OBVIOUS
    <2>1. x = w
      BY DEF AfterPrefixes
    <2>2. PrefixDone(x, i)
      BY <2>1 DEF i
    <2> QED
      BY <1>4, <2>1, <2>2
  <1>12. y.ranges = w.ranges /\ y.devices = w.devices /\ (w.dry => y = w)
    BY <1>4, <1>6 DEF AfterPrefixes
  <1> QED
    BY <1>4, <1>6, <1>7, <1>8, <1>9, <1>10, <1>11, <1>12 DEF AfterPrefixes

\* All turns of sync_prefixes.
LEMMA PrefixesEffect ==
    ASSUME NEW w \in Worlds, NEW f \in Collected, NEW lost, NEW y, y = WithPrefixes(w, f, lost)
    PROVE  y \in Worlds /\ AfterPrefixes(w, y, f, Heads(f), lost)
  <1> DEFINE S == Heads(f)
             c == <<f, lost>>
             W == [T \in SUBSET S |-> {x \in Worlds : AfterPrefixes(w, x, f, T, lost)}]
  <1>1. y = PrefixLoop!Iter(c, w, S)[S]
    BY DEF WithPrefixes, InOrder, MapThenFoldSet, PrefixLoop!Iter, PrefixTurn, Max
  <1>2. S \in SUBSET Nat /\ IsFiniteSet(S)
    BY CollectedFacts, FS_Subset DEF Heads
  <1>3. PrefixLoop!IsFiniteSet(S) /\ PrefixLoop!Picks(S)
    BY <1>2, PlacePicks
  <1>4. w \in W[{}]
    BY DEF AfterPrefixes, SameClient
  <1>5. \A T \in SUBSET S : T # {} =>
           \A x \in W[T \ {Max(T)}] : PrefixTurn(c, x, Max(T)) \in W[T]
    <2> SUFFICES ASSUME NEW T \in SUBSET S, T # {},
                        NEW x \in Worlds, AfterPrefixes(w, x, f, T \ {Max(T)}, lost)
                 PROVE  /\ PrefixTurn(c, x, Max(T)) \in Worlds
                        /\ AfterPrefixes(w, PrefixTurn(c, x, Max(T)), f, T, lost)
      OBVIOUS
    <2>1. Max(T) \in T
      <3>1. IsFiniteSet(T) /\ T \subseteq Nat
        BY <1>2, FS_Subset
      <3> QED
        BY <3>1, MaxIsGreatest
    <2>2. PrefixTurn(c, x, Max(T)) = WithPrefix(x, f.ifaces[Max(T)], lost)
      BY DEF PrefixTurn
    <2> QED
      BY <2>1, <2>2, PrefixTurnEffect
  <1>6. y \in W[S]
    <2> HIDE DEF W, S, c
    <2> QED
      BY <1>1, <1>3, <1>4, <1>5, PrefixLoop!FoldKeeps
  <1> QED
    BY <1>6

\* The heads stand for their networks.
LEMMA HeadsCover ==
    ASSUME NEW f \in Collected, NEW w
    PROVE  PrefixesDone(w, f) <=> \A k \in Heads(f) : PrefixDone(w, f.ifaces[k])
  <1>1. ASSUME NEW k \in Heads(f)
        PROVE  /\ f.ifaces[k].net \in Net /\ OnNet(f, f.ifaces[k].net) # {}
               /\ FirstIface(f, f.ifaces[k].net) = f.ifaces[k].iface
    BY CollectedFacts DEF Heads, IfaceFact, OnNet, FirstIface
  <1>2. ASSUME NEW n \in Net, OnNet(f, n) # {}
        PROVE  \E k \in Heads(f) : f.ifaces[k].net = n /\ FirstIface(f, n) = f.ifaces[k].iface
    <2>1. Min(OnNet(f, n)) \in OnNet(f, n)
      BY <1>2, PlacesAreTyped
    <2>2. Min(OnNet(f, n)) \in DOMAIN f.ifaces /\ f.ifaces[Min(OnNet(f, n))].net = n
      BY <2>1 DEF OnNet
    <2> QED
      BY <2>2 DEF Heads, FirstIface
  <1> QED
    BY <1>1, <1>2 DEF PrefixesDone, PrefixDone

-----------------------------------------------------------------------------
(* The pool pass.                                                           *)

\* After the turn of the pool q; `before` holds the ranges when the pass began.
AfterPool(w, y, before, q, lost) ==
    /\ SameClient(w, y)
    /\ y.vlans = w.vlans /\ y.prefixes = w.prefixes /\ y.devices = w.devices
    /\ w.dry => y = w
    /\ \A p \in Pool : p # q.pool => y.ranges[p] = w.ranges[p]
    /\ w.ranges[q.pool] # NoRange => /\ y.ranges[q.pool] # NoRange
                                     /\ y.ranges[q.pool].mine = w.ranges[q.pool].mine
                                     /\ w.ranges[q.pool].mine \/ y = w
    /\ q.pool \notin lost /\ ~w.dry =>
          /\ y.ranges[q.pool] # NoRange
          /\ y.ranges[q.pool].mine =>
                \/ y.ranges[q.pool].label = q.label
                \/ before[q.pool] = NoRange /\ w.ranges[q.pool] # NoRange /\ y = w
    /\ before[q.pool] # NoRange /\ (w.ranges[q.pool].mine => w.ranges[q.pool].label = q.label) => y = w

\* What sync_dhcp_pools makes of one pool.
LEMMA PoolEffect ==
    ASSUME NEW w \in Worlds, NEW before, NEW q \in PoolFact, NEW lost,
           before[q.pool] # NoRange => w.ranges[q.pool] # NoRange,
           NEW y, y = WithPool(w, before, q, lost)
    PROVE  y \in Worlds /\ AfterPool(w, y, before, q, lost)
  <1> DEFINE row == w.ranges[q.pool]
  <1>1. row \in RangeRow \cup {NoRange} /\ q.pool \in Pool /\ q.label \in Label
    BY DEF Worlds, PoolFact
  <1>2. NoName \notin Label \cup {Hand}
    BY NetworksAssumption
  <1>3. y = IF w.dry \/ q.pool \in lost THEN w
            ELSE IF before[q.pool] = NoRange
            THEN IF row # NoRange THEN w
                 ELSE [w EXCEPT !.ranges[q.pool] = [label |-> q.label, mine |-> Tagged(w)],
                                !.wrote = TRUE]
            ELSE IF ~row.mine \/ row.label = q.label THEN w
            ELSE [w EXCEPT !.ranges[q.pool].label = q.label, !.wrote = TRUE]
    BY DEF WithPool
  <1>4. CASE y = w
    <2>1. q.pool \notin lost /\ ~w.dry =>
             /\ row # NoRange
             /\ row.mine => row.label = q.label \/ before[q.pool] = NoRange
      <3> DEFINE fresh == [label |-> q.label, mine |-> Tagged(w)]
                 rows == [w.ranges EXCEPT ![q.pool] = fresh]
      <3>1. fresh # NoRange
        BY <1>1, <1>2 DEF NoRange
      <3>2. [w EXCEPT !.ranges = rows, !.wrote = TRUE].ranges[q.pool] = fresh
        <4>1. rows[q.pool] = fresh
          BY <1>1 DEF Worlds
        <4> HIDE DEF rows, fresh
        <4>2. [w EXCEPT !.ranges = rows, !.wrote = TRUE].ranges = rows
          BY DEF Worlds
        <4> QED
          BY <4>1, <4>2
      <3>3. row = NoRange /\ before[q.pool] = NoRange /\ q.pool \notin lost /\ ~w.dry
               => y = [w EXCEPT !.ranges = rows, !.wrote = TRUE]
        BY <1>3
      <3>4. CASE before[q.pool] = NoRange
        <4> HIDE DEF rows, fresh
        <4> QED
          BY <1>4, <3>1, <3>2, <3>3, <3>4
      <3>5. CASE before[q.pool] # NoRange
        <4> DEFINE marked == [row EXCEPT !.label = q.label]
                   marks == [w.ranges EXCEPT ![q.pool] = marked]
        <4>1. row \in RangeRow
          BY <1>1, <3>5
        <4>2. marked.label = q.label
          BY <4>1 DEF RangeRow
        <4>3. marks[q.pool] = marked
          BY <1>1 DEF Worlds
        <4>4. ~(w.dry \/ q.pool \in lost) /\ row.mine /\ row.label # q.label
                 => y = [w EXCEPT !.ranges = marks, !.wrote = TRUE]
          BY <1>3, <3>5
        <4> HIDE DEF marked, marks
        <4>5. [w EXCEPT !.ranges = marks, !.wrote = TRUE].ranges = marks
          BY DEF Worlds
        <4> QED
          BY <1>4, <3>5, <4>2, <4>3, <4>4, <4>5
      <3> QED
        BY <3>4, <3>5
    <2> QED
      BY <1>4, <2>1 DEF AfterPool, SameClient
  <1>5. CASE y # w /\ before[q.pool] = NoRange
    <2> DEFINE fresh == [label |-> q.label, mine |-> Tagged(w)]
               rows == [w.ranges EXCEPT ![q.pool] = fresh]
    <2>1. /\ y = [w EXCEPT !.ranges = rows, !.wrote = TRUE]
          /\ row = NoRange /\ ~w.dry /\ q.pool \notin lost
      BY <1>3, <1>5
    <2>2. fresh \in RangeRow /\ fresh.label = q.label /\ fresh # NoRange
      BY <1>1, <1>2 DEF RangeRow, NoRange, Tagged, Known
    <2>3. rows \in [Pool -> RangeRow \cup {NoRange}]
      BY <2>2 DEF Worlds
    <2>4. rows[q.pool] = fresh /\ \A p \in Pool : p # q.pool => rows[p] = w.ranges[p]
      BY <1>1 DEF Worlds
    <2> HIDE DEF rows, fresh
    <2>5. /\ y \in Worlds /\ y.ranges = rows /\ y.vlans = w.vlans /\ y.prefixes = w.prefixes
          /\ y.objects = w.objects /\ y.cache = w.cache /\ y.bootstrapped = w.bootstrapped
          /\ y.dry = w.dry /\ y.devices = w.devices
      BY <2>1, <2>3 DEF Worlds
    <2> QED
      BY <1>5, <2>1, <2>2, <2>4, <2>5 DEF AfterPool, SameClient
  <1>6. CASE y # w /\ before[q.pool] # NoRange
    <2> DEFINE marked == [row EXCEPT !.label = q.label]
               rows == [w.ranges EXCEPT ![q.pool] = marked]
    <2>1. /\ y = [w EXCEPT !.ranges = rows, !.wrote = TRUE]
          /\ row.mine /\ row.label # q.label /\ row # NoRange /\ ~w.dry
      BY <1>3, <1>6
    <2>2. row \in RangeRow
      BY <1>1, <2>1
    <2>3. marked \in RangeRow /\ marked.label = q.label /\ marked.mine = row.mine
      BY <1>1, <2>2 DEF RangeRow
    <2>4. marked # NoRange
      BY <1>1, <1>2, <2>3 DEF NoRange
    <2> HIDE DEF marked
    <2>5. rows \in [Pool -> RangeRow \cup {NoRange}]
      BY <2>3 DEF Worlds
    <2>6. rows[q.pool] = marked /\ \A p \in Pool : p # q.pool => rows[p] = w.ranges[p]
      BY <1>1 DEF Worlds
    <2> HIDE DEF rows
    <2>7. /\ y \in Worlds /\ y.ranges = rows /\ y.vlans = w.vlans /\ y.prefixes = w.prefixes
          /\ y.objects = w.objects /\ y.cache = w.cache /\ y.bootstrapped = w.bootstrapped
          /\ y.dry = w.dry /\ y.devices = w.devices
      BY <2>1, <2>5 DEF Worlds
    <2> QED
      BY <1>6, <2>1, <2>3, <2>4, <2>6, <2>7 DEF AfterPool, SameClient
  <1> QED
    BY <1>4, <1>5, <1>6

\* A range that is up to date with one of the pools at the places T.
RangeDone(w, f, T, p) ==
    /\ w.ranges[p] # NoRange
    /\ w.ranges[p].mine => \E j \in T : f.pools[j].pool = p /\ w.ranges[p].label = f.pools[j].label

\* A range that is up to date with the pool q.
RangeSays(w, q) ==
    /\ w.ranges[q.pool] # NoRange
    /\ w.ranges[q.pool].mine => w.ranges[q.pool].label = q.label

\* After the turns of the pools at the places T.
AfterPools(w, y, f, T, lost) ==
    /\ SameClient(w, y)
    /\ y.vlans = w.vlans /\ y.prefixes = w.prefixes /\ y.devices = w.devices
    /\ w.dry => y = w
    /\ \A p \in Pool : w.ranges[p] # NoRange => /\ y.ranges[p] # NoRange
                                                /\ y.ranges[p].mine = w.ranges[p].mine
                                                /\ w.ranges[p].mine \/ y.ranges[p] = w.ranges[p]
    /\ \A p \in Pool : (\A k \in T : f.pools[k].pool # p) => y.ranges[p] = w.ranges[p]
    /\ lost = {} /\ ~w.dry => \A k \in T : RangeDone(y, f, T, f.pools[k].pool)
    /\ (\A k \in T : RangeSays(w, f.pools[k])) => y = w

\* One turn of sync_dhcp_pools.
LEMMA PoolTurnEffect ==
    ASSUME NEW w \in Worlds, NEW f \in Collected, NEW T \in SUBSET DOMAIN f.pools, NEW k \in T,
           NEW lost, NEW x \in Worlds, AfterPools(w, x, f, T \ {k}, lost),
           NEW y, y = WithPool(x, w.ranges, f.pools[k], lost)
    PROVE  y \in Worlds /\ AfterPools(w, y, f, T, lost)
  <1> DEFINE q == f.pools[k]
  <1>1. q \in PoolFact /\ q.pool \in Pool /\ y = WithPool(x, w.ranges, q, lost)
    BY CollectedFacts DEF PoolFact
  <1>2. w.ranges[q.pool] # NoRange => x.ranges[q.pool] # NoRange
    BY <1>1 DEF AfterPools
  <1>3. y \in Worlds /\ AfterPool(x, y, w.ranges, q, lost)
    <2> HIDE DEF q
    <2> QED
      BY <1>1, <1>2, PoolEffect
  <1>4. \A j \in T : f.pools[j].pool \in Pool
    BY CollectedFacts DEF PoolFact
  <1>5. /\ SameClient(w, y) /\ x.dry = w.dry
        /\ y.vlans = w.vlans /\ y.prefixes = w.prefixes /\ y.devices = w.devices
        /\ w.dry => y = w
    BY <1>3 DEF AfterPool, AfterPools, SameClient
  <1>6. ASSUME NEW p \in Pool, w.ranges[p] # NoRange
        PROVE  /\ y.ranges[p] # NoRange
               /\ y.ranges[p].mine = w.ranges[p].mine
               /\ w.ranges[p].mine \/ y.ranges[p] = w.ranges[p]
    <2>1. /\ x.ranges[p] # NoRange
          /\ x.ranges[p].mine = w.ranges[p].mine
          /\ w.ranges[p].mine \/ x.ranges[p] = w.ranges[p]
      BY <1>6 DEF AfterPools
    <2>2. CASE p # q.pool
      BY <1>3, <2>1, <2>2 DEF AfterPool
    <2>3. CASE p = q.pool
      BY <1>3, <2>1, <2>3 DEF AfterPool
    <2> QED
      BY <2>2, <2>3
  <1>7. ASSUME NEW p \in Pool, \A j \in T : f.pools[j].pool # p
        PROVE  y.ranges[p] = w.ranges[p]
    <2>1. x.ranges[p] = w.ranges[p] /\ p # q.pool
      BY <1>7 DEF AfterPools
    <2> QED
      BY <1>3, <2>1 DEF AfterPool
  <1>8. ASSUME lost = {}, ~w.dry, NEW j \in T
        PROVE  RangeDone(y, f, T, f.pools[j].pool)
    <2> HIDE DEF q
    <2>1. CASE f.pools[j].pool # q.pool
      <3>1. j \in T \ {k}
        BY <2>1 DEF q
      <3>2. RangeDone(x, f, T \ {k}, f.pools[j].pool)
        BY <1>8, <3>1 DEF AfterPools
      <3>3. y.ranges[f.pools[j].pool] = x.ranges[f.pools[j].pool]
        BY <1>3, <1>4, <2>1 DEF AfterPool
      <3> QED
        BY <3>2, <3>3 DEF RangeDone
    <2>2. CASE f.pools[j].pool = q.pool
      <3>1. /\ y.ranges[q.pool] # NoRange
            /\ y.ranges[q.pool].mine =>
                  \/ y.ranges[q.pool].label = q.label
                  \/ w.ranges[q.pool] = NoRange /\ x.ranges[q.pool] # NoRange /\ y = x
        BY <1>3, <1>5, <1>8 DEF AfterPool
      <3>2. CASE w.ranges[q.pool] = NoRange /\ x.ranges[q.pool] # NoRange /\ y = x
        <4>1. PICK l \in T \ {k} : f.pools[l].pool = q.pool
          BY <1>1, <3>2 DEF AfterPools
        <4>2. RangeDone(x, f, T \ {k}, q.pool)
          BY <1>8, <4>1 DEF AfterPools
        <4> QED
          BY <2>2, <3>2, <4>2 DEF RangeDone
      <3>3. CASE ~(w.ranges[q.pool] = NoRange /\ x.ranges[q.pool] # NoRange /\ y = x)
        <4>1. k \in T /\ f.pools[k].pool = q.pool /\ f.pools[k].label = q.label
          BY DEF q
        <4> QED
          BY <2>2, <3>1, <3>3, <4>1 DEF RangeDone
      <3> QED
        BY <3>2, <3>3
    <2> QED
      BY <2>1, <2>2
  <1>9. ASSUME \A j \in T : RangeSays(w, f.pools[j])
        PROVE  y = w
    <2>1. x = w
      BY <1>9 DEF AfterPools
    <2>2. RangeSays(w, q)
      BY <1>9
    <2> HIDE DEF q
    <2> QED
      BY <1>3, <2>1, <2>2 DEF AfterPool, RangeSays
  <1> HIDE DEF q
  <1> QED
    BY <1>3, <1>5, <1>6, <1>7, <1>8, <1>9 DEF AfterPools

\* All turns of sync_dhcp_pools.
LEMMA PoolsEffect ==
    ASSUME NEW w \in Worlds, NEW f \in Collected, NEW lost, NEW y, y = WithPools(w, f, lost)
    PROVE  y \in Worlds /\ AfterPools(w, y, f, DOMAIN f.pools, lost)
  <1> DEFINE S == DOMAIN f.pools
             c == <<f, lost, w.ranges>>
             W == [T \in SUBSET S |-> {x \in Worlds : AfterPools(w, x, f, T, lost)}]
  <1>1. y = PoolLoop!Iter(c, w, S)[S]
    BY DEF WithPools, InOrder, MapThenFoldSet, PoolLoop!Iter, PoolTurn, Max
  <1>2. S \in SUBSET Nat /\ IsFiniteSet(S)
    BY CollectedFacts
  <1>3. PoolLoop!IsFiniteSet(S) /\ PoolLoop!Picks(S)
    BY <1>2, PlacePicks
  <1>4. w \in W[{}]
    BY DEF AfterPools, SameClient
  <1>5. \A T \in SUBSET S : T # {} =>
           \A x \in W[T \ {Max(T)}] : PoolTurn(c, x, Max(T)) \in W[T]
    <2> SUFFICES ASSUME NEW T \in SUBSET S, T # {},
                        NEW x \in Worlds, AfterPools(w, x, f, T \ {Max(T)}, lost)
                 PROVE  /\ PoolTurn(c, x, Max(T)) \in Worlds
                        /\ AfterPools(w, PoolTurn(c, x, Max(T)), f, T, lost)
      OBVIOUS
    <2>1. Max(T) \in T
      <3>1. IsFiniteSet(T) /\ T \subseteq Nat
        BY <1>2, FS_Subset
      <3> QED
        BY <3>1, MaxIsGreatest
    <2>2. PoolTurn(c, x, Max(T)) = WithPool(x, w.ranges, f.pools[Max(T)], lost)
      BY DEF PoolTurn
    <2> QED
      BY <2>1, <2>2, PoolTurnEffect
  <1>6. y \in W[S]
    <2> HIDE DEF W, S, c
    <2> QED
      BY <1>1, <1>3, <1>4, <1>5, PoolLoop!FoldKeeps
  <1> QED
    BY <1>6

\* With one pool to a range, all pools say what their range says, or none has to.
LEMMA PoolsCover ==
    ASSUME NEW f \in Collected, NEW w
    PROVE  /\ PoolsDone(w, f) <=> \A k \in DOMAIN f.pools :
                                     RangeDone(w, f, DOMAIN f.pools, f.pools[k].pool)
           /\ PoolsDone(w, f) /\ (\A p \in Pool : \A i, j \in OfPool(f, p) : i = j) =>
                 \A k \in DOMAIN f.pools : RangeSays(w, f.pools[k])
  <1>1. \A k \in DOMAIN f.pools : f.pools[k].pool \in Pool /\ k \in OfPool(f, f.pools[k].pool)
    BY CollectedFacts DEF OfPool, PoolFact
  <1>2. \A p \in Pool : \A k \in OfPool(f, p) : k \in DOMAIN f.pools /\ f.pools[k].pool = p
    BY DEF OfPool
  <1>3. ASSUME PoolsDone(w, f), NEW k \in DOMAIN f.pools
        PROVE  RangeDone(w, f, DOMAIN f.pools, f.pools[k].pool)
    BY <1>1, <1>2, <1>3 DEF PoolsDone, RangeDone
  <1>4. ASSUME \A k \in DOMAIN f.pools : RangeDone(w, f, DOMAIN f.pools, f.pools[k].pool),
               NEW p \in Pool, OfPool(f, p) # {}
        PROVE  /\ w.ranges[p] # NoRange
               /\ w.ranges[p].mine => \E k \in OfPool(f, p) : w.ranges[p].label = f.pools[k].label
    <2>1. RangeDone(w, f, DOMAIN f.pools, p)
      BY <1>2, <1>4
    <2> QED
      BY <2>1 DEF RangeDone, OfPool
  <1>5. ASSUME PoolsDone(w, f), \A p \in Pool : \A i, j \in OfPool(f, p) : i = j,
               NEW k \in DOMAIN f.pools
        PROVE  RangeSays(w, f.pools[k])
    <2>1. /\ w.ranges[f.pools[k].pool] # NoRange
          /\ w.ranges[f.pools[k].pool].mine =>
                \E j \in OfPool(f, f.pools[k].pool) :
                   w.ranges[f.pools[k].pool].label = f.pools[j].label
      BY <1>1, <1>5 DEF PoolsDone
    <2> QED
      BY <1>1, <1>5, <2>1 DEF RangeSays
  <1> QED
    BY <1>3, <1>4, <1>5 DEF PoolsDone

-----------------------------------------------------------------------------
(* The pass over the switches.                                              *)

\* A device that is as the switch s wants it.
DeviceSays(w, s) ==
    Ready(w) /\ TypeFor(w, s) # NoModel =>
        w.devices[s.host] = [type |-> TypeFor(w, s), source |-> "snmp"]

\* After the device of the switch s was written.
AfterDevice(w, y, s, lost) ==
    /\ SameClient(w, y)
    /\ y.vlans = w.vlans /\ y.prefixes = w.prefixes /\ y.ranges = w.ranges
    /\ w.dry => y = w
    /\ \A h \in Host : h # s.host => y.devices[h] = w.devices[h]
    /\ y.devices[s.host] = w.devices[s.host] \/ y.devices[s.host].source = "snmp"
    /\ w.devices[s.host] # NoSwitch /\ ~Replaceable(w.devices[s.host]) =>
           y.devices[s.host].type = w.devices[s.host].type
    /\ s.host \notin lost /\ ~w.dry /\ Ready(w) /\ TypeFor(w, s) # NoModel =>
          /\ y.devices[s.host].source = "snmp"
          /\ \/ y.devices[s.host].type = TypeFor(w, s)
             \/ /\ w.devices[s.host] # NoSwitch /\ ~Replaceable(w.devices[s.host])
                /\ y.devices[s.host].type = w.devices[s.host].type
    /\ DeviceSays(w, s) => y = w

\* What _ensure_infrastructure_device makes of one switch.
LEMMA DeviceEffect ==
    ASSUME NEW w \in Worlds, NEW s \in SwitchFact, NEW lost, NEW y, y = WithDevice(w, s, lost)
    PROVE  y \in Worlds /\ AfterDevice(w, y, s, lost)
  <1> DEFINE type == TypeFor(w, s)
             row == w.devices[s.host]
             new == IF row # NoSwitch /\ ~Replaceable(row) THEN row.type ELSE type
             fresh == [type |-> new, source |-> "snmp"]
             skip == type = NoModel \/ ~Ready(w) \/ w.dry \/ s.host \in lost
  <1>1. row \in SwitchRow \cup {NoSwitch} /\ s.host \in Host /\ s.model \in Model \cup {NoModel}
    BY DEF Worlds, SwitchFact
  <1>2. type # NoModel => type \in Model \cup {"placeholder", "human"}
    BY <1>1 DEF TypeFor
  <1>3. y = IF skip THEN w
            ELSE [w EXCEPT !.devices[s.host] = fresh, !.wrote = @ \/ row # fresh]
    BY DEF WithDevice, Ready
  <1>4. ~skip => new \in Model \cup {"placeholder", "human"}
    BY <1>1, <1>2 DEF SwitchRow
  <1>5. CASE skip
    <2>1. y = w
      BY <1>3, <1>5
    <2>2. ~(s.host \notin lost /\ ~w.dry /\ Ready(w) /\ type # NoModel)
      BY <1>5
    <2> HIDE DEF type
    <2>3. ~(s.host \notin lost /\ ~w.dry /\ Ready(w) /\ TypeFor(w, s) # NoModel)
      BY <2>2 DEF type
    <2> QED
      BY <2>1, <2>3 DEF AfterDevice, SameClient
  <1>6. CASE ~skip
    <2> DEFINE rows == [w.devices EXCEPT ![s.host] = fresh]
               wrote == w.wrote \/ row # fresh
    <2>1. y = [w EXCEPT !.devices = rows, !.wrote = wrote]
      BY <1>3, <1>6
    <2>2. fresh \in SwitchRow /\ fresh.source = "snmp" /\ fresh.type = new
      BY <1>4, <1>6 DEF SwitchRow
    <2>3. rows \in [Host -> SwitchRow \cup {NoSwitch}]
      <3> HIDE DEF fresh
      <3> QED
        BY <2>2 DEF Worlds
    <2>4. rows[s.host] = fresh /\ \A h \in Host : h # s.host => rows[h] = w.devices[h]
      BY <1>1 DEF Worlds
    <2>5. wrote \in BOOLEAN
      BY DEF Worlds
    <2>6. row = fresh => rows = w.devices /\ wrote = w.wrote
      <3> HIDE DEF fresh
      <3>1. row = fresh => \A h \in Host : rows[h] = w.devices[h]
        BY <2>4
      <3>2. rows = [h \in Host |-> rows[h]] /\ w.devices = [h \in Host |-> w.devices[h]]
        BY DEF Worlds
      <3>3. row = fresh => rows = w.devices
        BY <3>1, <3>2
      <3> QED
        BY <3>3 DEF Worlds
    <2>7. DeviceSays(w, s) => row = fresh
      <3> SUFFICES ASSUME DeviceSays(w, s) PROVE row = fresh
        OBVIOUS
      <3>1. row = [type |-> type, source |-> "snmp"]
        BY <1>6 DEF DeviceSays
      <3>2. Replaceable(row)
        BY <3>1 DEF Replaceable
      <3> QED
        BY <3>1, <3>2
    <2>8. new = type \/ (row # NoSwitch /\ ~Replaceable(row) /\ new = row.type)
      OBVIOUS
    <2>9. row # NoSwitch /\ ~Replaceable(row) => new = row.type
      OBVIOUS
    <2> HIDE DEF rows, wrote, fresh, new
    <2>10. /\ y \in Worlds /\ y.devices = rows /\ y.vlans = w.vlans /\ y.prefixes = w.prefixes
           /\ y.objects = w.objects /\ y.cache = w.cache /\ y.bootstrapped = w.bootstrapped
           /\ y.dry = w.dry /\ y.ranges = w.ranges
      BY <2>1, <2>3, <2>5 DEF Worlds
    <2>11. row = fresh => y = w
      BY <2>1, <2>6 DEF Worlds
    <2>12. y.devices[s.host].source = "snmp" /\ y.devices[s.host].type = new
      BY <2>2, <2>4, <2>10
    <2>13. \A h \in Host : h # s.host => y.devices[h] = w.devices[h]
      BY <2>4, <2>10
    <2>14. ~w.dry
      BY <1>6
    <2> HIDE DEF type, skip
    <2>15. type = TypeFor(w, s)
      BY DEF type
    <2> QED
      BY <2>7, <2>8, <2>9, <2>10, <2>11, <2>12, <2>13, <2>14, <2>15 DEF AfterDevice, SameClient
  <1> QED
    BY <1>5, <1>6

\* After the turn of the switch s.
AfterSwitch(w, y, s, lost) ==
    /\ Remembers(w, y) /\ y.bootstrapped = w.bootstrapped
    /\ y.objects \subseteq w.objects \cup Model
    /\ \A i \in Basics : y.cache[i] = w.cache[i]
    /\ s.model # NoModel => y.cache[s.model] # "unknown"
    /\ w.dry => y.devices = w.devices
    /\ \A h \in Host : h # s.host => y.devices[h] = w.devices[h]
    /\ y.devices[s.host] = w.devices[s.host] \/ y.devices[s.host].source = "snmp"
    /\ w.devices[s.host] # NoSwitch /\ ~Replaceable(w.devices[s.host]) =>
           y.devices[s.host].type = w.devices[s.host].type
    /\ s.host \notin lost /\ ~w.dry /\ Ready(y) /\ TypeFor(y, s) # NoModel =>
          /\ y.devices[s.host].source = "snmp"
          /\ \/ y.devices[s.host].type = TypeFor(y, s)
             \/ /\ w.devices[s.host] # NoSwitch /\ ~Replaceable(w.devices[s.host])
                /\ y.devices[s.host].type = w.devices[s.host].type
    /\ (s.model # NoModel => w.cache[s.model] # "unknown") /\ DeviceSays(w, s) => y = w

\* The same with the types that are ensured first.
LEMMA SwitchEffect ==
    ASSUME NEW w \in Worlds, NEW s \in SwitchFact, NEW lost, NEW y, y = WithSwitch(w, s, lost)
    PROVE  y \in Worlds /\ AfterSwitch(w, y, s, lost)
  <1> DEFINE z == IF s.model = NoModel THEN w ELSE Ensured(w, s.model, lost)
  <1>1. y = WithDevice(z, s, lost)
    BY DEF WithSwitch
  <1>2. /\ s.model \in Model \cup {NoModel} /\ s.host \in Host
        /\ s.model \notin Basics \/ s.model = NoModel
    BY CatalogueAssumption DEF SwitchFact
  <1>3. /\ z \in Worlds /\ Remembers(w, z) /\ z.bootstrapped = w.bootstrapped
        /\ z.devices = w.devices
        /\ z.objects \subseteq w.objects \cup Model
        /\ \A i \in Basics : z.cache[i] = w.cache[i]
        /\ s.model # NoModel => z.cache[s.model] # "unknown"
        /\ (s.model # NoModel => w.cache[s.model] # "unknown") => z = w
    <2>1. CASE s.model = NoModel
      BY <2>1 DEF Remembers
    <2>2. CASE s.model # NoModel
      <3>1. s.model \in Item \ {"fields"} /\ s.model \in Model /\ s.model \notin Basics
        BY <1>2, <2>2, OrderFacts DEF Item
      <3>2. z = Ensured(w, s.model, lost)
        BY <2>2
      <3> HIDE DEF z
      <3>3. /\ z \in Worlds /\ Remembers(w, z)
            /\ z.devices = w.devices /\ z.bootstrapped = w.bootstrapped
            /\ z.cache[s.model] # "unknown"
            /\ \A i \in Item \ {s.model} : z.cache[i] = w.cache[i]
            /\ z.objects \subseteq w.objects \cup {s.model}
            /\ w.cache[s.model] # "unknown" => z = w
        BY <3>1, <3>2, EnsuredEffect
      <3> QED
        BY <2>2, <3>1, <3>3 DEF Item
    <2> QED
      BY <2>1, <2>2
  <1> HIDE DEF z
  <1>4. y \in Worlds /\ AfterDevice(z, y, s, lost)
    BY <1>1, <1>3, DeviceEffect
  <1>5. /\ y.objects = z.objects /\ y.cache = z.cache /\ y.bootstrapped = z.bootstrapped
        /\ y.dry = z.dry /\ z.dry = w.dry
        /\ Ready(y) = Ready(z) /\ TypeFor(y, s) = TypeFor(z, s)
    BY <1>3, <1>4 DEF AfterDevice, SameClient, Ready, TypeFor, Known, Remembers
  <1>6. Remembers(w, y)
    <2>1. z.dry => y.wrote = z.wrote
      BY <1>4 DEF AfterDevice
    <2> QED
      BY <1>3, <1>4, <1>5, <2>1 DEF AfterDevice, Remembers
  <1>7. (s.model # NoModel => w.cache[s.model] # "unknown") /\ DeviceSays(w, s) => y = w
    BY <1>3, <1>4 DEF AfterDevice
  <1>8. /\ w.dry => y.devices = w.devices
        /\ \A h \in Host : h # s.host => y.devices[h] = w.devices[h]
        /\ y.devices[s.host] = w.devices[s.host] \/ y.devices[s.host].source = "snmp"
        /\ w.devices[s.host] # NoSwitch /\ ~Replaceable(w.devices[s.host]) =>
               y.devices[s.host].type = w.devices[s.host].type
    BY <1>3, <1>4, <1>5 DEF AfterDevice
  <1>9. ASSUME s.host \notin lost, ~w.dry, Ready(y), TypeFor(y, s) # NoModel
        PROVE  /\ y.devices[s.host].source = "snmp"
               /\ \/ y.devices[s.host].type = TypeFor(y, s)
                  \/ /\ w.devices[s.host] # NoSwitch /\ ~Replaceable(w.devices[s.host])
                     /\ y.devices[s.host].type = w.devices[s.host].type
    BY <1>3, <1>4, <1>5, <1>9 DEF AfterDevice
  <1> QED
    BY <1>3, <1>4, <1>5, <1>6, <1>7, <1>8, <1>9 DEF AfterSwitch

\* A device whose row the scanner has not written has the type a person chose.
Owned(w) == \A h \in Host : w.devices[h].source = "" => w.devices[h].type = "human"

\* After the turns of the switches at the places T.
AfterDevices(w, y, f, T, lost) ==
    /\ Remembers(w, y) /\ y.bootstrapped = w.bootstrapped
    /\ y.objects \subseteq w.objects \cup Model
    /\ \A i \in Basics : y.cache[i] = w.cache[i]
    /\ w.dry => y.devices = w.devices
    /\ \A h \in Host : (\A k \in T : f.switches[k].host # h) => y.devices[h] = w.devices[h]
    /\ \A h \in Host : y.devices[h] = w.devices[h] \/ y.devices[h].source = "snmp"
    /\ \A h \in Host : w.devices[h] = [type |-> "human", source |-> ""] /\ Single(f, h) =>
           y.devices[h].type = "human"
    /\ lost = {} /\ ~w.dry /\ Owned(w) => \A k \in T : DeviceDone(y, f, k)
    /\ (\A k \in T : /\ f.switches[k].model # NoModel => w.cache[f.switches[k].model] # "unknown"
                     /\ DeviceSays(w, f.switches[k])) => y = w

\* A device somebody made is not the scanner's to retype.
LEMMA HumanRow ==
    ASSUME NEW row, row = [type |-> "human", source |-> ""]
    PROVE  row # NoSwitch /\ ~Replaceable(row) /\ row.type = "human"
  <1>1. row.type = "human" /\ row.source = ""
    OBVIOUS
  <1> QED
    BY <1>1 DEF NoSwitch, Replaceable

\* One turn of sync_infrastructure.
LEMMA SwitchTurnEffect ==
    ASSUME NEW w \in Worlds, NEW f \in Collected, NEW T \in SUBSET DOMAIN f.switches, NEW k \in T,
           NEW lost, NEW x \in Worlds, AfterDevices(w, x, f, T \ {k}, lost),
           NEW y, y = WithSwitch(x, f.switches[k], lost)
    PROVE  y \in Worlds /\ AfterDevices(w, y, f, T, lost)
  <1> DEFINE s == f.switches[k]
  <1>1. s \in SwitchFact /\ s.host \in Host /\ y = WithSwitch(x, s, lost)
    BY CollectedFacts DEF SwitchFact
  <1>2. y \in Worlds /\ AfterSwitch(x, y, s, lost)
    <2> HIDE DEF s
    <2> QED
      BY <1>1, SwitchEffect
  <1>3. \A j \in T : /\ f.switches[j].host \in Host
                     /\ f.switches[j].model \in Model \cup {NoModel}
    BY CollectedFacts DEF SwitchFact
  <1>4. /\ Remembers(w, x) /\ x.bootstrapped = w.bootstrapped
        /\ x.objects \subseteq w.objects \cup Model
        /\ \A i \in Basics : x.cache[i] = w.cache[i]
        /\ w.dry => x.devices = w.devices
        /\ x.dry = w.dry
    BY DEF AfterDevices, Remembers
  <1>5. /\ Remembers(x, y) /\ y.bootstrapped = x.bootstrapped
        /\ y.objects \subseteq x.objects \cup Model
        /\ \A i \in Basics : y.cache[i] = x.cache[i]
        /\ x.dry => y.devices = x.devices
    BY <1>2 DEF AfterSwitch
  <1>6. Remembers(w, y)
    BY <1>4, <1>5, RemembersTrans
  <1>7. \A h \in Host : (\A j \in T : f.switches[j].host # h) => y.devices[h] = w.devices[h]
    BY <1>2 DEF AfterDevices, AfterSwitch
  <1>8. \A h \in Host : y.devices[h] = w.devices[h] \/ y.devices[h].source = "snmp"
    <2> SUFFICES ASSUME NEW h \in Host
                 PROVE  y.devices[h] = w.devices[h] \/ y.devices[h].source = "snmp"
      OBVIOUS
    <2>1. x.devices[h] = w.devices[h] \/ x.devices[h].source = "snmp"
      BY DEF AfterDevices
    <2>2. y.devices[h] = x.devices[h] \/ y.devices[h].source = "snmp"
      BY <1>2 DEF AfterSwitch
    <2> QED
      BY <2>1, <2>2
  <1>9. ASSUME NEW h \in Host, w.devices[h] = [type |-> "human", source |-> ""], Single(f, h)
        PROVE  y.devices[h].type = "human"
    <2>1. CASE h # s.host
      <3>1. y.devices[h] = x.devices[h]
        BY <1>2, <2>1 DEF AfterSwitch
      <3> QED
        BY <1>9, <3>1 DEF AfterDevices
    <2>2. CASE h = s.host
      <3>1. \A j \in T \ {k} : f.switches[j].host # h
        BY <1>9, <2>2 DEF Single
      <3>2. x.devices[h] = [type |-> "human", source |-> ""]
        BY <1>9, <3>1 DEF AfterDevices
      <3>3. x.devices[h] # NoSwitch /\ ~Replaceable(x.devices[h]) /\ x.devices[h].type = "human"
        BY <3>2, HumanRow
      <3> HIDE DEF s
      <3> QED
        BY <1>2, <2>2, <3>3 DEF AfterSwitch
    <2> QED
      BY <2>1, <2>2
  <1>10. ASSUME lost = {}, ~w.dry, Owned(w), NEW j \in T
         PROVE  DeviceDone(y, f, j)
    <2>1. CASE j = k
      <3> SUFFICES /\ s.model # NoModel => y.cache[s.model] # "unknown"
                   /\ Ready(y) /\ TypeFor(y, s) # NoModel =>
                        /\ y.devices[s.host] # NoSwitch
                        /\ Single(f, s.host) => /\ y.devices[s.host].source = "snmp"
                                                /\ y.devices[s.host].type \in {TypeFor(y, s), "human"}
        BY <2>1 DEF DeviceDone
      <3>1. s.model # NoModel => y.cache[s.model] # "unknown"
        BY <1>2 DEF AfterSwitch
      <3>2. ASSUME Ready(y), TypeFor(y, s) # NoModel
            PROVE  /\ y.devices[s.host].source = "snmp"
                   /\ \/ y.devices[s.host].type = TypeFor(y, s)
                      \/ /\ x.devices[s.host] # NoSwitch /\ ~Replaceable(x.devices[s.host])
                         /\ y.devices[s.host].type = x.devices[s.host].type
        BY <1>2, <1>4, <1>10, <3>2 DEF AfterSwitch
      <3>3. y.devices[s.host].source = "snmp" => y.devices[s.host] # NoSwitch
        BY DEF NoSwitch
      <3>4. ASSUME Single(f, s.host), x.devices[s.host] # NoSwitch, ~Replaceable(x.devices[s.host])
            PROVE  x.devices[s.host].type = "human"
        <4>1. \A i \in T \ {k} : f.switches[i].host # s.host
          BY <3>4 DEF Single
        <4>2. x.devices[s.host] = w.devices[s.host]
          BY <1>1, <4>1 DEF AfterDevices
        <4>3. x.devices[s.host] \in SwitchRow
          BY <1>1, <3>4 DEF Worlds
        <4>4. x.devices[s.host].source = ""
          BY <3>4, <4>3 DEF SwitchRow, Replaceable
        <4> QED
          BY <1>1, <1>10, <4>2, <4>4 DEF Owned
      <3> HIDE DEF s
      <3> QED
        BY <3>1, <3>2, <3>3, <3>4
    <2>2. CASE j # k
      <3> DEFINE t == f.switches[j]
      <3>1. DeviceDone(x, f, j)
        BY <1>10, <2>2 DEF AfterDevices
      <3>2. /\ t.model # NoModel => x.cache[t.model] # "unknown"
            /\ Ready(x) /\ TypeFor(x, t) # NoModel =>
                 /\ x.devices[t.host] # NoSwitch
                 /\ Single(f, t.host) => /\ x.devices[t.host].source = "snmp"
                                         /\ x.devices[t.host].type \in {TypeFor(x, t), "human"}
        BY <3>1 DEF DeviceDone
      <3>3. t.host \in Host /\ (t.model # NoModel => t.model \in Item)
        BY <1>3 DEF Item
      <3>4. t.model # NoModel => y.cache[t.model] = x.cache[t.model]
        <4> HIDE DEF t
        <4> QED
          BY <1>5, <3>2, <3>3 DEF Remembers
      <3>5. \A i \in {"site", "role", "type"} : Known(y, i) = Known(x, i)
        BY <1>5, OrderFacts DEF Known
      <3>6. TypeFor(y, t) = TypeFor(x, t)
        <4> HIDE DEF t
        <4> QED
          BY <3>4, <3>5 DEF TypeFor, Known
      <3>7. Ready(y) = Ready(x)
        <4>1. "fields" \notin Model
          BY CatalogueAssumption, OrderFacts
        <4>2. "fields" \in y.objects <=> "fields" \in x.objects
          BY <1>5, <4>1 DEF Remembers
        <4> QED
          BY <3>5, <4>2 DEF Ready
      <3>8. x.devices[t.host] # NoSwitch => y.devices[t.host] # NoSwitch
        <4>1. y.devices[t.host] = x.devices[t.host] \/ y.devices[t.host].source = "snmp"
          <5> HIDE DEF s, t
          <5> QED
            BY <1>2, <3>3 DEF AfterSwitch
        <4> QED
          BY <4>1 DEF NoSwitch
      <3>9. Single(f, t.host) => y.devices[t.host] = x.devices[t.host]
        <4>1. Single(f, t.host) => t.host # s.host
          BY <2>2 DEF Single
        <4> HIDE DEF s, t
        <4> QED
          BY <1>2, <3>3, <4>1 DEF AfterSwitch
      <3>10. /\ t.model # NoModel => y.cache[t.model] # "unknown"
             /\ Ready(y) /\ TypeFor(y, t) # NoModel =>
                  /\ y.devices[t.host] # NoSwitch
                  /\ Single(f, t.host) => /\ y.devices[t.host].source = "snmp"
                                          /\ y.devices[t.host].type \in {TypeFor(y, t), "human"}
        <4> HIDE DEF t
        <4> QED
          BY <3>2, <3>4, <3>6, <3>7, <3>8, <3>9
      <3> QED
        BY <3>10 DEF DeviceDone
    <2> QED
      BY <2>1, <2>2
  <1>11. ASSUME \A j \in T : /\ f.switches[j].model # NoModel =>
                                   w.cache[f.switches[j].model] # "unknown"
                             /\ DeviceSays(w, f.switches[j])
         PROVE  y = w
    <2>1. x = w
      BY <1>11 DEF AfterDevices
    <2>2. (s.model # NoModel => w.cache[s.model] # "unknown") /\ DeviceSays(w, s)
      BY <1>11
    <2> HIDE DEF s
    <2> QED
      BY <1>2, <2>1, <2>2 DEF AfterSwitch
  <1> HIDE DEF s
  <1> QED
    BY <1>2, <1>4, <1>5, <1>6, <1>7, <1>8, <1>9, <1>10, <1>11 DEF AfterDevices

\* All turns of sync_infrastructure.
LEMMA DevicesEffect ==
    ASSUME NEW w \in Worlds, NEW f \in Collected, NEW lost, NEW y, y = WithDevices(w, f, lost)
    PROVE  y \in Worlds /\ AfterDevices(w, y, f, DOMAIN f.switches, lost)
  <1> DEFINE S == DOMAIN f.switches
             c == <<f, lost>>
             W == [T \in SUBSET S |-> {x \in Worlds : AfterDevices(w, x, f, T, lost)}]
  <1>1. y = SwitchLoop!Iter(c, w, S)[S]
    BY DEF WithDevices, InOrder, MapThenFoldSet, SwitchLoop!Iter, SwitchTurn, Max
  <1>2. S \in SUBSET Nat /\ IsFiniteSet(S)
    BY CollectedFacts
  <1>3. SwitchLoop!IsFiniteSet(S) /\ SwitchLoop!Picks(S)
    BY <1>2, PlacePicks
  <1>4. w \in W[{}]
    <2>1. \A h \in Host : w.devices[h] = [type |-> "human", source |-> ""] =>
             w.devices[h].type = "human"
      BY HumanRow
    <2>2. Remembers(w, w)
      BY DEF Remembers
    <2>3. AfterDevices(w, w, f, {}, lost)
      BY <2>1, <2>2 DEF AfterDevices
    <2> QED
      BY <2>3
  <1>5. \A T \in SUBSET S : T # {} =>
           \A x \in W[T \ {Max(T)}] : SwitchTurn(c, x, Max(T)) \in W[T]
    <2> SUFFICES ASSUME NEW T \in SUBSET S, T # {},
                        NEW x \in Worlds, AfterDevices(w, x, f, T \ {Max(T)}, lost)
                 PROVE  /\ SwitchTurn(c, x, Max(T)) \in Worlds
                        /\ AfterDevices(w, SwitchTurn(c, x, Max(T)), f, T, lost)
      OBVIOUS
    <2>1. Max(T) \in T
      <3>1. IsFiniteSet(T) /\ T \subseteq Nat
        BY <1>2, FS_Subset
      <3> QED
        BY <3>1, MaxIsGreatest
    <2>2. SwitchTurn(c, x, Max(T)) = WithSwitch(x, f.switches[Max(T)], lost)
      BY DEF SwitchTurn
    <2> QED
      BY <2>1, <2>2, SwitchTurnEffect
  <1>6. y \in W[S]
    <2> HIDE DEF W, S, c
    <2> QED
      BY <1>1, <1>3, <1>4, <1>5, SwitchLoop!FoldKeeps
  <1> QED
    BY <1>6

\* Where no human chose a type and no two switches share a name, all devices are as
\* their switches want them.
LEMMA DevicesCover ==
    ASSUME NEW f \in Collected, NEW w, DevicesDone(w, f), \A h \in Host : Single(f, h),
           \A i \in DOMAIN f.switches : w.devices[f.switches[i].host].type # "human",
           w.devices \in [Host -> SwitchRow \cup {NoSwitch}]
    PROVE  \A k \in DOMAIN f.switches :
              /\ f.switches[k].model # NoModel => w.cache[f.switches[k].model] # "unknown"
              /\ DeviceSays(w, f.switches[k])
  <1> SUFFICES ASSUME NEW k \in DOMAIN f.switches
               PROVE  /\ f.switches[k].model # NoModel => w.cache[f.switches[k].model] # "unknown"
                      /\ DeviceSays(w, f.switches[k])
    OBVIOUS
  <1> DEFINE s == f.switches[k]
             row == w.devices[s.host]
  <1>1. s.host \in Host
    BY CollectedFacts DEF SwitchFact
  <1>2. /\ s.model # NoModel => w.cache[s.model] # "unknown"
        /\ Ready(w) /\ TypeFor(w, s) # NoModel =>
             /\ row # NoSwitch /\ row.source = "snmp"
             /\ row.type \in {TypeFor(w, s), "human"}
    BY <1>1 DEF DevicesDone, DeviceDone
  <1>3. row \in SwitchRow \cup {NoSwitch} /\ row.type # "human"
    BY <1>1
  <1>4. row \in SwitchRow => row = [type |-> row.type, source |-> row.source]
    BY DEF SwitchRow
  <1> HIDE DEF row
  <1>5. Ready(w) /\ TypeFor(w, s) # NoModel => row = [type |-> TypeFor(w, s), source |-> "snmp"]
    BY <1>2, <1>3, <1>4
  <1> QED
    BY <1>2, <1>5 DEF DeviceSays, row

-----------------------------------------------------------------------------
(* The bootstrap and the store.                                             *)

\* A bootstrap that came to its end has tried everything.
LEMMA BootstrappedEffect ==
    ASSUME NEW w \in Worlds, NEW lost, NEW upto \in 0 .. 7, NEW y, y = Bootstrapped(w, lost, upto)
    PROVE  /\ y \in Worlds /\ Remembers(w, y) /\ y.devices = w.devices
           /\ w.bootstrapped => y = w
           /\ ~w.bootstrapped /\ y.bootstrapped =>
                 /\ Tried(y.cache)
                 /\ lost = {} /\ ~w.dry => "fields" \in y.objects
           /\ lost = {} /\ ~w.dry /\ (\A i \in Basics : w.cache[i] # "none") =>
                 \A i \in Basics : y.cache[i] # "none"
  <1>1. CASE w.bootstrapped
    <2>1. y = w
      BY <1>1 DEF Bootstrapped
    <2> QED
      BY <1>1, <2>1 DEF Remembers
  <1>2. CASE ~w.bootstrapped
    <2> DEFINE z == WithCatalogue(w, lost, upto)
               done == upto = Len(Order)
    <2>1. y = [z EXCEPT !.bootstrapped = done]
      BY <1>2 DEF Bootstrapped
    <2>2. z \in Worlds /\ Provides(w, z, 1 .. upto, lost)
      BY CatalogueEffect
    <2>3. done => upto = 7
      BY OrderFacts
    <2>4. done \in BOOLEAN
      OBVIOUS
    <2> HIDE DEF z, done
    <2>5. /\ y \in Worlds /\ y.bootstrapped = done /\ y.vlans = z.vlans /\ y.prefixes = z.prefixes
          /\ y.objects = z.objects /\ y.cache = z.cache /\ y.dry = z.dry /\ y.ranges = z.ranges
          /\ y.devices = z.devices /\ y.wrote = z.wrote
      BY <2>1, <2>2, <2>4 DEF Worlds
    <2>6. Remembers(w, y) /\ y.devices = w.devices
      BY <2>2, <2>5 DEF Provides, Remembers
    <2>7. ASSUME done
          PROVE  Tried(y.cache) /\ (lost = {} /\ ~w.dry => "fields" \in y.objects)
      <3>1. 1 .. upto = 1 .. 7
        BY <2>3, <2>7
      <3>2. /\ \A k \in {2, 3, 4, 5, 7} : z.cache[Order[k]] # "unknown"
            /\ z.cache["maker"] = "id" => z.cache["type"] # "unknown"
            /\ lost = {} /\ ~w.dry => "fields" \in z.objects
        BY <2>2, <3>1 DEF Provides
      <3>3. /\ z.cache["tag"] # "unknown" /\ z.cache["site"] # "unknown"
            /\ z.cache["role"] # "unknown" /\ z.cache["maker"] # "unknown"
              /\ z.cache["pool"] # "unknown"
        BY <3>2, OrderFacts
      <3> QED
        BY <2>5, <3>2, <3>3 DEF Tried
    <2>8. lost = {} /\ ~w.dry /\ (\A i \in Basics : w.cache[i] # "none") =>
             \A i \in Basics : y.cache[i] # "none"
      BY <2>2, <2>5 DEF Provides
    <2> QED
      BY <1>2, <2>5, <2>6, <2>7, <2>8
  <1> QED
    BY <1>1, <1>2

\* The transaction leaves in the store what was collected.
LEMMA PersistedRows ==
    ASSUME store \in StoreRows, NEW f \in Collected, store' = Persisted(f)
    PROVE  store' \in StoreRows /\ StoreHas(f)'
  <1>1. /\ store.vlans \in [Vid -> Name \cup {NoName}]
        /\ store.prefixes \in [Net -> Iface \cup {NoName}]
        /\ store.pools \in [Pool -> Label \cup {NoName}]
    BY DEF StoreRows
  <1>2. \A v \in Vid : StoredVlan(f, v) \in Name \cup {NoName}
    BY <1>1, PlacesAreTyped DEF StoredVlan
  <1>3. \A n \in Net : StoredPrefix(f, n) \in Iface \cup {NoName}
    BY <1>1, PlacesAreTyped DEF StoredPrefix, FirstIface
  <1>4. \A p \in Pool : StoredPool(f, p) \in Label \cup {NoName}
    BY <1>1, PlacesAreTyped DEF StoredPool
  <1>5. /\ store'.vlans = [v \in Vid |-> StoredVlan(f, v)]
        /\ store'.prefixes = [n \in Net |-> StoredPrefix(f, n)]
        /\ store'.pools = [p \in Pool |-> StoredPool(f, p)]
    BY DEF Persisted
  <1>6. store' \in StoreRows
    BY <1>2, <1>3, <1>4 DEF Persisted, StoreRows
  <1>7. \A v \in Vid : Named(f, v) # {} =>
           store'.vlans[v] = f.switches[Max(Named(f, v))].names[v]
    BY <1>5 DEF StoredVlan
  <1>8. \A n \in Net : OnNet(f, n) # {} => store'.prefixes[n] = FirstIface(f, n)
    BY <1>5 DEF StoredPrefix, FirstIface
  <1>9. \A p \in Pool : OfPool(f, p) # {} => store'.pools[p] = f.pools[Max(OfPool(f, p))].label
    BY <1>5 DEF StoredPool
  <1> QED
    BY <1>6, <1>7, <1>8, <1>9 DEF StoreHas

-----------------------------------------------------------------------------
(* The steps.                                                               *)

\* A step that loses calls is one that may.
LEMMA LostCounts ==
    ASSUME TypeOK, NEW S, NEW lost \in LostOf(S), losses' = losses + IF lost = {} THEN 0 ELSE 1,
           edits' = edits
    PROVE  losses' \in Nat /\ edits' \in Nat /\ edits' + losses' <= MaxFaults
  <1>1. edits \in Nat /\ losses \in Nat /\ edits + losses <= MaxFaults /\ MaxFaults \in Nat
    BY NetworksAssumption DEF TypeOK
  <1>2. CASE lost = {}
    BY <1>1, <1>2
  <1>3. CASE lost # {}
    <2>1. edits + losses # MaxFaults
      BY <1>3 DEF LostOf
    <2> QED
      BY <1>1, <1>3, <2>1
  <1> QED
    BY <1>2, <1>3

\* A step that ends in a world of the right type keeps the types.
LEMMA BecomesTyped ==
    ASSUME NEW w \in Worlds, Becomes(w), dry \in BOOLEAN, dry' = dry, clean' \in BOOLEAN
    PROVE  /\ CatalogueTypeOK'
           /\ vlans' \in [Vid -> VlanRow \cup {NoVlan}]
           /\ prefixes' \in [Net -> PrefixRow \cup {NoPrefix}]
           /\ ranges' \in [Pool -> RangeRow \cup {NoRange}]
           /\ devices' \in [Host -> SwitchRow \cup {NoSwitch}]
  BY DEF Worlds, Becomes, CatalogueTypeOK

\* The parts of the present.
LEMMA WorldIs ==
    /\ World.objects = objects /\ World.cache = cache /\ World.bootstrapped = bootstrapped
    /\ World.dry = dry /\ World.vlans = vlans /\ World.prefixes = prefixes
    /\ World.ranges = ranges /\ World.devices = devices /\ World.wrote = FALSE
  BY DEF World

\* What the end of a pass makes of the cycle.
EndOf(next, lost) ==
    /\ dry' = dry /\ store' = store /\ store' \in StoreRows
    /\ stage' \in {"idle", next}
    /\ {facts', synced'} \subseteq FactSets \cup {NoFacts}
    /\ stored' \in BOOLEAN /\ intact' \in BOOLEAN
    /\ edits' \in Nat /\ losses' \in Nat /\ edits' + losses' <= MaxFaults
    /\ restarts' \in 0 .. MaxRestarts
    /\ stage' # "idle" => facts' = facts
    /\ intact' => intact /\ lost = {}
    /\ synced' # NoFacts => next = "idle" /\ intact' /\ synced' = facts
    /\ StoreInv'

\* What the end of a pass does to the cycle.
LEMMA EndsEffect ==
    ASSUME IInv, NEW S, NEW lost \in LostOf(S), NEW aborted \in BOOLEAN,
           NEW next \in {"idle", "prefixes", "pools", "devices"},
           stage # "idle", Ends(next, lost, aborted)
    PROVE  EndOf(next, lost)
  <1>1. /\ losses' = losses + IF lost = {} THEN 0 ELSE 1
        /\ stage' = IF aborted THEN "idle" ELSE next
        /\ facts' = IF stage' = "idle" THEN NoFacts ELSE facts
        /\ intact' = (intact /\ lost = {})
        /\ synced' = IF next = "idle" /\ intact' THEN facts ELSE NoFacts
        /\ dry' = dry /\ store' = store /\ stored' = stored /\ edits' = edits
        /\ restarts' = restarts
    BY DEF Ends
  <1>2. /\ store \in StoreRows /\ facts \in FactSets \cup {NoFacts} /\ stored \in BOOLEAN
        /\ intact \in BOOLEAN /\ restarts \in 0 .. MaxRestarts
    BY DEF IInv, TypeOK
  <1>3. losses' \in Nat /\ edits' \in Nat /\ edits' + losses' <= MaxFaults
    BY <1>1, LostCounts DEF IInv
  <1>4. stored => ~dry /\ StoreHas(facts)
    BY DEF IInv, StoreInv
  <1>5. StoreInv'
    <2>1. stage' # "idle" => facts' = facts
      BY <1>1
    <2>2. synced' # NoFacts => synced' = facts
      BY <1>1
    <2> QED
      BY <1>1, <1>4, <2>1, <2>2 DEF StoreInv, StoreHas
  <1>6. /\ stage' \in {"idle", next} /\ {facts', synced'} \subseteq FactSets \cup {NoFacts}
        /\ intact' \in BOOLEAN /\ stored' \in BOOLEAN
    BY <1>1, <1>2
  <1> QED
    BY <1>1, <1>2, <1>3, <1>5, <1>6 DEF EndOf

\* The initial state satisfies the invariant.
LEMMA StartKeeps ==
    ASSUME Init
    PROVE  IInv
  <1>1. TypeOK
    <2>1. CatalogueTypeOK
      BY DEF Init, CatalogueInit, CatalogueTypeOK, Empty
    <2>2. store \in StoreRows
      BY DEF Init, StoreRows
    <2>3. edits + losses <= MaxFaults /\ restarts \in 0 .. MaxRestarts
      BY NetworksAssumption DEF Init
    <2> QED
      BY <2>1, <2>2, <2>3 DEF Init, TypeOK
  <1>2. CatalogueInv
    <2>1. cache["fields"] = "unknown" /\ \A i \in Item : cache[i] = "unknown"
      BY OrderFacts DEF Init, CatalogueInit, Empty
    <2>2. Honest(objects, cache)
      BY <2>1 DEF Honest
    <2>3. \A i \in Basics : cache[i] # "none"
      BY <2>1, OrderFacts
    <2> QED
      BY <2>2, <2>3 DEF CatalogueInv, Init, CatalogueInit
  <1>3. OwnInv
    BY DEF OwnInv, Init, NoVlan, NoSwitch
  <1>4. StageInv /\ StoreInv
    BY DEF StageInv, StoreInv, Init
  <1> QED
    BY <1>1, <1>2, <1>3, <1>4 DEF IInv

\* The beginning of a cycle keeps it.
LEMMA BeginKeeps ==
    ASSUME IInv, NEW f \in FactSets, NEW lost \in LostOf(Basics), NEW upto \in 0 .. Len(Order),
           NEW storing \in BOOLEAN, Begin(f, lost, upto, storing)
    PROVE  IInv'
  <1> DEFINE y == Bootstrapped(World, lost, upto)
  <1>1. /\ stage = "idle" /\ Becomes(y) /\ dry' = dry
        /\ bootstrapped => lost = {}
        /\ losses' = losses + IF lost = {} THEN 0 ELSE 1
        /\ clean' = (clean /\ lost = {})
        /\ intact' = (lost = {})
        /\ synced' = NoFacts
        /\ edits' = edits /\ restarts' = restarts
        /\ \/ /\ y.bootstrapped
              /\ stage' = "vlans" /\ facts' = f
              /\ stored' = (storing /\ ~dry)
              /\ store' = IF storing /\ ~dry THEN Persisted(f) ELSE store
           \/ UNCHANGED <<stage, facts, stored, store>>
    BY DEF Begin
  <1>2. upto \in 0 .. 7
    BY OrderFacts
  <1>3. World \in Worlds
    BY WorldIsTyped DEF IInv
  <1>4. /\ y \in Worlds /\ Remembers(World, y) /\ y.devices = World.devices
        /\ World.bootstrapped => y = World
        /\ ~World.bootstrapped /\ y.bootstrapped =>
              /\ Tried(y.cache)
              /\ lost = {} /\ ~World.dry => "fields" \in y.objects
        /\ lost = {} /\ ~World.dry /\ (\A i \in Basics : World.cache[i] # "none") =>
              \A i \in Basics : y.cache[i] # "none"
    BY <1>2, <1>3, BootstrappedEffect
  <1> HIDE DEF y
  <1>5. /\ objects' = y.objects /\ cache' = y.cache /\ bootstrapped' = y.bootstrapped
        /\ vlans' = vlans /\ prefixes' = prefixes /\ ranges' = ranges /\ devices' = devices
        /\ objects \subseteq objects'
        /\ Honest(objects, cache) => Honest(objects', cache')
    BY <1>1, <1>4, WorldIs DEF Becomes, Remembers
  <1>6. /\ dry \in BOOLEAN /\ clean \in BOOLEAN /\ store \in StoreRows /\ stored \in BOOLEAN
        /\ facts \in FactSets \cup {NoFacts} /\ restarts \in 0 .. MaxRestarts
    BY DEF IInv, TypeOK, CatalogueTypeOK
  <1>7. f \in Collected
    BY FactsAreCollected DEF IInv
  <1>8. store' = Persisted(f) => store' \in StoreRows /\ StoreHas(f)'
    BY <1>6, <1>7, PersistedRows
  <1>9. TypeOK'
    <2>1. clean' \in BOOLEAN /\ intact' \in BOOLEAN /\ stored' \in BOOLEAN
      BY <1>1, <1>6
    <2>2. /\ CatalogueTypeOK'
          /\ vlans' \in [Vid -> VlanRow \cup {NoVlan}]
          /\ prefixes' \in [Net -> PrefixRow \cup {NoPrefix}]
          /\ ranges' \in [Pool -> RangeRow \cup {NoRange}]
          /\ devices' \in [Host -> SwitchRow \cup {NoSwitch}]
      BY <1>1, <1>4, <1>6, <2>1, BecomesTyped
    <2>3. losses' \in Nat /\ edits' \in Nat /\ edits' + losses' <= MaxFaults
      BY <1>1, LostCounts DEF IInv
    <2>4. store' \in StoreRows
      BY <1>1, <1>6, <1>8
    <2>5. stage' \in {"idle", "vlans"} /\ facts' \in FactSets \cup {NoFacts}
      BY <1>1, <1>6
    <2> QED
      BY <1>1, <1>6, <2>1, <2>2, <2>3, <2>4, <2>5 DEF TypeOK
  <1>10. CatalogueInv'
    <2>1. Honest(objects', cache')
      BY <1>5 DEF IInv, CatalogueInv
    <2>2. bootstrapped' => Tried(cache')
      <3>1. CASE bootstrapped
        <4>1. cache' = cache
          BY <1>4, <1>5, <3>1, WorldIs
        <4> QED
          BY <3>1, <4>1 DEF IInv, CatalogueInv
      <3>2. CASE ~bootstrapped
        BY <1>4, <1>5, <3>2, WorldIs
      <3> QED
        BY <3>1, <3>2
    <2>3. stage' # "idle" => bootstrapped'
      BY <1>1, <1>5
    <2>4. ASSUME clean', ~dry'
          PROVE  /\ \A item \in Basics : cache'[item] # "none"
                 /\ bootstrapped' => "fields" \in objects'
      <3>1. clean /\ lost = {} /\ ~dry
        BY <1>1, <2>4
      <3>2. \A i \in Basics : cache[i] # "none"
        BY <3>1 DEF IInv, CatalogueInv
      <3>3. bootstrapped => "fields" \in objects'
        BY <1>5, <3>1 DEF IInv, CatalogueInv
      <3> QED
        BY <1>4, <1>5, <3>1, <3>2, <3>3, WorldIs
    <2> QED
      BY <2>1, <2>2, <2>3, <2>4 DEF CatalogueInv
  <1>11. OwnInv'
    BY <1>5 DEF IInv, OwnInv
  <1>12. StageInv'
    <2>1. stage' \in {"idle", "vlans"}
      BY <1>1
    <2> QED
      BY <1>1, <2>1 DEF StageInv
  <1>13. StoreInv'
    <2>1. CASE /\ stage' = "vlans" /\ facts' = f
               /\ stored' = (storing /\ ~dry)
               /\ store' = IF storing /\ ~dry THEN Persisted(f) ELSE store
      <3>1. stored' => ~dry' /\ StoreHas(f)'
        BY <1>1, <1>8, <2>1
      <3>2. stored' => StoreHas(facts)'
        BY <2>1, <3>1 DEF StoreHas
      <3> QED
        BY <1>1, <3>1, <3>2 DEF StoreInv
    <2>2. CASE UNCHANGED <<stage, facts, stored, store>>
      BY <1>1, <2>2 DEF StoreInv, IInv
    <2> QED
      BY <1>1, <2>1, <2>2
  <1> QED
    BY <1>9, <1>10, <1>11, <1>12, <1>13 DEF IInv

\* A pass that leaves the client alone leaves the catalogue's invariant alone.
LEMMA PassKeepsCatalogue ==
    ASSUME IInv, NEW y \in Worlds, Becomes(y), SameClient(World, y), stage # "idle",
           dry' = dry, clean' = clean
    PROVE  /\ CatalogueInv'
           /\ objects' = objects /\ cache' = cache /\ bootstrapped' = bootstrapped
           /\ CatalogueTypeOK'
           /\ vlans' \in [Vid -> VlanRow \cup {NoVlan}]
           /\ prefixes' \in [Net -> PrefixRow \cup {NoPrefix}]
           /\ ranges' \in [Pool -> RangeRow \cup {NoRange}]
           /\ devices' \in [Host -> SwitchRow \cup {NoSwitch}]
  <1>1. objects' = objects /\ cache' = cache /\ bootstrapped' = bootstrapped
    BY WorldIs DEF Becomes, SameClient
  <1>2. dry \in BOOLEAN /\ clean' \in BOOLEAN
    BY DEF IInv, TypeOK, CatalogueTypeOK
  <1>3. CatalogueInv'
    BY <1>1 DEF IInv, CatalogueInv
  <1> QED
    BY <1>1, <1>2, <1>3, BecomesTyped

\* The VLAN pass keeps it.
LEMMA VlansKeep ==
    ASSUME IInv, NEW lost \in LostOf(Vid), NEW aborted \in BOOLEAN, SyncVlans(lost, aborted)
    PROVE  IInv'
  <1> DEFINE y == WithVlans(World, facts, lost)
  <1>1. stage = "vlans" /\ Becomes(y) /\ Ends("prefixes", lost, aborted) /\ clean' = clean
    BY DEF SyncVlans
  <1>2. y \in Worlds /\ AfterVlans(World, y, facts, lost)
    BY WorldIsTyped, FactsAreCollected, VlansEffect DEF IInv
  <1>3. EndOf("prefixes", lost)
    BY <1>1, EndsEffect
  <1> HIDE DEF y
  <1>4. /\ CatalogueInv'
        /\ objects' = objects /\ cache' = cache /\ bootstrapped' = bootstrapped
        /\ CatalogueTypeOK'
        /\ vlans' \in [Vid -> VlanRow \cup {NoVlan}]
        /\ prefixes' \in [Net -> PrefixRow \cup {NoPrefix}]
        /\ ranges' \in [Pool -> RangeRow \cup {NoRange}]
        /\ devices' \in [Host -> SwitchRow \cup {NoSwitch}]
    <2>1. SameClient(World, y) /\ dry' = dry
      BY <1>2, <1>3 DEF AfterVlans, EndOf
    <2>2. stage # "idle"
      BY <1>1
    <2> QED
      BY <1>1, <1>2, <2>1, <2>2, PassKeepsCatalogue
  <1>5. /\ vlans' = y.vlans /\ devices' = devices
        /\ \A v \in Vid : vlans'[v].mine => vlans[v].mine \/ cache["site"] = "id"
        /\ lost = {} /\ ~dry /\ cache["site"] = "id" => VlansDone(y, facts)
        /\ y.cache = cache
    BY <1>1, <1>2, WorldIs DEF Becomes, AfterVlans, SameClient, Known
  <1>6. cache["site"] = "id" => "site" \in objects
    BY OrderFacts DEF IInv, CatalogueInv, Honest
  <1>7. "site" \in objects => cache["site"] = "id"
    <2>1. "site" \in Item /\ cache["site"] # "unknown"
      BY <1>1, OrderFacts DEF IInv, CatalogueInv, Tried
    <2>2. cache["site"] \in {"unknown", "none", "id"}
      BY <2>1 DEF IInv, TypeOK, CatalogueTypeOK
    <2>3. cache["site"] = "none" => "site" \notin objects
      BY <2>1 DEF IInv, CatalogueInv, Honest
    <2> QED
      BY <2>1, <2>2, <2>3
  <1>8. TypeOK'
    BY <1>3, <1>4 DEF TypeOK, EndOf
  <1>9. OwnInv'
    BY <1>4, <1>5, <1>6 DEF IInv, OwnInv
  <1>10. StageInv'
    <2>1. synced' = NoFacts /\ stage' \in {"idle", "prefixes"}
      BY <1>3 DEF EndOf
    <2>2. ASSUME intact', ~dry', stage' = "prefixes"
          PROVE  VlansDone(World, facts)'
      <3>1. lost = {} /\ ~dry /\ facts' = facts
        BY <1>3, <2>2 DEF EndOf
      <3>2. CASE cache["site"] = "id"
        <4>1. VlansDone(y, facts)
          BY <1>5, <3>1, <3>2
        <4> QED
          BY <1>4, <1>5, <3>1, <4>1 DEF VlansDone, World, Known
      <3>3. CASE cache["site"] # "id"
        <4>1. \A v \in Vid : ~vlans'[v].mine
          BY <1>5, <1>7, <3>3 DEF IInv, OwnInv
        <4> QED
          BY <1>4, <3>3, <4>1 DEF VlansDone, World, Known
      <3> QED
        BY <3>2, <3>3
    <2> QED
      BY <2>1, <2>2 DEF StageInv
  <1> QED
    BY <1>3, <1>4, <1>8, <1>9, <1>10 DEF IInv, EndOf

\* The prefix pass keeps it.
LEMMA PrefixesKeep ==
    ASSUME IInv, NEW lost \in LostOf(Vid \cup Net), NEW aborted \in BOOLEAN,
           SyncPrefixes(lost, aborted)
    PROVE  IInv'
  <1> DEFINE y == WithPrefixes(World, facts, lost)
  <1>1. stage = "prefixes" /\ Becomes(y) /\ Ends("pools", lost, aborted) /\ clean' = clean
    BY DEF SyncPrefixes
  <1>2. y \in Worlds /\ AfterPrefixes(World, y, facts, Heads(facts), lost)
    BY WorldIsTyped, FactsAreCollected, PrefixesEffect DEF IInv
  <1>3. EndOf("pools", lost)
    BY <1>1, EndsEffect
  <1> HIDE DEF y
  <1>4. /\ CatalogueInv'
        /\ objects' = objects /\ cache' = cache /\ bootstrapped' = bootstrapped
        /\ CatalogueTypeOK'
        /\ vlans' \in [Vid -> VlanRow \cup {NoVlan}]
        /\ prefixes' \in [Net -> PrefixRow \cup {NoPrefix}]
        /\ ranges' \in [Pool -> RangeRow \cup {NoRange}]
        /\ devices' \in [Host -> SwitchRow \cup {NoSwitch}]
    <2>1. SameClient(World, y) /\ dry' = dry
      BY <1>2, <1>3 DEF AfterPrefixes, EndOf
    <2>2. stage # "idle"
      BY <1>1
    <2> QED
      BY <1>1, <1>2, <2>1, <2>2, PassKeepsCatalogue
  <1>5. /\ prefixes' = y.prefixes /\ devices' = devices
        /\ \A v \in Vid : vlans'[v] # vlans[v] => vlans[v] = NoVlan /\ cache["site"] = "id"
    BY <1>1, <1>2, WorldIs DEF Becomes, AfterPrefixes, Known
  <1>6. lost = {} /\ ~dry => PrefixesDone(y, facts)
    <2>1. facts \in Collected
      BY FactsAreCollected DEF IInv
    <2> QED
      BY <1>2, <2>1, HeadsCover, WorldIs DEF AfterPrefixes
  <1>7. cache["site"] = "id" => "site" \in objects
    BY OrderFacts DEF IInv, CatalogueInv, Honest
  <1>8. TypeOK'
    BY <1>3, <1>4 DEF TypeOK, EndOf
  <1>9. OwnInv'
    <2>1. \A v \in Vid : vlans'[v].mine => "site" \in objects'
      BY <1>4, <1>5, <1>7 DEF IInv, OwnInv
    <2> QED
      BY <1>5, <2>1 DEF IInv, OwnInv
  <1>10. StageInv'
    <2>1. synced' = NoFacts /\ stage' \in {"idle", "pools"}
      BY <1>3 DEF EndOf
    <2>2. ASSUME intact', ~dry', stage' = "pools"
          PROVE  VlansDone(World, facts)' /\ PrefixesDone(World, facts)'
      <3>1. lost = {} /\ ~dry /\ facts' = facts /\ intact
        BY <1>3, <2>2 DEF EndOf
      <3>2. VlansDone(World, facts)
        BY <1>1, <3>1 DEF IInv, StageInv
      <3>3. \A v \in Vid : Named(facts, v) # {} => vlans'[v] = vlans[v]
        BY <1>5, <3>2 DEF VlansDone, World, Known
      <3>4. VlansDone(World, facts)'
        BY <1>4, <3>1, <3>2, <3>3 DEF VlansDone, World, Known
      <3>5. PrefixesDone(World, facts)'
        BY <1>5, <1>6, <3>1 DEF PrefixesDone, World
      <3> QED
        BY <3>4, <3>5
    <2> QED
      BY <2>1, <2>2 DEF StageInv
  <1> QED
    BY <1>3, <1>4, <1>8, <1>9, <1>10 DEF IInv, EndOf

\* The range pass keeps it.
LEMMA PoolsKeep ==
    ASSUME IInv, NEW lost \in LostOf(Pool), NEW aborted \in BOOLEAN, SyncDhcpPools(lost, aborted)
    PROVE  IInv'
  <1> DEFINE y == WithPools(World, facts, lost)
  <1>1. stage = "pools" /\ Becomes(y) /\ Ends("devices", lost, aborted) /\ clean' = clean
    BY DEF SyncDhcpPools
  <1>2. y \in Worlds /\ AfterPools(World, y, facts, DOMAIN facts.pools, lost)
    BY WorldIsTyped, FactsAreCollected, PoolsEffect DEF IInv
  <1>3. EndOf("devices", lost)
    BY <1>1, EndsEffect
  <1> HIDE DEF y
  <1>4. /\ CatalogueInv'
        /\ objects' = objects /\ cache' = cache /\ bootstrapped' = bootstrapped
        /\ CatalogueTypeOK'
        /\ vlans' \in [Vid -> VlanRow \cup {NoVlan}]
        /\ prefixes' \in [Net -> PrefixRow \cup {NoPrefix}]
        /\ ranges' \in [Pool -> RangeRow \cup {NoRange}]
        /\ devices' \in [Host -> SwitchRow \cup {NoSwitch}]
    <2>1. SameClient(World, y) /\ dry' = dry
      BY <1>2, <1>3 DEF AfterPools, EndOf
    <2>2. stage # "idle"
      BY <1>1
    <2> QED
      BY <1>1, <1>2, <2>1, <2>2, PassKeepsCatalogue
  <1>5. vlans' = vlans /\ prefixes' = prefixes /\ devices' = devices /\ ranges' = y.ranges
    BY <1>1, <1>2, WorldIs DEF Becomes, AfterPools
  <1>6. lost = {} /\ ~dry => PoolsDone(y, facts)
    <2>1. facts \in Collected
      BY FactsAreCollected DEF IInv
    <2> QED
      BY <1>2, <2>1, PoolsCover, WorldIs DEF AfterPools
  <1>7. TypeOK'
    BY <1>3, <1>4 DEF TypeOK, EndOf
  <1>8. OwnInv'
    BY <1>4, <1>5 DEF IInv, OwnInv
  <1>9. StageInv'
    <2>1. synced' = NoFacts /\ stage' \in {"idle", "devices"}
      BY <1>3 DEF EndOf
    <2>2. ASSUME intact', ~dry', stage' = "devices"
          PROVE  VlansDone(World, facts)' /\ PrefixesDone(World, facts)' /\ PoolsDone(World, facts)'
      <3>1. lost = {} /\ ~dry /\ facts' = facts /\ intact
        BY <1>3, <2>2 DEF EndOf
      <3>2. VlansDone(World, facts) /\ PrefixesDone(World, facts)
        BY <1>1, <3>1 DEF IInv, StageInv
      <3>3. VlansDone(World, facts)'
        BY <1>4, <1>5, <3>1, <3>2 DEF VlansDone, World, Known
      <3>4. PrefixesDone(World, facts)'
        BY <1>5, <3>1, <3>2 DEF PrefixesDone, World
      <3>5. PoolsDone(World, facts)'
        BY <1>5, <1>6, <3>1 DEF PoolsDone, World
      <3> QED
        BY <3>3, <3>4, <3>5
    <2> QED
      BY <2>1, <2>2 DEF StageInv
  <1> QED
    BY <1>3, <1>4, <1>7, <1>8, <1>9 DEF IInv, EndOf

\* The device pass keeps it.
LEMMA DevicesKeep ==
    ASSUME IInv, NEW lost \in LostOf(Host \cup Model), NEW aborted \in BOOLEAN,
           SyncInfrastructure(lost, aborted)
    PROVE  IInv'
  <1> DEFINE y == WithDevices(World, facts, lost)
  <1>1. /\ stage = "devices" /\ Becomes(y) /\ Ends("idle", lost, aborted)
        /\ clean' = (clean /\ lost \cap Model = {})
    BY DEF SyncInfrastructure
  <1>2. y \in Worlds /\ AfterDevices(World, y, facts, DOMAIN facts.switches, lost)
    BY WorldIsTyped, FactsAreCollected, DevicesEffect DEF IInv
  <1>3. EndOf("idle", lost)
    BY <1>1, EndsEffect
  <1> HIDE DEF y
  <1>4. /\ objects' = y.objects /\ cache' = y.cache /\ bootstrapped' = bootstrapped
        /\ vlans' = vlans /\ prefixes' = prefixes /\ ranges' = ranges /\ devices' = y.devices
        /\ objects \subseteq objects'
        /\ Honest(objects, cache) => Honest(objects', cache')
        /\ \A i \in Basics : cache'[i] = cache[i]
        /\ \A h \in Host : devices'[h] = devices[h] \/ devices'[h].source = "snmp"
        /\ stage' = "idle" /\ dry' = dry
    BY <1>1, <1>2, <1>3, WorldIs DEF Becomes, AfterDevices, Remembers, EndOf
  <1>5. TypeOK'
    <2>1. dry \in BOOLEAN /\ clean' \in BOOLEAN
      BY <1>1 DEF IInv, TypeOK, CatalogueTypeOK
    <2>2. /\ CatalogueTypeOK'
          /\ vlans' \in [Vid -> VlanRow \cup {NoVlan}]
          /\ prefixes' \in [Net -> PrefixRow \cup {NoPrefix}]
          /\ ranges' \in [Pool -> RangeRow \cup {NoRange}]
          /\ devices' \in [Host -> SwitchRow \cup {NoSwitch}]
      BY <1>1, <1>2, <1>4, <2>1, BecomesTyped
    <2> QED
      BY <1>3, <2>2 DEF TypeOK, EndOf
  <1>6. CatalogueInv'
    <2>1. Honest(objects', cache')
      BY <1>4 DEF IInv, CatalogueInv
    <2>2. bootstrapped /\ Tried(cache)
      BY <1>1 DEF IInv, CatalogueInv
    <2>3. Tried(cache')
      BY <1>4, <2>2, OrderFacts DEF Tried
    <2>4. ASSUME clean', ~dry'
          PROVE  (\A item \in Basics : cache'[item] # "none") /\ "fields" \in objects'
      BY <1>1, <1>4, <2>2, <2>4 DEF IInv, CatalogueInv
    <2> QED
      BY <1>4, <2>1, <2>2, <2>3, <2>4 DEF CatalogueInv
  <1>7. OwnInv'
    BY <1>4 DEF IInv, OwnInv
  <1>8. StageInv'
    <2>1. bootstrapped
      BY <1>1 DEF IInv, CatalogueInv
    <2>2. ASSUME synced' # NoFacts, ~dry'
          PROVE  /\ VlansDone(World, synced)' /\ PrefixesDone(World, synced)'
                 /\ PoolsDone(World, synced)' /\ DevicesDone(World, synced)'
      <3>1. lost = {} /\ ~dry /\ synced' = facts /\ intact
        BY <1>3, <1>4, <2>2 DEF EndOf
      <3>2. VlansDone(World, facts) /\ PrefixesDone(World, facts) /\ PoolsDone(World, facts)
        BY <1>1, <3>1 DEF IInv, StageInv
      <3>3. cache'["site"] = cache["site"]
        BY <1>4, OrderFacts
      <3>4. VlansDone(World, synced)'
        BY <1>4, <3>1, <3>2, <3>3 DEF VlansDone, World, Known
      <3>5. PrefixesDone(World, synced)'
        BY <1>4, <3>1, <3>2 DEF PrefixesDone, World
      <3>6. PoolsDone(World, synced)'
        BY <1>4, <3>1, <3>2 DEF PoolsDone, World
      <3>7. \A k \in DOMAIN facts.switches : DeviceDone(y, facts, k)
        <4>1. Owned(World)
          BY WorldIs DEF IInv, OwnInv, Owned
        <4> QED
          BY <1>2, <3>1, <4>1, WorldIs DEF AfterDevices
      <3>8. DevicesDone(World, synced)'
        BY <1>4, <3>1, <3>7 DEF DevicesDone, DeviceDone, World, Ready, TypeFor, Known
      <3> QED
        BY <3>4, <3>5, <3>6, <3>8
    <2> QED
      BY <1>3, <1>4, <2>1, <2>2 DEF StageInv, EndOf
  <1> QED
    BY <1>3, <1>5, <1>6, <1>7, <1>8 DEF IInv, EndOf

\* A new process remembers nothing, so nothing false.
LEMMA RestartKeeps ==
    ASSUME IInv, NEW mode \in BOOLEAN, Restart(mode)
    PROVE  IInv'
  <1>1. /\ restarts < MaxRestarts /\ restarts' = restarts + 1
        /\ cache' = Empty /\ bootstrapped' = FALSE /\ dry' = mode /\ clean' = TRUE
        /\ stage' = "idle" /\ facts' = NoFacts /\ stored' = FALSE /\ intact' = TRUE
        /\ synced' = NoFacts
        /\ objects' = objects /\ vlans' = vlans /\ prefixes' = prefixes /\ ranges' = ranges
        /\ devices' = devices /\ store' = store /\ edits' = edits /\ losses' = losses
    BY DEF Restart, netbox
  <1>2. TypeOK'
    <2>1. CatalogueTypeOK'
      BY <1>1 DEF IInv, TypeOK, CatalogueTypeOK, Empty
    <2>2. restarts' \in 0 .. MaxRestarts
      BY <1>1, NetworksAssumption DEF IInv, TypeOK
    <2> QED
      BY <1>1, <2>1, <2>2 DEF IInv, TypeOK
  <1>3. CatalogueInv'
    <2>1. \A i \in Item : cache'[i] = "unknown"
      BY <1>1 DEF Empty
    <2>2. Honest(objects', cache') /\ \A i \in Basics : cache'[i] # "none"
      BY <2>1, OrderFacts DEF Honest
    <2> QED
      BY <1>1, <2>2 DEF CatalogueInv
  <1>4. OwnInv'
    BY <1>1 DEF IInv, OwnInv
  <1>5. StageInv' /\ StoreInv'
    BY <1>1 DEF StageInv, StoreInv
  <1> QED
    BY <1>2, <1>3, <1>4, <1>5 DEF IInv

\* An edit breaks off what an intact cycle promises, and makes no record the scanner's.
LEMMA EditKeeps ==
    ASSUME IInv, Edit,
           vlans' \in [Vid -> VlanRow \cup {NoVlan}], prefixes' \in [Net -> PrefixRow \cup {NoPrefix}],
           ranges' \in [Pool -> RangeRow \cup {NoRange}],
           devices' \in [Host -> SwitchRow \cup {NoSwitch}],
           \A v \in Vid : vlans'[v].mine => vlans[v].mine,
           \A h \in Host : devices'[h] = devices[h] \/ devices'[h].type = "human"
    PROVE  IInv'
  <1>1. /\ edits + losses < MaxFaults /\ edits' = edits + 1
        /\ intact' = FALSE /\ synced' = NoFacts
        /\ objects' = objects /\ cache' = cache /\ bootstrapped' = bootstrapped /\ dry' = dry
        /\ clean' = clean /\ store' = store /\ stage' = stage /\ facts' = facts
        /\ stored' = stored /\ losses' = losses /\ restarts' = restarts
    BY DEF Edit, clientVars
  <1>2. TypeOK'
    <2>1. edits' \in Nat /\ losses' \in Nat /\ edits' + losses' <= MaxFaults
      BY <1>1, NetworksAssumption DEF IInv, TypeOK
    <2>2. CatalogueTypeOK'
      BY <1>1 DEF IInv, TypeOK, CatalogueTypeOK
    <2> QED
      BY <1>1, <2>1, <2>2 DEF IInv, TypeOK
  <1>3. CatalogueInv'
    BY <1>1 DEF IInv, CatalogueInv
  <1>4. OwnInv'
    BY <1>1 DEF IInv, OwnInv
  <1>5. StageInv'
    BY <1>1 DEF StageInv
  <1>6. StoreInv'
    BY <1>1 DEF IInv, StoreInv, StoreHas
  <1> QED
    BY <1>2, <1>3, <1>4, <1>5, <1>6 DEF IInv

\* Whatever people edit, the invariant holds.
LEMMA PeopleKeep ==
    ASSUME IInv, People
    PROVE  IInv'
  <1>1. /\ vlans \in [Vid -> VlanRow \cup {NoVlan}]
        /\ prefixes \in [Net -> PrefixRow \cup {NoPrefix}]
        /\ ranges \in [Pool -> RangeRow \cup {NoRange}]
        /\ devices \in [Host -> SwitchRow \cup {NoSwitch}]
    BY DEF IInv, TypeOK
  <1>2. ASSUME NEW v \in Vid, EditVlan(v)
        PROVE  IInv'
    <2> DEFINE row == [name |-> IF vlans[v] = NoVlan THEN Hand ELSE vlans[v].name, mine |-> FALSE]
    <2>1. /\ Edit /\ vlans' = [vlans EXCEPT ![v] = row]
          /\ prefixes' = prefixes /\ ranges' = ranges /\ devices' = devices
      BY <1>2 DEF EditVlan
    <2>2. row \in VlanRow /\ row.mine = FALSE
      BY <1>1, <1>2 DEF VlanRow
    <2> HIDE DEF row
    <2>3. vlans' \in [Vid -> VlanRow \cup {NoVlan}] /\ \A u \in Vid : vlans'[u].mine => vlans[u].mine
      BY <1>1, <2>1, <2>2
    <2> QED
      BY <1>1, <2>1, <2>3, EditKeeps
  <1>3. ASSUME NEW n \in Net, EditPrefix(n)
        PROVE  IInv'
    <2> DEFINE row == IF prefixes[n] = NoPrefix THEN [from |-> Hand, vid |-> NoVid, mine |-> FALSE]
                      ELSE [prefixes[n] EXCEPT !.mine = FALSE]
    <2>1. /\ Edit /\ prefixes' = [prefixes EXCEPT ![n] = row]
          /\ vlans' = vlans /\ ranges' = ranges /\ devices' = devices
      BY <1>3 DEF EditPrefix
    <2>2. row \in PrefixRow
      BY <1>1, <1>3 DEF PrefixRow
    <2> HIDE DEF row
    <2>3. prefixes' \in [Net -> PrefixRow \cup {NoPrefix}]
      BY <1>1, <2>1, <2>2
    <2> QED
      BY <1>1, <2>1, <2>3, EditKeeps
  <1>4. ASSUME NEW p \in Pool, EditRange(p)
        PROVE  IInv'
    <2> DEFINE row == [label |-> IF ranges[p] = NoRange THEN Hand ELSE ranges[p].label, mine |-> FALSE]
    <2>1. /\ Edit /\ ranges' = [ranges EXCEPT ![p] = row]
          /\ vlans' = vlans /\ prefixes' = prefixes /\ devices' = devices
      BY <1>4 DEF EditRange
    <2>2. row \in RangeRow
      BY <1>1, <1>4 DEF RangeRow
    <2> HIDE DEF row
    <2>3. ranges' \in [Pool -> RangeRow \cup {NoRange}]
      BY <1>1, <2>1, <2>2
    <2> QED
      BY <1>1, <2>1, <2>3, EditKeeps
  <1>5. ASSUME NEW h \in Host, EditDevice(h)
        PROVE  IInv'
    <2> DEFINE row == IF devices[h] = NoSwitch THEN [type |-> "human", source |-> ""]
                      ELSE [devices[h] EXCEPT !.type = "human"]
    <2>1. /\ Edit /\ devices' = [devices EXCEPT ![h] = row]
          /\ vlans' = vlans /\ prefixes' = prefixes /\ ranges' = ranges
      BY <1>5 DEF EditDevice
    <2>2. row \in SwitchRow /\ row.type = "human"
      BY <1>1, <1>5 DEF SwitchRow
    <2> HIDE DEF row
    <2>3. /\ devices' \in [Host -> SwitchRow \cup {NoSwitch}]
          /\ \A g \in Host : devices'[g] = devices[g] \/ devices'[g].type = "human"
      BY <1>1, <2>1, <2>2
    <2> QED
      BY <1>1, <2>1, <2>3, EditKeeps
  <1> QED
    BY <1>2, <1>3, <1>4, <1>5 DEF People

\* So it does when nothing happens.
LEMMA StutterKeeps ==
    ASSUME IInv, UNCHANGED vars
    PROVE  IInv'
  <1>1. /\ objects' = objects /\ cache' = cache /\ bootstrapped' = bootstrapped /\ dry' = dry
        /\ clean' = clean /\ vlans' = vlans /\ prefixes' = prefixes /\ ranges' = ranges
        /\ devices' = devices /\ store' = store /\ stage' = stage /\ facts' = facts
        /\ stored' = stored /\ intact' = intact /\ synced' = synced /\ edits' = edits
        /\ losses' = losses /\ restarts' = restarts
    BY DEF vars, clientVars, counters
  <1>2. TypeOK'
    BY <1>1 DEF IInv, TypeOK, CatalogueTypeOK
  <1>3. CatalogueInv' /\ OwnInv'
    BY <1>1 DEF IInv, CatalogueInv, OwnInv
  <1>4. World' = World
    BY <1>1 DEF World
  <1>5. StageInv'
    BY <1>1, <1>4 DEF IInv, StageInv, VlansDone, PrefixesDone, PoolsDone, DevicesDone
  <1>6. StoreInv'
    BY <1>1 DEF IInv, StoreInv, StoreHas
  <1> QED
    BY <1>2, <1>3, <1>5, <1>6 DEF IInv

\* Every step keeps it.
LEMMA StepKeeps ==
    ASSUME IInv, [Next]_vars
    PROVE  IInv'
  <1>1. CASE Starts
    BY <1>1, BeginKeeps DEF Starts
  <1>2. CASE Syncs
    BY <1>2, VlansKeep, PrefixesKeep, PoolsKeep, DevicesKeep DEF Syncs
  <1>3. CASE People
    BY <1>3, PeopleKeep
  <1>4. CASE \E mode \in BOOLEAN : Restart(mode)
    BY <1>4, RestartKeeps
  <1>5. CASE UNCHANGED vars
    BY <1>5, StutterKeeps
  <1> QED
    BY <1>1, <1>2, <1>3, <1>4, <1>5 DEF Next

-----------------------------------------------------------------------------
(* The theorems.                                                            *)

\* Every reachable state satisfies the inductive invariant: what is remembered of the
\* catalogue is true (_ensure), and each pass of an intact cycle leaves behind what the
\* later passes and the next cycle compare with (sync_vlans, sync_prefixes,
\* sync_dhcp_pools, sync_infrastructure).
THEOREM Invariant == Spec => []IInv
  <1>1. Init => IInv
    BY StartKeeps
  <1>2. IInv /\ [Next]_vars => IInv'
    BY StepKeeps
  <1> QED
    BY <1>1, <1>2, PTL DEF Spec

\* The records, the rows and the memory of the client stay well-formed, whatever is
\* lost, edited or restarted.
THEOREM TypeCorrect == Spec => []TypeOK
  <1>1. IInv => TypeOK
    BY DEF IInv
  <1> QED
    BY <1>1, Invariant, PTL

\* A VLAN of the scanner's that a switch names carries the first switch's name once an
\* intact cycle has made its VLAN and prefix passes (sync_vlans, _ensure_vlan).
THEOREM VlansCarryTheirNames == Spec => []SwitchNamesVlan
  <1>1. IInv => SwitchNamesVlan
    <2> SUFFICES ASSUME IInv, stage \in {"pools", "devices"}, intact, ~dry,
                        NEW v \in Vid, Named(facts, v) # {}, vlans[v].mine
                 PROVE  vlans[v].name = FirstName(facts, v)
      BY DEF SwitchNamesVlan
    <2>1. VlansDone(World, facts)
      BY DEF IInv, StageInv
    <2> QED
      BY <2>1, WorldIs DEF VlansDone
  <1> QED
    BY <1>1, Invariant, PTL

\* Finitely many places report finitely many values.
LEMMA ImageIsFinite ==
    ASSUME NEW S, IsFiniteSet(S), NEW g
    PROVE  IsFiniteSet({g[k] : k \in S})
  <1> DEFINE h == [k \in S |-> g[k]]
             T == {g[k] : k \in S}
  <1>1. h \in Surjection(S, T)
    BY DEF Surjection
  <1> HIDE DEF h, T
  <1>2. IsFiniteSet(T)
    BY <1>1, FS_Surjection
  <1> QED
    BY <1>2 DEF T

\* After an intact cycle that wrote the store, the store and NetBox tell the same of a
\* network, and of a VLAN or a range on which the reports agree, though the one takes
\* the last report and the other the first, or the one that is not rejected
\* (_persist_vlans, _persist_prefixes and _persist_pools beside sync_vlans,
\* sync_prefixes and sync_dhcp_pools).
THEOREM BothSidesAgree == Spec => []StoreAgrees
  <1>1. IInv => StoreAgrees
    <2> SUFFICES ASSUME IInv, synced # NoFacts, stored
                 PROVE  /\ \A n \in Net : OnNet(synced, n) # {} /\ prefixes[n].mine =>
                               prefixes[n].from = store.prefixes[n]
                        /\ \A v \in Vid : vlans[v].mine
                                /\ Cardinality({synced.switches[k].names[v] : k \in Named(synced, v)}) = 1 =>
                               vlans[v].name = store.vlans[v]
                        /\ \A p \in Pool : ranges[p].mine
                                /\ Cardinality({synced.pools[k].label : k \in OfPool(synced, p)}) = 1 =>
                               ranges[p].label = store.pools[p]
      BY DEF StoreAgrees
    <2>1. ~dry /\ StoreHas(synced)
      BY DEF IInv, StoreInv
    <2>2. VlansDone(World, synced) /\ PrefixesDone(World, synced) /\ PoolsDone(World, synced)
      BY <2>1 DEF IInv, StageInv
    <2>3. synced \in Collected
      BY FactsAreCollected DEF IInv
    <2>4. ASSUME NEW n \in Net, OnNet(synced, n) # {}, prefixes[n].mine
          PROVE  prefixes[n].from = store.prefixes[n]
      BY <2>1, <2>2, <2>4, WorldIs DEF StoreHas, PrefixesDone
    <2>5. ASSUME NEW v \in Vid, vlans[v].mine,
                 Cardinality({synced.switches[k].names[v] : k \in Named(synced, v)}) = 1
          PROVE  vlans[v].name = store.vlans[v]
      <3> DEFINE names == {synced.switches[k].names[v] : k \in Named(synced, v)}
      <3>1. IsFiniteSet(names)
        <4>1. IsFiniteSet(Named(synced, v))
          BY <2>3, CollectedFacts, FS_Subset DEF Named
        <4> DEFINE g == [k \in Named(synced, v) |-> synced.switches[k].names[v]]
        <4>2. IsFiniteSet({g[k] : k \in Named(synced, v)})
          <5> HIDE DEF g
          <5> QED
            BY <4>1, ImageIsFinite
        <4>3. names = {g[k] : k \in Named(synced, v)}
          OBVIOUS
        <4> QED
          BY <4>2, <4>3
      <3>2. PICK x : names = {x}
        <4> HIDE DEF names
        <4>1. Cardinality(names) = 1
          BY <2>5 DEF names
        <4> QED
          BY <3>1, <4>1, FS_Singleton
      <3>3. Named(synced, v) # {}
        BY <3>2
      <3>4. FirstName(synced, v) \in names /\ store.vlans[v] \in names
        BY <2>1, <2>3, <3>3, PlacesAreTyped DEF FirstName, StoreHas
      <3>5. vlans[v].name = FirstName(synced, v)
        BY <2>2, <2>5, <3>3, WorldIs DEF VlansDone
      <3> HIDE DEF names
      <3> QED
        BY <3>2, <3>4, <3>5
    <2>6. ASSUME NEW p \in Pool, ranges[p].mine,
                 Cardinality({synced.pools[k].label : k \in OfPool(synced, p)}) = 1
          PROVE  ranges[p].label = store.pools[p]
      <3> DEFINE labels == {synced.pools[k].label : k \in OfPool(synced, p)}
      <3>1. IsFiniteSet(labels)
        <4>1. IsFiniteSet(OfPool(synced, p))
          BY <2>3, CollectedFacts, FS_Subset DEF OfPool
        <4> DEFINE g == [k \in OfPool(synced, p) |-> synced.pools[k].label]
        <4>2. IsFiniteSet({g[k] : k \in OfPool(synced, p)})
          <5> HIDE DEF g
          <5> QED
            BY <4>1, ImageIsFinite
        <4>3. labels = {g[k] : k \in OfPool(synced, p)}
          OBVIOUS
        <4> QED
          BY <4>2, <4>3
      <3>2. PICK x : labels = {x}
        <4> HIDE DEF labels
        <4>1. Cardinality(labels) = 1
          BY <2>6 DEF labels
        <4> QED
          BY <3>1, <4>1, FS_Singleton
      <3>3. OfPool(synced, p) # {}
        BY <3>2
      <3>4. store.pools[p] \in labels
        BY <2>1, <2>3, <3>3, PlacesAreTyped DEF StoreHas
      <3>5. ranges[p].label \in labels
        BY <2>2, <2>6, <3>3, WorldIs DEF PoolsDone
      <3> HIDE DEF labels
      <3> QED
        BY <3>2, <3>4, <3>5
    <2> QED
      BY <2>4, <2>5, <2>6
  <1> QED
    BY <1>1, Invariant, PTL

\* A process that lost no create has the whole catalogue after its bootstrap, and its
\* intact cycles record everything, whatever earlier processes lost (bootstrap, _ensure).
THEOREM CatalogueIsRepaired == Spec => []RestartRepairs
  <1>1. IInv => RestartRepairs
    <2> SUFFICES ASSUME IInv, clean, bootstrapped, ~dry
                 PROVE  /\ Basics \subseteq objects
                        /\ \A item \in Basics \ {"fields"} : cache[item] = "id"
                        /\ Recorded(synced)
      BY DEF RestartRepairs
    <2>1. /\ Honest(objects, cache) /\ Tried(cache)
          /\ \A item \in Basics : cache[item] # "none"
          /\ "fields" \in objects
      BY DEF IInv, CatalogueInv
    <2>2. \A item \in Basics : item \in Item /\ cache[item] \in {"unknown", "none", "id"}
      BY OrderFacts DEF IInv, TypeOK, CatalogueTypeOK
    <2>3. /\ cache["tag"] = "id" /\ cache["site"] = "id" /\ cache["role"] = "id"
          /\ cache["maker"] = "id" /\ cache["type"] = "id" /\ cache["pool"] = "id"
      <3>1. /\ cache["tag"] = "id" /\ cache["site"] = "id" /\ cache["role"] = "id"
            /\ cache["maker"] = "id" /\ cache["pool"] = "id"
        BY <2>1, <2>2, OrderFacts DEF Tried
      <3> QED
        BY <2>1, <2>2, <3>1, OrderFacts DEF Tried
    <2>4. \A item \in Basics \ {"fields"} : cache[item] = "id"
      BY <2>3, OrderFacts
    <2>5. Basics \subseteq objects
      BY <2>1, <2>2, <2>4 DEF Honest
    <2>6. Recorded(synced)
      <3>1. CASE synced = NoFacts
        BY <3>1 DEF Recorded, NoFacts, Named, OnNet, OfPool
      <3>2. CASE synced # NoFacts
        <4>1. /\ VlansDone(World, synced) /\ PrefixesDone(World, synced)
              /\ PoolsDone(World, synced) /\ DevicesDone(World, synced)
          BY <3>2 DEF IInv, StageInv
        <4>2. ASSUME NEW i \in DOMAIN synced.switches
              PROVE  devices[synced.switches[i].host] # NoSwitch
          <5>1. Ready(World)
            BY <2>1, <2>3, WorldIs DEF Ready, Known
          <5>2. TypeFor(World, synced.switches[i]) # NoModel
            <6>1. NoModel # "placeholder"
              BY NetworksAssumption
            <6> QED
              BY <2>3, <6>1, WorldIs DEF TypeFor, Known
          <5> QED
            BY <4>1, <5>1, <5>2, WorldIs DEF DevicesDone, DeviceDone
        <4> QED
          BY <2>3, <4>1, <4>2, WorldIs
          DEF Recorded, VlansDone, PrefixesDone, PoolsDone, Known
      <3> QED
        BY <3>1, <3>2
    <2> QED
      BY <2>4, <2>5, <2>6
  <1> QED
    BY <1>1, Invariant, PTL

\* Synchronising once more what an intact cycle has synchronised writes nothing, in a dry
\* run because nothing is ever written, and otherwise because each pass finds what it
\* compares with as it left it (apply_changes).
THEOREM NothingIsWrittenTwice == Spec => []SecondPassIsQuiet
  <1>1. IInv => SecondPassIsQuiet
    <2> SUFFICES ASSUME IInv, synced # NoFacts, Steady(synced)
                 PROVE  ~Pass(World, synced).wrote
      BY DEF SecondPassIsQuiet
    <2> DEFINE a == WithVlans(World, synced, {})
               b == WithPrefixes(a, synced, {})
               c == WithPools(b, synced, {})
               d == WithDevices(c, synced, {})
    <2>1. World \in Worlds /\ synced \in Collected
      BY WorldIsTyped, FactsAreCollected DEF IInv
    <2>2. ~dry => /\ VlansDone(World, synced) /\ PrefixesDone(World, synced)
                  /\ PoolsDone(World, synced) /\ DevicesDone(World, synced)
      BY DEF IInv, StageInv
    <2>3. a = World
      <3>1. AfterVlans(World, a, synced, {})
        BY <2>1, VlansEffect
      <3> HIDE DEF a
      <3> QED
        BY <2>2, <3>1, WorldIs DEF AfterVlans
    <2>4. b = World
      <3>1. b = WithPrefixes(World, synced, {})
        BY <2>3
      <3> HIDE DEF b
      <3>2. AfterPrefixes(World, b, synced, Heads(synced), {})
        BY <2>1, <3>1, PrefixesEffect
      <3>3. ~dry => \A k \in Heads(synced) : PrefixDone(World, synced.ifaces[k])
        BY <2>1, <2>2, HeadsCover
      <3> QED
        BY <3>2, <3>3, WorldIs DEF AfterPrefixes
    <2>5. c = World
      <3>1. c = WithPools(World, synced, {})
        BY <2>4
      <3> HIDE DEF c
      <3>2. AfterPools(World, c, synced, DOMAIN synced.pools, {})
        BY <2>1, <3>1, PoolsEffect
      <3>3. ~dry => \A k \in DOMAIN synced.pools : RangeSays(World, synced.pools[k])
        BY <2>1, <2>2, PoolsCover DEF Steady
      <3> QED
        BY <3>2, <3>3, WorldIs DEF AfterPools
    <2>6. d.wrote = World.wrote
      <3>1. d = WithDevices(World, synced, {})
        BY <2>5
      <3> HIDE DEF d
      <3>2. AfterDevices(World, d, synced, DOMAIN synced.switches, {})
        BY <2>1, <3>1, DevicesEffect
      <3>3. dry => d.wrote = World.wrote
        BY <3>2, WorldIs DEF AfterDevices, Remembers
      <3>4. ~dry => \A k \in DOMAIN synced.switches :
               /\ synced.switches[k].model # NoModel =>
                     World.cache[synced.switches[k].model] # "unknown"
               /\ DeviceSays(World, synced.switches[k])
        <4>1. World.devices \in [Host -> SwitchRow \cup {NoSwitch}]
          BY <2>1 DEF Worlds
        <4>2. /\ \A h \in Host : Single(synced, h)
              /\ \A i \in DOMAIN synced.switches :
                    World.devices[synced.switches[i].host].type # "human"
          BY WorldIs DEF Steady
        <4> QED
          BY <2>1, <2>2, <4>1, <4>2, DevicesCover
      <3>5. ~dry => d = World
        BY <3>2, <3>4 DEF AfterDevices
      <3> QED
        BY <3>3, <3>5
    <2>7. Pass(World, synced) = d
      BY DEF Pass
    <2> HIDE DEF d
    <2> QED
      BY <2>6, <2>7, WorldIs
  <1> QED
    BY <1>1, Invariant, PTL

\* What a step that is nobody's edit may do to what is not the scanner's.
OwnWrites ==
    edits' = edits =>
        /\ dry => UNCHANGED <<netbox, store>>
        /\ \A v \in Vid : vlans[v] # NoVlan /\ ~vlans[v].mine => vlans'[v] = vlans[v]
        /\ \A n \in Net : prefixes[n] # NoPrefix /\ ~prefixes[n].mine => prefixes'[n] = prefixes[n]
        /\ \A p \in Pool : ranges[p] # NoRange /\ ~ranges[p].mine => ranges'[p] = ranges[p]
        /\ \A h \in Host : devices[h] = [type |-> "human", source |-> ""] /\ Single(facts, h) =>
               devices'[h].type = "human"

\* No step writes what the scanner does not own.
LEMMA StepOwns ==
    ASSUME IInv, Next
    PROVE  OwnWrites
  <1>1. World \in Worlds /\ facts \in Collected
    BY WorldIsTyped, FactsAreCollected DEF IInv
  <1>2. \A h \in Host : devices[h] = [type |-> "human", source |-> ""] => devices[h].type = "human"
    BY HumanRow
  <1>3. ASSUME NEW f \in FactSets, NEW lost, NEW upto \in 0 .. Len(Order), NEW storing \in BOOLEAN,
               Begin(f, lost, upto, storing)
        PROVE  OwnWrites
    <2> DEFINE y == Bootstrapped(World, lost, upto)
    <2>1. /\ Becomes(y)
          /\ dry => store' = store
      BY <1>3 DEF Begin
    <2>2. Remembers(World, y) /\ y.devices = World.devices
      <3>1. upto \in 0 .. 7
        BY OrderFacts
      <3> QED
        BY <1>1, <3>1, BootstrappedEffect
    <2> HIDE DEF y
    <2>3. /\ vlans' = vlans /\ prefixes' = prefixes /\ ranges' = ranges /\ devices' = devices
          /\ dry => objects' = objects
      BY <2>1, <2>2, WorldIs DEF Becomes, Remembers
    <2> QED
      BY <1>2, <2>1, <2>3 DEF OwnWrites, netbox
  <1>4. ASSUME NEW lost, NEW aborted \in BOOLEAN, SyncVlans(lost, aborted)
        PROVE  OwnWrites
    <2> DEFINE y == WithVlans(World, facts, lost)
    <2>1. Becomes(y) /\ store' = store
      BY <1>4 DEF SyncVlans, Ends
    <2>2. AfterVlans(World, y, facts, lost)
      BY <1>1, VlansEffect
    <2> HIDE DEF y
    <2>3. /\ prefixes' = prefixes /\ ranges' = ranges /\ devices' = devices /\ objects' = objects
          /\ dry => vlans' = vlans
          /\ \A v \in Vid : vlans[v] # NoVlan /\ ~vlans[v].mine => vlans'[v] = vlans[v]
      BY <2>1, <2>2, WorldIs DEF Becomes, AfterVlans, SameClient
    <2> QED
      BY <1>2, <2>1, <2>3 DEF OwnWrites, netbox
  <1>5. ASSUME NEW lost, NEW aborted \in BOOLEAN, SyncPrefixes(lost, aborted)
        PROVE  OwnWrites
    <2> DEFINE y == WithPrefixes(World, facts, lost)
    <2>1. Becomes(y) /\ store' = store
      BY <1>5 DEF SyncPrefixes, Ends
    <2>2. AfterPrefixes(World, y, facts, Heads(facts), lost)
      BY <1>1, PrefixesEffect
    <2> HIDE DEF y
    <2>3. /\ ranges' = ranges /\ devices' = devices /\ objects' = objects
          /\ dry => vlans' = vlans /\ prefixes' = prefixes
          /\ \A v \in Vid : vlans[v] # NoVlan => vlans'[v] = vlans[v]
          /\ \A n \in Net : prefixes[n] # NoPrefix /\ ~prefixes[n].mine => prefixes'[n] = prefixes[n]
      BY <2>1, <2>2, WorldIs DEF Becomes, AfterPrefixes, SameClient
    <2> QED
      BY <1>2, <2>1, <2>3 DEF OwnWrites, netbox
  <1>6. ASSUME NEW lost, NEW aborted \in BOOLEAN, SyncDhcpPools(lost, aborted)
        PROVE  OwnWrites
    <2> DEFINE y == WithPools(World, facts, lost)
    <2>1. Becomes(y) /\ store' = store
      BY <1>6 DEF SyncDhcpPools, Ends
    <2>2. AfterPools(World, y, facts, DOMAIN facts.pools, lost)
      BY <1>1, PoolsEffect
    <2> HIDE DEF y
    <2>3. /\ vlans' = vlans /\ prefixes' = prefixes /\ devices' = devices /\ objects' = objects
          /\ dry => ranges' = ranges
          /\ \A p \in Pool : ranges[p] # NoRange /\ ~ranges[p].mine => ranges'[p] = ranges[p]
      BY <2>1, <2>2, WorldIs DEF Becomes, AfterPools, SameClient
    <2> QED
      BY <1>2, <2>1, <2>3 DEF OwnWrites, netbox
  <1>7. ASSUME NEW lost, NEW aborted \in BOOLEAN, SyncInfrastructure(lost, aborted)
        PROVE  OwnWrites
    <2> DEFINE y == WithDevices(World, facts, lost)
    <2>1. Becomes(y) /\ store' = store
      BY <1>7 DEF SyncInfrastructure, Ends
    <2>2. AfterDevices(World, y, facts, DOMAIN facts.switches, lost)
      BY <1>1, DevicesEffect
    <2> HIDE DEF y
    <2>3. /\ vlans' = vlans /\ prefixes' = prefixes /\ ranges' = ranges
          /\ dry => objects' = objects /\ devices' = devices
          /\ \A h \in Host : devices[h] = [type |-> "human", source |-> ""] /\ Single(facts, h) =>
                 devices'[h].type = "human"
      BY <2>1, <2>2, WorldIs DEF Becomes, AfterDevices, Remembers
    <2> QED
      BY <2>1, <2>3 DEF OwnWrites, netbox
  <1>8. ASSUME Edit
        PROVE  OwnWrites
    <2>1. edits \in Nat
      BY DEF IInv, TypeOK
    <2>2. edits' # edits
      BY <1>8, <2>1 DEF Edit
    <2> QED
      BY <2>2 DEF OwnWrites
  <1>9. ASSUME NEW mode \in BOOLEAN, Restart(mode)
        PROVE  OwnWrites
    <2>1. UNCHANGED <<netbox, store>> /\ devices' = devices /\ vlans' = vlans
          /\ prefixes' = prefixes /\ ranges' = ranges
      BY <1>9 DEF Restart, netbox
    <2> QED
      BY <1>2, <2>1 DEF OwnWrites
  <1>10. CASE Starts
    BY <1>3, <1>10 DEF Starts
  <1>11. CASE Syncs
    BY <1>4, <1>5, <1>6, <1>7, <1>11 DEF Syncs
  <1>12. CASE People
    BY <1>8, <1>12 DEF People, EditVlan, EditPrefix, EditRange, EditDevice
  <1> QED
    BY <1>9, <1>10, <1>11, <1>12 DEF Next

\* In a dry run no step writes to NetBox or the store. Otherwise no step but a person's
\* changes a VLAN, prefix or range that is not the scanner's, ever; the type a human gave
\* a device is safe only until the scanner's first write to that device, which every
\* later pass corrects (write, apply_changes, _ensure_infrastructure_device).
THEOREM OthersAreLeftAlone == Spec => OnlyOwnWrites
  <1>1. IInv /\ [Next]_vars => [OwnWrites]_vars
    BY StepOwns
  <1>2. [][OwnWrites]_vars => OnlyOwnWrites
    BY DEF OwnWrites, OnlyOwnWrites
  <1> QED
    BY <1>1, <1>2, Invariant, PTL DEF Spec

=============================================================================
