--------------------------- MODULE TargetsProofs ---------------------------
(* Theorems about Targets. *)
EXTENDS Targets, FiniteSetTheorems, TLAPS

-----------------------------------------------------------------------------
(* The inductive invariant.  What the runs check is not inductive: a new    *)
(* row needs an id no other row has, and there is one because addresses     *)
(* identify rows (uq_target_address); a target keeps its profile because,   *)
(* with SQLite, nothing commits between the check and the delete.           *)

Table == [Id -> Row \cup {NoRow}]

\* uq_target_address
AddressesUnique(ts) ==
    \A i, j \in Rows(ts) : ts[i].address = ts[j].address => i = j

RefsUnique(ts) ==
    \A i, j \in Rows(ts) : ts[i].ref = ts[j].ref /\ ts[i].ref # NoDevice => i = j

ProfilesIn(ts, known) == \A i \in Rows(ts) : ts[i].profile \in known \cup {NoProfile}

\* No row is gone, and one without a profile had none before the step.
Keeps(ts) ==
    /\ Rows(targets) \subseteq Rows(ts)
    /\ \A i \in Rows(ts) : ts[i].profile = NoProfile =>
          i \in Rows(targets) /\ targets[i].profile = NoProfile

\* Between the check and the delete nobody begins to use the profile.
DeletingIsUnused ==
    deleting # NoProfile => deleting \in profiles /\ Users(deleting) = {}

IInv ==
    /\ TypeOK
    /\ AddressesUnique(targets)
    /\ RefsUnique(targets)
    /\ ImportedAreOffered
    /\ Serialised => ProfilesIn(targets, profiles) /\ DeletingIsUnused

-----------------------------------------------------------------------------
(* Rows.                                                                    *)

\* A row is taken or free.
LEMMA RowsType ==
    ASSUME NEW ts \in Table, NEW i \in Id
    PROVE  /\ i \in Rows(ts) <=> ts[i] \in Row
           /\ i \in Rows(ts) => ts[i].address \in Address
           /\ i \notin Rows(ts) => ts[i] = NoRow
<1>1. NoRow \notin Row
  BY TargetsAssumption DEF NoRow, Row
<1> QED
  BY <1>1 DEF Table, Rows, Row

\* "An address identifies a row, so this many ids always leave one to insert."
LEMMA FreeIsFree ==
    ASSUME NEW ts \in Table, AddressesUnique(ts), NEW a \in Address, At(ts, a) = {}
    PROVE  Free(ts) \in Id /\ Free(ts) \notin Rows(ts)
<1>1. ASSUME \A i \in Id : i \in Rows(ts) PROVE FALSE
  <2> DEFINE f == [i \in Id |-> ts[i].address]
             others == Address \ {a}
  <2>1. f \in [Id -> others]
    <3> SUFFICES ASSUME NEW i \in Id PROVE ts[i].address \in others
      OBVIOUS
    <3>1. ts[i].address \in Address
      BY <1>1, RowsType
    <3>2. ts[i].address # a
      BY <1>1 DEF At
    <3> QED BY <3>1, <3>2
  <2>2. \A i, j \in Id : f[i] = f[j] => i = j
    BY <1>1 DEF AddressesUnique
  <2>3. f \in Injection(Id, others)
    <3> HIDE DEF f, others
    <3> QED BY <2>1, <2>2 DEF Injection, IsInjective
  <2>4. IsFiniteSet(Address) /\ Cardinality(Address) \in Nat
    BY TargetsAssumption, FS_CardinalityType
  <2>5. IsFiniteSet(others) /\ Cardinality(others) = Cardinality(Address) - 1
    BY <2>4, FS_RemoveElement
  <2>6. Cardinality(Id) <= Cardinality(others)
    <3> HIDE DEF f, others
    <3> QED BY <2>3, <2>5, FS_Injection
  <2>7. Cardinality(Id) = Cardinality(Address)
    <3>1. Cardinality(1 .. Cardinality(Address))
            = IF 1 > Cardinality(Address) THEN 0 ELSE Cardinality(Address) - 1 + 1
      BY <2>4, FS_Interval
    <3> QED BY <3>1, <2>4 DEF Id
  <2> HIDE DEF f, others
  <2> QED BY <2>4, <2>5, <2>6, <2>7
<1>2. \E i \in Id : i \notin Rows(ts)
  BY <1>1
<1> QED BY <1>2 DEF Free

\* The row that is written keeps what identifies rows unique: no other row has
\* the address, and a new row is only written for a device that has none.
LEMMA UpsertedKeeps ==
    ASSUME NEW ts \in Table, AddressesUnique(ts), RefsUnique(ts),
           NEW d \in Device, NEW a \in Address, NEW i \in Id, At(ts, a) \subseteq {i},
           i \in Rows(ts) \/ \A j \in Rows(ts) : ts[j].ref # d
    PROVE  /\ Upserted(ts, i, d, a) \in Table
           /\ Rows(Upserted(ts, i, d, a)) = Rows(ts) \cup {i}
           /\ Upserted(ts, i, d, a)[i].address = a
           /\ Upserted(ts, i, d, a)[i].profile = Names[d]
           /\ \A j \in Id \ {i} : Upserted(ts, i, d, a)[j] = ts[j]
           /\ AddressesUnique(Upserted(ts, i, d, a))
           /\ RefsUnique(Upserted(ts, i, d, a))
<1> DEFINE up == Upserted(ts, i, d, a)
           row == [address |-> a, profile |-> Names[d], enabled |-> TRUE,
                   source |-> IF i \in Rows(ts) THEN ts[i].source ELSE "imported",
                   ref |-> IF i \in Rows(ts) THEN ts[i].ref ELSE d]
<1>1. ts \in [Id -> Row \cup {NoRow}] /\ up = [ts EXCEPT ![i] = row]
  BY DEF Table, Upserted
<1>2. row \in Row
  <2>1. Names[d] \in Profile
    BY TargetsAssumption
  <2>2. i \in Rows(ts) => ts[i] \in Row
    BY RowsType
  <2> QED BY <2>1, <2>2 DEF Row, Source
<1>3. row.address = a /\ row.profile = Names[d] /\ row.ref = (IF i \in Rows(ts) THEN ts[i].ref ELSE d)
  OBVIOUS
<1> HIDE DEF row
<1>4. up[i] = row /\ \A j \in Id \ {i} : up[j] = ts[j]
  <2> HIDE DEF up
  <2> QED BY <1>1
<1>5. up \in Table
  <2> HIDE DEF up
  <2> QED BY <1>1, <1>2 DEF Table
<1> HIDE DEF up
<1>6. Rows(up) = Rows(ts) \cup {i}
  BY <1>4, <1>5, <1>2, RowsType DEF Rows
<1>7. AddressesUnique(up)
  <2> SUFFICES ASSUME NEW j \in Rows(up), NEW k \in Rows(up), up[j].address = up[k].address
               PROVE  j = k
    BY DEF AddressesUnique
  <2>1. j \in Id /\ k \in Id
    BY DEF Rows
  <2>2. \A l \in Rows(ts) : l # i => ts[l].address # a
    BY DEF At
  <2> QED BY <1>3, <1>4, <1>6, <2>1, <2>2 DEF AddressesUnique
<1>8. RefsUnique(up)
  <2> SUFFICES ASSUME NEW j \in Rows(up), NEW k \in Rows(up),
                      up[j].ref = up[k].ref, up[j].ref # NoDevice
               PROVE  j = k
    BY DEF RefsUnique
  <2>1. j \in Id /\ k \in Id
    BY DEF Rows
  <2> QED BY <1>3, <1>4, <1>6, <2>1 DEF RefsUnique
<1> QED BY <1>3, <1>4, <1>5, <1>6, <1>7, <1>8 DEF up

-----------------------------------------------------------------------------
(* The import, one device after the other.                                  *)

\* What the turns of the loop have made of the table so far.
Work == {w \in [ts: Table, seen: SUBSET Id, ok: BOOLEAN] :
            /\ AddressesUnique(w.ts)
            /\ RefsUnique(w.ts)
            /\ \A i \in w.seen : i \in Rows(w.ts) /\ \E d \in Device : answer[d] = w.ts[i].address
            /\ ProfilesIn(targets, Mirrored) => ProfilesIn(w.ts, Mirrored)
            /\ Keeps(w.ts)}

\* One turn keeps addresses and references unique, and a row it has seen stands
\* at an address that was offered, even when a later device takes the row over.
LEMMA ImportDeviceKeeps ==
    ASSUME answer \in Offer, NEW w \in Work, NEW d \in Device
    PROVE  ImportDevice(w, d, answer, Mirrored) \in Work
<1> DEFINE a == answer[d]
           found == Found(w.ts, d, a)
           i == IF found = {} THEN Free(w.ts) ELSE CHOOSE j \in found : TRUE
           next == ImportDevice(w, d, answer, Mirrored)
           up == Upserted(w.ts, i, d, a)
<1>1. /\ w \in [ts: Table, seen: SUBSET Id, ok: BOOLEAN]
      /\ w.ts \in Table /\ w.seen \in SUBSET Id
      /\ AddressesUnique(w.ts) /\ RefsUnique(w.ts)
      /\ \A j \in w.seen : j \in Rows(w.ts) /\ \E e \in Device : answer[e] = w.ts[j].address
      /\ ProfilesIn(targets, Mirrored) => ProfilesIn(w.ts, Mirrored)
      /\ Keeps(w.ts)
  BY DEF Work
<1>2. CASE ~w.ok \/ a = NoAddress \/ Names[d] \notin Mirrored
  BY <1>2 DEF ImportDevice
<1>3. CASE /\ ~(~w.ok \/ a = NoAddress \/ Names[d] \notin Mirrored)
           /\ At(w.ts, a) \ {i} # {}
  <2>1. next = [w EXCEPT !.ok = FALSE]
    BY <1>3 DEF ImportDevice
  <2>2. next \in [ts: Table, seen: SUBSET Id, ok: BOOLEAN] /\ next.ts = w.ts /\ next.seen = w.seen
    BY <2>1, <1>1
  <2>3. next \in Work
    <3> HIDE DEF next
    <3> QED BY <2>2, <1>1 DEF Work
  <2> QED BY <2>3
<1>4. CASE /\ ~(~w.ok \/ a = NoAddress \/ Names[d] \notin Mirrored)
           /\ At(w.ts, a) \subseteq {i}
  <2>1. next = [ts |-> up, seen |-> w.seen \cup {i}, ok |-> TRUE]
    BY <1>4 DEF ImportDevice
  <2>2. a \in Address /\ Names[d] \in Mirrored
    BY <1>4 DEF Offer
  <2>3. i \in Id /\ (i \in Rows(w.ts) \/ \A j \in Rows(w.ts) : w.ts[j].ref # d)
    <3>1. CASE found = {}
      <4>1. At(w.ts, a) = {} /\ \A j \in Rows(w.ts) : w.ts[j].ref # d
        BY <3>1 DEF Found
      <4>2. i = Free(w.ts)
        BY <3>1
      <4> QED BY <4>1, <4>2, <2>2, <1>1, FreeIsFree
    <3>2. CASE found # {}
      <4>1. i \in found
        BY <3>2
      <4>2. found \subseteq Rows(w.ts) /\ Rows(w.ts) \subseteq Id
        BY DEF Found, At, Rows
      <4> QED BY <4>1, <4>2
    <3> QED BY <3>1, <3>2
  <2> HIDE DEF a, found, i
  <2>4. /\ up \in Table /\ Rows(up) = Rows(w.ts) \cup {i}
        /\ up[i].address = a /\ up[i].profile = Names[d]
        /\ \A j \in Id \ {i} : up[j] = w.ts[j]
        /\ AddressesUnique(up) /\ RefsUnique(up)
    BY <1>1, <1>4, <2>2, <2>3, UpsertedKeeps
  <2> HIDE DEF up
  <2>5. \A j \in w.seen \cup {i} : j \in Rows(up) /\ \E e \in Device : answer[e] = up[j].address
    BY <1>1, <2>3, <2>4 DEF a
  <2>6. ProfilesIn(targets, Mirrored) => ProfilesIn(up, Mirrored)
    BY <1>1, <2>2, <2>3, <2>4 DEF ProfilesIn, Rows
  <2>7. Keeps(up)
    <3>1. Names[d] # NoProfile
      BY TargetsAssumption
    <3> QED BY <1>1, <2>3, <2>4, <3>1 DEF Keeps, Rows
  <2>8. [ts |-> up, seen |-> w.seen \cup {i}, ok |-> TRUE] \in Work
    BY <1>1, <2>3, <2>4, <2>5, <2>6, <2>7 DEF Work
  <2> QED BY <2>1, <2>8
<1>5. At(w.ts, a) \subseteq {i} \/ At(w.ts, a) \ {i} # {}
  OBVIOUS
<1> QED BY <1>2, <1>3, <1>4, <1>5

\* The loop over NetBox's devices, as a fold.
LoopBody(order, w, i) == ImportDevice(w, order[i], answer, Mirrored)
Loop == INSTANCE FoldLemmas WITH Op <- LoopBody, Pick <- Max

Untouched == [ts |-> targets, seen |-> {}, ok |-> TRUE]

\* The whole loop ends with what every turn keeps.
LEMMA ImportLoop ==
    ASSUME IInv, answer \in Offer, NEW order \in SetToSeqs(Device)
    PROVE  FoldLeft(LAMBDA w, d : ImportDevice(w, d, answer, Mirrored), Untouched, order) \in Work
<1> DEFINE n == Cardinality(Device)
           W == [s \in SUBSET (1 .. n) |-> Work]
<1>1. n \in Nat /\ order \in [1 .. n -> Device] /\ DOMAIN order = 1 .. n
  BY TargetsAssumption, FS_CardinalityType DEF SetToSeqs
<1>2. FoldLeft(LAMBDA w, d : ImportDevice(w, d, answer, Mirrored), Untouched, order)
        = Loop!Iter(order, Untouched, DOMAIN order)[DOMAIN order]
  BY DEF FoldLeft, MapThenFoldSet, Loop!Iter, LoopBody, Max
<1>3. Loop!IsFiniteSet(1 .. n)
  <2>1. IsFiniteSet(1 .. n)
    BY <1>1, FS_Interval
  <2> QED BY <2>1 DEF IsFiniteSet, Loop!IsFiniteSet
<1>4. Loop!Picks(1 .. n)
  <2>1. \A s \in SUBSET (1 .. n) : s # {} => Loop!Highest(s) \in s
    <3>1. (1 .. n) \in SUBSET Nat
      BY <1>1
    <3> QED BY <1>3, <3>1, Loop!HighestPicks
  <2> QED BY <2>1 DEF Loop!Picks, Loop!Highest, Max
<1>5. Untouched \in W[{}]
  BY DEF Untouched, Work, IInv, TypeOK, Table, Keeps
<1>6. \A s \in SUBSET (1 .. n) : s # {} =>
         \A w \in W[s \ {Max(s)}] : LoopBody(order, w, Max(s)) \in W[s]
  <2> SUFFICES ASSUME NEW s \in SUBSET (1 .. n), s # {}, NEW w \in Work
               PROVE  LoopBody(order, w, Max(s)) \in Work
    OBVIOUS
  <2>1. Max(s) \in 1 .. n
    BY <1>4 DEF Loop!Picks
  <2>2. order[Max(s)] \in Device
    BY <1>1, <2>1
  <2> QED BY <2>2, ImportDeviceKeeps DEF LoopBody
<1>7. Loop!Iter(order, Untouched, 1 .. n)[1 .. n] \in W[1 .. n]
  <2> HIDE DEF W, n
  <2> QED BY <1>3, <1>4, <1>5, <1>6, Loop!FoldKeeps
<1> QED BY <1>1, <1>2, <1>7

\* Rows nobody has seen are disabled: what is left of the import stands at an
\* address that was offered.
LEMMA DisableMissingKeeps ==
    ASSUME NEW w \in Work
    PROVE  LET ts == DisableMissing(w.ts, w.seen)
           IN  /\ ts \in Table
               /\ Rows(ts) = Rows(w.ts)
               /\ AddressesUnique(ts) /\ RefsUnique(ts)
               /\ \A i \in Rows(ts) : ts[i].source = "imported" /\ ts[i].enabled =>
                     \E d \in Device : answer[d] = ts[i].address
               /\ ProfilesIn(w.ts, Mirrored) => ProfilesIn(ts, Mirrored)
               /\ Keeps(ts)
<1> DEFINE ts == DisableMissing(w.ts, w.seen)
<1>1. /\ w.ts \in Table /\ w.seen \in SUBSET Id
      /\ AddressesUnique(w.ts) /\ RefsUnique(w.ts)
      /\ \A j \in w.seen : j \in Rows(w.ts) /\ \E e \in Device : answer[e] = w.ts[j].address
      /\ Keeps(w.ts)
  BY DEF Work
<1>2. \A i \in Id : ts[i] = IF w.ts[i].source = "imported" /\ i \notin w.seen
                            THEN [w.ts[i] EXCEPT !.enabled = FALSE] ELSE w.ts[i]
  BY DEF DisableMissing
<1>3. ASSUME NEW i \in Id
      PROVE  /\ ts[i] \in Row \cup {NoRow}
             /\ ts[i] \in Row <=> w.ts[i] \in Row
             /\ i \in Rows(w.ts) => /\ ts[i].address = w.ts[i].address
                                    /\ ts[i].profile = w.ts[i].profile
                                    /\ ts[i].ref = w.ts[i].ref
                                    /\ ts[i].source = w.ts[i].source
             /\ i \in Rows(w.ts) /\ ts[i].source = "imported" /\ ts[i].enabled => i \in w.seen
  <2>1. CASE w.ts[i].source = "imported" /\ i \notin w.seen
    <3>1. w.ts[i] \in Row
      BY <1>1, <2>1 DEF Table, NoRow
    <3>2. ts[i] = [w.ts[i] EXCEPT !.enabled = FALSE]
      BY <1>2, <2>1
    <3> HIDE DEF ts
    <3>3. /\ ts[i] \in Row /\ ts[i].enabled = FALSE
          /\ ts[i].address = w.ts[i].address /\ ts[i].profile = w.ts[i].profile
          /\ ts[i].ref = w.ts[i].ref /\ ts[i].source = w.ts[i].source
      BY <3>1, <3>2 DEF Row
    <3> QED BY <3>1, <3>3
  <2>2. CASE ~(w.ts[i].source = "imported" /\ i \notin w.seen)
    <3>1. ts[i] = w.ts[i]
      BY <1>2, <2>2
    <3> HIDE DEF ts
    <3> QED BY <3>1, <2>2, <1>1 DEF Table
  <2> QED BY <2>1, <2>2
<1>4. ts \in Table
  BY <1>3 DEF Table, DisableMissing
<1> HIDE DEF ts
<1>5. Rows(ts) = Rows(w.ts)
  BY <1>1, <1>3, <1>4, RowsType DEF Rows
<1>6. Rows(ts) \subseteq Id
  BY DEF Rows
<1>7. AddressesUnique(ts) /\ RefsUnique(ts)
  BY <1>1, <1>3, <1>5, <1>6 DEF AddressesUnique, RefsUnique
<1>8. \A i \in Rows(ts) : ts[i].source = "imported" /\ ts[i].enabled =>
         \E d \in Device : answer[d] = ts[i].address
  BY <1>1, <1>3, <1>5, <1>6
<1>9. ProfilesIn(w.ts, Mirrored) => ProfilesIn(ts, Mirrored)
  BY <1>3, <1>5, <1>6 DEF ProfilesIn
<1>10. Keeps(ts)
  BY <1>1, <1>3, <1>5, <1>6 DEF Keeps
<1> QED BY <1>4, <1>5, <1>7, <1>8, <1>9, <1>10 DEF ts

\* The seed is written to an empty table: one row per address.
LEMMA SeededType ==
    ASSUME NEW ts \in Table
    PROVE  /\ Rows(ts) # {} => Seeded(ts) = ts
           /\ Rows(ts) = {} =>
                /\ Seeded(ts) \in Table
                /\ AddressesUnique(Seeded(ts)) /\ RefsUnique(Seeded(ts))
                /\ \A i \in Rows(Seeded(ts)) : /\ Seeded(ts)[i].source = "seed"
                                               /\ Seeded(ts)[i].profile \in Mirrored \cup {NoProfile}
<1> DEFINE order == CHOOSE s \in SetToSeqs(Seeds) : TRUE
           n == Cardinality(Seeds)
<1>1. CASE Rows(ts) # {}
  BY <1>1 DEF Seeded
<1>2. CASE Rows(ts) = {}
  <2>1. Seeded(ts) = [i \in Id |-> IF i \in DOMAIN order THEN SeedRow(order[i]) ELSE NoRow]
    BY <1>2 DEF Seeded
  <2>2. IsFiniteSet(Seeds) /\ n \in Nat
    BY TargetsAssumption, FS_Subset, FS_CardinalityType
  <2>3. PICK f : f \in Bijection(1 .. n, Seeds)
    BY <2>2, FS_CardinalityType DEF ExistsBijection
  <2>4. f \in SetToSeqs(Seeds)
    BY <2>3 DEF SetToSeqs, Bijection, Injection, IsInjective
  <2>5. order \in SetToSeqs(Seeds)
    BY <2>4
  <2>6. /\ order \in [1 .. n -> Seeds]
        /\ \A i, j \in 1 .. n : i # j => order[i] # order[j]
    BY <2>5 DEF SetToSeqs
  <2> HIDE DEF order, n
  <2>7. \A i \in DOMAIN order : /\ SeedRow(order[i]) \in Row
                                /\ SeedRow(order[i]).address = order[i]
                                /\ SeedRow(order[i]).ref = NoDevice
                                /\ SeedRow(order[i]).source = "seed"
                                /\ SeedRow(order[i]).profile \in Mirrored \cup {NoProfile}
    <3>1. \A i \in DOMAIN order : order[i] \in Address
      BY <2>6, TargetsAssumption
    <3>2. \A i \in DOMAIN order : SeedNames[order[i]] \in Profile
      BY <2>6, TargetsAssumption
    <3> QED BY <3>1, <3>2 DEF SeedRow, Row, Source
  <2>8. Seeded(ts) \in Table
    BY <2>1, <2>7 DEF Table
  <2>9. \A i \in Rows(Seeded(ts)) : i \in DOMAIN order /\ Seeded(ts)[i] = SeedRow(order[i])
    BY <2>1 DEF Rows
  <2>10. AddressesUnique(Seeded(ts)) /\ RefsUnique(Seeded(ts))
    BY <2>6, <2>7, <2>9 DEF AddressesUnique, RefsUnique
  <2> QED BY <1>2, <2>7, <2>8, <2>9, <2>10
<1> QED BY <1>1, <1>2

-----------------------------------------------------------------------------
(* The steps.                                                               *)

\* What the import makes of the table.
LEMMA ImportKeeps ==
    ASSUME IInv, answer # Waiting, NEW order \in SetToSeqs(Device)
    PROVE  LET ts == Import(order, Mirrored).ts
               offer == IF answer = Unreachable THEN imported ELSE answer
           IN  /\ ts \in Table /\ AddressesUnique(ts) /\ RefsUnique(ts)
               /\ \A i \in Rows(ts) : ts[i].source = "imported" /\ ts[i].enabled =>
                     \E d \in Device : offer[d] = ts[i].address
               /\ ProfilesIn(targets, Mirrored) => ProfilesIn(ts, Mirrored)
               /\ offer \in Offer
               /\ Keeps(ts)
<1> DEFINE work == Import(order, Mirrored)
<1>1. CASE answer = Unreachable
  <2>1. work.ts = targets
    BY <1>1 DEF Import
  <2> QED BY <1>1, <2>1 DEF IInv, TypeOK, Table, ImportedAreOffered, Keeps
<1>2. CASE answer # Unreachable
  <2>1. answer \in Offer
    BY <1>2 DEF IInv, TypeOK
  <2> DEFINE loop == FoldLeft(LAMBDA w, d : ImportDevice(w, d, answer, Mirrored), Untouched, order)
  <2>2. loop \in Work
    BY <2>1, ImportLoop
  <2>3. work = [loop EXCEPT !.ts = DisableMissing(loop.ts, loop.seen)]
    BY <1>2 DEF Import, Untouched
  <2> HIDE DEF loop, work
  <2>4. work.ts = DisableMissing(loop.ts, loop.seen)
    BY <2>2, <2>3 DEF Work
  <2>5. ProfilesIn(targets, Mirrored) => ProfilesIn(loop.ts, Mirrored)
    BY <2>2 DEF Work
  <2>6. /\ work.ts \in Table /\ AddressesUnique(work.ts) /\ RefsUnique(work.ts)
        /\ \A i \in Rows(work.ts) : work.ts[i].source = "imported" /\ work.ts[i].enabled =>
              \E d \in Device : answer[d] = work.ts[i].address
        /\ ProfilesIn(targets, Mirrored) => ProfilesIn(work.ts, Mirrored)
        /\ Keeps(work.ts)
    BY <2>2, <2>4, <2>5, DisableMissingKeeps
  <2> QED BY <1>2, <2>1, <2>6 DEF work
<1> QED BY <1>1, <1>2

\* A cycle's transaction keeps the invariant, in whatever order NetBox lists
\* its devices.
LEMMA CommitKeeps ==
    ASSUME IInv, NEW order \in SetToSeqs(Device), Commit(order)
    PROVE  IInv'
<1> DEFINE work == Import(order, Mirrored)
<1>1. answer # Waiting /\ Writable /\ answer' = Waiting /\ UNCHANGED <<netbox, deleting>>
  BY DEF Commit
<1>2. CASE ~work.ok
  <2>1. UNCHANGED <<targets, profiles, imported>>
    BY <1>2 DEF Commit
  <2> QED BY <1>1, <2>1 DEF IInv, TypeOK, ImportedAreOffered, DeletingIsUnused, Rows, Users,
                            AddressesUnique, RefsUnique, ProfilesIn
<1>3. CASE work.ok
  <2>1. /\ targets' = Seeded(work.ts) /\ profiles' = Mirrored
        /\ imported' = IF answer = Unreachable THEN imported ELSE answer
    BY <1>3 DEF Commit
  <2>2. /\ work.ts \in Table /\ AddressesUnique(work.ts) /\ RefsUnique(work.ts)
        /\ \A i \in Rows(work.ts) : work.ts[i].source = "imported" /\ work.ts[i].enabled =>
              \E d \in Device : imported'[d] = work.ts[i].address
        /\ ProfilesIn(targets, Mirrored) => ProfilesIn(work.ts, Mirrored)
        /\ imported' \in Offer
    BY <1>1, <2>1, ImportKeeps
  <2> HIDE DEF work
  <2>3. Mirrored \subseteq Profile /\ profiles \subseteq Mirrored /\ Configured \subseteq Mirrored
    BY TargetsAssumption DEF IInv, TypeOK, Mirrored
  <2>4. /\ targets' \in Table
        /\ AddressesUnique(targets)' /\ RefsUnique(targets)' /\ ImportedAreOffered'
    <3>1. CASE Rows(work.ts) # {}
      BY <2>1, <2>2, <3>1, SeededType DEF ImportedAreOffered, AddressesUnique, RefsUnique, Rows
    <3>2. CASE Rows(work.ts) = {}
      BY <2>1, <2>2, <3>2, SeededType DEF ImportedAreOffered, AddressesUnique, RefsUnique, Rows
    <3> QED BY <3>1, <3>2
  <2>5. ASSUME Serialised PROVE (ProfilesIn(targets, profiles) /\ DeletingIsUnused)'
    <3>1. deleting' = NoProfile
      BY <1>1, <2>5 DEF Writable
    <3>2. ProfilesIn(work.ts, Mirrored)
      BY <2>2, <2>3, <2>5 DEF IInv, ProfilesIn
    <3>3. ProfilesIn(Seeded(work.ts), Mirrored)
      BY <2>2, <2>3, <3>2, SeededType DEF ProfilesIn
    <3> QED BY <2>1, <3>1, <3>3 DEF DeletingIsUnused, ProfilesIn, Rows
  <2>6. TypeOK'
    BY <1>1, <2>1, <2>2, <2>3, <2>4 DEF IInv, TypeOK, Table
  <2> QED BY <2>4, <2>5, <2>6 DEF IInv
<1>4. work.ok \/ ~work.ok
  OBVIOUS
<1> QED BY <1>2, <1>3, <1>4

\* A request fills a row that was free; nobody is deleting its profile.
LEMMA CreateKeeps ==
    ASSUME IInv, NEW a \in Address, NEW p \in Profile, NEW on \in BOOLEAN,
           CreateTarget(a, p, on)
    PROVE  IInv'
<1> DEFINE i == Free(targets)
           row == [address |-> a, profile |-> p, enabled |-> on,
                   source |-> "manual", ref |-> NoDevice]
<1>1. targets \in Table /\ At(targets, a) = {} /\ p \in profiles /\ Writable
      /\ targets' = [targets EXCEPT ![i] = row]
      /\ UNCHANGED <<profiles, netbox, answer, imported, deleting>>
  BY DEF IInv, TypeOK, Table, CreateTarget, Creatable
<1>0. Writable /\ p \in profiles /\ UNCHANGED <<profiles, imported, deleting>>
  BY <1>1
<1>2. i \in Id /\ i \notin Rows(targets)
  BY <1>1, FreeIsFree DEF IInv
<1>3. /\ row \in Row /\ row.address = a /\ row.profile = p
      /\ row.source # "imported" /\ row.ref = NoDevice
  BY DEF Row, Source
<1> HIDE DEF i, row
<1>4. targets' \in Table /\ targets'[i] = row /\ \A j \in Id \ {i} : targets'[j] = targets[j]
  BY <1>1, <1>2, <1>3 DEF Table
<1>5. Rows(targets)' = Rows(targets) \cup {i}
  BY <1>2, <1>3, <1>4, RowsType DEF Rows
<1>6. \A j \in Rows(targets) : j \in Id /\ j # i /\ targets[j].address # a
  BY <1>1, <1>2 DEF Rows, At
<1>7. AddressesUnique(targets)' /\ RefsUnique(targets)'
  BY <1>3, <1>4, <1>5, <1>6 DEF AddressesUnique, RefsUnique, IInv
<1>8. ImportedAreOffered'
  BY <1>0, <1>3, <1>4, <1>5, <1>6 DEF ImportedAreOffered, IInv
<1>9. Serialised => (ProfilesIn(targets, profiles) /\ DeletingIsUnused)'
  BY <1>0, <1>3, <1>4, <1>5, <1>6 DEF ProfilesIn, IInv, Writable, DeletingIsUnused
<1>10. TypeOK'
  BY <1>1, <1>4 DEF IInv, TypeOK, Table
<1> QED BY <1>7, <1>8, <1>9, <1>10 DEF IInv

\* A request moves a row to an address that was free or its own, to a profile that
\* exists or that it had; the rows of the import are not its to change.
LEMMA UpdateKeeps ==
    ASSUME IInv, NEW i \in Id, NEW a \in Address, NEW p \in Profile \cup {NoProfile},
           NEW on \in BOOLEAN, UpdateTarget(i, a, p, on)
    PROVE  IInv'
<1> DEFINE row == [targets[i] EXCEPT !.address = a, !.profile = p, !.enabled = on]
<1>1. targets \in Table /\ i \in Rows(targets) /\ targets[i].source # "imported" /\ Writable
      /\ p \in profiles \cup {targets[i].profile} /\ At(targets, a) \subseteq {i}
      /\ UNCHANGED <<profiles, netbox, answer, imported, deleting>>
  BY DEF IInv, TypeOK, Table, UpdateTarget, Editable
<1>2. targets[i] \in Row
  BY <1>1, RowsType
<1>3. targets' = [targets EXCEPT ![i] = row]
  BY <1>1, <1>2 DEF UpdateTarget, Table, Row
<1>4. /\ row \in Row /\ row.address = a /\ row.profile = p
      /\ row.source # "imported" /\ row.ref = targets[i].ref
  BY <1>1, <1>2 DEF Row
<1> HIDE DEF row
<1>5. targets' \in Table /\ targets'[i] = row /\ \A j \in Id \ {i} : targets'[j] = targets[j]
  BY <1>1, <1>3, <1>4 DEF Table
<1>6. Rows(targets)' = Rows(targets)
  BY <1>1, <1>4, <1>5, RowsType DEF Rows
<1>7. \A j \in Rows(targets) : j \in Id /\ (j # i => targets[j].address # a)
  BY <1>1 DEF Rows, At
<1>8. AddressesUnique(targets)' /\ RefsUnique(targets)'
  BY <1>1, <1>4, <1>5, <1>6, <1>7 DEF AddressesUnique, RefsUnique, IInv
<1>9. ImportedAreOffered'
  BY <1>1, <1>4, <1>5, <1>6, <1>7 DEF ImportedAreOffered, IInv
<1>10. Serialised => (ProfilesIn(targets, profiles) /\ DeletingIsUnused)'
  BY <1>1, <1>4, <1>5, <1>6, <1>7 DEF ProfilesIn, IInv, Writable, DeletingIsUnused
<1>11. TypeOK'
  BY <1>1, <1>5 DEF IInv, TypeOK, Table
<1> QED BY <1>8, <1>9, <1>10, <1>11 DEF IInv

\* A request only removes one row.
LEMMA DeleteKeeps ==
    ASSUME IInv, NEW i \in Id, DeleteTarget(i)
    PROVE  IInv'
<1>1. targets \in Table /\ i \in Rows(targets) /\ Writable
      /\ targets' = [targets EXCEPT ![i] = NoRow]
      /\ UNCHANGED <<profiles, netbox, answer, imported, deleting>>
  BY DEF IInv, TypeOK, Table, DeleteTarget, Editable
<1>2. targets' \in Table /\ targets'[i] = NoRow /\ \A j \in Id \ {i} : targets'[j] = targets[j]
  BY <1>1 DEF Table
<1>0. Writable /\ UNCHANGED <<profiles, imported, deleting>>
  BY <1>1
<1>3. /\ Rows(targets)' = Rows(targets) \ {i}
      /\ \A j \in Rows(targets) : j \in Id
  BY <1>2 DEF Rows
<1>4. AddressesUnique(targets)' /\ RefsUnique(targets)' /\ ImportedAreOffered'
  BY <1>0, <1>2, <1>3 DEF AddressesUnique, RefsUnique, ImportedAreOffered, IInv
<1>5. Serialised => (ProfilesIn(targets, profiles) /\ DeletingIsUnused)'
  BY <1>0, <1>2, <1>3 DEF ProfilesIn, IInv, Writable, DeletingIsUnused
<1>6. TypeOK'
  BY <1>1, <1>2 DEF IInv, TypeOK, Table
<1> QED BY <1>4, <1>5, <1>6 DEF IInv

\* Nothing uses the profile any more when the delete commits, unless another
\* transaction came in between: then its users lose it.
LEMMA DeleteCredentialKeeps ==
    ASSUME IInv, DeleteCredential
    PROVE  IInv'
<1>1. targets \in Table /\ deleting # NoProfile /\ deleting' = NoProfile
      /\ profiles' = profiles \ {deleting} /\ UNCHANGED <<netbox, answer, imported>>
      /\ targets' = [i \in Id |-> IF i \in Users(deleting)
                                  THEN [targets[i] EXCEPT !.profile = NoProfile] ELSE targets[i]]
  BY DEF IInv, TypeOK, Table, DeleteCredential
<1>2. ASSUME NEW i \in Id
      PROVE  /\ targets'[i] \in Row \cup {NoRow}
             /\ targets'[i] \in Row <=> targets[i] \in Row
             /\ i \in Rows(targets) =>
                  /\ targets'[i].address = targets[i].address
                  /\ targets'[i].ref = targets[i].ref
                  /\ targets'[i].source = targets[i].source
                  /\ targets'[i].enabled = targets[i].enabled
             /\ i \notin Users(deleting) => targets'[i] = targets[i]
  <2>1. CASE i \in Users(deleting)
    <3>1. targets[i] \in Row
      BY <1>1, <2>1, RowsType DEF Users
    <3>2. targets'[i] = [targets[i] EXCEPT !.profile = NoProfile]
      BY <1>1, <2>1
    <3> QED BY <2>1, <3>1, <3>2 DEF Row
  <2>2. CASE i \notin Users(deleting)
    <3>1. targets'[i] = targets[i]
      BY <1>1, <2>2
    <3> QED BY <3>1, <1>1 DEF Table
  <2> QED BY <2>1, <2>2
<1>3. targets' \in Table
  <2>1. targets' = [i \in Id |-> targets'[i]]
    BY <1>1
  <2> QED BY <1>2, <2>1 DEF Table
<1>4. Rows(targets)' = Rows(targets) /\ Rows(targets) \subseteq Id
  BY <1>1, <1>2, <1>3, RowsType DEF Rows
<1>5. AddressesUnique(targets)' /\ RefsUnique(targets)' /\ ImportedAreOffered'
  BY <1>1, <1>2, <1>4 DEF AddressesUnique, RefsUnique, ImportedAreOffered, IInv
<1>6. ASSUME Serialised PROVE (ProfilesIn(targets, profiles) /\ DeletingIsUnused)'
  <2>1. ProfilesIn(targets, profiles) /\ Users(deleting) = {}
    BY <1>1, <1>6 DEF IInv, DeletingIsUnused
  <2>2. \A i \in Rows(targets) : targets'[i] = targets[i] /\ targets[i].profile # deleting
    BY <1>2, <1>4, <2>1 DEF Users
  <2> QED BY <1>1, <1>4, <2>1, <2>2 DEF ProfilesIn, DeletingIsUnused
<1>7. TypeOK'
  BY <1>1, <1>3 DEF IInv, TypeOK, Table
<1> QED BY <1>5, <1>6, <1>7 DEF IInv

\* The initial state satisfies the invariant.
LEMMA IInvInit == Init => IInv
<1> SUFFICES ASSUME Init PROVE IInv
  OBVIOUS
<1>1. TypeOK
  BY TargetsAssumption DEF Init, TypeOK, Offer
<1>2. Rows(targets) = {}
  BY DEF Init, Rows
<1> QED
  BY <1>1, <1>2 DEF Init, IInv, AddressesUnique, RefsUnique, ImportedAreOffered, ProfilesIn,
                    DeletingIsUnused

\* Every step keeps it.
LEMMA IInvStep == IInv /\ [Next]_vars => IInv'
<1> SUFFICES ASSUME IInv, [Next]_vars PROVE IInv'
  OBVIOUS
<1> USE DEF IInv, AddressesUnique, RefsUnique, ImportedAreOffered, ProfilesIn, DeletingIsUnused,
            Rows, Users
<1>1. CASE AskNetBox
  BY <1>1 DEF AskNetBox, TypeOK
<1>2. CASE Abandon
  BY <1>2 DEF Abandon, TypeOK
<1>3. CASE Finish
  BY <1>3, CommitKeeps DEF Finish
<1>4. ASSUME NEW a \in Address, NEW p \in Profile, NEW on \in BOOLEAN, CreateTarget(a, p, on)
      PROVE  IInv'
  BY <1>4, CreateKeeps
<1>5. ASSUME NEW i \in Id, NEW a \in Address, NEW p \in Profile \cup {NoProfile},
             NEW on \in BOOLEAN, UpdateTarget(i, a, p, on)
      PROVE  IInv'
  BY <1>5, UpdateKeeps
<1>6. ASSUME NEW i \in Id, DeleteTarget(i)
      PROVE  IInv'
  BY <1>6, DeleteKeeps
<1>7. ASSUME NEW p \in Profile, CreateCredential(p)
      PROVE  IInv'
  BY <1>7 DEF CreateCredential, TypeOK, Writable
<1>8. ASSUME NEW p \in Profile, CheckCredential(p)
      PROVE  IInv'
  BY <1>8 DEF CheckCredential, TypeOK
<1>9. CASE DeleteCredential
  BY <1>9, DeleteCredentialKeeps
<1>10. ASSUME NEW d \in Device, NEW a \in Address \cup {NoAddress}, EditDevice(d, a)
       PROVE  IInv'
  BY <1>10 DEF EditDevice, TypeOK, Offer
<1>11. CASE UNCHANGED vars
  BY <1>11 DEF vars, TypeOK
<1> HIDE DEF IInv, AddressesUnique, RefsUnique, ImportedAreOffered, ProfilesIn, DeletingIsUnused,
             Rows, Users
<1> QED
  BY <1>1, <1>2, <1>3, <1>4, <1>5, <1>6, <1>7, <1>8, <1>9, <1>10, <1>11
  DEF Next, Cycle, Api

-----------------------------------------------------------------------------
(* The theorems.                                                            *)

\* The inductive invariant holds throughout.
THEOREM Invariant == Spec => []IInv
<1> QED BY IInvInit, IInvStep, PTL DEF Spec

\* Every row is a target with an address, a source and a profile or none.
THEOREM TypeCorrect == Spec => []TypeOK
<1>1. IInv => TypeOK
  BY DEF IInv
<1> QED BY Invariant, <1>1, PTL

\* An enabled row of the import stands at an address that the newest successful
\* import was offered, for every number of devices, moves and requests.
THEOREM EnabledImportsAreOffered == Spec => []ImportedAreOffered
<1>1. IInv => ImportedAreOffered
  BY DEF IInv
<1> QED BY Invariant, <1>1, PTL

\* A NetBox device never gets a second row: find_by_external_ref does not raise.
THEOREM OneRowPerDevice == Spec => []RefsAreUnique
<1>1. IInv => RefsAreUnique
  BY DEF IInv, RefsUnique, RefsAreUnique
<1> QED BY Invariant, <1>1, PTL

\* What ProfilesAreKept says of a step.
KeepsProfiles ==
    \A i \in Rows(targets') :
        \/ targets'[i].profile \in profiles'
        \/ /\ targets'[i].profile = NoProfile
           /\ IF i \in Rows(targets) THEN targets[i].profile = NoProfile
              ELSE targets'[i].source = "seed"

\* A cycle's transaction gives every row that it writes a profile that is stored by
\* then, and takes none away; a seed may begin without.
LEMMA CommitKeepsProfiles ==
    ASSUME IInv, ProfilesIn(targets, profiles), NEW order \in SetToSeqs(Device), Commit(order)
    PROVE  KeepsProfiles
<1> DEFINE work == Import(order, Mirrored)
<1>1. CASE ~work.ok
  <2>1. UNCHANGED <<targets, profiles>>
    BY <1>1 DEF Commit
  <2> QED BY <2>1 DEF KeepsProfiles, ProfilesIn, Rows
<1>2. CASE work.ok
  <2>1. targets' = Seeded(work.ts) /\ profiles' = Mirrored /\ answer # Waiting
    BY <1>2 DEF Commit
  <2>2. ProfilesIn(targets, Mirrored)
    BY DEF ProfilesIn, Mirrored
  <2>3. work.ts \in Table /\ ProfilesIn(work.ts, Mirrored) /\ Keeps(work.ts)
    BY <2>1, <2>2, ImportKeeps
  <2> HIDE DEF work
  <2>4. CASE Rows(work.ts) # {}
    <3>1. targets' = work.ts
      BY <2>1, <2>3, <2>4, SeededType
    <3> QED BY <2>1, <2>3, <3>1 DEF KeepsProfiles, ProfilesIn, Keeps
  <2>5. CASE Rows(work.ts) = {}
    <3>1. Rows(targets) = {}
      BY <2>3, <2>5 DEF Keeps
    <3>2. \A i \in Rows(targets') : /\ targets'[i].source = "seed"
                                    /\ targets'[i].profile \in Mirrored \cup {NoProfile}
      BY <2>1, <2>3, <2>5, SeededType
    <3> QED BY <2>1, <3>1, <3>2 DEF KeepsProfiles
  <2> QED BY <2>4, <2>5
<1> QED BY <1>1, <1>2

\* Every step of one writer at a time leaves the targets their profiles.
LEMMA StepKeepsProfiles ==
    ASSUME Serialised, IInv, [Next]_vars
    PROVE  KeepsProfiles
<1>1. /\ ProfilesIn(targets, profiles) /\ DeletingIsUnused
      /\ targets \in Table /\ AddressesUnique(targets)
  BY DEF IInv, TypeOK, Table
<1>2. ASSUME UNCHANGED <<targets, profiles>> PROVE KeepsProfiles
  BY <1>1, <1>2 DEF KeepsProfiles, ProfilesIn, Rows
<1>3. CASE AskNetBox \/ Abandon \/ UNCHANGED vars
  BY <1>2, <1>3 DEF AskNetBox, Abandon, vars
<1>4. CASE Finish
  BY <1>1, <1>4, CommitKeepsProfiles DEF Finish
<1>5. ASSUME NEW a \in Address, NEW p \in Profile, NEW on \in BOOLEAN, CreateTarget(a, p, on)
      PROVE  KeepsProfiles
  <2> DEFINE row == [address |-> a, profile |-> p, enabled |-> on,
                     source |-> "manual", ref |-> NoDevice]
  <2>1. p \in profiles /\ profiles' = profiles /\ targets' = [targets EXCEPT ![Free(targets)] = row]
    BY <1>5 DEF CreateTarget
  <2>2. Free(targets) \in Id
    BY <1>1, <1>5, FreeIsFree DEF CreateTarget, Creatable
  <2>3. row.profile = p /\ row # NoRow
    BY TargetsAssumption DEF NoRow
  <2> HIDE DEF row
  <2>4. targets'[Free(targets)] = row /\ \A j \in Id \ {Free(targets)} : targets'[j] = targets[j]
    BY <1>1, <2>1, <2>2 DEF Table
  <2> QED BY <1>1, <2>1, <2>2, <2>3, <2>4 DEF KeepsProfiles, ProfilesIn, Rows
<1>6. ASSUME NEW i \in Id, NEW a \in Address, NEW p \in Profile \cup {NoProfile},
             NEW on \in BOOLEAN, UpdateTarget(i, a, p, on)
      PROVE  KeepsProfiles
  <2>1. targets[i] \in Row /\ i \in Rows(targets)
    BY <1>1, <1>6, RowsType DEF UpdateTarget, Editable
  <2>2. /\ p \in profiles \cup {targets[i].profile} /\ profiles' = profiles
        /\ targets'[i].profile = p /\ \A j \in Id \ {i} : targets'[j] = targets[j]
    BY <1>1, <1>6, <2>1 DEF UpdateTarget, Table, Row
  <2> QED BY <1>1, <2>1, <2>2 DEF KeepsProfiles, ProfilesIn, Rows
<1>7. ASSUME NEW i \in Id, DeleteTarget(i) PROVE KeepsProfiles
  <2>1. targets'[i] = NoRow /\ profiles' = profiles /\ \A j \in Id \ {i} : targets'[j] = targets[j]
    BY <1>1, <1>7 DEF DeleteTarget, Table
  <2> QED BY <1>1, <2>1 DEF KeepsProfiles, ProfilesIn, Rows
<1>8. ASSUME NEW p \in Profile, CreateCredential(p) \/ CheckCredential(p) PROVE KeepsProfiles
  <2>1. profiles \subseteq profiles' /\ UNCHANGED targets
    BY <1>8 DEF CreateCredential, CheckCredential
  <2> QED BY <1>1, <2>1 DEF KeepsProfiles, ProfilesIn, Rows
<1>9. CASE DeleteCredential
  <2>1. deleting # NoProfile /\ profiles' = profiles \ {deleting} /\ Users(deleting) = {}
    BY <1>1, <1>9 DEF DeleteCredential, DeletingIsUnused
  <2>2. \A i \in Id : targets'[i] = targets[i]
    BY <1>9, <2>1 DEF DeleteCredential
  <2>3. \A i \in Rows(targets) : targets[i].profile # deleting
    BY <2>1 DEF Users
  <2> QED BY <1>1, <2>1, <2>2, <2>3 DEF KeepsProfiles, ProfilesIn, Rows
<1>10. ASSUME NEW d \in Device, NEW a \in Address \cup {NoAddress}, EditDevice(d, a)
       PROVE  KeepsProfiles
  BY <1>2, <1>10 DEF EditDevice
<1> QED
  BY <1>3, <1>4, <1>5, <1>6, <1>7, <1>8, <1>9, <1>10 DEF Next, Cycle, Api

\* With SQLite, where a transaction that has begun to write excludes the others, no
\* step takes a target's profile away, and none but a seed begins without one.
THEOREM TargetsKeepTheirProfiles ==
    ASSUME Serialised
    PROVE  Spec => ProfilesAreKept
<1>1. IInv /\ [Next]_vars => [KeepsProfiles]_vars
  BY StepKeepsProfiles
<1>2. Spec => [][KeepsProfiles]_vars
  BY Invariant, <1>1, PTL DEF Spec
<1> QED BY <1>2 DEF ProfilesAreKept, KeepsProfiles

\* What a cycle that could not read NetBox does to a target: nothing.
LEMMA OutageStep ==
    ASSUME IInv, [Next]_vars, answer = Unreachable, answer' = Waiting
    PROVE  \A i \in Rows(targets) : targets'[i] = targets[i]
<1>1. answer # Waiting /\ answer' # answer
  BY TargetsAssumption
<1>2. CASE AskNetBox
  BY <1>1, <1>2 DEF AskNetBox
<1>3. CASE Abandon
  BY <1>3 DEF Abandon
<1>4. CASE Finish
  <2>1. PICK order \in SetToSeqs(Device) : Commit(order)
    BY <1>4 DEF Finish
  <2>2. Import(order, Mirrored) = [ts |-> targets, seen |-> {}, ok |-> TRUE]
    BY DEF Import
  <2>3. targets' = Seeded(targets)
    BY <2>1, <2>2 DEF Commit
  <2> QED BY <2>3 DEF Seeded
<1>5. CASE Api
  BY <1>1, <1>5 DEF Api, CreateTarget, UpdateTarget, DeleteTarget, CreateCredential,
                    CheckCredential, DeleteCredential
<1>6. CASE \E d \in Device, a \in Address \cup {NoAddress} : EditDevice(d, a)
  BY <1>1, <1>6 DEF EditDevice
<1>7. CASE UNCHANGED vars
  BY <1>1, <1>7 DEF vars
<1> QED BY <1>2, <1>3, <1>4, <1>5, <1>6, <1>7 DEF Next, Cycle

\* "A NetBox outage must not look like every target was untagged."
THEOREM OutagesDisableNothing == Spec => OutageDisablesNothing
<1>1. IInv /\ [Next]_vars =>
        [answer = Unreachable /\ answer' = Waiting =>
            \A i \in Rows(targets) : targets'[i] = targets[i]]_vars
  BY OutageStep
<1> QED BY Invariant, <1>1, PTL DEF Spec, OutageDisablesNothing

=============================================================================
