---------------------------- MODULE NetBoxProofs ----------------------------
(***************************************************************************)
(* Theorems about NetBoxRecords, for any sets of MACs, addresses and       *)
(* devices and any bounds.                                                 *)
(*                                                                         *)
(* First what each operation does to the whole database: the deletions of  *)
(* the cleanup, then the calls of an endpoint's step, where each loop goes *)
(* through an instance of FoldLemmas.  Then the invariant: what makes it   *)
(* inductive is that nothing refers to a device that is not there, that a  *)
(* reservation is marked on the record and on its device, and, while no    *)
(* call is lost, that a device is no older than its addresses.             *)
(***************************************************************************)
EXTENDS NetBoxRecords, FiniteSetTheorems, TLAPS

-----------------------------------------------------------------------------
(* Databases and rows.                                                      *)

NetDb == [devices: [Device -> DeviceRow \cup {NoDeviceRow}],
          macs: [Mac -> Device \cup {NoDevice}],
          ips: [Address -> IpRow \cup {NoIpRow}]]

\* The same device, whatever its primary address.
Like(r, q) ==
    /\ r = NoDeviceRow <=> q = NoDeviceRow
    /\ r.age = q.age /\ r.status = q.status /\ r.reserved = q.reserved
    /\ r.static = q.static /\ r.discovered = q.discovered /\ r.protected = q.protected

\* What the absent records are not.
LEMMA NoRows ==
    /\ NoDeviceRow \notin DeviceRow /\ NoIpRow \notin IpRow
    /\ NoDeviceRow.age = 0 /\ NoDeviceRow.primary = NoAddress /\ NoDeviceRow.discovered = FALSE
    /\ NoIpRow.owner = NoDevice /\ NoIpRow.discovered = FALSE
  BY DEF NoDeviceRow, NoIpRow, DeviceRow, IpRow

\* Clearing the primary address leaves a device as it is.
LEMMA ClearedRow ==
    ASSUME NEW row \in DeviceRow \cup {NoDeviceRow}
    PROVE  /\ [row EXCEPT !.primary = NoAddress] \in DeviceRow \cup {NoDeviceRow}
           /\ Like([row EXCEPT !.primary = NoAddress], row)
           /\ [row EXCEPT !.primary = NoAddress].primary = NoAddress
<1>1. CASE row \in DeviceRow
  <2> DEFINE r == [row EXCEPT !.primary = NoAddress]
  <2>1. r \in DeviceRow /\ r.primary = NoAddress
    BY <1>1 DEF DeviceRow
  <2>2. /\ r.age = row.age /\ r.status = row.status /\ r.reserved = row.reserved
        /\ r.static = row.static /\ r.discovered = row.discovered /\ r.protected = row.protected
    BY <1>1 DEF DeviceRow
  <2>3. r # NoDeviceRow /\ row # NoDeviceRow
    BY <1>1, <2>1, NoRows
  <2> QED BY <2>1, <2>2, <2>3 DEF Like
<1>2. CASE row = NoDeviceRow
  <2>1. PICK r : r = [row EXCEPT !.primary = NoAddress]
    OBVIOUS
  <2>2. r = NoDeviceRow
    BY <1>2, <2>1 DEF NoDeviceRow
  <2> QED BY <1>2, <2>1, <2>2, NoRows DEF Like
<1> QED BY <1>1, <1>2

\* Deleting an address touches no other address and no MAC.
LEMMA WithoutIpEffect ==
    ASSUME NEW w \in NetDb, NEW a \in Address
    PROVE  /\ WithoutIp(w, a) \in NetDb
           /\ WithoutIp(w, a).macs = w.macs
           /\ WithoutIp(w, a).ips = [w.ips EXCEPT ![a] = NoIpRow]
           /\ \A d \in Device : Like(WithoutIp(w, a).devices[d], w.devices[d])
<1> DEFINE ds == [d \in Device |-> IF w.devices[d].primary = a
                                   THEN [w.devices[d] EXCEPT !.primary = NoAddress]
                                   ELSE w.devices[d]]
           is == [w.ips EXCEPT ![a] = NoIpRow]
           v == WithoutIp(w, a)
<1>1. /\ w \in [devices: [Device -> DeviceRow \cup {NoDeviceRow}],
                macs: [Mac -> Device \cup {NoDevice}], ips: [Address -> IpRow \cup {NoIpRow}]]
      /\ v = [w EXCEPT !.ips[a] = NoIpRow, !.devices = ds]
  BY DEF WithoutIp, NetDb
<1>2. \A d \in Device : /\ ds[d] \in DeviceRow \cup {NoDeviceRow}
                        /\ Like(ds[d], w.devices[d])
  <2> SUFFICES ASSUME NEW d \in Device
               PROVE  /\ ds[d] \in DeviceRow \cup {NoDeviceRow}
                      /\ Like(ds[d], w.devices[d])
    OBVIOUS
  <2>1. w.devices[d] \in DeviceRow \cup {NoDeviceRow}
    BY DEF NetDb
  <2>2. ds[d] = [w.devices[d] EXCEPT !.primary = NoAddress] \/ ds[d] = w.devices[d]
    OBVIOUS
  <2> HIDE DEF ds
  <2> QED BY <2>1, <2>2, ClearedRow DEF Like
<1>3. is \in [Address -> IpRow \cup {NoIpRow}]
  BY DEF NetDb
<1>4. ds \in [Device -> DeviceRow \cup {NoDeviceRow}]
  BY <1>2
<1> HIDE DEF ds, v
<1>5. v.macs = w.macs /\ v.ips = is /\ v.devices = ds
  BY <1>1
<1> HIDE DEF is
<1>6. v \in NetDb
  BY <1>1, <1>3, <1>4 DEF NetDb, is
<1> QED BY <1>2, <1>5, <1>6 DEF v, is

-----------------------------------------------------------------------------
(* The loops of the cleanup.                                                *)

AnyOf(S) == CHOOSE x \in S : TRUE

DropTurn(c, w, a) == WithoutIp(w, a)
DropLoop == INSTANCE FoldLemmas WITH Op <- DropTurn, Pick <- AnyOf

\* Deleting a set of addresses deletes these and no others, in whatever order.
LEMMA WithoutIpsEffect ==
    ASSUME NEW w \in NetDb, NEW S \in SUBSET Address,
           NEW v, v = WithoutIps(w, S)
    PROVE  /\ v \in NetDb
           /\ v.macs = w.macs
           /\ \A a \in Address : v.ips[a] = IF a \in S THEN NoIpRow ELSE w.ips[a]
           /\ \A d \in Device : Like(v.devices[d], w.devices[d])
<1> DEFINE Gone(T) == {u \in NetDb :
                          /\ u.macs = w.macs
                          /\ \A a \in Address : u.ips[a] = IF a \in T THEN NoIpRow ELSE w.ips[a]
                          /\ \A d \in Device : Like(u.devices[d], w.devices[d])}
           W == [T \in SUBSET S |-> Gone(T)]
<1>1. v = DropLoop!Iter(w, w, S)[S]
  BY DEF WithoutIps, FoldSet, MapThenFoldSet, DropLoop!Iter, DropTurn, AnyOf
<1>2. DropLoop!IsFiniteSet(S)
  <2>1. IsFiniteSet(S)
    BY NetBoxAssumption, FS_Subset
  <2> QED BY <2>1 DEF IsFiniteSet, DropLoop!IsFiniteSet
<1>3. DropLoop!Picks(S)
  BY DEF DropLoop!Picks, AnyOf
<1>4. w \in W[{}]
  BY DEF Like
<1>5. \A T \in SUBSET S : T # {} =>
         \A u \in W[T \ {AnyOf(T)}] : DropTurn(w, u, AnyOf(T)) \in W[T]
  <2> SUFFICES ASSUME NEW T \in SUBSET S, T # {}, NEW u \in Gone(T \ {AnyOf(T)})
               PROVE  DropTurn(w, u, AnyOf(T)) \in Gone(T)
    OBVIOUS
  <2>1. AnyOf(T) \in T /\ AnyOf(T) \in Address
    BY DEF AnyOf
  <2> DEFINE y == WithoutIp(u, AnyOf(T))
  <2>2. /\ y \in NetDb /\ y.macs = u.macs
        /\ y.ips = [u.ips EXCEPT ![AnyOf(T)] = NoIpRow]
        /\ \A d \in Device : Like(y.devices[d], u.devices[d])
    BY <2>1, WithoutIpEffect
  <2>3. u.ips \in [Address -> IpRow \cup {NoIpRow}]
    BY DEF NetDb
  <2> HIDE DEF y
  <2>4. \A a \in Address : y.ips[a] = IF a \in T THEN NoIpRow ELSE w.ips[a]
    BY <2>1, <2>2, <2>3
  <2>5. \A d \in Device : Like(y.devices[d], w.devices[d])
    <3>1. \A d \in Device : Like(u.devices[d], w.devices[d])
      OBVIOUS
    <3> QED BY <2>2, <3>1 DEF Like
  <2>6. y \in Gone(T)
    BY <2>2, <2>4, <2>5
  <2> QED BY <2>6 DEF y, DropTurn
<1>6. v \in W[S]
  <2> HIDE DEF W
  <2> QED BY <1>1, <1>2, <1>3, <1>4, <1>5, DropLoop!FoldKeeps
<1> QED BY <1>6

\* What the deletion of one device does: its addresses are detached or deleted, its
\* MACs are nobody's; the addresses of others stay as they are.  When NetBox
\* refuses to delete it, the device itself stays.
ExpiredAs(w, v, gone, failed) ==
    /\ v \in NetDb
    /\ \A m \in Mac : v.macs[m] = IF w.macs[m] \in gone \ failed THEN NoDevice ELSE w.macs[m]
    /\ \A d \in Device :
          IF d \in gone \ failed THEN v.devices[d] = NoDeviceRow
          ELSE Like(v.devices[d], w.devices[d])
    /\ \A a \in Address :
          \/ v.ips[a] = w.ips[a] /\ w.ips[a].owner \notin gone \ failed
          \/ w.ips[a].owner \in gone /\ v.ips[a] = NoIpRow
          \/ w.ips[a].owner \in gone /\ v.ips[a] = [w.ips[a] EXCEPT !.owner = NoDevice]

\* An address with an owner is a record.
LEMMA OwnedIsRow ==
    ASSUME NEW w \in NetDb, NEW a \in Address, w.ips[a].owner # NoDevice
    PROVE  w.ips[a] \in IpRow /\ w.ips[a].owner \in Device
<1>1. w.ips[a] \in IpRow \cup {NoIpRow}
  BY DEF NetDb
<1> QED BY <1>1, NoRows DEF IpRow

\* What a deletion takes along.
LEMMA WithoutDeviceEffect ==
    ASSUME NEW w \in NetDb, NEW d \in Device, NEW v, v = WithoutDevice(w, d)
    PROVE  /\ v \in NetDb
           /\ \A m \in Mac : v.macs[m] = IF w.macs[m] = d THEN NoDevice ELSE w.macs[m]
           /\ v.devices[d] = NoDeviceRow
           /\ \A e \in Device \ {d} : v.devices[e] = w.devices[e]
           /\ \A a \in Address : v.ips[a] = IF w.ips[a].owner = d THEN NoIpRow ELSE w.ips[a]
  BY DEF WithoutDevice, NetDb

\* _delete_device deletes one device and what it owns, except what is kept.
LEMMA ExpiredEffect ==
    ASSUME NEW w \in NetDb, NEW d \in Device, NEW lost, NEW failed
    PROVE  ExpiredAs(w, Expired(w, d, lost, failed), {d}, failed)
<1> DEFINE det == [a \in Address |->
                        IF a \in OwnedBy(w, d) \ lost /\ Outlives(w.ips[a]) /\ ~Pinned(w, a)
                        THEN [w.ips[a] EXCEPT !.owner = NoDevice] ELSE w.ips[a]]
           detached == [w EXCEPT !.ips = det]
           gone == {a \in OwnedBy(w, d) \ lost : ~Outlives(w.ips[a])}
           emptied == WithoutIps(detached, gone)
           v == Expired(w, d, lost, failed)
<1>1. v = IF d \in failed THEN emptied ELSE WithoutDevice(emptied, d)
  BY DEF Expired
<1>2. \A a \in OwnedBy(w, d) : w.ips[a].owner = d /\ a \in Address
  BY DEF OwnedBy
<1>3. d # NoDevice
  BY NetBoxAssumption
<1>4. \A a \in Address : /\ det[a] \in IpRow \cup {NoIpRow}
                         /\ det[a] = w.ips[a] \/ (w.ips[a].owner = d /\ det[a] = [w.ips[a] EXCEPT !.owner = NoDevice])
  <2> SUFFICES ASSUME NEW a \in Address
               PROVE  /\ det[a] \in IpRow \cup {NoIpRow}
                      /\ det[a] = w.ips[a] \/ (w.ips[a].owner = d /\ det[a] = [w.ips[a] EXCEPT !.owner = NoDevice])
    OBVIOUS
  <2>1. w.ips[a] \in IpRow \cup {NoIpRow}
    BY DEF NetDb
  <2>2. CASE w.ips[a].owner = d
    <3>1. w.ips[a] \in IpRow
      BY <1>3, <2>2, OwnedIsRow
    <3>2. [w.ips[a] EXCEPT !.owner = NoDevice] \in IpRow
      BY <3>1 DEF IpRow
    <3> QED BY <2>1, <2>2, <3>2
  <2>3. CASE w.ips[a].owner # d
    <3>1. det[a] = w.ips[a]
      BY <1>2, <2>3
    <3> HIDE DEF det
    <3> QED BY <2>1, <3>1
  <2> QED BY <2>2, <2>3
<1>5. det \in [Address -> IpRow \cup {NoIpRow}]
  BY <1>4
<1> HIDE DEF det
<1>6. detached \in NetDb /\ detached.ips = det /\ detached.macs = w.macs /\ detached.devices = w.devices
  BY <1>5 DEF NetDb
<1>7. gone \in SUBSET Address /\ \A a \in gone : w.ips[a].owner = d
  BY <1>2
<1> HIDE DEF detached, gone
<1>8. /\ emptied \in NetDb /\ emptied.macs = w.macs
      /\ \A a \in Address : emptied.ips[a] = IF a \in gone THEN NoIpRow ELSE det[a]
      /\ \A e \in Device : Like(emptied.devices[e], w.devices[e])
  BY <1>6, <1>7, WithoutIpsEffect
<1> HIDE DEF emptied
<1>9. CASE d \in failed
  <2>1. v = emptied
    BY <1>1, <1>9
  <2> HIDE DEF v
  <2>2. \A m \in Mac : v.macs[m] = w.macs[m]
    BY <1>8, <2>1
  <2>3. \A a \in Address :
          \/ v.ips[a] = w.ips[a]
          \/ w.ips[a].owner = d /\ v.ips[a] = NoIpRow
          \/ w.ips[a].owner = d /\ v.ips[a] = [w.ips[a] EXCEPT !.owner = NoDevice]
    BY <1>4, <1>7, <1>8, <2>1
  <2>4. ExpiredAs(w, v, {d}, failed)
    BY <1>8, <1>9, <2>1, <2>2, <2>3 DEF ExpiredAs
  <2> QED BY <2>4 DEF v
<1>10. CASE d \notin failed
  <2>1. v = WithoutDevice(emptied, d)
    BY <1>1, <1>10
  <2> HIDE DEF v
  <2>2. /\ v \in NetDb
        /\ \A m \in Mac : v.macs[m] = IF emptied.macs[m] = d THEN NoDevice ELSE emptied.macs[m]
        /\ v.devices[d] = NoDeviceRow
        /\ \A e \in Device \ {d} : v.devices[e] = emptied.devices[e]
        /\ \A a \in Address : v.ips[a] = IF emptied.ips[a].owner = d THEN NoIpRow ELSE emptied.ips[a]
    BY <1>8, <2>1, WithoutDeviceEffect
  <2>3. ASSUME NEW a \in Address
        PROVE  \/ v.ips[a] = w.ips[a] /\ w.ips[a].owner # d
               \/ w.ips[a].owner = d /\ v.ips[a] = NoIpRow
               \/ w.ips[a].owner = d /\ v.ips[a] = [w.ips[a] EXCEPT !.owner = NoDevice]
    <3>1. CASE emptied.ips[a].owner = d
      <4>1. a \notin gone
        BY <3>1, <1>3, <1>8, NoRows
      <4>2. emptied.ips[a] = det[a]
        BY <4>1, <1>8
      <4>3. w.ips[a].owner = d
        BY <3>1, <4>2, <1>4
      <4> QED BY <3>1, <4>3, <2>2
    <3>2. CASE emptied.ips[a].owner # d
      <4>1. v.ips[a] = emptied.ips[a]
        BY <3>2, <2>2
      <4> QED BY <4>1, <3>2, <1>4, <1>7, <1>8
    <3> QED BY <3>1, <3>2
  <2>4. ExpiredAs(w, v, {d}, failed)
    BY <1>8, <1>10, <2>2, <2>3 DEF ExpiredAs
  <2> QED BY <2>4 DEF v
<1> QED BY <1>9, <1>10

\* Two deletions after another.
LEMMA ExpiredTwice ==
    ASSUME NEW w \in NetDb, NEW u, NEW v, NEW gone \in SUBSET Device, NEW d \in gone, NEW failed,
           ExpiredAs(w, u, gone \ {d}, failed), ExpiredAs(u, v, {d}, failed)
    PROVE  ExpiredAs(w, v, gone, failed)
<1>1. v \in NetDb /\ u \in NetDb
  BY DEF ExpiredAs
<1>2. NoDevice \notin Device
  BY NetBoxAssumption
<1>3. \A m \in Mac : v.macs[m] = IF w.macs[m] \in gone \ failed THEN NoDevice ELSE w.macs[m]
  <2>1. \A m \in Mac : u.macs[m] = IF w.macs[m] \in (gone \ {d}) \ failed THEN NoDevice ELSE w.macs[m]
    BY DEF ExpiredAs
  <2>2. \A m \in Mac : v.macs[m] = IF u.macs[m] \in {d} \ failed THEN NoDevice ELSE u.macs[m]
    BY DEF ExpiredAs
  <2> QED BY <1>2, <2>1, <2>2
<1>4. ASSUME NEW e \in Device
      PROVE  IF e \in gone \ failed THEN v.devices[e] = NoDeviceRow
             ELSE Like(v.devices[e], w.devices[e])
  <2>1. IF e \in (gone \ {d}) \ failed THEN u.devices[e] = NoDeviceRow
        ELSE Like(u.devices[e], w.devices[e])
    BY DEF ExpiredAs
  <2>2. IF e \in {d} \ failed THEN v.devices[e] = NoDeviceRow
        ELSE Like(v.devices[e], u.devices[e])
    BY DEF ExpiredAs
  <2> QED BY <2>1, <2>2 DEF Like
<1>5. ASSUME NEW a \in Address
      PROVE  \/ v.ips[a] = w.ips[a] /\ w.ips[a].owner \notin gone \ failed
             \/ w.ips[a].owner \in gone /\ v.ips[a] = NoIpRow
             \/ w.ips[a].owner \in gone /\ v.ips[a] = [w.ips[a] EXCEPT !.owner = NoDevice]
  <2>1. \/ u.ips[a] = w.ips[a] /\ w.ips[a].owner \notin (gone \ {d}) \ failed
        \/ w.ips[a].owner \in gone \ {d} /\ u.ips[a] = NoIpRow
        \/ w.ips[a].owner \in gone \ {d} /\ u.ips[a] = [w.ips[a] EXCEPT !.owner = NoDevice]
    BY DEF ExpiredAs
  <2>2. \/ v.ips[a] = u.ips[a] /\ u.ips[a].owner \notin {d} \ failed
        \/ u.ips[a].owner \in {d} /\ v.ips[a] = NoIpRow
        \/ u.ips[a].owner \in {d} /\ v.ips[a] = [u.ips[a] EXCEPT !.owner = NoDevice]
    BY DEF ExpiredAs
  <2>3. CASE u.ips[a] = w.ips[a] /\ w.ips[a].owner \notin (gone \ {d}) \ failed
    BY <2>2, <2>3
  <2>4. CASE w.ips[a].owner \in gone \ {d} /\ u.ips[a] = NoIpRow
    <3>1. u.ips[a].owner # d
      BY <2>4, <1>2, NoRows
    <3> QED BY <2>2, <2>4, <3>1
  <2>5. CASE w.ips[a].owner \in gone \ {d} /\ u.ips[a] = [w.ips[a] EXCEPT !.owner = NoDevice]
    <3>1. w.ips[a] \in IpRow
      BY <2>5, <1>2, OwnedIsRow
    <3>2. u.ips[a].owner = NoDevice
      BY <2>5, <3>1 DEF IpRow
    <3>3. v.ips[a] = u.ips[a]
      BY <1>2, <2>2, <3>2
    <3> QED BY <2>5, <3>3
  <2> QED BY <2>1, <2>3, <2>4, <2>5
<1> QED BY <1>1, <1>3, <1>4, <1>5 DEF ExpiredAs

ExpireTurn(c, w, d) == Expired(w, d, c[1], c[2])
ExpireLoop == INSTANCE FoldLemmas WITH Op <- ExpireTurn, Pick <- AnyOf

\* All the deletions of one pass, in whatever order.
LEMMA WithoutExpiredEffect ==
    ASSUME NEW w \in NetDb, NEW gone \in SUBSET Device, NEW lost, NEW failed,
           NEW v, v = WithoutExpired(w, gone, lost, failed)
    PROVE  ExpiredAs(w, v, gone, failed)
<1> DEFINE c == <<lost, failed>>
           After(T) == {u \in NetDb : ExpiredAs(w, u, T, failed)}
           W == [T \in SUBSET gone |-> After(T)]
<1>1. v = ExpireLoop!Iter(c, w, gone)[gone]
  BY DEF WithoutExpired, FoldSet, MapThenFoldSet, ExpireLoop!Iter, ExpireTurn, AnyOf
<1>2. ExpireLoop!IsFiniteSet(gone)
  <2>1. IsFiniteSet(gone)
    BY NetBoxAssumption, FS_Subset
  <2> QED BY <2>1 DEF IsFiniteSet, ExpireLoop!IsFiniteSet
<1>3. ExpireLoop!Picks(gone)
  BY DEF ExpireLoop!Picks, AnyOf
<1>4. w \in W[{}]
  BY DEF ExpiredAs, Like
<1>5. \A T \in SUBSET gone : T # {} =>
         \A u \in W[T \ {AnyOf(T)}] : ExpireTurn(c, u, AnyOf(T)) \in W[T]
  <2> SUFFICES ASSUME NEW T \in SUBSET gone, T # {}, NEW u \in After(T \ {AnyOf(T)})
               PROVE  ExpireTurn(c, u, AnyOf(T)) \in After(T)
    OBVIOUS
  <2>1. AnyOf(T) \in T /\ AnyOf(T) \in Device /\ T \in SUBSET Device
    BY DEF AnyOf
  <2>2. u \in NetDb /\ ExpiredAs(w, u, T \ {AnyOf(T)}, failed)
    OBVIOUS
  <2> DEFINE y == Expired(u, AnyOf(T), lost, failed)
  <2>3. ExpiredAs(u, y, {AnyOf(T)}, failed)
    BY <2>1, <2>2, ExpiredEffect
  <2> HIDE DEF y
  <2>4. ExpiredAs(w, y, T, failed)
    BY <2>1, <2>2, <2>3, ExpiredTwice
  <2>5. y \in NetDb
    BY <2>4 DEF ExpiredAs
  <2> QED BY <2>4, <2>5 DEF y, ExpireTurn
<1>6. v \in W[gone]
  <2> HIDE DEF W, c
  <2> QED BY <1>1, <1>2, <1>3, <1>4, <1>5, ExpireLoop!FoldKeeps
<1> QED BY <1>6

-----------------------------------------------------------------------------
(* One endpoint.                                                            *)

\* The record of an address of a sighting after its PATCH or POST.
Sighted(old, new, d, s, a, lost) ==
    /\ new \in IpRow
    /\ new.owner = d /\ new.age = 0 /\ new.static = (a \in s.fixed)
    /\ new.discovered => new.status = StatusFor(s, a)
    /\ new.discovered /\ a \in s.fixed /\ (old = NoIpRow \/ <<"mark", a>> \notin lost) =>
          new.reserved
    /\ old # NoIpRow => new.discovered = old.discovered /\ (old.reserved => new.reserved)

\* The write of an address takes effect: it arrives, and no other device has the
\* address as its primary address any more.
Arrives(w, d, a, lost) ==
    /\ <<"write", a>> \notin lost
    /\ w.ips[a].owner # d /\ Pinned(w, a) => <<"release", a>> \notin lost

\* The devices lost no primary addresses but those in T.
Unpinned(x, v, T) ==
    \A e \in Device :
        \/ v.devices[e].primary = x.devices[e].primary
        \/ v.devices[e].primary = NoAddress /\ x.devices[e].primary \in T

\* What the turns for the addresses in T do: each is the endpoint's and fresh,
\* unless its write has no effect.
AddressedAs(x, v, d, s, T, lost) ==
    /\ v \in NetDb
    /\ v.macs = x.macs
    /\ \A e \in Device : Like(v.devices[e], x.devices[e])
    /\ Unpinned(x, v, T)
    /\ \A a \in Address \ T : v.ips[a] = x.ips[a]
    /\ \A a \in T : IF Arrives(x, d, a, lost) THEN Sighted(x.ips[a], v.ips[a], d, s, a, lost)
                    ELSE v.ips[a] = x.ips[a]

\* Other turns do not change whether a write takes effect.
LEMMA ArrivesAlike ==
    ASSUME NEW x \in NetDb, NEW v \in NetDb, NEW d, NEW T, NEW lost,
           Unpinned(x, v, T), NEW a \in Address, a \notin T, v.ips[a] = x.ips[a]
    PROVE  Arrives(v, d, a, lost) <=> Arrives(x, d, a, lost)
<1>1. CASE x.ips[a].owner = NoDevice
  BY <1>1 DEF Arrives, Pinned
<1>2. CASE x.ips[a].owner # NoDevice
  <2>1. x.ips[a].owner \in Device
    BY <1>2, OwnedIsRow
  <2>2. v.devices[x.ips[a].owner].primary = a <=> x.devices[x.ips[a].owner].primary = a
    BY <2>1, NetBoxAssumption DEF Unpinned
  <2> QED BY <2>2 DEF Arrives, Pinned
<1> QED BY <1>1, <1>2

\* An address is written as active or reserved.
LEMMA StatusType ==
    ASSUME NEW s, NEW a
    PROVE  StatusFor(s, a) \in {"active", "reserved"}
  BY DEF StatusFor

\* The previous owner only loses its primary address.
LEMMA ReleasedEffect ==
    ASSUME NEW w \in NetDb, NEW d \in Device, NEW a \in Address, NEW lost,
           NEW v, v = Released(w, d, a, lost)
    PROVE  /\ v \in NetDb /\ v.macs = w.macs /\ v.ips = w.ips
           /\ \A e \in Device : Like(v.devices[e], w.devices[e])
           /\ Unpinned(w, v, {a})
           /\ w.ips[a].owner # d /\ Pinned(v, a) => <<"release", a>> \in lost /\ Pinned(w, a)
<1> DEFINE o == w.ips[a].owner
<1>1. CASE o # d /\ Pinned(w, a) /\ <<"release", a>> \notin lost
  <2>1. o \in Device /\ o # NoDevice
    BY <1>1, OwnedIsRow DEF Pinned
  <2>2. v = [w EXCEPT !.devices[o].primary = NoAddress]
    BY <1>1 DEF Released
  <2> DEFINE row == [w.devices[o] EXCEPT !.primary = NoAddress]
  <2>3. /\ row \in DeviceRow \cup {NoDeviceRow} /\ Like(row, w.devices[o])
        /\ row.primary = NoAddress
    <3>1. w.devices[o] \in DeviceRow \cup {NoDeviceRow}
      BY <2>1 DEF NetDb
    <3> QED BY <3>1, ClearedRow
  <2>4. v = [w EXCEPT !.devices = [w.devices EXCEPT ![o] = row]]
    BY <2>2
  <2> HIDE DEF row, o
  <2>5. v.devices = [w.devices EXCEPT ![o] = row] /\ v.macs = w.macs /\ v.ips = w.ips
    BY <2>4 DEF NetDb
  <2>6. w.devices \in [Device -> DeviceRow \cup {NoDeviceRow}]
    BY DEF NetDb
  <2>7. v.devices \in [Device -> DeviceRow \cup {NoDeviceRow}]
    BY <2>1, <2>3, <2>5, <2>6
  <2>8. v \in NetDb
    BY <2>4, <2>5, <2>7 DEF NetDb
  <2>9. \A e \in Device : Like(v.devices[e], w.devices[e])
    BY <2>1, <2>3, <2>5, <2>6 DEF Like
  <2>10. ~Pinned(v, a)
    <3>1. v.devices[v.ips[a].owner].primary = NoAddress
      BY <2>1, <2>3, <2>5, <2>6 DEF o
    <3> QED BY <3>1, NetBoxAssumption DEF Pinned
  <2>11. Unpinned(w, v, {a})
    <3>1. w.devices[o].primary = a
      BY <1>1 DEF Pinned, o
    <3> QED BY <2>1, <2>3, <2>5, <2>6, <3>1 DEF Unpinned
  <2> QED BY <2>5, <2>8, <2>9, <2>10, <2>11
<1>2. CASE ~(o # d /\ Pinned(w, a) /\ <<"release", a>> \notin lost)
  <2>1. v = w
    BY <1>2 DEF Released
  <2> QED BY <1>2, <2>1 DEF Like, Unpinned
<1> QED BY <1>1, <1>2

\* The PATCH of a record that exists.
LEMMA WrittenEffect ==
    ASSUME NEW w \in NetDb, NEW d \in Device, NEW s \in Sighting, NEW a \in Address, NEW lost,
           w.ips[a] # NoIpRow, NEW v, v = Written(w, d, s, a, lost)
    PROVE  /\ v \in NetDb /\ v.macs = w.macs /\ v.devices = w.devices
           /\ \A b \in Address \ {a} : v.ips[b] = w.ips[b]
           /\ IF <<"write", a>> \in lost \/ (w.ips[a].owner # d /\ Pinned(w, a))
              THEN v.ips[a] = w.ips[a] ELSE Sighted(w.ips[a], v.ips[a], d, s, a, lost)
<1> DEFINE old == w.ips[a]
           fx == a \in s.fixed
           st == IF old.discovered THEN StatusFor(s, a) ELSE old.status
           rs == old.reserved
                    \/ (old.discovered /\ a \in s.fixed /\ <<"mark", a>> \notin lost)
           row == [old EXCEPT !.owner = d, !.age = 0, !.static = fx, !.status = st, !.reserved = rs]
<1>1. CASE <<"write", a>> \in lost \/ (w.ips[a].owner # d /\ Pinned(w, a))
  <2>1. v = w
    BY <1>1 DEF Written
  <2> QED BY <1>1, <2>1
<1>2. CASE ~(<<"write", a>> \in lost \/ (w.ips[a].owner # d /\ Pinned(w, a)))
  <2>1. row = Patched(old, d, s, a, lost)
    BY DEF Patched
  <2>2. v = [w EXCEPT !.ips = [w.ips EXCEPT ![a] = row]]
    <3> HIDE DEF row
    <3> QED BY <1>2, <2>1 DEF Written
  <2>3. old \in IpRow
    BY DEF NetDb
  <2>4. /\ 0 \in Age /\ st \in {"active", "reserved", "deprecated"}
        /\ fx \in BOOLEAN /\ rs \in BOOLEAN
    BY <2>3, NetBoxAssumption, StatusType DEF Age, Oldest, IpRow
  <2>5. /\ old.discovered \in BOOLEAN
        /\ old.discovered => st = StatusFor(s, a)
        /\ old.discovered /\ fx /\ <<"mark", a>> \notin lost => rs
        /\ old.reserved => rs
        /\ old # NoIpRow
    BY <2>3 DEF IpRow
  <2> HIDE DEF st, rs, old
  <2>6. /\ row \in IpRow
        /\ row.owner = d /\ row.age = 0 /\ row.static = fx /\ row.status = st
        /\ row.reserved = rs /\ row.discovered = old.discovered
    BY <2>3, <2>4 DEF IpRow
  <2> HIDE DEF row
  <2>7. Sighted(old, row, d, s, a, lost)
    BY <2>5, <2>6 DEF Sighted
  <2>8. v.ips = [w.ips EXCEPT ![a] = row] /\ v.macs = w.macs /\ v.devices = w.devices
    BY <2>2 DEF NetDb
  <2>9. v \in NetDb
    BY <2>2, <2>6, <2>8 DEF NetDb
  <2>10. v.ips[a] = row /\ \A b \in Address \ {a} : v.ips[b] = w.ips[b]
    BY <2>8 DEF NetDb
  <2> QED BY <1>2, <2>7, <2>8, <2>9, <2>10 DEF old
<1> QED BY <1>1, <1>2

\* One turn.
LEMMA WithIpEffect ==
    ASSUME NEW w \in NetDb, NEW d \in Device, NEW s \in Sighting, NEW a \in Address, NEW lost,
           NEW v, v = WithIp(w, d, s, a, lost)
    PROVE  AddressedAs(w, v, d, s, {a}, lost)
<1>1. CASE w.ips[a] # NoIpRow
  <2> DEFINE r == Released(w, d, a, lost)
  <2>1. v = Written(r, d, s, a, lost)
    BY <1>1 DEF WithIp
  <2>2. /\ r \in NetDb /\ r.macs = w.macs /\ r.ips = w.ips
        /\ \A e \in Device : Like(r.devices[e], w.devices[e])
        /\ Unpinned(w, r, {a})
        /\ w.ips[a].owner # d /\ Pinned(r, a) => <<"release", a>> \in lost /\ Pinned(w, a)
    BY ReleasedEffect
  <2>6. <<"release", a>> \in lost => r = w
    BY DEF Released
  <2> HIDE DEF r
  <2>3. /\ v \in NetDb /\ v.macs = r.macs /\ v.devices = r.devices
        /\ \A b \in Address \ {a} : v.ips[b] = r.ips[b]
        /\ IF <<"write", a>> \in lost \/ (r.ips[a].owner # d /\ Pinned(r, a))
           THEN v.ips[a] = r.ips[a] ELSE Sighted(r.ips[a], v.ips[a], d, s, a, lost)
    BY <1>1, <2>1, <2>2, WrittenEffect
  <2>4. IF Arrives(w, d, a, lost) THEN Sighted(w.ips[a], v.ips[a], d, s, a, lost)
        ELSE v.ips[a] = w.ips[a]
    BY <2>2, <2>3, <2>6 DEF Arrives
  <2>5. Unpinned(w, v, {a})
    BY <2>2, <2>3 DEF Unpinned
  <2> QED BY <2>2, <2>3, <2>4, <2>5 DEF AddressedAs
<1>2. CASE w.ips[a] = NoIpRow /\ <<"write", a>> \in lost
  <2>1. v = w
    BY <1>2 DEF WithIp
  <2> QED BY <1>2, <2>1 DEF AddressedAs, Like, Arrives, Unpinned
<1>3. CASE w.ips[a] = NoIpRow /\ <<"write", a>> \notin lost
  <2> DEFINE row == NewIp(d, s, a)
  <2>1. v = [w EXCEPT !.ips = [w.ips EXCEPT ![a] = row]]
    BY <1>3 DEF WithIp
  <2>2. 0 \in Age /\ StatusFor(s, a) \in {"active", "reserved", "deprecated"}
    BY NetBoxAssumption, StatusType DEF Age, Oldest
  <2>3. row \in IpRow
    BY <2>2 DEF NewIp, IpRow
  <2>4. Sighted(w.ips[a], row, d, s, a, lost)
    BY <1>3, <2>3 DEF Sighted, NewIp
  <2> HIDE DEF row
  <2>5. v.ips = [w.ips EXCEPT ![a] = row] /\ v.macs = w.macs /\ v.devices = w.devices
    BY <2>1 DEF NetDb
  <2>6. v \in NetDb
    BY <2>1, <2>3, <2>5 DEF NetDb
  <2>7. v.ips[a] = row /\ \A b \in Address \ {a} : v.ips[b] = w.ips[b]
    BY <2>5 DEF NetDb
  <2>8. Arrives(w, d, a, lost) /\ Unpinned(w, v, {a})
    BY <1>3, <2>5, NoRows DEF Arrives, Pinned, Unpinned
  <2> QED BY <2>4, <2>5, <2>6, <2>7, <2>8 DEF AddressedAs, Like
<1> QED BY <1>1, <1>2, <1>3

IpTurn(c, w, a) == WithIp(w, c[1], c[2], a, c[3])
IpLoop == INSTANCE FoldLemmas WITH Op <- IpTurn, Pick <- Max

\* The loops over addresses can pick the highest.
LEMMA AddressPicks ==
    ASSUME NEW S \in SUBSET Address
    PROVE  IpLoop!IsFiniteSet(S) /\ IpLoop!Picks(S)
<1>1. IsFiniteSet(S) /\ S \in SUBSET Nat
  BY NetBoxAssumption, FS_Subset
<1>2. IpLoop!IsFiniteSet(S)
  BY <1>1 DEF IsFiniteSet, IpLoop!IsFiniteSet
<1>3. \A s \in SUBSET S : s # {} => IpLoop!Highest(s) \in s
  BY <1>1, <1>2, IpLoop!HighestPicks
<1> QED BY <1>2, <1>3 DEF IpLoop!Picks, IpLoop!Highest, Max

\* All the addresses of the sighting.
LEMMA WithAddressesEffect ==
    ASSUME NEW w \in NetDb, NEW d \in Device, NEW s \in Sighting, NEW lost,
           NEW v, v = WithAddresses(w, d, s, lost)
    PROVE  AddressedAs(w, v, d, s, s.ips, lost)
<1> DEFINE c == <<d, s, lost>>
           S == s.ips
           After(T) == {u \in NetDb : AddressedAs(w, u, d, s, T, lost)}
           W == [T \in SUBSET S |-> After(T)]
<1>1. v = IpLoop!Iter(c, w, S)[S]
  BY DEF WithAddresses, InOrder, MapThenFoldSet, IpLoop!Iter, IpTurn, Max
<1>2. S \in SUBSET Address
  BY DEF Sighting
<1>3. IpLoop!IsFiniteSet(S) /\ IpLoop!Picks(S)
  BY <1>2, AddressPicks
<1>4. w \in W[{}]
  BY DEF AddressedAs, Like, Unpinned
<1>5. \A T \in SUBSET S : T # {} =>
         \A u \in W[T \ {Max(T)}] : IpTurn(c, u, Max(T)) \in W[T]
  <2> SUFFICES ASSUME NEW T \in SUBSET S, T # {}, NEW u \in After(T \ {Max(T)})
               PROVE  IpTurn(c, u, Max(T)) \in After(T)
    OBVIOUS
  <2>1. Max(T) \in T /\ Max(T) \in Address
    BY <1>2, <1>3 DEF IpLoop!Picks
  <2>2. u \in NetDb /\ AddressedAs(w, u, d, s, T \ {Max(T)}, lost)
    OBVIOUS
  <2> DEFINE y == WithIp(u, d, s, Max(T), lost)
  <2>3. AddressedAs(u, y, d, s, {Max(T)}, lost)
    BY <2>1, <2>2, WithIpEffect
  <2> HIDE DEF y
  <2>4. AddressedAs(w, y, d, s, T, lost)
    <3>1. \A e \in Device : Like(y.devices[e], w.devices[e])
      BY <2>2, <2>3 DEF AddressedAs, Like
    <3>2. \A a \in Address \ T : y.ips[a] = w.ips[a]
      BY <2>1, <2>2, <2>3 DEF AddressedAs
    <3>3. \A a \in T : IF Arrives(w, d, a, lost) THEN Sighted(w.ips[a], y.ips[a], d, s, a, lost)
                       ELSE y.ips[a] = w.ips[a]
      <4> SUFFICES ASSUME NEW a \in T
                   PROVE  IF Arrives(w, d, a, lost) THEN Sighted(w.ips[a], y.ips[a], d, s, a, lost)
                          ELSE y.ips[a] = w.ips[a]
        OBVIOUS
      <4>1. CASE a = Max(T)
        <5>1. u.ips[a] = w.ips[a] /\ Unpinned(w, u, T \ {Max(T)})
          BY <2>1, <2>2, <4>1 DEF AddressedAs
        <5>2. Arrives(u, d, a, lost) <=> Arrives(w, d, a, lost)
          BY <2>1, <2>2, <4>1, <5>1, ArrivesAlike
        <5> QED BY <2>3, <4>1, <5>1, <5>2 DEF AddressedAs
      <4>2. CASE a # Max(T)
        <5>1. y.ips[a] = u.ips[a] /\ a \in T \ {Max(T)}
          BY <1>2, <2>3, <4>2 DEF AddressedAs
        <5> QED BY <2>2, <5>1 DEF AddressedAs
      <4> QED BY <4>1, <4>2
    <3>4. Unpinned(w, y, T)
      <4>1. Unpinned(w, u, T \ {Max(T)}) /\ Unpinned(u, y, {Max(T)})
        BY <2>2, <2>3 DEF AddressedAs
      <4> QED BY <2>1, <4>1 DEF Unpinned
    <3> QED BY <2>2, <2>3, <3>1, <3>2, <3>3, <3>4 DEF AddressedAs
  <2>5. y \in NetDb
    BY <2>4 DEF AddressedAs
  <2> QED BY <2>4, <2>5 DEF y, IpTurn
<1>6. v \in W[S]
  <2> HIDE DEF W, c, S
  <2> QED BY <1>1, <1>3, <1>4, <1>5, IpLoop!FoldKeeps
<1> QED BY <1>6

BetterTurn(c, best, a) == Better(c[1], c[2], best, a)
BetterLoop == INSTANCE FoldLemmas WITH Op <- BetterTurn, Pick <- Max

\* The primary address is one of those the endpoint was seen with that are in NetBox.
LEMMA PrimaryEffect ==
    ASSUME NEW w \in NetDb, NEW s \in Sighting
    PROVE  LET S == {a \in s.ips : w.ips[a] # NoIpRow}
           IN  IF S = {} THEN Primary(w, s) = NoAddress ELSE Primary(w, s) \in S
<1> DEFINE c == <<w, s>>
           S == {a \in s.ips : w.ips[a] # NoIpRow}
           W == [T \in SUBSET S |-> IF T = {} THEN {NoAddress} ELSE T]
<1>1. Primary(w, s) = BetterLoop!Iter(c, NoAddress, S)[S]
  BY DEF Primary, InOrder, MapThenFoldSet, BetterLoop!Iter, BetterTurn, Max
<1>2. S \in SUBSET Address
  BY DEF Sighting
<1>3. BetterLoop!IsFiniteSet(S) /\ BetterLoop!Picks(S)
  <2>1. IpLoop!IsFiniteSet(S) /\ IpLoop!Picks(S)
    BY <1>2, AddressPicks
  <2> HIDE DEF S
  <2> QED BY <2>1 DEF IpLoop!IsFiniteSet, BetterLoop!IsFiniteSet, IpLoop!Picks, BetterLoop!Picks
<1>4. NoAddress \in W[{}]
  OBVIOUS
<1>5. \A T \in SUBSET S : T # {} =>
         \A u \in W[T \ {Max(T)}] : BetterTurn(c, u, Max(T)) \in W[T]
  <2> SUFFICES ASSUME NEW T \in SUBSET S, T # {}, NEW u \in W[T \ {Max(T)}]
               PROVE  BetterTurn(c, u, Max(T)) \in T
    OBVIOUS
  <2>1. Max(T) \in T
    BY <1>3 DEF BetterLoop!Picks
  <2>2. u = NoAddress \/ u \in T
    OBVIOUS
  <2> QED BY <2>1, <2>2 DEF BetterTurn, Better
<1>6. Primary(w, s) \in W[S]
  <2> HIDE DEF W, c, S
  <2> QED BY <1>1, <1>3, <1>4, <1>5, BetterLoop!FoldKeeps
<1> QED BY <1>6

\* The attributes of the device.
FreshDevice(old, new, s, lost) ==
    /\ new \in DeviceRow
    /\ new.age = 0
    /\ new.discovered = old.discovered
    /\ new.discovered => new.status = "active"
    /\ old.reserved => new.reserved
    /\ new.discovered /\ s.fixed # {} /\ Of("tag") \notin lost => new.reserved

\* The update of a device that was seen.
LEMMA RefreshedEffect ==
    ASSUME NEW old \in DeviceRow, NEW s \in Sighting, NEW lost,
           NEW row, row = Refreshed(old, s, lost)
    PROVE  FreshDevice(old, row, s, lost) /\ row.primary = old.primary
<1> DEFINE fx == s.fixed # {}
           st == IF old.discovered THEN "active" ELSE old.status
           rs == old.reserved \/ (old.discovered /\ s.fixed # {} /\ Of("tag") \notin lost)
<1>1. row = [old EXCEPT !.age = 0, !.static = fx, !.status = st, !.reserved = rs]
  BY DEF Refreshed
<1>2. 0 \in Age /\ st \in {"active", "offline"} /\ fx \in BOOLEAN /\ rs \in BOOLEAN
  BY NetBoxAssumption DEF Age, Oldest, DeviceRow
<1>3. /\ old.discovered => st = "active"
      /\ old.discovered /\ fx /\ Of("tag") \notin lost => rs
      /\ old.reserved => rs
  OBVIOUS
<1> HIDE DEF st, rs
<1>4. /\ row \in DeviceRow /\ row.age = 0 /\ row.status = st /\ row.reserved = rs
      /\ row.discovered = old.discovered /\ row.primary = old.primary
  BY <1>1, <1>2 DEF DeviceRow
<1> QED BY <1>3, <1>4 DEF FreshDevice

\* The update touches this device only, and nothing when its call is lost.
LEMMA WithRefreshedEffect ==
    ASSUME NEW w \in NetDb, NEW d \in Device, w.devices[d] # NoDeviceRow, NEW s \in Sighting,
           NEW lost, NEW v, v = WithRefreshed(w, d, s, lost)
    PROVE  /\ v \in NetDb /\ v.macs = w.macs /\ v.ips = w.ips
           /\ \A e \in Device \ {d} : v.devices[e] = w.devices[e]
           /\ v.devices[d].primary = w.devices[d].primary
           /\ IF Of("update") \in lost THEN v.devices[d] = w.devices[d]
              ELSE FreshDevice(w.devices[d], v.devices[d], s, lost)
<1>1. CASE Of("update") \in lost
  BY <1>1 DEF WithRefreshed
<1>2. CASE Of("update") \notin lost
  <2> DEFINE row == Refreshed(w.devices[d], s, lost)
  <2>1. w.devices[d] \in DeviceRow
    BY DEF NetDb
  <2>2. FreshDevice(w.devices[d], row, s, lost) /\ row.primary = w.devices[d].primary
    BY <2>1, RefreshedEffect
  <2>3. row \in DeviceRow
    BY <2>2 DEF FreshDevice
  <2> HIDE DEF row
  <2>4. v = [w EXCEPT !.devices = [w.devices EXCEPT ![d] = row]]
    BY <1>2 DEF WithRefreshed, row
  <2>5. v.devices = [w.devices EXCEPT ![d] = row] /\ v.macs = w.macs /\ v.ips = w.ips
    BY <2>4 DEF NetDb
  <2>6. v \in NetDb
    BY <2>3, <2>4, <2>5 DEF NetDb
  <2>7. v.devices[d] = row /\ \A e \in Device \ {d} : v.devices[e] = w.devices[e]
    BY <2>5 DEF NetDb
  <2> QED BY <1>2, <2>2, <2>5, <2>6, <2>7
<1> QED BY <1>1, <1>2

\* An address the endpoint no longer has is detached.
ReleasedFrom(old, new, d) ==
    /\ old.owner = d /\ old.discovered /\ ~old.reserved
    /\ new = [old EXCEPT !.status = "deprecated", !.owner = NoDevice]

\* Only addresses the endpoint was not seen with are released.
LEMMA WithoutStaleEffect ==
    ASSUME NEW w \in NetDb, NEW d \in Device, NEW s \in Sighting, NEW lost,
           NEW v, v = WithoutStale(w, d, s, lost)
    PROVE  /\ v \in NetDb /\ v.macs = w.macs /\ v.devices = w.devices
           /\ \A a \in s.ips : v.ips[a] = w.ips[a]
           /\ \A a \in Address \ s.ips : v.ips[a] = w.ips[a] \/ ReleasedFrom(w.ips[a], v.ips[a], d)
<1> DEFINE is == [a \in Address |->
                    IF a \in Stale(w, d, s) /\ ~Pinned(w, a) /\ <<"detach", a>> \notin lost
                    THEN [w.ips[a] EXCEPT !.status = "deprecated", !.owner = NoDevice]
                    ELSE w.ips[a]]
<1>1. v = [w EXCEPT !.ips = is]
  BY DEF WithoutStale
<1>2. \A a \in Stale(w, d, s) : /\ a \in Address \ s.ips /\ w.ips[a].owner = d
                                /\ w.ips[a].discovered /\ ~w.ips[a].reserved
  BY DEF Stale, OwnedBy
<1>3. s.ips \subseteq Address
  BY DEF Sighting
<1>4. ASSUME NEW a \in Address
      PROVE  /\ is[a] \in IpRow \cup {NoIpRow}
             /\ is[a] = w.ips[a] \/ (a \notin s.ips /\ ReleasedFrom(w.ips[a], is[a], d))
  <2>1. w.ips[a] \in IpRow \cup {NoIpRow}
    BY DEF NetDb
  <2>2. CASE a \in Stale(w, d, s)
    <3>1. /\ a \notin s.ips /\ w.ips[a].owner = d
          /\ w.ips[a].discovered /\ ~w.ips[a].reserved
      BY <1>2, <2>2
    <3>2. w.ips[a] \in IpRow
      BY <3>1, NetBoxAssumption, OwnedIsRow
    <3>3. [w.ips[a] EXCEPT !.status = "deprecated", !.owner = NoDevice] \in IpRow
      BY <3>2 DEF IpRow
    <3> QED BY <2>1, <3>1, <3>3 DEF ReleasedFrom
  <2>3. CASE a \notin Stale(w, d, s)
    BY <2>1, <2>3
  <2> QED BY <2>2, <2>3
<1>5. is \in [Address -> IpRow \cup {NoIpRow}]
  BY <1>4
<1> HIDE DEF is
<1>6. v.ips = is /\ v.macs = w.macs /\ v.devices = w.devices
  BY <1>1 DEF NetDb
<1>7. v \in NetDb
  BY <1>1, <1>5, <1>6 DEF NetDb
<1> QED BY <1>3, <1>4, <1>6, <1>7

\* Setting the primary address touches nothing but the primary address.
LEMMA WithPrimaryEffect ==
    ASSUME NEW w \in NetDb, NEW d \in Device, NEW s \in Sighting, NEW lost,
           NEW v, v = WithPrimary(w, d, s, lost)
    PROVE  /\ v \in NetDb /\ v.macs = w.macs /\ v.ips = w.ips
           /\ \A e \in Device : Like(v.devices[e], w.devices[e])
           /\ /\ lost = {} /\ v.devices[d].discovered /\ s.ips # {}
              /\ \A a \in s.ips : w.ips[a] # NoIpRow /\ w.ips[a].owner = d
              => v.devices[d].primary \in s.ips
<1> DEFINE a == Primary(w, s)
           S == {b \in s.ips : w.ips[b] # NoIpRow}
<1>1. IF S = {} THEN a = NoAddress ELSE a \in S
  BY PrimaryEffect
<1>2. S \subseteq Address /\ NoAddress \notin Address
  BY NetBoxAssumption DEF Sighting
<1>3. CASE a = NoAddress \/ ~w.devices[d].discovered \/ w.ips[a].owner # d
              \/ {Of("update"), Of("tag"), Of("primary")} \cap lost # {}
  <2>1. v = w
    BY <1>3 DEF WithPrimary
  <2>2. ASSUME lost = {}, v.devices[d].discovered, s.ips # {},
               \A b \in s.ips : w.ips[b] # NoIpRow /\ w.ips[b].owner = d
        PROVE  FALSE
    <3>1. S # {} /\ S \subseteq s.ips
      BY <2>2
    <3>2. a \in S /\ a # NoAddress /\ w.ips[a].owner = d
      BY <1>1, <1>2, <2>2, <3>1
    <3> QED BY <1>3, <2>1, <2>2, <3>2
  <2> QED BY <2>1, <2>2 DEF Like
<1>4. CASE ~(a = NoAddress \/ ~w.devices[d].discovered \/ w.ips[a].owner # d
              \/ {Of("update"), Of("tag"), Of("primary")} \cap lost # {})
  <2>1. a \in S /\ a \in Address /\ a \in s.ips
    BY <1>1, <1>2, <1>4
  <2> HIDE DEF a
  <2>2. w.devices[d] \in DeviceRow
    <3>1. w.devices[d] \in DeviceRow \cup {NoDeviceRow}
      BY DEF NetDb
    <3> QED BY <1>4, <3>1, NoRows
  <2> DEFINE row == [w.devices[d] EXCEPT !.primary = a]
  <2>3. row \in DeviceRow /\ Like(row, w.devices[d]) /\ row.primary = a
    <3>1. row \in DeviceRow /\ row.primary = a
      BY <2>1, <2>2 DEF DeviceRow
    <3>2. /\ row.age = w.devices[d].age /\ row.status = w.devices[d].status
          /\ row.reserved = w.devices[d].reserved /\ row.static = w.devices[d].static
          /\ row.discovered = w.devices[d].discovered /\ row.protected = w.devices[d].protected
      BY <2>2 DEF DeviceRow
    <3> QED BY <2>2, <3>1, <3>2, NoRows DEF Like
  <2>4. v = [w EXCEPT !.devices = [w.devices EXCEPT ![d] = row]]
    BY <1>4 DEF WithPrimary, a
  <2> HIDE DEF row
  <2>5. v.devices = [w.devices EXCEPT ![d] = row] /\ v.macs = w.macs /\ v.ips = w.ips
    BY <2>4 DEF NetDb
  <2>6. v \in NetDb
    BY <2>3, <2>4, <2>5 DEF NetDb
  <2>7. v.devices[d] = row /\ \A e \in Device \ {d} : v.devices[e] = w.devices[e]
    BY <2>5 DEF NetDb
  <2>8. \A e \in Device : Like(v.devices[e], w.devices[e])
    BY <2>3, <2>7 DEF Like
  <2> QED BY <2>1, <2>3, <2>5, <2>6, <2>7, <2>8
<1> QED BY <1>3, <1>4

\* A step for one endpoint whose device is d: what becomes of the addresses.
AddressesAs(w, v, d, s, lost) ==
    /\ \A a \in s.ips :
          IF Arrives(w, d, a, lost) THEN Sighted(w.ips[a], v.ips[a], d, s, a, lost)
          ELSE v.ips[a] = w.ips[a]
    /\ \A a \in Address \ s.ips : v.ips[a] = w.ips[a] \/ ReleasedFrom(w.ips[a], v.ips[a], d)

\* All the calls about an endpoint whose device there is.
LEMMA WithEndpointEffect ==
    ASSUME NEW w \in NetDb, NEW d \in Device, w.devices[d] # NoDeviceRow, NEW s \in Sighting,
           NEW lost, NEW v, v = WithEndpoint(w, d, s, lost)
    PROVE  /\ v \in NetDb /\ v.macs = w.macs
           /\ \A e \in Device \ {d} : Like(v.devices[e], w.devices[e])
           /\ IF Of("update") \in lost THEN Like(v.devices[d], w.devices[d])
              ELSE FreshDevice(w.devices[d], v.devices[d], s, lost)
           /\ AddressesAs(w, v, d, s, lost)
           /\ lost = {} /\ v.devices[d].discovered /\ s.ips # {} => v.devices[d].primary \in s.ips
<1> DEFINE x == WithRefreshed(w, d, s, lost)
           y == WithAddresses(x, d, s, lost)
           z == WithoutStale(y, d, s, lost)
<1>1. v = WithPrimary(z, d, s, lost)
  BY DEF WithEndpoint
<1>2. /\ x \in NetDb /\ x.macs = w.macs /\ x.ips = w.ips
      /\ \A e \in Device \ {d} : x.devices[e] = w.devices[e]
      /\ x.devices[d].primary = w.devices[d].primary
      /\ IF Of("update") \in lost THEN x.devices[d] = w.devices[d]
         ELSE FreshDevice(w.devices[d], x.devices[d], s, lost)
  BY WithRefreshedEffect
<1> HIDE DEF x
<1>3. AddressedAs(x, y, d, s, s.ips, lost)
  BY <1>2, WithAddressesEffect
<1>4. y \in NetDb
  BY <1>3 DEF AddressedAs
<1> HIDE DEF y
<1>5. /\ z \in NetDb /\ z.macs = y.macs /\ z.devices = y.devices
      /\ \A a \in s.ips : z.ips[a] = y.ips[a]
      /\ \A a \in Address \ s.ips : z.ips[a] = y.ips[a] \/ ReleasedFrom(y.ips[a], z.ips[a], d)
  BY <1>4, WithoutStaleEffect
<1> HIDE DEF z
<1>6. /\ v \in NetDb /\ v.macs = z.macs /\ v.ips = z.ips
      /\ \A e \in Device : Like(v.devices[e], z.devices[e])
      /\ /\ lost = {} /\ v.devices[d].discovered /\ s.ips # {}
         /\ \A a \in s.ips : z.ips[a] # NoIpRow /\ z.ips[a].owner = d
         => v.devices[d].primary \in s.ips
  BY <1>1, <1>5, WithPrimaryEffect
<1>7. AddressesAs(w, v, d, s, lost)
  <2>1. \A a \in s.ips : Arrives(x, d, a, lost) <=> Arrives(w, d, a, lost)
    <3>1. Unpinned(w, x, {})
      BY <1>2 DEF Unpinned
    <3>2. s.ips \subseteq Address
      BY DEF Sighting
    <3> QED BY <1>2, <3>1, <3>2, ArrivesAlike
  <2> QED BY <1>2, <1>3, <1>5, <1>6, <2>1 DEF AddressedAs, AddressesAs
<1>8. ASSUME lost = {}
      PROVE  \A a \in s.ips : z.ips[a] # NoIpRow /\ z.ips[a].owner = d
  <2>1. \A a \in s.ips : Sighted(x.ips[a], z.ips[a], d, s, a, lost)
    BY <1>3, <1>5, <1>8 DEF AddressedAs, Arrives
  <2> QED BY <2>1, NoRows DEF Sighted
<1>9. \A e \in Device : Like(v.devices[e], x.devices[e])
  BY <1>3, <1>5, <1>6 DEF AddressedAs, Like
<1>10. \A e \in Device \ {d} : Like(v.devices[e], w.devices[e])
  BY <1>2, <1>9
<1>11. IF Of("update") \in lost THEN Like(v.devices[d], w.devices[d])
       ELSE FreshDevice(w.devices[d], v.devices[d], s, lost)
  <2>1. Like(v.devices[d], x.devices[d])
    BY <1>9
  <2>2. v.devices[d] \in DeviceRow \cup {NoDeviceRow}
    BY <1>6 DEF NetDb
  <2> QED BY <1>2, <2>1, <2>2, NoRows DEF FreshDevice, Like
<1> QED BY <1>2, <1>3, <1>5, <1>6, <1>7, <1>8, <1>10, <1>11 DEF AddressedAs

\* A device that is created, with its MAC unless the call is lost.
LEMMA WithNewDeviceEffect ==
    ASSUME NEW w \in NetDb, NEW d \in Device, w.devices[d] = NoDeviceRow, NEW m \in Mac,
           NEW s \in Sighting, NEW lost, NEW v, v = WithNewDevice(w, d, m, s, lost)
    PROVE  /\ v \in NetDb /\ v.ips = w.ips
           /\ v.macs = w.macs \/ v.macs = [w.macs EXCEPT ![m] = d]
           /\ {Of("interface"), Of("mac")} \cap lost = {} => v.macs = [w.macs EXCEPT ![m] = d]
           /\ \A e \in Device \ {d} : v.devices[e] = w.devices[e]
           /\ v.devices[d] = NewDevice(s) /\ v.devices[d] \in DeviceRow
<1> DEFINE row == NewDevice(s)
           x == [w EXCEPT !.devices = [w.devices EXCEPT ![d] = row]]
<1>1. row \in DeviceRow
  BY NetBoxAssumption DEF NewDevice, DeviceRow, Age, Oldest
<1>2. \/ v = x /\ {Of("interface"), Of("mac")} \cap lost # {}
      \/ v = [x EXCEPT !.macs[m] = d]
  BY DEF WithNewDevice, WithMac
<1> HIDE DEF row
<1>3. x.devices = [w.devices EXCEPT ![d] = row] /\ x.macs = w.macs /\ x.ips = w.ips
  BY DEF NetDb
<1>4. x \in NetDb
  BY <1>1, <1>3 DEF NetDb
<1> HIDE DEF x
<1>5. /\ v \in NetDb /\ v.ips = w.ips /\ v.devices = x.devices
      /\ v.macs = w.macs \/ v.macs = [w.macs EXCEPT ![m] = d]
      /\ {Of("interface"), Of("mac")} \cap lost = {} => v.macs = [w.macs EXCEPT ![m] = d]
  <2>1. CASE v = x /\ {Of("interface"), Of("mac")} \cap lost # {}
    BY <1>3, <1>4, <2>1
  <2>2. CASE v = [x EXCEPT !.macs[m] = d]
    BY <1>3, <1>4, <2>2 DEF NetDb
  <2> QED BY <1>2, <2>1, <2>2
<1>6. v.devices[d] = row /\ \A e \in Device \ {d} : v.devices[e] = w.devices[e]
  BY <1>3, <1>5 DEF NetDb
<1> QED BY <1>1, <1>5, <1>6 DEF row

\* The endpoint is not given up.
GoesThrough(w, m, lost) ==
    w.macs[m] # NoDevice \/ {Of("device"), Of("interface")} \cap lost = {}

\* A whole step for one endpoint.  A device that is given up leaves everything as it
\* was; a step that loses no call leaves a device that is fresh.
SyncedAs(w, v, d, m, s, lost) ==
    /\ v \in NetDb
    /\ v.macs = w.macs \/ (w.macs[m] = NoDevice /\ v.macs = [w.macs EXCEPT ![m] = d])
    /\ \A e \in Device \ {d} : Like(v.devices[e], w.devices[e])
    /\ v.devices[d] = NoDeviceRow =>
          /\ w.devices[d] = NoDeviceRow
          /\ v.macs = w.macs /\ v.ips = w.ips
    /\ w.devices[d] # NoDeviceRow =>
          /\ v.devices[d].discovered = w.devices[d].discovered
          /\ w.devices[d].reserved => v.devices[d].reserved
    /\ lost = {} => /\ v.devices[d] \in DeviceRow
                    /\ v.devices[d].age = 0
                    /\ v.devices[d].discovered => v.devices[d].status = "active"
                    /\ v.devices[d].discovered /\ s.ips # {} => v.devices[d].primary \in s.ips
    /\ IF GoesThrough(w, m, lost)
       THEN /\ AddressesAs(w, v, d, s, lost)
            /\ w.macs[m] # NoDevice \/ Of("mac") \notin lost => v.macs[m] = d
            /\ v.devices[d].discovered /\ s.fixed # {}
                  /\ (w.macs[m] = NoDevice \/ {Of("update"), Of("tag")} \cap lost = {}) =>
               v.devices[d].reserved
       ELSE v.ips = w.ips

\* All the calls about an endpoint, whether its device is found or made.
LEMMA SyncedEffect ==
    ASSUME NEW w \in NetDb, NEW d \in Device, NEW m \in Mac, NEW s \in Sighting, NEW lost,
           IF w.macs[m] = NoDevice THEN w.devices[d] = NoDeviceRow
           ELSE w.macs[m] = d /\ w.devices[d] # NoDeviceRow,
           NEW v, v = Synced(w, d, m, s, lost)
    PROVE  SyncedAs(w, v, d, m, s, lost)
<1>1. CASE w.macs[m] # NoDevice
  <2>1. v = WithEndpoint(w, d, s, lost)
    BY <1>1 DEF Synced, Anchor
  <2>2. w.devices[d] # NoDeviceRow /\ w.macs[m] = d
    BY <1>1
  <2>3. /\ v \in NetDb /\ v.macs = w.macs
        /\ \A e \in Device \ {d} : Like(v.devices[e], w.devices[e])
        /\ IF Of("update") \in lost THEN Like(v.devices[d], w.devices[d])
           ELSE FreshDevice(w.devices[d], v.devices[d], s, lost)
        /\ AddressesAs(w, v, d, s, lost)
        /\ lost = {} /\ v.devices[d].discovered /\ s.ips # {} => v.devices[d].primary \in s.ips
    BY <2>1, <2>2, WithEndpointEffect
  <2> QED BY <1>1, <2>2, <2>3, NoRows DEF SyncedAs, Like, FreshDevice, GoesThrough
<1>2. CASE w.macs[m] = NoDevice /\ Of("device") \in lost
  <2>1. v = w
    BY <1>2 DEF Synced, Anchor
  <2>2. ~GoesThrough(w, m, lost) /\ lost # {}
    BY <1>2 DEF GoesThrough
  <2> QED BY <1>2, <2>1, <2>2 DEF SyncedAs, Like
<1>3. CASE w.macs[m] = NoDevice /\ Of("device") \notin lost
  <2> DEFINE x == WithNewDevice(w, d, m, s, lost)
  <2>1. w.devices[d] = NoDeviceRow
    BY <1>3
  <2>2. /\ x \in NetDb /\ x.ips = w.ips
        /\ x.macs = w.macs \/ x.macs = [w.macs EXCEPT ![m] = d]
        /\ {Of("interface"), Of("mac")} \cap lost = {} => x.macs = [w.macs EXCEPT ![m] = d]
        /\ \A e \in Device \ {d} : x.devices[e] = w.devices[e]
        /\ x.devices[d] = NewDevice(s) /\ x.devices[d] \in DeviceRow
    BY <2>1, WithNewDeviceEffect
  <2>3. \/ v = x /\ Of("interface") \in lost
        \/ v = WithEndpoint(x, d, s, lost) /\ Of("interface") \notin lost
    BY <1>3 DEF Synced, Anchor
  <2> HIDE DEF x
  <2>4. CASE v = x /\ Of("interface") \in lost
    <3>1. ~GoesThrough(w, m, lost) /\ lost # {}
      BY <1>3, <2>4 DEF GoesThrough
    <3> QED BY <1>3, <2>1, <2>2, <2>4, <3>1, NoRows DEF SyncedAs, Like
  <2>5. CASE v = WithEndpoint(x, d, s, lost) /\ Of("interface") \notin lost
    <3>1. x.devices[d] # NoDeviceRow
      BY <2>2, NoRows
    <3>2. /\ v \in NetDb /\ v.macs = x.macs
          /\ \A e \in Device \ {d} : Like(v.devices[e], x.devices[e])
          /\ IF Of("update") \in lost THEN Like(v.devices[d], x.devices[d])
             ELSE FreshDevice(x.devices[d], v.devices[d], s, lost)
          /\ AddressesAs(x, v, d, s, lost)
          /\ lost = {} /\ v.devices[d].discovered /\ s.ips # {} => v.devices[d].primary \in s.ips
      BY <2>2, <2>5, <3>1, WithEndpointEffect
    <3>3. AddressesAs(w, v, d, s, lost)
      <4>1. Unpinned(w, x, {})
        BY <2>1, <2>2, NoRows DEF Unpinned, NewDevice
      <4>2. \A a \in s.ips : Arrives(x, d, a, lost) <=> Arrives(w, d, a, lost)
        <5>1. s.ips \subseteq Address
          BY DEF Sighting
        <5> QED BY <2>2, <4>1, <5>1, ArrivesAlike
      <4> QED BY <2>2, <3>2, <4>2 DEF AddressesAs
    <3>4. \A e \in Device \ {d} : Like(v.devices[e], w.devices[e])
      BY <2>2, <3>2
    <3>5. v.devices[d] # NoDeviceRow
      BY <3>1, <3>2, NoRows DEF Like, FreshDevice
    <3>6. Of("mac") \notin lost => v.macs[m] = d
      BY <2>2, <2>5, <3>2 DEF NetDb
    <3>7. s.fixed # {} => v.devices[d].reserved
      <4>1. s.fixed # {} => x.devices[d].reserved
        <5>1. NewDevice(s).reserved = (s.fixed # {})
          BY Zenon DEF NewDevice
        <5> QED BY <2>2, <5>1
      <4> QED BY <3>2, <4>1 DEF Like, FreshDevice
    <3>8. GoesThrough(w, m, lost)
      BY <1>3, <2>5 DEF GoesThrough
    <3>9. lost = {} => FreshDevice(x.devices[d], v.devices[d], s, lost)
      BY <3>2
    <3> QED BY <1>3, <2>1, <2>2, <3>2, <3>3, <3>4, <3>5, <3>6, <3>7, <3>8, <3>9
            DEF SyncedAs, FreshDevice
  <2> QED BY <2>3, <2>4, <2>5
<1> QED BY <1>1, <1>2, <1>3

-----------------------------------------------------------------------------
(* The inductive invariant.                                                 *)

\* What a MAC or an address refers to is in NetBox.
OwnersExist ==
    /\ \A m \in Mac : macs[m] # NoDevice => Exists(Db, macs[m])
    /\ \A a \in Address : ips[a].owner # NoDevice => Exists(Db, ips[a].owner)

\* Neither the address cleanup nor the deletion of its device takes a reservation,
\* and its host keeps it: it is in the hands of the device that carries the mark.
ReservationsAreMarked ==
    \A a \in Address : newest[a].fixed =>
        /\ ips[a] # NoIpRow
        /\ ips[a].reserved \/ ~ips[a].discovered
        /\ ips[a].owner # NoDevice
        /\ devices[ips[a].owner].reserved \/ ~devices[ips[a].owner].discovered

\* While no call is lost, every device has its one MAC, and no device is older than
\* its addresses.
Undisturbed ==
    losses = 0 =>
        /\ \A d \in Device : Exists(Db, d) => \E m \in Mac : \A n \in Mac : macs[n] = d <=> n = m
        /\ \A a \in Address :
              ips[a].owner # NoDevice => devices[ips[a].owner].age <= ips[a].age

IInv ==
    /\ TypeOK /\ OwnersExist
    /\ HeldByNewestHolder /\ ReservationsAreMarked /\ Undisturbed /\ SyncRepairs

\* The records of a state are what the effects above are about.
LEMMA DbType == TypeOK => Db \in NetDb
  BY DEF TypeOK, Db, NetDb

\* The lowest MAC that is left: it is the highest of the lower bounds.
LEMMA NextOne == TypeOK /\ todo # {} => Next1 \in todo
<1> SUFFICES ASSUME TypeOK, todo # {} PROVE Next1 \in todo
  OBVIOUS
<1>1. todo \in SUBSET Nat
  BY NetBoxAssumption DEF TypeOK
<1>2. PICK n \in Nat : n \in todo
  BY <1>1
<1> DEFINE L == {k \in 0 .. n : \A m \in todo : k <= m}
<1>3. L \in SUBSET Nat /\ L # {}
  BY <1>1, <1>2
<1>4. IpLoop!IsFiniteSet(L)
  <2>1. L \subseteq 0 .. n /\ IsFiniteSet(0 .. n)
    BY FS_Interval
  <2>2. IsFiniteSet(L)
    <3> HIDE DEF L
    <3> QED BY <2>1, FS_Subset
  <2> HIDE DEF L
  <2> QED BY <2>2 DEF IsFiniteSet, IpLoop!IsFiniteSet
<1>5. PICK h \in L : \A k \in L : h >= k
  <2> HIDE DEF L
  <2> QED BY <1>3, <1>4, IpLoop!HighestExists
<1>6. h \in todo
  <2> SUFFICES ASSUME h \notin todo PROVE FALSE
    OBVIOUS
  <2>1. h \in Nat /\ h <= n /\ \A m \in todo : h <= m
    BY <1>5
  <2>2. \A m \in todo : h + 1 <= m
    BY <1>1, <2>1
  <2>3. h + 1 \in L
    BY <1>2, <2>1, <2>2
  <2> QED BY <1>5, <2>1, <2>3
<1>7. \A m \in todo : h <= m
  BY <1>5
<1> QED BY <1>6, <1>7 DEF Next1

\* The initial state satisfies the invariant.
LEMMA InitIInv == Init => IInv
<1> SUFFICES ASSUME Init PROVE IInv
  OBVIOUS
<1>1. TypeOK
  BY NetBoxAssumption DEF Init, TypeOK, NoClaim, NoSync, Unseen, Sighting
<1>2. OwnersExist /\ HeldByNewestHolder
  BY NoRows DEF Init, OwnersExist, HeldByNewestHolder
<1>3. ReservationsAreMarked
  BY DEF Init, ReservationsAreMarked, NoClaim
<1>4. Undisturbed
  BY NoRows DEF Init, Undisturbed, Exists, Db
<1>5. SyncRepairs
  BY DEF Init, SyncRepairs
<1> QED BY <1>1, <1>2, <1>3, <1>4, <1>5 DEF IInv

-----------------------------------------------------------------------------
(* Each action preserves it.                                                *)

\* A step that neither creates a record nor moves one, and that deletes no device
\* and only addresses that are no reservations.
LEMMA GentleStep ==
    ASSUME IInv, TypeOK', macs' = macs, newest' = newest, synced' = NoSync,
           losses' = 0 => losses = 0,
           \A d \in Device : /\ devices'[d] = NoDeviceRow <=> devices[d] = NoDeviceRow
                             /\ devices'[d].reserved = devices[d].reserved
                             /\ devices'[d].discovered => devices[d].discovered,
           \A a \in Address :
               \/ ips'[a] = NoIpRow /\ (ips[a] = NoIpRow \/ (ips[a].discovered /\ ~ips[a].reserved))
               \/ /\ ips'[a] # NoIpRow /\ ips[a] # NoIpRow
                  /\ ips'[a].owner = ips[a].owner /\ ips'[a].reserved = ips[a].reserved
                  /\ ips'[a].discovered => ips[a].discovered,
           losses' = 0 => \A a \in Address :
               ips'[a].owner # NoDevice => devices'[ips'[a].owner].age <= ips'[a].age
    PROVE  IInv'
<1>1. Db \in NetDb /\ Db.ips = ips /\ Db.devices = devices
  BY DbType DEF IInv, Db
<1>2. \A a \in Address : ips[a].owner # NoDevice => ips[a].owner \in Device
  BY <1>1, OwnedIsRow
<1>3. \A m \in Mac : macs[m] # NoDevice => macs[m] \in Device
  BY DEF IInv, TypeOK
<1>4. \A a \in Address : ips'[a].owner # NoDevice => ips'[a].owner = ips[a].owner
  BY NoRows
<1>5. OwnersExist'
  BY <1>2, <1>3, <1>4 DEF IInv, OwnersExist, Exists, Db
<1>6. HeldByNewestHolder'
  BY <1>4 DEF IInv, HeldByNewestHolder
<1>7. ReservationsAreMarked'
  <2> SUFFICES ASSUME NEW a \in Address, newest[a].fixed
               PROVE  /\ ips'[a] # NoIpRow
                      /\ ips'[a].reserved \/ ~ips'[a].discovered
                      /\ ips'[a].owner # NoDevice
                      /\ devices'[ips'[a].owner].reserved \/ ~devices'[ips'[a].owner].discovered
    BY DEF ReservationsAreMarked
  <2>1. /\ ips[a] # NoIpRow /\ (ips[a].reserved \/ ~ips[a].discovered)
        /\ ips[a].owner # NoDevice
        /\ devices[ips[a].owner].reserved \/ ~devices[ips[a].owner].discovered
    BY DEF IInv, ReservationsAreMarked
  <2>2. /\ ips'[a] # NoIpRow
        /\ ips'[a].owner = ips[a].owner /\ ips'[a].reserved = ips[a].reserved
        /\ ips'[a].discovered => ips[a].discovered
    BY <2>1
  <2> QED BY <1>2, <2>1, <2>2
<1>8. Undisturbed'
  BY DEF IInv, Undisturbed, Exists, Db
<1>9. SyncRepairs'
  BY DEF SyncRepairs
<1> QED BY <1>5, <1>6, <1>7, <1>8, <1>9 DEF IInv

\* No synchronisation is a value like any.
LEMMA NoSyncType == NoSync \in [mac: Mac \cup {NoMac}, seen: Sighting]
  BY DEF NoSync, Unseen, Sighting

\* What the rows of devices and addresses become when a column changes.
LEMMA RowTypes ==
    ASSUME TypeOK
    PROVE  /\ \A d \in Device : devices[d] \in DeviceRow \cup {NoDeviceRow}
           /\ \A d \in Device : devices[d] # NoDeviceRow => devices[d] \in DeviceRow
           /\ \A a \in Address : ips[a] \in IpRow \cup {NoIpRow}
           /\ \A a \in Address : ips[a] # NoIpRow => ips[a] \in IpRow
           /\ \A a \in Address : ips[a].owner # NoDevice => ips[a].owner \in Device
<1>1. Db \in NetDb /\ Db.ips = ips /\ Db.devices = devices
  BY DbType DEF Db
<1>2. \A a \in Address : ips[a].owner # NoDevice => ips[a].owner \in Device
  BY <1>1, OwnedIsRow
<1> QED BY <1>2 DEF TypeOK

\* Time passes: the records age alike.
LEMMA TickKeeps == IInv /\ Tick => IInv'
<1> SUFFICES ASSUME IInv, Tick PROVE IInv'
  OBVIOUS
<1>1. TypeOK
  BY DEF IInv
<1>2. \A n \in Age : Older(n) \in Age /\ \A k \in Age : k <= n => Older(k) <= Older(n)
  BY NetBoxAssumption DEF Older, Age, Oldest
<1>3. ASSUME NEW d \in Device
      PROVE  IF devices[d] = NoDeviceRow THEN devices'[d] = NoDeviceRow
             ELSE /\ devices'[d] \in DeviceRow
                  /\ devices'[d].age = Older(devices[d].age)
                  /\ devices'[d].reserved = devices[d].reserved
                  /\ devices'[d].discovered = devices[d].discovered
  <2>1. CASE devices[d] = NoDeviceRow
    BY <2>1 DEF Tick, Exists, Db
  <2>2. CASE devices[d] # NoDeviceRow
    <3>1. devices[d] \in DeviceRow
      BY <1>1, <2>2, RowTypes
    <3> DEFINE n == Older(devices[d].age)
    <3>2. devices'[d] = [devices[d] EXCEPT !.age = n]
      BY <2>2 DEF Tick, Exists, Db
    <3>3. n \in Age
      BY <1>2, <3>1 DEF DeviceRow
    <3> HIDE DEF n
    <3>4. devices'[d] \in DeviceRow /\ devices'[d].age = n
          /\ devices'[d].reserved = devices[d].reserved
          /\ devices'[d].discovered = devices[d].discovered
      BY <3>1, <3>2, <3>3 DEF DeviceRow
    <3> QED BY <2>2, <3>4 DEF n
  <2> QED BY <2>1, <2>2
<1>4. ASSUME NEW a \in Address
      PROVE  IF ips[a] = NoIpRow THEN ips'[a] = NoIpRow
             ELSE /\ ips'[a] \in IpRow
                  /\ ips'[a].age = Older(ips[a].age)
                  /\ ips'[a].owner = ips[a].owner
                  /\ ips'[a].reserved = ips[a].reserved
                  /\ ips'[a].discovered = ips[a].discovered
  <2>1. CASE ips[a] = NoIpRow
    BY <2>1 DEF Tick
  <2>2. CASE ips[a] # NoIpRow
    <3>1. ips[a] \in IpRow
      BY <1>1, <2>2, RowTypes
    <3> DEFINE n == Older(ips[a].age)
    <3>2. ips'[a] = [ips[a] EXCEPT !.age = n]
      BY <2>2 DEF Tick
    <3>3. n \in Age
      BY <1>2, <3>1 DEF IpRow
    <3> HIDE DEF n
    <3>4. /\ ips'[a] \in IpRow /\ ips'[a].age = n
          /\ ips'[a].owner = ips[a].owner
          /\ ips'[a].reserved = ips[a].reserved
          /\ ips'[a].discovered = ips[a].discovered
      BY <3>1, <3>2, <3>3 DEF IpRow
    <3> QED BY <2>2, <3>4 DEF n
  <2> QED BY <2>1, <2>2
<1>5. TypeOK'
  <2>1. devices' \in [Device -> DeviceRow \cup {NoDeviceRow}]
    <3>1. devices' = [d \in Device |-> devices'[d]]
      BY DEF Tick
    <3>2. \A d \in Device : devices'[d] \in DeviceRow \cup {NoDeviceRow}
      BY <1>3
    <3> QED BY <3>1, <3>2
  <2>2. ips' \in [Address -> IpRow \cup {NoIpRow}]
    <3>1. ips' = [a \in Address |-> ips'[a]]
      BY DEF Tick
    <3>2. \A a \in Address : ips'[a] \in IpRow \cup {NoIpRow}
      BY <1>4
    <3> QED BY <3>1, <3>2
  <2> QED BY <1>1, <2>1, <2>2, NoSyncType DEF TypeOK, Tick
<1>6. ASSUME losses' = 0, NEW a \in Address, ips'[a].owner # NoDevice
      PROVE  devices'[ips'[a].owner].age <= ips'[a].age
  <2>1. ips[a] # NoIpRow /\ ips'[a].owner = ips[a].owner /\ ips'[a].age = Older(ips[a].age)
    BY <1>4, <1>6, NoRows
  <2>2. ips[a].owner \in Device /\ devices[ips[a].owner].age <= ips[a].age
    BY <1>1, <1>6, <2>1, RowTypes DEF IInv, Undisturbed, Tick
  <2>3. ips[a].age \in Age
    BY <1>1, <2>1, RowTypes DEF IpRow
  <2>4. CASE devices[ips[a].owner] = NoDeviceRow
    <3>1. devices'[ips[a].owner].age = 0
      BY <1>3, <2>2, <2>4, NoRows
    <3> QED BY <1>2, <2>1, <2>3, <3>1 DEF Age, Oldest
  <2>5. CASE devices[ips[a].owner] # NoDeviceRow
    <3>1. devices[ips[a].owner].age \in Age
      BY <1>1, <2>2, <2>5, RowTypes DEF DeviceRow
    <3>2. devices'[ips[a].owner].age = Older(devices[ips[a].owner].age)
      BY <1>3, <2>2, <2>5
    <3> QED BY <1>2, <2>1, <2>2, <2>3, <3>1, <3>2
  <2> QED BY <2>4, <2>5
<1>7. macs' = macs /\ newest' = newest /\ synced' = NoSync /\ losses' = losses
  BY DEF Tick
<1>8. \A d \in Device : /\ devices'[d] = NoDeviceRow <=> devices[d] = NoDeviceRow
                        /\ devices'[d].reserved = devices[d].reserved
                        /\ devices'[d].discovered => devices[d].discovered
  BY <1>3, NoRows
<1>9. \A a \in Address :
         \/ ips'[a] = NoIpRow /\ (ips[a] = NoIpRow \/ (ips[a].discovered /\ ~ips[a].reserved))
         \/ /\ ips'[a] # NoIpRow /\ ips[a] # NoIpRow
            /\ ips'[a].owner = ips[a].owner /\ ips'[a].reserved = ips[a].reserved
            /\ ips'[a].discovered => ips[a].discovered
  BY <1>4, NoRows
<1> QED BY <1>5, <1>6, <1>7, <1>8, <1>9, GentleStep

\* A cycle begins, or passes an endpoint over.
LEMMA BeginKeeps == IInv /\ (Begin \/ SkipEndpoint) => IInv'
<1> SUFFICES ASSUME IInv, Begin \/ SkipEndpoint PROVE IInv'
  OBVIOUS
<1>1. /\ macs' = macs /\ newest' = newest /\ synced' = NoSync /\ losses' = losses
      /\ devices' = devices /\ ips' = ips
  BY DEF Begin, SkipEndpoint
<1>2. TypeOK'
  <2>1. todo' \subseteq Mac /\ stage' \in {"idle", "sync", "addresses", "devices"}
    BY DEF IInv, TypeOK, Begin, SkipEndpoint
  <2> QED BY <1>1, <2>1, NoSyncType DEF IInv, TypeOK, Begin, SkipEndpoint
<1>3. losses' = 0 => \A a \in Address :
         ips'[a].owner # NoDevice => devices'[ips'[a].owner].age <= ips'[a].age
  BY <1>1 DEF IInv, Undisturbed
<1>4. \A a \in Address : ips[a] = NoIpRow \/ ips[a] # NoIpRow
  OBVIOUS
<1> QED BY <1>1, <1>2, <1>3, <1>4, GentleStep

\* People edit addresses, but no reservation is lost by it.
LEMMA EditIpKeeps ==
    ASSUME IInv, NEW a \in Address, NEW edit \in Edits, EditIp(a, edit)
    PROVE  IInv'
<1> DEFINE row == Edited(ips[a], edit)
<1>1. TypeOK
  BY DEF IInv
<1>2. ips[a] \in IpRow /\ ips[a] # NoIpRow
  BY <1>1, RowTypes DEF EditIp
<1>3. ips' = [ips EXCEPT ![a] = row]
  BY DEF EditIp
<1>4. /\ row \in IpRow /\ row.owner = ips[a].owner /\ row.reserved = ips[a].reserved
      /\ row.age = ips[a].age
      /\ row.discovered => ips[a].discovered
  BY <1>2 DEF Edited, IpRow
<1> HIDE DEF row
<1>5. TypeOK'
  <2>1. edits' \in 0 .. MaxEdits
    BY <1>1, NetBoxAssumption DEF EditIp, TypeOK
  <2>2. ips' \in [Address -> IpRow \cup {NoIpRow}]
    BY <1>1, <1>3, <1>4 DEF TypeOK
  <2> QED BY <1>1, <2>1, <2>2, NoSyncType DEF EditIp, TypeOK
<1>6. /\ ips'[a] = row
      /\ \A b \in Address \ {a} : ips'[b] = ips[b]
  BY <1>1, <1>3 DEF TypeOK
<1>7. macs' = macs /\ newest' = newest /\ synced' = NoSync /\ losses' = losses /\ devices' = devices
  BY DEF EditIp
<1>8. losses' = 0 => \A b \in Address :
         ips'[b].owner # NoDevice => devices'[ips'[b].owner].age <= ips'[b].age
  BY <1>4, <1>6, <1>7 DEF IInv, Undisturbed
<1>9. \A b \in Address :
         \/ ips'[b] = NoIpRow /\ (ips[b] = NoIpRow \/ (ips[b].discovered /\ ~ips[b].reserved))
         \/ /\ ips'[b] # NoIpRow /\ ips[b] # NoIpRow
            /\ ips'[b].owner = ips[b].owner /\ ips'[b].reserved = ips[b].reserved
            /\ ips'[b].discovered => ips[b].discovered
  BY <1>2, <1>4, <1>6, NoRows
<1> QED BY <1>5, <1>7, <1>8, <1>9, GentleStep

\* People edit devices.
LEMMA EditDeviceKeeps ==
    ASSUME IInv, NEW d \in Device, NEW edit \in Edits, EditDevice(d, edit)
    PROVE  IInv'
<1> DEFINE row == Edited(devices[d], edit)
<1>1. TypeOK
  BY DEF IInv
<1>2. devices[d] \in DeviceRow /\ devices[d] # NoDeviceRow
  BY <1>1, RowTypes DEF EditDevice, Exists, Db
<1>3. devices' = [devices EXCEPT ![d] = row]
  BY DEF EditDevice
<1>4. /\ row \in DeviceRow /\ row.reserved = devices[d].reserved
      /\ row.age = devices[d].age
      /\ row.discovered => devices[d].discovered
  BY <1>2 DEF Edited, DeviceRow
<1> HIDE DEF row
<1>5. TypeOK'
  <2>1. edits' \in 0 .. MaxEdits
    BY <1>1, NetBoxAssumption DEF EditDevice, TypeOK
  <2>2. devices' \in [Device -> DeviceRow \cup {NoDeviceRow}]
    BY <1>1, <1>3, <1>4 DEF TypeOK
  <2> QED BY <1>1, <2>1, <2>2, NoSyncType DEF EditDevice, TypeOK
<1>6. /\ devices'[d] = row
      /\ \A e \in Device \ {d} : devices'[e] = devices[e]
  BY <1>1, <1>3 DEF TypeOK
<1>7. macs' = macs /\ newest' = newest /\ synced' = NoSync /\ losses' = losses /\ ips' = ips
  BY DEF EditDevice
<1>8. ASSUME losses' = 0, NEW a \in Address, ips'[a].owner # NoDevice
      PROVE  devices'[ips'[a].owner].age <= ips'[a].age
  <2>1. ips[a].owner \in Device /\ devices[ips[a].owner].age <= ips[a].age
    BY <1>1, <1>7, <1>8, RowTypes DEF IInv, Undisturbed
  <2> QED BY <1>4, <1>6, <1>7, <2>1
<1>9. \A e \in Device : /\ devices'[e] = NoDeviceRow <=> devices[e] = NoDeviceRow
                        /\ devices'[e].reserved = devices[e].reserved
                        /\ devices'[e].discovered => devices[e].discovered
  BY <1>2, <1>4, <1>6, NoRows
<1> QED BY <1>5, <1>7, <1>8, <1>9, GentleStep

\* What the address cleanup makes of each record.
LEMMA CleanAddressesEffect ==
    ASSUME TypeOK, NEW lost, CleanAddresses(lost)
    PROVE  /\ macs' = macs
           /\ devices' \in [Device -> DeviceRow \cup {NoDeviceRow}]
           /\ ips' \in [Address -> IpRow \cup {NoIpRow}]
           /\ \A d \in Device : Like(devices'[d], devices[d])
           /\ \A a \in Address :
                 \/ ips'[a] = NoIpRow /\ Deletable(a)
                 \/ ips'[a] = ips[a]
                 \/ ips[a] \in IpRow /\ ips'[a] \in IpRow
                    /\ ips'[a] = [ips[a] EXCEPT !.status = "deprecated"]
<1> DEFINE gone == {a \in Address \ lost : Deletable(a)}
           kept == WithoutIps(Db, gone)
           is == [a \in Address |->
                    IF Quiet(a) /\ a \notin gone \cup lost /\ ~Deletable(a)
                    THEN [ips[a] EXCEPT !.status = "deprecated"] ELSE kept.ips[a]]
<1>1. Store([kept EXCEPT !.ips = is])
  BY DEF CleanAddresses
<1>2. Db \in NetDb /\ Db.ips = ips /\ Db.devices = devices /\ Db.macs = macs
  BY DbType DEF Db
<1>3. gone \in SUBSET Address /\ \A a \in gone : Deletable(a)
  OBVIOUS
<1> HIDE DEF gone
<1>4. /\ kept \in NetDb /\ kept.macs = macs
      /\ \A a \in Address : kept.ips[a] = IF a \in gone THEN NoIpRow ELSE ips[a]
      /\ \A d \in Device : Like(kept.devices[d], devices[d])
  BY <1>2, <1>3, WithoutIpsEffect
<1> HIDE DEF kept
<1>5. ASSUME NEW a \in Address
      PROVE  /\ is[a] \in IpRow \cup {NoIpRow}
             /\ \/ is[a] = NoIpRow /\ Deletable(a)
                \/ is[a] = ips[a]
                \/ ips[a] \in IpRow /\ is[a] \in IpRow
                   /\ is[a] = [ips[a] EXCEPT !.status = "deprecated"]
  <2>1. CASE Quiet(a) /\ a \notin gone \cup lost /\ ~Deletable(a)
    <3>1. ips[a] \in IpRow
      BY <2>1, NoRows, RowTypes DEF Quiet
    <3>2. [ips[a] EXCEPT !.status = "deprecated"] \in IpRow
      BY <3>1 DEF IpRow
    <3> QED BY <2>1, <3>1, <3>2
  <2>2. CASE ~(Quiet(a) /\ a \notin gone \cup lost /\ ~Deletable(a))
    <3>1. is[a] = kept.ips[a]
      BY <2>2
    <3> HIDE DEF is
    <3> QED BY <1>3, <1>4, <3>1, RowTypes
  <2> QED BY <2>1, <2>2
<1>6. is \in [Address -> IpRow \cup {NoIpRow}]
  BY <1>5
<1> HIDE DEF is
<1>7. devices' = kept.devices /\ macs' = macs /\ ips' = is
  BY <1>1, <1>4 DEF Store, NetDb
<1> QED BY <1>4, <1>5, <1>6, <1>7 DEF NetDb

\* The address cleanup keeps the invariant.
LEMMA CleanAddressesKeeps ==
    ASSUME IInv, NEW lost \in LostOf(Address), CleanAddresses(lost)
    PROVE  IInv'
<1>1. TypeOK
  BY DEF IInv
<1>2. /\ macs' = macs /\ newest' = newest /\ synced' = NoSync
      /\ \A d \in Device : Like(devices'[d], devices[d])
      /\ \A a \in Address :
            \/ ips'[a] = NoIpRow /\ Deletable(a)
            \/ ips'[a] = ips[a]
            \/ ips[a] \in IpRow /\ ips'[a] \in IpRow
               /\ ips'[a] = [ips[a] EXCEPT !.status = "deprecated"]
  BY <1>1, CleanAddressesEffect DEF CleanAddresses
<1>3. losses' \in 0 .. MaxLosses /\ (losses' = 0 => losses = 0)
  BY <1>1, NetBoxAssumption DEF TypeOK, CleanAddresses, LostOf
<1>4. TypeOK'
  BY <1>1, <1>3, CleanAddressesEffect, NoSyncType DEF TypeOK, CleanAddresses
<1>5. \A a \in Address :
         \/ ips'[a] = NoIpRow /\ ips[a].discovered /\ ~ips[a].reserved
         \/ ips'[a] = ips[a]
         \/ /\ ips'[a] # NoIpRow /\ ips[a] # NoIpRow
            /\ ips'[a].owner = ips[a].owner /\ ips'[a].reserved = ips[a].reserved
            /\ ips'[a].discovered = ips[a].discovered /\ ips'[a].age = ips[a].age
  <2> SUFFICES ASSUME NEW a \in Address
               PROVE  \/ ips'[a] = NoIpRow /\ ips[a].discovered /\ ~ips[a].reserved
                      \/ ips'[a] = ips[a]
                      \/ /\ ips'[a] # NoIpRow /\ ips[a] # NoIpRow
                         /\ ips'[a].owner = ips[a].owner /\ ips'[a].reserved = ips[a].reserved
                         /\ ips'[a].discovered = ips[a].discovered /\ ips'[a].age = ips[a].age
    OBVIOUS
  <2>1. CASE ips'[a] = NoIpRow /\ Deletable(a)
    BY <2>1 DEF Deletable, IsReservation
  <2>2. CASE /\ ips[a] \in IpRow /\ ips'[a] \in IpRow
             /\ ips'[a] = [ips[a] EXCEPT !.status = "deprecated"]
    <3>1. /\ ips'[a].owner = ips[a].owner /\ ips'[a].reserved = ips[a].reserved
          /\ ips'[a].discovered = ips[a].discovered /\ ips'[a].age = ips[a].age
      BY <2>2 DEF IpRow
    <3> QED BY <2>2, <3>1, NoRows
  <2> QED BY <1>2, <2>1, <2>2
<1>6. losses' = 0 => \A a \in Address :
         ips'[a].owner # NoDevice => devices'[ips'[a].owner].age <= ips'[a].age
  <2> SUFFICES ASSUME losses' = 0, NEW a \in Address, ips'[a].owner # NoDevice
               PROVE  devices'[ips'[a].owner].age <= ips'[a].age
    OBVIOUS
  <2>1. ips'[a].owner = ips[a].owner /\ ips'[a].age = ips[a].age
    BY <1>5, NoRows
  <2>2. ips[a].owner \in Device /\ devices[ips[a].owner].age <= ips[a].age
    BY <1>1, <1>3, <2>1, RowTypes DEF IInv, Undisturbed
  <2> QED BY <1>2, <2>1, <2>2 DEF Like
<1>7. \A d \in Device : /\ devices'[d] = NoDeviceRow <=> devices[d] = NoDeviceRow
                        /\ devices'[d].reserved = devices[d].reserved
                        /\ devices'[d].discovered => devices[d].discovered
  BY <1>2 DEF Like
<1> QED BY <1>2, <1>3, <1>4, <1>5, <1>6, <1>7, GentleStep

\* What the device cleanup makes of everything.
LEMMA CleanDevicesEffect ==
    ASSUME TypeOK, NEW lost, NEW failed, CleanDevices(lost, failed)
    PROVE  LET deleted == {d \in Device : Expires(d)} \ failed
           IN  /\ macs' \in [Mac -> Device \cup {NoDevice}]
               /\ devices' \in [Device -> DeviceRow \cup {NoDeviceRow}]
               /\ ips' \in [Address -> IpRow \cup {NoIpRow}]
               /\ \A m \in Mac : macs'[m] = IF macs[m] \in deleted THEN NoDevice ELSE macs[m]
               /\ \A d \in Device :
                     IF d \in deleted THEN devices'[d] = NoDeviceRow
                     ELSE /\ devices'[d] = NoDeviceRow <=> devices[d] = NoDeviceRow
                          /\ devices'[d].age = devices[d].age
                          /\ devices'[d].reserved = devices[d].reserved
                          /\ devices'[d].discovered = devices[d].discovered
               /\ \A a \in Address :
                     \/ ips'[a] = ips[a] /\ ips[a].owner \notin deleted
                     \/ ips[a].owner \in Device /\ Expires(ips[a].owner) /\ ips'[a] = NoIpRow
                     \/ /\ ips[a].owner \in Device /\ Expires(ips[a].owner)
                        /\ ips'[a] \in IpRow /\ ips'[a].owner = NoDevice
<1> DEFINE gone == {d \in Device : Expires(d)}
           kept == WithoutExpired(Db, gone, lost, failed)
           Late(d) == devices[d].discovered /\ devices[d].age > OfflineAfter
                         /\ ~Expires(d) /\ d \notin failed
           ds == [d \in Device |-> IF Late(d) THEN [kept.devices[d] EXCEPT !.status = "offline"]
                                   ELSE kept.devices[d]]
<1>1. Store([kept EXCEPT !.devices = ds])
  BY DEF CleanDevices
<1>2. Db \in NetDb /\ Db.ips = ips /\ Db.devices = devices /\ Db.macs = macs
  BY DbType DEF Db
<1>3. gone \in SUBSET Device /\ \A d \in Device : Late(d) => d \notin gone
  OBVIOUS
<1>4. \A d \in Device : Late(d) => devices[d] # NoDeviceRow
  BY NoRows
<1>5. gone = {d \in Device : Expires(d)}
  OBVIOUS
<1> HIDE DEF gone, Late
<1>6. ExpiredAs(Db, kept, gone, failed)
  BY <1>2, <1>3, WithoutExpiredEffect
<1>7. kept \in NetDb
  BY <1>6 DEF ExpiredAs
<1> HIDE DEF kept
<1>8. ASSUME NEW d \in Device
      PROVE  /\ ds[d] \in DeviceRow \cup {NoDeviceRow}
             /\ IF d \in gone \ failed THEN ds[d] = NoDeviceRow
                ELSE /\ ds[d] = NoDeviceRow <=> devices[d] = NoDeviceRow
                     /\ ds[d].age = devices[d].age
                     /\ ds[d].reserved = devices[d].reserved
                     /\ ds[d].discovered = devices[d].discovered
  <2>1. /\ kept.devices[d] \in DeviceRow \cup {NoDeviceRow}
        /\ IF d \in gone \ failed THEN kept.devices[d] = NoDeviceRow
           ELSE Like(kept.devices[d], devices[d])
    BY <1>2, <1>6, <1>7 DEF ExpiredAs, NetDb
  <2>2. CASE Late(d)
    <3>1. Like(kept.devices[d], devices[d]) /\ devices[d] # NoDeviceRow /\ d \notin gone
      BY <1>3, <1>4, <2>1, <2>2
    <3>2. kept.devices[d] \in DeviceRow
      BY <2>1, <3>1 DEF Like
    <3> DEFINE r == [kept.devices[d] EXCEPT !.status = "offline"]
    <3>3. /\ r \in DeviceRow /\ r.age = kept.devices[d].age
          /\ r.reserved = kept.devices[d].reserved /\ r.discovered = kept.devices[d].discovered
      BY <3>2 DEF DeviceRow
    <3>4. ds[d] = r
      BY <2>2
    <3> HIDE DEF r, ds
    <3> QED BY <3>1, <3>3, <3>4, NoRows DEF Like
  <2>3. CASE ~Late(d)
    <3>1. ds[d] = kept.devices[d]
      BY <2>3
    <3> HIDE DEF ds
    <3> QED BY <2>1, <3>1 DEF Like
  <2> QED BY <2>2, <2>3
<1>9. ds \in [Device -> DeviceRow \cup {NoDeviceRow}]
  BY <1>8
<1> HIDE DEF ds
<1>10. devices' = ds /\ macs' = kept.macs /\ ips' = kept.ips
  BY <1>1, <1>7 DEF Store, NetDb
<1>11. ASSUME NEW a \in Address
       PROVE  \/ ips'[a] = ips[a] /\ ips[a].owner \notin gone \ failed
              \/ ips[a].owner \in gone /\ ips'[a] = NoIpRow
              \/ ips[a].owner \in gone /\ ips'[a] \in IpRow /\ ips'[a].owner = NoDevice
  <2>1. \/ ips'[a] = ips[a] /\ ips[a].owner \notin gone \ failed
        \/ ips[a].owner \in gone /\ ips'[a] = NoIpRow
        \/ ips[a].owner \in gone /\ ips'[a] = [ips[a] EXCEPT !.owner = NoDevice]
    BY <1>2, <1>6, <1>10 DEF ExpiredAs
  <2>2. CASE ips[a].owner \in gone /\ ips'[a] = [ips[a] EXCEPT !.owner = NoDevice]
    <3>1. ips[a] \in IpRow
      BY <1>3, <2>2, NetBoxAssumption, NoRows, RowTypes
    <3>2. ips'[a] \in IpRow /\ ips'[a].owner = NoDevice
      BY <2>2, <3>1 DEF IpRow
    <3> QED BY <2>2, <3>2
  <2> QED BY <2>1, <2>2
<1>12. \A m \in Mac : macs'[m] = IF macs[m] \in gone \ failed THEN NoDevice ELSE macs[m]
  BY <1>2, <1>6, <1>10 DEF ExpiredAs
<1>13. \A a \in Address :
          \/ ips'[a] = ips[a] /\ ips[a].owner \notin gone \ failed
          \/ ips[a].owner \in Device /\ Expires(ips[a].owner) /\ ips'[a] = NoIpRow
          \/ /\ ips[a].owner \in Device /\ Expires(ips[a].owner)
             /\ ips'[a] \in IpRow /\ ips'[a].owner = NoDevice
  BY <1>5, <1>11
<1>14. macs' \in [Mac -> Device \cup {NoDevice}] /\ ips' \in [Address -> IpRow \cup {NoIpRow}]
  BY <1>7, <1>10 DEF NetDb
<1> QED BY <1>5, <1>8, <1>9, <1>10, <1>12, <1>13, <1>14

\* The device cleanup keeps the invariant.
LEMMA CleanDevicesKeeps ==
    ASSUME IInv, NEW lost \in LostOf(Address), NEW failed \in LostOf(Device),
           CleanDevices(lost, failed)
    PROVE  IInv'
<1> DEFINE deleted == {d \in Device : Expires(d)} \ failed
<1>1. TypeOK
  BY DEF IInv
<1>2. /\ macs' \in [Mac -> Device \cup {NoDevice}]
      /\ devices' \in [Device -> DeviceRow \cup {NoDeviceRow}]
      /\ ips' \in [Address -> IpRow \cup {NoIpRow}]
      /\ \A m \in Mac : macs'[m] = IF macs[m] \in deleted THEN NoDevice ELSE macs[m]
      /\ \A d \in Device :
            IF d \in deleted THEN devices'[d] = NoDeviceRow
            ELSE /\ devices'[d] = NoDeviceRow <=> devices[d] = NoDeviceRow
                 /\ devices'[d].age = devices[d].age
                 /\ devices'[d].reserved = devices[d].reserved
                 /\ devices'[d].discovered = devices[d].discovered
      /\ \A a \in Address :
            \/ ips'[a] = ips[a] /\ ips[a].owner \notin deleted
            \/ ips[a].owner \in Device /\ Expires(ips[a].owner) /\ ips'[a] = NoIpRow
            \/ /\ ips[a].owner \in Device /\ Expires(ips[a].owner)
               /\ ips'[a] \in IpRow /\ ips'[a].owner = NoDevice
  BY <1>1, CleanDevicesEffect
<1>3. /\ newest' = newest /\ synced' = NoSync /\ losses' \in 0 .. MaxLosses
      /\ losses' = 0 => losses = 0 /\ failed = {}
  BY <1>1, NetBoxAssumption DEF TypeOK, CleanDevices, LostOf
<1>4. TypeOK'
  BY <1>1, <1>2, <1>3, NoSyncType DEF TypeOK, CleanDevices
<1>5. \A a \in Address : ips'[a].owner # NoDevice =>
         ips'[a] = ips[a] /\ ips[a].owner \in Device \ deleted
  BY <1>1, <1>2, NoRows, RowTypes
<1>6. \A m \in Mac : macs'[m] # NoDevice =>
         macs'[m] = macs[m] /\ macs[m] \in Device \ deleted
  BY <1>1, <1>2 DEF TypeOK
<1>7. \A d \in deleted : /\ d \in Device /\ devices[d].discovered /\ ~devices[d].reserved
                         /\ devices[d].age > DeleteAfter
  BY DEF Expires, Overdue
<1>8. failed = {} => deleted = {d \in Device : Expires(d)}
  OBVIOUS
<1> HIDE DEF deleted
<1>9. OwnersExist'
  BY <1>2, <1>5, <1>6 DEF IInv, OwnersExist, Exists, Db
<1>10. HeldByNewestHolder'
  <2> SUFFICES ASSUME NEW a \in Address, ips'[a].owner # NoDevice, newest[a].mac # NoMac
               PROVE  ips'[a].owner = macs'[newest[a].mac]
    BY <1>3 DEF HeldByNewestHolder
  <2>1. newest[a].mac \in Mac
    BY <1>1 DEF TypeOK
  <2>2. ips[a].owner # NoDevice /\ ips[a].owner = macs[newest[a].mac]
    BY <1>5 DEF IInv, HeldByNewestHolder
  <2> QED BY <1>2, <1>5, <2>1, <2>2
<1>11. ReservationsAreMarked'
  <2> SUFFICES ASSUME NEW a \in Address, newest[a].fixed
               PROVE  /\ ips'[a] # NoIpRow
                      /\ ips'[a].reserved \/ ~ips'[a].discovered
                      /\ ips'[a].owner # NoDevice
                      /\ devices'[ips'[a].owner].reserved \/ ~devices'[ips'[a].owner].discovered
    BY <1>3 DEF ReservationsAreMarked
  <2>1. /\ ips[a] # NoIpRow /\ (ips[a].reserved \/ ~ips[a].discovered)
        /\ ips[a].owner # NoDevice
        /\ devices[ips[a].owner].reserved \/ ~devices[ips[a].owner].discovered
    BY DEF IInv, ReservationsAreMarked
  <2>2. ips[a].owner \in Device => ~Expires(ips[a].owner)
    BY <2>1, NetBoxAssumption DEF Expires
  <2>3. ips'[a] = ips[a]
    BY <1>2, <2>2
  <2> QED BY <1>2, <1>5, <2>1, <2>3
<1>12. Undisturbed'
  <2> SUFFICES ASSUME losses' = 0
               PROVE  /\ \A d \in Device : devices'[d] # NoDeviceRow =>
                            \E m \in Mac : \A n \in Mac : macs'[n] = d <=> n = m
                      /\ \A a \in Address : ips'[a].owner # NoDevice =>
                            devices'[ips'[a].owner].age <= ips'[a].age
    BY DEF Undisturbed, Exists, Db
  <2>1. ASSUME NEW d \in Device, devices'[d] # NoDeviceRow
        PROVE  \E m \in Mac : \A n \in Mac : macs'[n] = d <=> n = m
    <3>1. devices[d] # NoDeviceRow /\ d \notin deleted
      BY <1>2, <2>1
    <3>2. PICK m \in Mac : \A n \in Mac : macs[n] = d <=> n = m
      BY <1>3, <3>1 DEF IInv, Undisturbed, Exists, Db
    <3>3. d # NoDevice
      BY NetBoxAssumption
    <3>4. \A n \in Mac : macs'[n] = d <=> n = m
      BY <1>2, <3>1, <3>2, <3>3
    <3> QED BY <3>4
  <2>2. ASSUME NEW a \in Address, ips'[a].owner # NoDevice
        PROVE  devices'[ips'[a].owner].age <= ips'[a].age
    <3>1. ips'[a] = ips[a] /\ ips[a].owner \in Device \ deleted
      BY <1>5, <2>2
    <3>2. devices[ips[a].owner].age <= ips[a].age
      BY <1>3, <2>2, <3>1 DEF IInv, Undisturbed
    <3> QED BY <1>2, <3>1, <3>2
  <2> QED BY <2>1, <2>2
<1>13. SyncRepairs'
  BY <1>3 DEF SyncRepairs
<1> QED BY <1>4, <1>9, <1>10, <1>11, <1>12, <1>13 DEF IInv

\* A step that loses calls is counted.
LEMMA LossesBounded ==
    ASSUME TypeOK, NEW s, NEW lost \in Lost, SyncEndpoint(s, lost)
    PROVE  losses' \in 0 .. MaxLosses /\ (losses' = 0 => lost = {} /\ losses = 0)
<1>1. losses = MaxLosses => lost = {}
  BY DEF Lost
<1>2. \/ lost = {} /\ losses' = losses
      \/ lost # {} /\ losses' = losses + 1
  BY DEF SyncEndpoint
<1> QED BY <1>1, <1>2, NetBoxAssumption DEF TypeOK

\* What an endpoint's step makes of everything.
LEMMA SyncEndpointEffect ==
    ASSUME TypeOK, OwnersExist, NEW s \in Sighting, NEW lost \in Lost, SyncEndpoint(s, lost)
    PROVE  /\ Next1 \in Mac
           /\ \E d \in Device :
                 /\ IF macs[Next1] = NoDevice THEN devices[d] = NoDeviceRow
                    ELSE macs[Next1] = d /\ devices[d] # NoDeviceRow
                 /\ newest' = Recorded(d, s, lost)
                 /\ \E v \in NetDb : /\ SyncedAs(Db, v, d, Next1, s, lost)
                                     /\ devices' = v.devices /\ macs' = v.macs /\ ips' = v.ips
<1>1. Next1 \in Mac
  BY NextOne DEF SyncEndpoint, TypeOK
<1>2. PICK d \in (IF macs[Next1] = NoDevice THEN Spare ELSE {macs[Next1]}) :
         Store(Synced(Db, d, Next1, s, lost)) /\ newest' = Recorded(d, s, lost)
  BY DEF SyncEndpoint
<1>3. /\ d \in Device
      /\ IF macs[Next1] = NoDevice THEN devices[d] = NoDeviceRow
         ELSE macs[Next1] = d /\ devices[d] # NoDeviceRow
  <2>1. macs[Next1] \in Device \cup {NoDevice}
    BY <1>1 DEF TypeOK
  <2>2. macs[Next1] # NoDevice => devices[macs[Next1]] # NoDeviceRow
    BY <1>1 DEF OwnersExist, Exists, Db
  <2> QED BY <1>2, <2>1, <2>2 DEF Spare, Exists, Db
<1> DEFINE v == Synced(Db, d, Next1, s, lost)
<1>4. SyncedAs(Db, v, d, Next1, s, lost)
  <2>1. Db \in NetDb /\ Db.macs = macs /\ Db.devices = devices
    BY DbType DEF Db
  <2> QED BY <1>1, <1>3, <2>1, SyncedEffect
<1>5. devices' = v.devices /\ macs' = v.macs /\ ips' = v.ips
  BY <1>2 DEF Store
<1>6. v \in NetDb
  BY <1>4 DEF SyncedAs
<1> QED BY <1>1, <1>2, <1>3, <1>4, <1>5, <1>6

\* The synchronisation of an endpoint keeps the invariant, and establishes the repair.
LEMMA SyncEndpointKeeps ==
    ASSUME IInv, NEW s \in Sighting, NEW lost \in Lost, SyncEndpoint(s, lost)
    PROVE  IInv'
<1>1. TypeOK /\ OwnersExist
  BY DEF IInv
<1> DEFINE m == Next1
<1>2. m \in Mac
  BY <1>1, SyncEndpointEffect
<1>3. PICK d \in Device :
         /\ IF macs[m] = NoDevice THEN devices[d] = NoDeviceRow
            ELSE macs[m] = d /\ devices[d] # NoDeviceRow
         /\ newest' = Recorded(d, s, lost)
         /\ \E v \in NetDb : /\ SyncedAs(Db, v, d, m, s, lost)
                             /\ devices' = v.devices /\ macs' = v.macs /\ ips' = v.ips
  BY <1>1, SyncEndpointEffect
<1> DEFINE through == GoesThrough(Db, m, lost)
           arrives(a) == Arrives(Db, d, a, lost)
           fixed(a) == a \in s.fixed /\ IsMarked(a, lost)
           mac == IF HasMac(lost) THEN m ELSE NoMac
<1>4. ASSUME NEW a \in Address
      PROVE  IF a \in s.ips /\ through /\ arrives(a)
             THEN /\ newest'[a] \in [mac: Mac \cup {NoMac}, fixed: BOOLEAN]
                  /\ newest'[a].mac = mac /\ newest'[a].fixed = fixed(a)
             ELSE newest'[a] = newest[a]
  <2> DEFINE fx == fixed(a)
  <2>1. IsWritten(d, a, lost) <=> through /\ arrives(a)
    BY DEF IsWritten, GoesThrough, Arrives, Db
  <2>2. newest'[a] = IF a \notin s.ips \/ ~IsWritten(d, a, lost) THEN newest[a]
                     ELSE [mac |-> mac, fixed |-> fx]
    BY <1>3 DEF Recorded
  <2>3. fx \in BOOLEAN /\ mac \in Mac \cup {NoMac}
    BY <1>2
  <2> HIDE DEF fx, mac, through, arrives
  <2>4. CASE a \in s.ips /\ through /\ arrives(a)
    <3>1. newest'[a] = [mac |-> mac, fixed |-> fx]
      BY <2>1, <2>2, <2>4
    <3>2. /\ newest'[a] \in [mac: Mac \cup {NoMac}, fixed: BOOLEAN]
          /\ newest'[a].mac = mac /\ newest'[a].fixed = fx
      BY <2>3, <3>1
    <3> QED BY <2>4, <3>2 DEF fx
  <2>5. CASE ~(a \in s.ips /\ through /\ arrives(a))
    BY <2>1, <2>2, <2>5
  <2> QED BY <2>4, <2>5
<1>5. synced' = IF lost = {} THEN [mac |-> m, seen |-> s] ELSE NoSync
  BY DEF SyncEndpoint
<1>6. newest' = [a \in Address |-> newest'[a]]
  BY <1>3 DEF Recorded
<1>7. losses' \in 0 .. MaxLosses /\ (losses' = 0 => lost = {} /\ losses = 0)
  BY <1>1, LossesBounded
<1>8. /\ todo' \subseteq Mac /\ stage' \in {"idle", "sync", "addresses", "devices"}
      /\ edits' = edits
  BY <1>1 DEF TypeOK, SyncEndpoint, GoesOn
<1>9. /\ \A a \in s.ips : fixed(a) =>
           /\ a \in s.fixed
           /\ \/ newest[a] = [mac |-> m, fixed |-> TRUE]
              \/ /\ ips[a] = NoIpRow \/ <<"mark", a>> \notin lost
                 /\ macs[m] = NoDevice \/ {Of("update"), Of("tag")} \cap lost = {}
      /\ HasMac(lost) <=> macs[m] # NoDevice \/ Of("mac") \notin lost
      /\ lost = {} => through /\ \A a \in Address : arrives(a)
  BY DEF IsMarked, HasMac, GoesThrough, Arrives
<1> HIDE DEF m, through, arrives, fixed
\* The effect, field by field.
<1>10. /\ devices' \in [Device -> DeviceRow \cup {NoDeviceRow}]
       /\ macs' \in [Mac -> Device \cup {NoDevice}]
       /\ ips' \in [Address -> IpRow \cup {NoIpRow}]
  BY <1>3 DEF NetDb
<1>11. /\ macs' = macs \/ (macs[m] = NoDevice /\ macs' = [macs EXCEPT ![m] = d])
       /\ through /\ HasMac(lost) => macs'[m] = d
  BY <1>3, <1>9 DEF SyncedAs, Db, through
<1>12. /\ \A e \in Device \ {d} : Like(devices'[e], devices[e])
       /\ devices'[d] = NoDeviceRow =>
             devices[d] = NoDeviceRow /\ macs' = macs /\ ips' = ips
       /\ devices[d] # NoDeviceRow =>
             /\ devices'[d].discovered = devices[d].discovered
             /\ devices[d].reserved => devices'[d].reserved
  BY <1>3 DEF SyncedAs, Db
<1>13. lost = {} =>
          /\ devices'[d] \in DeviceRow
          /\ devices'[d].age = 0
          /\ devices'[d].discovered => devices'[d].status = "active"
          /\ devices'[d].discovered /\ s.ips # {} => devices'[d].primary \in s.ips
  BY <1>3 DEF SyncedAs
<1>14. through /\ devices'[d].discovered /\ s.fixed # {}
          /\ (macs[m] = NoDevice \/ {Of("update"), Of("tag")} \cap lost = {}) =>
             devices'[d].reserved
  BY <1>3 DEF SyncedAs, Db, through
<1>15. /\ \A a \in s.ips : IF through /\ arrives(a) THEN Sighted(ips[a], ips'[a], d, s, a, lost)
                           ELSE ips'[a] = ips[a]
       /\ \A a \in Address \ s.ips : ips'[a] = ips[a] \/ ReleasedFrom(ips[a], ips'[a], d)
  <2>1. CASE through
    BY <1>3, <2>1 DEF SyncedAs, AddressesAs, Db, through, arrives
  <2>2. CASE ~through
    <3>1. ips' = ips
      BY <1>3, <2>2 DEF SyncedAs, Db, through
    <3>2. s.ips \subseteq Address
      BY DEF Sighting
    <3> QED BY <2>2, <3>1, <3>2
  <2> QED BY <2>1, <2>2
<1>16. \A a \in Address \ s.ips :
          \/ ips'[a] = ips[a]
          \/ /\ ips'[a] \in IpRow /\ ips'[a].owner = NoDevice
             /\ ips[a].discovered /\ ~ips[a].reserved
  <2> SUFFICES ASSUME NEW a \in Address \ s.ips, ReleasedFrom(ips[a], ips'[a], d)
               PROVE  /\ ips'[a] \in IpRow /\ ips'[a].owner = NoDevice
                      /\ ips[a].discovered /\ ~ips[a].reserved
    BY <1>15
  <2>1. ips[a] \in IpRow
    BY <1>1, NetBoxAssumption, NoRows, RowTypes DEF ReleasedFrom
  <2>2. ips'[a] = [ips[a] EXCEPT !.status = "deprecated", !.owner = NoDevice]
    BY DEF ReleasedFrom
  <2> QED BY <2>1, <2>2 DEF IpRow, ReleasedFrom
<1>17. s.ips \subseteq Address /\ s.fixed \subseteq s.ips
  BY DEF Sighting
<1>18. d # NoDevice
  BY NetBoxAssumption
\* The parts of the invariant.
<1>19. TypeOK'
  <2>1. newest' \in [Address -> [mac: Mac \cup {NoMac}, fixed: BOOLEAN]]
    <3>2. \A a \in Address : newest[a] \in [mac: Mac \cup {NoMac}, fixed: BOOLEAN]
      BY <1>1 DEF TypeOK
    <3>3. \A a \in Address : newest'[a] \in [mac: Mac \cup {NoMac}, fixed: BOOLEAN]
      BY <1>4, <3>2
    <3> QED BY <1>6, <3>3
  <2>2. synced' \in [mac: Mac \cup {NoMac}, seen: Sighting]
    BY <1>2, <1>5, NoSyncType
  <2> QED BY <1>1, <1>7, <1>8, <1>10, <2>1, <2>2 DEF TypeOK
<1>20. OwnersExist'
  <2>1. \A k \in Mac : macs'[k] # NoDevice => devices'[macs'[k]] # NoDeviceRow
    <3> SUFFICES ASSUME NEW k \in Mac, macs'[k] # NoDevice
                 PROVE  devices'[macs'[k]] # NoDeviceRow
      OBVIOUS
    <3>1. macs[k] # NoDevice => macs[k] \in Device /\ devices[macs[k]] # NoDeviceRow
      BY <1>1 DEF TypeOK, OwnersExist, Exists, Db
    <3>2. CASE macs'[k] = macs[k]
      BY <1>12, <3>1, <3>2 DEF Like
    <3>3. CASE macs'[k] # macs[k]
      BY <1>1, <1>11, <1>12, <3>3 DEF TypeOK
    <3> QED BY <3>2, <3>3
  <2>2. \A a \in Address : ips'[a].owner # NoDevice => devices'[ips'[a].owner] # NoDeviceRow
    <3> SUFFICES ASSUME NEW a \in Address, ips'[a].owner # NoDevice
                 PROVE  devices'[ips'[a].owner] # NoDeviceRow
      OBVIOUS
    <3>1. ips[a].owner # NoDevice =>
             ips[a].owner \in Device /\ devices[ips[a].owner] # NoDeviceRow
      BY <1>1, RowTypes DEF OwnersExist, Exists, Db
    <3>2. ips'[a] = ips[a] \/ ips'[a].owner = d
      BY <1>15, <1>16 DEF Sighted
    <3>3. CASE ips'[a] = ips[a]
      BY <1>12, <3>1, <3>3 DEF Like
    <3>4. CASE ips'[a].owner = d /\ ips'[a] # ips[a]
      BY <1>12, <3>4
    <3> QED BY <3>2, <3>3, <3>4
  <2> QED BY <2>1, <2>2 DEF OwnersExist, Exists, Db
<1>21. HeldByNewestHolder'
  <2> SUFFICES ASSUME NEW a \in Address, ips'[a].owner # NoDevice, newest'[a].mac # NoMac
               PROVE  ips'[a].owner = macs'[newest'[a].mac]
    BY DEF HeldByNewestHolder
  <2>1. CASE a \in s.ips /\ through /\ arrives(a)
    <3>1. newest'[a].mac = mac
      <4> HIDE DEF mac
      <4> QED BY <1>4, <2>1
    <3>2. HasMac(lost) /\ newest'[a].mac = m
      BY <3>1
    <3> QED BY <1>11, <1>15, <2>1, <3>2 DEF Sighted
  <2>2. CASE ~(a \in s.ips /\ through /\ arrives(a))
    <3>1. newest'[a] = newest[a] /\ ips'[a] = ips[a]
      BY <1>4, <1>15, <1>16, <2>2
    <3>2. newest[a].mac \in Mac
      BY <1>1, <3>1 DEF TypeOK
    <3>3. ips[a].owner = macs[newest[a].mac]
      BY <3>1 DEF IInv, HeldByNewestHolder
    <3>4. macs'[newest[a].mac] = macs[newest[a].mac]
      BY <1>1, <1>11, <3>1, <3>2, <3>3 DEF TypeOK
    <3> QED BY <3>1, <3>3, <3>4
  <2> QED BY <2>1, <2>2
<1>22. ReservationsAreMarked'
  <2> SUFFICES ASSUME NEW a \in Address, newest'[a].fixed
               PROVE  /\ ips'[a] # NoIpRow
                      /\ ips'[a].reserved \/ ~ips'[a].discovered
                      /\ ips'[a].owner # NoDevice
                      /\ devices'[ips'[a].owner].reserved \/ ~devices'[ips'[a].owner].discovered
    BY DEF ReservationsAreMarked
  <2>1. ASSUME newest[a].fixed
        PROVE  /\ ips[a] # NoIpRow /\ (ips[a].reserved \/ ~ips[a].discovered)
               /\ ips[a].owner # NoDevice
               /\ ips[a].owner \in Device /\ devices[ips[a].owner] # NoDeviceRow
               /\ devices'[ips[a].owner].reserved \/ ~devices'[ips[a].owner].discovered
    <3>1. /\ ips[a] # NoIpRow /\ (ips[a].reserved \/ ~ips[a].discovered)
          /\ ips[a].owner # NoDevice
          /\ devices[ips[a].owner].reserved \/ ~devices[ips[a].owner].discovered
      BY <2>1 DEF IInv, ReservationsAreMarked
    <3>2. ips[a].owner \in Device /\ devices[ips[a].owner] # NoDeviceRow
      BY <1>1, <3>1, RowTypes DEF OwnersExist, Exists, Db
    <3> QED BY <1>12, <3>1, <3>2 DEF Like
  <2>2. CASE a \in s.ips /\ through /\ arrives(a)
    <3>1. fixed(a)
      <4> HIDE DEF mac
      <4> QED BY <1>4, <2>2
    <3>2. Sighted(ips[a], ips'[a], d, s, a, lost) /\ a \in s.fixed
      BY <1>15, <1>9, <2>2, <3>1
    <3>3. CASE newest[a] = [mac |-> m, fixed |-> TRUE]
      <4>1. newest[a].fixed /\ newest[a].mac = m /\ m # NoMac
        BY <1>2, <3>3, NetBoxAssumption
      <4>2. ips[a].owner = macs[m]
        BY <2>1, <4>1 DEF IInv, HeldByNewestHolder
      <4>3. ips[a].owner = d
        BY <1>3, <2>1, <4>1, <4>2 DEF m
      <4> QED BY <1>18, <2>1, <3>2, <4>1, <4>3, NoRows DEF Sighted
    <3>4. CASE /\ ips[a] = NoIpRow \/ <<"mark", a>> \notin lost
               /\ macs[m] = NoDevice \/ {Of("update"), Of("tag")} \cap lost = {}
      BY <1>18, <1>14, <2>2, <3>2, <3>4, NoRows DEF Sighted
    <3> QED BY <1>9, <2>2, <3>1, <3>3, <3>4
  <2>3. CASE ~(a \in s.ips /\ through /\ arrives(a))
    <3>1. newest[a].fixed
      BY <1>4, <2>3
    <3>2. ips'[a] = ips[a]
      BY <1>15, <1>16, <2>1, <2>3, <3>1
    <3> QED BY <2>1, <3>1, <3>2
  <2> QED BY <2>2, <2>3
<1>23. Undisturbed'
  <2> SUFFICES ASSUME losses' = 0
               PROVE  /\ \A e \in Device : devices'[e] # NoDeviceRow =>
                            \E k \in Mac : \A n \in Mac : macs'[n] = e <=> n = k
                      /\ \A a \in Address : ips'[a].owner # NoDevice =>
                            devices'[ips'[a].owner].age <= ips'[a].age
    BY DEF Undisturbed, Exists, Db
  <2>1. /\ \A e \in Device : devices[e] # NoDeviceRow =>
              \E k \in Mac : \A n \in Mac : macs[n] = e <=> n = k
        /\ \A a \in Address : ips[a].owner # NoDevice => devices[ips[a].owner].age <= ips[a].age
    BY <1>7 DEF IInv, Undisturbed, Exists, Db
  <2>2. lost = {} /\ through /\ HasMac(lost) /\ \A a \in Address : arrives(a)
    BY <1>7, <1>9
  <2>3. ASSUME NEW e \in Device, devices'[e] # NoDeviceRow
        PROVE  \E k \in Mac : \A n \in Mac : macs'[n] = e <=> n = k
    <3>1. CASE devices[e] # NoDeviceRow
      <4>1. PICK k \in Mac : \A n \in Mac : macs[n] = e <=> n = k
        BY <2>1, <3>1
      <4>2. \A n \in Mac : macs'[n] = e <=> macs[n] = e
        BY <1>1, <1>2, <1>3, <1>11, <1>18, <3>1, NetBoxAssumption DEF TypeOK
      <4> QED BY <4>1, <4>2
    <3>2. CASE devices[e] = NoDeviceRow
      <4>1. e = d
        BY <1>12, <2>3, <3>2 DEF Like
      <4>2. \A n \in Mac : macs[n] # d
        BY <1>1, <1>18, <3>2, <4>1 DEF OwnersExist, Exists, Db
      <4>3. \A n \in Mac : macs'[n] = d <=> n = m
        BY <1>1, <1>2, <1>11, <2>2, <4>2 DEF TypeOK
      <4> QED BY <1>2, <4>1, <4>3
    <3> QED BY <3>1, <3>2
  <2>4. ASSUME NEW a \in Address, ips'[a].owner # NoDevice
        PROVE  devices'[ips'[a].owner].age <= ips'[a].age
    <3>1. CASE a \in s.ips
      <4>1. ips'[a].owner = d /\ ips'[a].age = 0 /\ devices'[d].age = 0
        BY <1>13, <1>15, <1>17, <2>2, <3>1 DEF Sighted
      <4> QED BY <4>1
    <3>2. CASE a \notin s.ips
      <4>1. ips'[a] = ips[a]
        BY <1>16, <2>4, <3>2
      <4>2. ips[a] \in IpRow /\ ips[a].owner \in Device
        BY <1>1, <2>4, <4>1, NoRows, RowTypes
      <4>3. ips[a].age \in Nat
        BY <4>2, NetBoxAssumption DEF IpRow, Age, Oldest
      <4>4. devices'[ips[a].owner].age = 0 \/
            devices'[ips[a].owner].age = devices[ips[a].owner].age
        BY <1>12, <1>13, <2>2, <4>2 DEF Like
      <4> QED BY <2>1, <2>4, <4>1, <4>3, <4>4
    <3> QED BY <3>1, <3>2
  <2> QED BY <2>3, <2>4
<1>24. SyncRepairs'
  <2> SUFFICES ASSUME synced' # NoSync
               PROVE  LET e == macs'[synced'.mac]
                      IN  /\ e # NoDevice /\ devices'[e] # NoDeviceRow
                          /\ devices'[e].age = 0
                          /\ devices'[e].discovered => devices'[e].status = "active"
                          /\ \A a \in synced'.seen.ips :
                                /\ ips'[a].owner = e /\ ips'[a].age = 0
                                /\ ips'[a].discovered =>
                                      ips'[a].status = StatusFor(synced'.seen, a)
                          /\ devices'[e].discovered /\ synced'.seen.ips # {} =>
                                devices'[e].primary \in synced'.seen.ips
    BY DEF SyncRepairs, Exists, Db, StatusFor
  <2>1. /\ lost = {} /\ synced'.mac = m /\ synced'.seen = s
        /\ through /\ HasMac(lost) /\ \A a \in Address : arrives(a)
    BY <1>5, <1>9
  <2>2. macs'[m] = d
    BY <1>11, <2>1
  <2>3. \A a \in s.ips : /\ ips'[a].owner = d /\ ips'[a].age = 0
                         /\ ips'[a].discovered => ips'[a].status = StatusFor(s, a)
    BY <1>15, <1>17, <2>1 DEF Sighted
  <2> QED BY <1>13, <1>18, <2>1, <2>2, <2>3, NoRows
<1> QED BY <1>19, <1>20, <1>21, <1>22, <1>23, <1>24 DEF IInv

\* Every step keeps the invariant.
LEMMA NextKeeps == IInv /\ [Next]_vars => IInv'
<1> SUFFICES ASSUME IInv, [Next]_vars PROVE IInv'
  OBVIOUS
<1>1. CASE Tick
  BY <1>1, TickKeeps
<1>2. CASE Begin
  BY <1>2, BeginKeeps
<1>3. CASE Sync
  BY <1>3, BeginKeeps, SyncEndpointKeeps DEF Sync
<1>4. CASE Cleanup
  BY <1>4, CleanAddressesKeeps, CleanDevicesKeeps DEF Cleanup
<1>5. CASE Users
  BY <1>5, EditIpKeeps, EditDeviceKeeps DEF Users
<1>6. CASE UNCHANGED vars
  <2>1. /\ devices' = devices /\ macs' = macs /\ ips' = ips /\ stage' = stage /\ todo' = todo
        /\ edits' = edits /\ losses' = losses /\ newest' = newest /\ synced' = synced
    BY <1>6 DEF vars
  <2> QED BY <2>1 DEF IInv, TypeOK, OwnersExist, HeldByNewestHolder,
                      ReservationsAreMarked, Undisturbed, SyncRepairs, Exists, Db, StatusFor
<1> QED BY <1>1, <1>2, <1>3, <1>4, <1>5, <1>6 DEF Next

-----------------------------------------------------------------------------
(* The theorems.                                                            *)

\* The invariant holds whatever endpoints are seen, whichever calls are lost, and
\* whenever users edit.
THEOREM Invariant == Spec => []IInv
<1>1. IInv /\ [Next]_vars => IInv'
  BY NextKeeps
<1> QED BY InitIInv, <1>1, PTL DEF Spec

\* The records of NetBox and the state of the cycle are what the code takes them for.
THEOREM TypeCorrect == Spec => []TypeOK
<1>1. IInv => TypeOK
  BY DEF IInv
<1> QED BY Invariant, <1>1, PTL

\* One complete endpoint step repairs whatever was left (_sync_one_endpoint).
THEOREM CompleteStepsRepair == Spec => []SyncRepairs
<1>1. IInv => SyncRepairs
  BY DEF IInv
<1> QED BY Invariant, <1>1, PTL

\* An address is with the host whose sighting was last recorded for it, or with
\* nobody, also after steps that lost some of their calls (_sync_ip, _delete_device).
THEOREM AddressesFollowTheirHosts == Spec => []HeldByNewestHolder
<1>1. IInv => HeldByNewestHolder
  BY DEF IInv
<1> QED BY Invariant, <1>1, PTL

\* A static reservation whose tags have reached its address and its device outlives
\* both cleanups, whichever calls are lost from then on and whatever users edit
\* between the steps: the record carries the reservation or is not the scanner's,
\* and so does the device that holds it (_is_reservation, _release_stale_addresses,
\* _cleanup_devices).  Tags that were lost are the case of ReservationsKept.
THEOREM ReservationsStay == Spec => []ReservationsSurvive
<1>1. IInv => ReservationsSurvive
  BY DEF IInv, ReservationsAreMarked, ReservationsSurvive
<1> QED BY Invariant, <1>1, PTL

\* While no call is lost, a device and its MAC come and go together
\* (_create_endpoint_device, _delete_device).
THEOREM DevicesHaveOneMac == Spec => []OneDevicePerMac
<1>1. IInv => OneDevicePerMac
  <2> SUFFICES ASSUME IInv, losses = 0, NEW d \in Device, Exists(Db, d)
               PROVE  Cardinality({m \in Mac : macs[m] = d}) = 1
    BY DEF OneDevicePerMac
  <2>1. PICK m \in Mac : \A n \in Mac : macs[n] = d <=> n = m
    BY DEF IInv, Undisturbed
  <2>2. {n \in Mac : macs[n] = d} = {m}
    BY <2>1
  <2> QED BY <2>2, FS_Singleton
<1> QED BY Invariant, <1>1, PTL

\* While no call is lost, what was seen within DELETE_AFTER_DAYS stays: an address
\* also outlives its device, which is no older (_cleanup_addresses, _delete_device).
THEOREM FreshRecordsStay == Spec => NothingFreshIsDeleted
<1> DEFINE Kept == losses' = 0 =>
        /\ \A a \in Address : ips[a] # NoIpRow /\ ips[a].age <= DeleteAfter => ips'[a] # NoIpRow
        /\ \A d \in Device : Exists(Db, d) /\ devices[d].age <= DeleteAfter =>
               devices'[d] # NoDeviceRow
<1>1. IInv /\ [Next]_vars => [Kept]_vars
  <2> SUFFICES ASSUME IInv, Next, losses' = 0
               PROVE  /\ \A a \in Address :
                            ips[a] # NoIpRow /\ ips[a].age <= DeleteAfter => ips'[a] # NoIpRow
                      /\ \A d \in Device :
                            devices[d] # NoDeviceRow /\ devices[d].age <= DeleteAfter =>
                               devices'[d] # NoDeviceRow
    BY DEF Exists, Db
  <2>1. TypeOK /\ OwnersExist
    BY DEF IInv
  <2>2. CASE Tick
    <3>1. \A a \in Address : ips[a] # NoIpRow => ips'[a] # NoIpRow
      <4> SUFFICES ASSUME NEW a \in Address, ips[a] # NoIpRow PROVE ips'[a] # NoIpRow
        OBVIOUS
      <4> DEFINE n == Older(ips[a].age)
      <4>1. ips[a] \in IpRow /\ ips'[a] = [ips[a] EXCEPT !.age = n]
        BY <2>1, <2>2, RowTypes DEF Tick
      <4> HIDE DEF n
      <4>2. ips'[a].status = ips[a].status /\ ips[a].status # "none"
        BY <4>1 DEF IpRow
      <4> QED BY <4>2 DEF NoIpRow
    <3>2. \A d \in Device : devices[d] # NoDeviceRow => devices'[d] # NoDeviceRow
      <4> SUFFICES ASSUME NEW d \in Device, devices[d] # NoDeviceRow
                   PROVE  devices'[d] # NoDeviceRow
        OBVIOUS
      <4> DEFINE n == Older(devices[d].age)
      <4>1. devices[d] \in DeviceRow /\ devices'[d] = [devices[d] EXCEPT !.age = n]
        BY <2>1, <2>2, RowTypes DEF Tick, Exists, Db
      <4> HIDE DEF n
      <4>2. devices'[d].status = devices[d].status /\ devices[d].status # "none"
        BY <4>1 DEF DeviceRow
      <4> QED BY <4>2 DEF NoDeviceRow
    <3> QED BY <3>1, <3>2
  <2>3. CASE Begin \/ SkipEndpoint
    BY <2>3 DEF Begin, SkipEndpoint
  <2>4. ASSUME NEW s \in Sighting, NEW lost \in Lost, SyncEndpoint(s, lost)
        PROVE  /\ \A a \in Address : ips[a] # NoIpRow => ips'[a] # NoIpRow
               /\ \A d \in Device : devices[d] # NoDeviceRow => devices'[d] # NoDeviceRow
    <3>1. PICK d \in Device : \E v \in NetDb :
             /\ SyncedAs(Db, v, d, Next1, s, lost)
             /\ devices' = v.devices /\ macs' = v.macs /\ ips' = v.ips
      BY <2>1, <2>4, SyncEndpointEffect
    <3>2. \A e \in Device : devices[e] # NoDeviceRow => devices'[e] # NoDeviceRow
      BY <3>1 DEF SyncedAs, Like, Db
    <3>3. ASSUME NEW a \in Address, ips[a] # NoIpRow
          PROVE  ips'[a] # NoIpRow
      <4>1. \/ ips'[a] = ips[a] \/ ips'[a] \in IpRow
            \/ ReleasedFrom(ips[a], ips'[a], d)
        <5>1. CASE ips' = ips
          BY <5>1
        <5>2. CASE AddressesAs(Db, [devices |-> devices', macs |-> macs', ips |-> ips'], d, s, lost)
          BY <5>2 DEF AddressesAs, Sighted, Db
        <5> QED BY <3>1, <5>1, <5>2 DEF SyncedAs, AddressesAs, Db
      <4>2. CASE ReleasedFrom(ips[a], ips'[a], d)
        <5>1. ips'[a] = [ips[a] EXCEPT !.status = "deprecated", !.owner = NoDevice]
          BY <4>2 DEF ReleasedFrom
        <5>2. ips[a] \in IpRow
          BY <2>1, <3>3, RowTypes
        <5> QED BY <5>1, <5>2, NoRows DEF IpRow
      <4> QED BY <3>3, <4>1, <4>2, NoRows
    <3> QED BY <3>2, <3>3
  <2>5. ASSUME NEW lost, CleanAddresses(lost)
        PROVE  /\ \A a \in Address :
                     ips[a] # NoIpRow /\ ips[a].age <= DeleteAfter => ips'[a] # NoIpRow
               /\ \A d \in Device : devices[d] # NoDeviceRow => devices'[d] # NoDeviceRow
    <3>1. /\ \A d \in Device : Like(devices'[d], devices[d])
          /\ \A a \in Address :
                \/ ips'[a] = NoIpRow /\ Deletable(a)
                \/ ips'[a] = ips[a]
                \/ ips'[a] \in IpRow
      BY <2>1, <2>5, CleanAddressesEffect
    <3>2. \A a \in Address : ips[a] # NoIpRow /\ ips[a].age <= DeleteAfter => ~Deletable(a)
      BY <2>1, NetBoxAssumption, RowTypes DEF Deletable, Overdue, IpRow, Age, Oldest
    <3> QED BY <3>1, <3>2, NoRows DEF Like
  <2>6. ASSUME NEW lost \in LostOf(Address), NEW failed \in LostOf(Device),
               CleanDevices(lost, failed)
        PROVE  /\ \A a \in Address :
                     ips[a] # NoIpRow /\ ips[a].age <= DeleteAfter => ips'[a] # NoIpRow
               /\ \A d \in Device :
                     devices[d] # NoDeviceRow /\ devices[d].age <= DeleteAfter =>
                        devices'[d] # NoDeviceRow
    <3>1. losses = 0
      BY <2>1, <2>6 DEF TypeOK, CleanDevices
    <3>2. \A d \in Device : Expires(d) => devices[d] \in DeviceRow /\ devices[d].age > DeleteAfter
      BY <2>1, NoRows, RowTypes DEF Expires, Overdue
    <3>3. /\ \A d \in Device : ~Expires(d) => (devices'[d] = NoDeviceRow <=> devices[d] = NoDeviceRow)
          /\ \A a \in Address :
                \/ ips'[a] = ips[a]
                \/ ips[a].owner \in Device /\ Expires(ips[a].owner) /\ ips'[a] = NoIpRow
                \/ ips'[a] \in IpRow
      BY <2>1, <2>6, CleanDevicesEffect
    <3>4. ASSUME NEW d \in Device, devices[d] # NoDeviceRow, devices[d].age <= DeleteAfter
          PROVE  ~Expires(d)
      BY <3>2, <3>4, NetBoxAssumption DEF DeviceRow, Age, Oldest
    <3>5. ASSUME NEW a \in Address, ips[a] # NoIpRow, ips[a].age <= DeleteAfter,
                 ips[a].owner \in Device, Expires(ips[a].owner)
          PROVE  FALSE
      <4>1. devices[ips[a].owner].age <= ips[a].age
        BY <3>1, <3>5, NetBoxAssumption DEF IInv, Undisturbed
      <4>2. devices[ips[a].owner].age \in Nat /\ devices[ips[a].owner].age > DeleteAfter
        BY <3>2, <3>5, NetBoxAssumption DEF DeviceRow, Age, Oldest
      <4>3. ips[a].age \in Nat
        BY <2>1, <3>5, NetBoxAssumption, RowTypes DEF IpRow, Age, Oldest
      <4> QED BY <3>5, <4>1, <4>2, <4>3, NetBoxAssumption
    <3> QED BY <3>3, <3>4, <3>5, NoRows
  <2>7. ASSUME NEW edit \in Edits, NEW a \in Address, EditIp(a, edit)
        PROVE  /\ \A b \in Address : ips[b] # NoIpRow => ips'[b] # NoIpRow
               /\ devices' = devices
    <3> DEFINE row == Edited(ips[a], edit)
    <3>1. ips[a] \in IpRow /\ ips' = [ips EXCEPT ![a] = row] /\ devices' = devices
      BY <2>1, <2>7, RowTypes DEF EditIp
    <3>2. row \in IpRow
      BY <3>1 DEF Edited, IpRow
    <3> HIDE DEF row
    <3> QED BY <2>1, <3>1, <3>2, NoRows DEF TypeOK
  <2>8. ASSUME NEW edit \in Edits, NEW d \in Device, EditDevice(d, edit)
        PROVE  /\ \A e \in Device : devices[e] # NoDeviceRow => devices'[e] # NoDeviceRow
               /\ ips' = ips
    <3> DEFINE row == Edited(devices[d], edit)
    <3>1. devices[d] \in DeviceRow /\ devices' = [devices EXCEPT ![d] = row] /\ ips' = ips
      BY <2>1, <2>8, RowTypes DEF EditDevice, Exists, Db
    <3>2. row \in DeviceRow
      BY <3>1 DEF Edited, DeviceRow
    <3> HIDE DEF row
    <3> QED BY <2>1, <3>1, <3>2, NoRows DEF TypeOK
  <2> QED BY <2>2, <2>3, <2>4, <2>5, <2>6, <2>7, <2>8 DEF Next, Sync, Cleanup, Users
<1> HIDE DEF Kept
<1>2. Spec => [][Kept]_vars
  BY Invariant, <1>1, PTL DEF Spec
<1> QED BY <1>2 DEF NothingFreshIsDeleted, Kept

=============================================================================
