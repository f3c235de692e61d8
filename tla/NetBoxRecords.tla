--------------------------- MODULE NetBoxRecords ---------------------------
(***************************************************************************)
(* The endpoints in NetBox: what sync_endpoints writes and what the        *)
(* cleanup takes away again (src/app/backends/netbox/sync.py, cleanup.py,  *)
(* client.py).                                                             *)
(*                                                                         *)
(* A cycle synchronises one endpoint after the other and then cleans up,   *)
(* addresses before devices.  Each of them is several HTTP calls.  A call  *)
(* that is rejected is logged and swallowed (NetBoxClient.write), a failed *)
(* read ends the endpoint, and a dead process ends the cycle: `lost` is    *)
(* the set of calls of one step that had no effect.  NetBox's users edit   *)
(* the same records between the steps of a cycle.                          *)
(*                                                                         *)
(* Abstracted: a record carries its age instead of last_seen, up to the    *)
(* age that is past both windows; an interface is its device; the statuses *)
(* active and dhcp are one; names, comments and descriptions are payload.  *)
(* A record is patched twice, its attributes first and its tags next, and  *)
(* pynetbox sends with the second PATCH what the first did not bring: to   *)
(* lose the first (`update', `write') is to lose all that differs, to lose *)
(* the second (`tag', `mark') is to lose the tags.                         *)
(***************************************************************************)
EXTENDS Integers, FiniteSets, Sequences, SequencesExt

CONSTANTS
    Mac,          \* MAC addresses, numbers: endpoints are written in this order
    Address,      \* IP addresses, numbers for the same reason
    Device,       \* ids of endpoint devices
    NoMac, NoAddress, NoDevice,
    OfflineAfter, \* OFFLINE_AFTER_HOURS, in ticks
    DeleteAfter,  \* DELETE_AFTER_DAYS, in ticks
    AutoDelete,   \* ENABLE_AUTO_DELETE
    Edits,        \* what users of NetBox do
    MaxEdits,     \* bound on their edits
    MaxLosses     \* bound on the steps that lose calls

ASSUME NetBoxAssumption ==
    /\ Mac \subseteq Nat /\ IsFiniteSet(Mac)
    /\ Address \subseteq Nat /\ IsFiniteSet(Address)
    /\ IsFiniteSet(Device)
    /\ NoMac \notin Mac /\ NoAddress \notin Address /\ NoDevice \notin Device
    /\ OfflineAfter \in Nat /\ DeleteAfter \in Nat
    /\ AutoDelete \in BOOLEAN
    /\ Edits \subseteq {"protect", "adopt"}
    /\ MaxEdits \in Nat /\ MaxLosses \in Nat

VARIABLES
    devices,      \* endpoint devices
    macs,         \* the device whose interface a MAC is assigned to
    ips,          \* one record per address
    stage,        \* what the running cycle does next
    todo,         \* MACs it has not synchronised yet
    edits,        \* number of edits so far
    losses,       \* number of steps that lost calls so far
    newest,       \* history: per address, the sighting that was last recorded
    synced        \* history: the endpoint step just taken, if it was complete

vars == <<devices, macs, ips, stage, todo, edits, losses, newest, synced>>

\* Past both windows an age makes no more difference.  Nothing says which is longer.
Oldest == 1 + IF OfflineAfter > DeleteAfter THEN OfflineAfter ELSE DeleteAfter
Age == 0 .. Oldest

DeviceRow == [age: Age, status: {"active", "offline"}, reserved: BOOLEAN, static: BOOLEAN,
              discovered: BOOLEAN, protected: BOOLEAN, primary: Address \cup {NoAddress}]
IpRow == [owner: Device \cup {NoDevice}, age: Age, status: {"active", "reserved", "deprecated"},
          reserved: BOOLEAN, static: BOOLEAN, discovered: BOOLEAN, protected: BOOLEAN]

NoDeviceRow == [age |-> 0, status |-> "none", reserved |-> FALSE, static |-> FALSE,
                discovered |-> FALSE, protected |-> FALSE, primary |-> NoAddress]
NoIpRow == [owner |-> NoDevice, age |-> 0, status |-> "none", reserved |-> FALSE,
            static |-> FALSE, discovered |-> FALSE, protected |-> FALSE]

\* What a cycle observed of one MAC; `fixed` are its static DHCP reservations.
Sighting == {s \in [ips: SUBSET Address, fixed: SUBSET Address, located: BOOLEAN] :
                s.fixed \subseteq s.ips}
Unseen == [ips |-> {}, fixed |-> {}, located |-> FALSE]

NoClaim == [mac |-> NoMac, fixed |-> FALSE]
NoSync == [mac |-> NoMac, seen |-> Unseen]

TypeOK ==
    /\ devices \in [Device -> DeviceRow \cup {NoDeviceRow}]
    /\ macs \in [Mac -> Device \cup {NoDevice}]
    /\ ips \in [Address -> IpRow \cup {NoIpRow}]
    /\ stage \in {"idle", "sync", "addresses", "devices"}
    /\ todo \subseteq Mac
    /\ edits \in 0 .. MaxEdits
    /\ losses \in 0 .. MaxLosses
    /\ newest \in [Address -> [mac: Mac \cup {NoMac}, fixed: BOOLEAN]]
    /\ synced \in [mac: Mac \cup {NoMac}, seen: Sighting]

Init ==
    /\ devices = [d \in Device |-> NoDeviceRow]
    /\ macs = [m \in Mac |-> NoDevice]
    /\ ips = [a \in Address |-> NoIpRow]
    /\ stage = "idle" /\ todo = {}
    /\ edits = 0 /\ losses = 0
    /\ newest = [a \in Address |-> NoClaim]
    /\ synced = NoSync

Db == [devices |-> devices, macs |-> macs, ips |-> ips]
Store(db) == devices' = db.devices /\ macs' = db.macs /\ ips' = db.ips

Exists(db, d) == db.devices[d] # NoDeviceRow
Spare == {d \in Device : ~Exists(Db, d)}
OwnedBy(db, d) == {a \in Address : db.ips[a].owner = d}

-----------------------------------------------------------------------------
(* NetBox itself.                                                           *)

\* An address cannot leave a device that has it as its primary address.
Pinned(db, a) == db.ips[a].owner # NoDevice /\ db.devices[db.ips[a].owner].primary = a

\* Deleting an address clears the primary address that refers to it.
WithoutIp(db, a) ==
    [db EXCEPT !.ips[a] = NoIpRow,
               !.devices = [d \in Device |-> IF db.devices[d].primary = a
                                             THEN [db.devices[d] EXCEPT !.primary = NoAddress]
                                             ELSE db.devices[d]]]

WithoutIps(db, S) == FoldSet(LAMBDA a, w : WithoutIp(w, a), db, S)

\* Deleting a device takes its interface, its MAC and its addresses along.
WithoutDevice(db, d) ==
    [devices |-> [db.devices EXCEPT ![d] = NoDeviceRow],
     macs    |-> [m \in Mac |-> IF db.macs[m] = d THEN NoDevice ELSE db.macs[m]],
     ips     |-> [a \in Address |-> IF db.ips[a].owner = d THEN NoIpRow ELSE db.ips[a]]]

-----------------------------------------------------------------------------
(* sync_endpoints, one endpoint.                                            *)

Ascending(S) == SetToSortSeq(S, <)

\* A loop over numbers, the lowest first.
InOrder(turn(_, _), base, S) == MapThenFoldSet(turn, base, LAMBDA a : a, Max, S)

\* The calls about a device carry NoAddress.
Of(step) == <<step, NoAddress>>
Call == {Of(s) : s \in {"device", "interface", "mac", "update", "tag", "primary"}}
            \cup {"release", "write", "mark", "detach"} \X Address

\* The order of the calls: what a failed read or a dead process leaves out is a
\* tail of it.
CallOrder ==
    <<Of("device"), Of("interface"), Of("mac"), Of("update"), Of("tag")>>
        \o FoldLeft(LAMBDA calls, a : calls \o <<<<"release", a>>, <<"write", a>>, <<"mark", a>>>>,
                    <<>>, Ascending(Address))
        \o FoldLeft(LAMBDA calls, a : Append(calls, <<"detach", a>>), <<>>, Ascending(Address))
        \o <<Of("primary")>>

Lost ==
    IF losses = MaxLosses THEN {{}}
    ELSE {{}} \cup {{c} : c \in Call}
              \cup {ToSet(SubSeq(CallOrder, n, Len(CallOrder))) : n \in 1 .. Len(CallOrder)}

\* find_interface_by_mac: the device a MAC is assigned to.
Anchor(db, m) == db.macs[m]

\* assign_mac
WithMac(db, m, d, lost) == IF Of("mac") \in lost THEN db ELSE [db EXCEPT !.macs[m] = d]

\* create_device
NewDevice(s) == [age |-> 0, status |-> "active", reserved |-> s.fixed # {},
                 static |-> s.fixed # {}, discovered |-> TRUE, protected |-> FALSE,
                 primary |-> NoAddress]

\* Variant used as a mutant: the MAC is not assigned to the new interface.
WithNewDevice_NoMac(db, d, m, s, lost) == [db EXCEPT !.devices[d] = NewDevice(s)]

\* _create_endpoint_device, and the interface and the MAC of the new device.
WithNewDevice(db, d, m, s, lost) ==
    LET created == [db EXCEPT !.devices[d] = NewDevice(s)]
    IN  IF Of("interface") \in lost THEN created ELSE WithMac(created, m, d, lost)

\* Variant used as a mutant: last_seen is only set when the device is created.
Refreshed_NoStamp(row, s, lost) ==
    [row EXCEPT !.static = s.fixed # {}, !.status = IF row.discovered THEN "active" ELSE @,
                !.reserved = @ \/ (row.discovered /\ s.fixed # {} /\ Of("tag") \notin lost)]

\* The attributes and the tags of the device.
Refreshed(row, s, lost) ==
    [row EXCEPT !.age = 0, !.static = s.fixed # {},
                !.status = IF row.discovered THEN "active" ELSE row.status,
                !.reserved = row.reserved
                    \/ (row.discovered /\ s.fixed # {} /\ Of("tag") \notin lost)]

\* Variant used as a mutant: a status outside the ones NetBox knows.
StatusFor_Misnamed(s, a) == IF a \in s.fixed THEN "static" ELSE "active"

\* status_for, with active for dhcp
StatusFor(s, a) == IF a \in s.fixed THEN "reserved" ELSE "active"

NewIp(d, s, a) ==
    [owner |-> d, age |-> 0, status |-> StatusFor(s, a), reserved |-> a \in s.fixed,
     static |-> a \in s.fixed, discovered |-> TRUE, protected |-> FALSE]

\* Variant used as a mutant: the previous owner keeps its primary address.
Released_Not(db, d, a, lost) == db

\* _release_primary_reference
Released(db, d, a, lost) ==
    IF db.ips[a].owner # d /\ Pinned(db, a) /\ <<"release", a>> \notin lost
    THEN [db EXCEPT !.devices[db.ips[a].owner].primary = NoAddress]
    ELSE db

\* The attributes and the tags of an address.
Patched(row, d, s, a, lost) ==
    [row EXCEPT !.owner = d, !.age = 0, !.static = a \in s.fixed,
                !.status = IF row.discovered THEN StatusFor(s, a) ELSE row.status,
                !.reserved = row.reserved
                    \/ (row.discovered /\ a \in s.fixed /\ <<"mark", a>> \notin lost)]

\* Variant used as a mutant: the address stays assigned to its previous owner.
Written_KeepsOwner(db, d, s, a, lost) ==
    IF <<"write", a>> \in lost THEN db
    ELSE [db EXCEPT !.ips[a] = Patched(@, db.ips[a].owner, s, a, lost)]

\* The PATCH of an address that NetBox has already.
Written(db, d, s, a, lost) ==
    IF <<"write", a>> \in lost \/ (db.ips[a].owner # d /\ Pinned(db, a)) THEN db
    ELSE [db EXCEPT !.ips[a] = Patched(@, d, s, a, lost)]

\* _sync_ip
WithIp(db, d, s, a, lost) ==
    IF db.ips[a] # NoIpRow THEN Written(Released(db, d, a, lost), d, s, a, lost)
    ELSE IF <<"write", a>> \in lost THEN db
    ELSE [db EXCEPT !.ips[a] = NewIp(d, s, a)]

\* _release_stale_addresses
Stale(db, d, s) ==
    {a \in OwnedBy(db, d) \ s.ips :
        db.ips[a].discovered /\ ~db.ips[a].reserved /\ ~db.ips[a].static}
WithoutStale(db, d, s, lost) ==
    [db EXCEPT !.ips = [a \in Address |->
        IF a \in Stale(db, d, s) /\ ~Pinned(db, a) /\ <<"detach", a>> \notin lost
        THEN [db.ips[a] EXCEPT !.status = "deprecated", !.owner = NoDevice] ELSE db.ips[a]]]

\* _is_better_primary: a reservation before another address, an address before
\* an unmanaged record that is deprecated.
Rank(status) == CASE status = "reserved" -> 3 [] status = "active" -> 2 [] OTHER -> 0
RankOf(db, s, a) ==
    Rank(IF db.ips[a].discovered THEN StatusFor(s, a) ELSE db.ips[a].status)
Better(db, s, best, a) ==
    IF best = NoAddress THEN a
    ELSE IF Rank(StatusFor(s, a)) > RankOf(db, s, best) THEN a ELSE best
Primary(db, s) ==
    InOrder(LAMBDA a, best : Better(db, s, best, a), NoAddress,
            {a \in s.ips : db.ips[a] # NoIpRow})

\* NetBox refuses a primary address that is not assigned to the device.  A PATCH
\* that brings it brings the attributes and the tags that were lost before.
WithPrimary(db, d, s, lost) ==
    LET a == Primary(db, s)
    IN  IF a = NoAddress \/ ~db.devices[d].discovered \/ db.ips[a].owner # d
           \/ {Of("update"), Of("tag"), Of("primary")} \cap lost # {}
        THEN db ELSE [db EXCEPT !.devices[d].primary = a]

WithRefreshed(db, d, s, lost) ==
    IF Of("update") \in lost THEN db ELSE [db EXCEPT !.devices[d] = Refreshed(@, s, lost)]

WithAddresses(db, d, s, lost) ==
    InOrder(LAMBDA a, w : WithIp(w, d, s, a, lost), db, s.ips)

\* What follows once the device is known.
WithEndpoint(db, d, s, lost) ==
    LET addressed == WithAddresses(WithRefreshed(db, d, s, lost), d, s, lost)
    IN  WithPrimary(WithoutStale(addressed, d, s, lost), d, s, lost)

\* _sync_one_endpoint: a MAC that is assigned finds its device, any other gets a
\* new one.  An endpoint without device or interface is given up.
Synced(db, d, m, s, lost) ==
    IF Anchor(db, m) # NoDevice THEN WithEndpoint(db, Anchor(db, m), s, lost)
    ELSE IF Of("device") \in lost THEN db
    ELSE IF Of("interface") \in lost THEN WithNewDevice(db, d, m, s, lost)
    ELSE WithEndpoint(WithNewDevice(db, d, m, s, lost), d, s, lost)

-----------------------------------------------------------------------------
(* The cycle.                                                               *)

Older(age) == IF age = Oldest THEN age ELSE age + 1

\* Time passes between two cycles; a cycle works with one `now`.
Tick ==
    /\ stage = "idle"
    /\ devices' = [d \in Device |-> IF Exists(Db, d)
                                    THEN [devices[d] EXCEPT !.age = Older(@)] ELSE devices[d]]
    /\ ips' = [a \in Address |-> IF ips[a] # NoIpRow
                                 THEN [ips[a] EXCEPT !.age = Older(@)] ELSE ips[a]]
    /\ synced' = NoSync
    /\ UNCHANGED <<macs, stage, todo, edits, losses, newest>>

Begin ==
    /\ stage = "idle"
    /\ stage' = "sync" /\ todo' = Mac
    /\ synced' = NoSync
    /\ UNCHANGED <<devices, macs, ips, edits, losses, newest>>

Next1 == CHOOSE m \in todo : \A n \in todo : m <= n

\* After a step: the next endpoint, or the cleanup; or the cycle ends because the
\* process died or the error was not a RequestError.
GoesOn(left) ==
    \/ todo' = left /\ stage' = IF left = {} THEN "addresses" ELSE "sync"
    \/ todo' = {} /\ stage' = "idle"

\* Without address and location there is nothing to write.
SkipEndpoint ==
    /\ stage = "sync" /\ todo # {}
    /\ todo' = todo \ {Next1}
    /\ stage' = IF todo' = {} THEN "addresses" ELSE "sync"
    /\ synced' = NoSync
    /\ UNCHANGED <<devices, macs, ips, edits, losses, newest>>

\* The sighting that `newest' records.  An address is written once its host has a
\* device and an interface and no other device holds it as its primary address; a
\* reservation counts once its tags are on the address and on the device, which a
\* new record comes with.
IsWritten(d, a, lost) ==
    /\ macs[Next1] # NoDevice \/ {Of("device"), Of("interface")} \cap lost = {}
    /\ <<"write", a>> \notin lost
    /\ ips[a].owner # d /\ Pinned(Db, a) => <<"release", a>> \notin lost
IsMarked(a, lost) ==
    \/ newest[a] = [mac |-> Next1, fixed |-> TRUE]
    \/ /\ ips[a] = NoIpRow \/ <<"mark", a>> \notin lost
       /\ macs[Next1] = NoDevice \/ {Of("update"), Of("tag")} \cap lost = {}
HasMac(lost) == macs[Next1] # NoDevice \/ Of("mac") \notin lost
Recorded(d, s, lost) ==
    [a \in Address |-> IF a \notin s.ips \/ ~IsWritten(d, a, lost) THEN newest[a]
                       ELSE [mac |-> IF HasMac(lost) THEN Next1 ELSE NoMac,
                             fixed |-> a \in s.fixed /\ IsMarked(a, lost)]]

SyncEndpoint(s, lost) ==
    /\ stage = "sync" /\ todo # {}
    /\ s.ips # {} \/ s.located
    /\ \E d \in IF macs[Next1] = NoDevice THEN Spare ELSE {macs[Next1]} :
          /\ Store(Synced(Db, d, Next1, s, lost))
          /\ newest' = Recorded(d, s, lost)
    /\ \/ /\ lost = {} /\ losses' = losses
          /\ todo' = todo \ {Next1}
          /\ stage' = IF todo' = {} THEN "addresses" ELSE "sync"
       \/ /\ lost # {} /\ losses' = losses + 1
          /\ GoesOn(todo \ {Next1})
    /\ synced' = IF lost = {} THEN [mac |-> Next1, seen |-> s] ELSE NoSync
    /\ UNCHANGED edits

-----------------------------------------------------------------------------
(* run_cleanup.                                                             *)

\* Variant used as a mutant: only the status tells, which deprecating overwrites.
IsReservation_ByStatus(row) == row.status = "reserved"

\* _is_reservation
IsReservation(row) == row.reserved \/ row.static \/ row.status = "reserved"

Overdue(row) == row.age > OfflineAfter /\ row.age > DeleteAfter /\ AutoDelete

\* _cleanup_addresses: what it deletes and what it deprecates.
Deletable(a) ==
    ips[a].discovered /\ Overdue(ips[a]) /\ ~IsReservation(ips[a]) /\ ~ips[a].protected
Quiet(a) == ips[a].discovered /\ ips[a].age > OfflineAfter

CleanAddresses(lost) ==
    /\ stage = "addresses"
    /\ LET gone == {a \in Address \ lost : Deletable(a)}
           kept == WithoutIps(Db, gone)
       IN  Store([kept EXCEPT !.ips = [a \in Address |->
                    IF Quiet(a) /\ a \notin gone \cup lost /\ ~Deletable(a)
                    THEN [ips[a] EXCEPT !.status = "deprecated"] ELSE kept.ips[a]]])
    /\ losses' = losses + IF lost = {} THEN 0 ELSE 1
    /\ stage' = "devices"
    /\ synced' = NoSync
    /\ UNCHANGED <<todo, edits, newest>>

\* The addresses that _delete_device detaches; it deletes the others.
Outlives(row) == IsReservation(row) \/ ~row.discovered

\* _delete_device: the addresses first, then the device.
Expired(db, d, lost, failed) ==
    LET detached == [db EXCEPT !.ips = [a \in Address |->
                        IF a \in OwnedBy(db, d) \ lost /\ Outlives(db.ips[a]) /\ ~Pinned(db, a)
                        THEN [db.ips[a] EXCEPT !.owner = NoDevice] ELSE db.ips[a]]]
        gone == {a \in OwnedBy(db, d) \ lost : ~Outlives(db.ips[a])}
        emptied == WithoutIps(detached, gone)
    IN  IF d \in failed THEN emptied ELSE WithoutDevice(emptied, d)

WithoutExpired(db, gone, lost, failed) ==
    FoldSet(LAMBDA d, w : Expired(w, d, lost, failed), db, gone)

\* _cleanup_devices
Expires(d) ==
    /\ devices[d].discovered /\ Overdue(devices[d])
    /\ ~devices[d].reserved /\ ~devices[d].static /\ ~devices[d].protected

CleanDevices(lost, failed) ==
    /\ stage = "devices"
    /\ LET gone == {d \in Device : Expires(d)}
           kept == WithoutExpired(Db, gone, lost, failed)
       IN  Store([kept EXCEPT !.devices = [d \in Device |->
                    IF devices[d].discovered /\ devices[d].age > OfflineAfter
                          /\ ~Expires(d) /\ d \notin failed
                    THEN [kept.devices[d] EXCEPT !.status = "offline"] ELSE kept.devices[d]]])
    /\ losses' = losses + IF lost = {} /\ failed = {} THEN 0 ELSE 1
    /\ stage' = "idle"
    /\ synced' = NoSync
    /\ UNCHANGED <<todo, edits, newest>>

-----------------------------------------------------------------------------
(* Users of NetBox: a protected record, or one that is no longer the        *)
(* scanner's because its tag was taken away.                                *)

Edited(row, edit) ==
    IF edit = "protect" THEN [row EXCEPT !.protected = TRUE] ELSE [row EXCEPT !.discovered = FALSE]

EditIp(a, edit) ==
    /\ edits < MaxEdits
    /\ ips[a] # NoIpRow
    /\ ips' = [ips EXCEPT ![a] = Edited(@, edit)]
    /\ edits' = edits + 1
    /\ synced' = NoSync
    /\ UNCHANGED <<devices, macs, stage, todo, losses, newest>>

EditDevice(d, edit) ==
    /\ edits < MaxEdits
    /\ Exists(Db, d)
    /\ devices' = [devices EXCEPT ![d] = Edited(@, edit)]
    /\ edits' = edits + 1
    /\ synced' = NoSync
    /\ UNCHANGED <<macs, ips, stage, todo, losses, newest>>

-----------------------------------------------------------------------------
\* Sets of records whose calls are lost in a cleanup pass.
LostOf(S) == IF losses = MaxLosses THEN {{}} ELSE {{}} \cup {{x} : x \in S} \cup {S}

Sync == SkipEndpoint \/ \E s \in Sighting, lost \in Lost : SyncEndpoint(s, lost)
Cleanup ==
    \/ \E lost \in LostOf(Address) : CleanAddresses(lost)
    \/ \E lost \in LostOf(Address), failed \in LostOf(Device) : CleanDevices(lost, failed)
Users == \E edit \in Edits :
    (\E a \in Address : EditIp(a, edit)) \/ (\E d \in Device : EditDevice(d, edit))

Next == Tick \/ Begin \/ Sync \/ Cleanup \/ Users

Spec == Init /\ [][Next]_vars

-----------------------------------------------------------------------------
(* Properties.                                                              *)

\* One endpoint step whose calls all arrive repairs whatever lost calls, dead
\* processes and users left before it: the MAC has a device, it is fresh and online,
\* and every address it was seen with is its own and fresh; its primary address is
\* one of them (_sync_one_endpoint, sync.py:563).
SyncRepairs ==
    synced # NoSync =>
        LET d == macs[synced.mac]
        IN  /\ d # NoDevice /\ Exists(Db, d)
            /\ devices[d].age = 0
            /\ devices[d].discovered => devices[d].status = "active"
            /\ \A a \in synced.seen.ips :
                  /\ ips[a].owner = d /\ ips[a].age = 0
                  /\ ips[a].discovered => ips[a].status = StatusFor(synced.seen, a)
            /\ devices[d].discovered /\ synced.seen.ips # {} =>
                  devices[d].primary \in synced.seen.ips

\* An address stays with the host whose sighting was last recorded for it, or with
\* nobody: neither another host's turn nor the cleanup gives it to an earlier
\* holder ("An address that moved to another host", sync.py:766).  A step that
\* loses the write, or the release before it, records nothing, and the address is
\* still claimed for its earlier holder; a host whose new MAC was lost claims
\* nothing, since its device is an orphan.
HeldByNewestHolder ==
    \A a \in Address :
        ips[a].owner # NoDevice /\ newest[a].mac # NoMac => ips[a].owner = macs[newest[a].mac]

\* An address whose last recorded sighting is a static DHCP reservation is never
\* deleted, however long nothing more is seen of it and whichever calls are lost
\* from then on ("FortiGate static DHCP reservations are NEVER deleted",
\* cleanup.py:16).  It counts once its tags have reached the address and its device;
\* before that the claim is wrong, see ReservationsKept.
ReservationsSurvive ==
    \A a \in Address : newest[a].fixed => ips[a] # NoIpRow

\* While no call is lost, a MAC has one device: what is created is found again
\* ("This is what makes the scanner idempotent", client.py:586).
OneDevicePerMac ==
    losses = 0 => \A d \in Device : Exists(Db, d) =>
        Cardinality({m \in Mac : macs[m] = d}) = 1

\* While no call is lost, nothing that was seen within DELETE_AFTER_DAYS goes,
\* whether by itself or together with its device.  The limit itself belongs to
\* the window, as in the code (`last_seen < delete_cutoff', cleanup.py:145, and its
\* docstring, "older than"); the table of README.md:363-365 draws it on the other
\* side.  After a lost PATCH the claim is wrong: a record whose last_seen did not
\* arrive is deleted although it was just seen (cleanup.py:153-157), and a device of
\* that kind takes fresh addresses along (cleanup.py:263-271).
NothingFreshIsDeleted ==
    [][losses' = 0 =>
        /\ \A a \in Address : ips[a] # NoIpRow /\ ips[a].age <= DeleteAfter => ips'[a] # NoIpRow
        /\ \A d \in Device : Exists(Db, d) /\ devices[d].age <= DeleteAfter =>
               devices'[d] # NoDeviceRow]_vars

\* cleanup.py:22, "Objects carrying PROTECTED_TAG are exempt from deletion too."
ProtectedSurvive ==
    [][\A a \in Address : ips[a].protected => ips'[a] # NoIpRow]_vars

\* cleanup.py:16, "FortiGate static DHCP reservations are NEVER deleted", of every
\* address that NetBox shows as a reservation.
ReservationsKept ==
    [][\A a \in Address : IsReservation(ips[a]) => ips'[a] # NoIpRow]_vars
=============================================================================
