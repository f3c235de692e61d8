------------------------------ MODULE Targets ------------------------------
(***************************************************************************)
(* The scan targets of the store and the credential profiles they name     *)
(* (src/app/targets.py, src/app/store/repository.py,                       *)
(* src/app/backends/netbox/import_targets.py, /targets and /credentials in *)
(* src/app/api/routes.py, prepare_targets in src/app/main.py).             *)
(*                                                                         *)
(* Four parties write the same rows: the cycle mirrors the configured      *)
(* profiles, imports what NetBox offers and seeds an empty list; API       *)
(* requests create, edit and delete.  A cycle first asks NetBox, then      *)
(* works on the answer in one transaction; API requests are transactions   *)
(* of their own and fall in between.  Cycles exclude each other            *)
(* (ScanCycle).                                                            *)
(*                                                                         *)
(* Abstracted: one site, one scan method; names, vendors and the contents  *)
(* of a profile are payload.  The row a find query may miss because the    *)
(* other side commits between it and the insert makes the cycle fail and   *)
(* roll back, which the failing import below stands for.                   *)
(***************************************************************************)
EXTENDS Integers, Sequences, FiniteSets, SequencesExt

CONSTANTS
    Device,       \* NetBox devices that may be tagged `scan-target`
    Address,      \* scan addresses
    NoAddress,    \* not offered: untagged, not scannable or without address
    Profile,      \* credential profile names
    NoProfile,    \* credential_profile_id IS NULL
    NoDevice,     \* external_ref IS NULL
    Configured,   \* profiles that are built in or in inventory.yml
    Names,        \* the profile each device names
    Unusable,     \* profiles without settings, or without the token of a firewall
    Home,         \* the scan address each device has to begin with
    Seeds,        \* addresses of the inventory.yml seed
    SeedNames,    \* the profile each of them names
    Waiting,      \* no cycle is between its request and its commit
    Unreachable,  \* the request raised
    Readdress,    \* may a device in NetBox change its scan address?
    Serialised    \* SQLite: from its first write a transaction excludes the others

Offer == [Device -> Address \cup {NoAddress}]

ASSUME TargetsAssumption ==
    /\ NoAddress \notin Address
    /\ NoProfile \notin Profile
    /\ NoDevice \notin Device
    /\ Configured \subseteq Profile /\ Configured # {}
    /\ Names \in [Device -> Profile]
    /\ Unusable \subseteq Profile
    /\ Home \in [Device -> Address]
    /\ Seeds \subseteq Address
    /\ SeedNames \in [Seeds -> Profile]
    /\ IsFiniteSet(Address) /\ IsFiniteSet(Device)
    /\ Waiting \notin Offer /\ Unreachable \notin Offer /\ Waiting # Unreachable
    /\ Readdress \in BOOLEAN /\ Serialised \in BOOLEAN

VARIABLES
    targets,      \* the targets table
    profiles,     \* the names in credential_profiles
    netbox,       \* the scan address NetBox offers for each device
    answer,       \* NetBox's answer the running cycle works on, or Waiting
    imported,     \* history: the answer the newest successful import worked on
    deleting      \* the profile a DELETE request found unused, before it commits

vars == <<targets, profiles, netbox, answer, imported, deleting>>

\* An address identifies a row, so this many ids always leave one to insert.
Id == 1 .. Cardinality(Address)

Source == {"manual", "imported", "seed"}
Row == [address: Address, profile: Profile \cup {NoProfile}, enabled: BOOLEAN,
        source: Source, ref: Device \cup {NoDevice}]
NoRow == [address |-> NoAddress, profile |-> NoProfile, enabled |-> FALSE,
          source |-> "none", ref |-> NoDevice]

TypeOK ==
    /\ targets \in [Id -> Row \cup {NoRow}]
    /\ profiles \subseteq Profile
    /\ netbox \in Offer
    /\ answer \in Offer \cup {Waiting, Unreachable}
    /\ imported \in Offer
    /\ deleting \in Profile \cup {NoProfile}

Rows(ts) == {i \in Id : ts[i] # NoRow}
At(ts, a) == {i \in Rows(ts) : ts[i].address = a}
Free(ts) == CHOOSE i \in Id : i \notin Rows(ts)
Users(p) == {i \in Rows(targets) : targets[i].profile = p}

\* prepare_store has created the configured profiles before anything else runs.
Init ==
    /\ targets = [i \in Id |-> NoRow]
    /\ profiles = Configured
    /\ netbox \in [Device -> {NoAddress}] \cup {Home}
    /\ answer = Waiting
    /\ imported = [d \in Device |-> NoAddress]
    /\ deleting = NoProfile

\* Another transaction may commit now.
Writable == ~Serialised \/ deleting = NoProfile

-----------------------------------------------------------------------------
(* NetBox, edited by its own users.                                         *)

EditDevice(d, a) ==
    /\ a \in {Home[d], NoAddress} \cup (IF Readdress THEN Address ELSE {})
    /\ netbox' = [netbox EXCEPT ![d] = a]
    /\ UNCHANGED <<targets, profiles, answer, imported, deleting>>

-----------------------------------------------------------------------------
(* prepare_targets, in the cycle that holds the lock.                       *)

\* devices.filter(tag=...), or the exception that import_targets swallows.
AskNetBox ==
    /\ answer = Waiting
    /\ answer' \in {netbox, Unreachable}
    /\ UNCHANGED <<targets, profiles, netbox, imported, deleting>>

\* Variant used as a mutant: the row is looked up by address only.
Found_ByAddress(ts, d, a) == At(ts, a)

\* upsert_target: external_ref first, then the address.
Found(ts, d, a) ==
    LET byRef == {i \in Rows(ts) : ts[i].ref = d}
    IN  IF byRef # {} THEN byRef ELSE At(ts, a)

\* Variant used as a mutant: a row that was disabled stays disabled.
Upserted_NotEnabled(ts, i, d, a) ==
    [ts EXCEPT ![i] = [address |-> a, profile |-> Names[d],
                       enabled |-> i \notin Rows(ts) \/ ts[i].enabled,
                       source |-> IF i \in Rows(ts) THEN ts[i].source ELSE "imported",
                       ref    |-> IF i \in Rows(ts) THEN ts[i].ref ELSE d]]

\* The UPDATE or INSERT of upsert_target; source and external_ref are only
\* written on a new row.
Upserted(ts, i, d, a) ==
    [ts EXCEPT ![i] = [address |-> a, profile |-> Names[d], enabled |-> TRUE,
                       source |-> IF i \in Rows(ts) THEN ts[i].source ELSE "imported",
                       ref    |-> IF i \in Rows(ts) THEN ts[i].ref ELSE d]]

\* One turn of the loop.  A device without address or with an undefined profile
\* is skipped; a row elsewhere with the same address violates uq_target_address.
ImportDevice(work, d, offer, known) ==
    LET a     == offer[d]
        found == Found(work.ts, d, a)
        i     == IF found = {} THEN Free(work.ts) ELSE CHOOSE j \in found : TRUE
    IN  IF ~work.ok \/ a = NoAddress \/ Names[d] \notin known THEN work
        ELSE IF At(work.ts, a) \ {i} # {} THEN [work EXCEPT !.ok = FALSE]
        ELSE [ts |-> Upserted(work.ts, i, d, a), seen |-> work.seen \cup {i}, ok |-> TRUE]

\* Variant used as a mutant: what is missing stays enabled.
DisableMissing_Keeps(ts, seen) == ts

\* disable_missing
DisableMissing(ts, seen) ==
    [i \in Id |-> IF ts[i].source = "imported" /\ i \notin seen
                  THEN [ts[i] EXCEPT !.enabled = FALSE] ELSE ts[i]]

\* Variant used as a mutant: an unreachable NetBox looks like an empty answer.
Import_OutageIsEmpty(order, known) ==
    LET offer == IF answer = Unreachable THEN [d \in Device |-> NoAddress] ELSE answer
        work == FoldLeft(LAMBDA w, d : ImportDevice(w, d, offer, known),
                         [ts |-> targets, seen |-> {}, ok |-> TRUE], order)
    IN  [work EXCEPT !.ts = DisableMissing(work.ts, work.seen)]

\* import_targets, over the devices in the order NetBox lists them.
Import(order, known) ==
    IF answer = Unreachable THEN [ts |-> targets, seen |-> {}, ok |-> TRUE]
    ELSE LET work == FoldLeft(LAMBDA w, d : ImportDevice(w, d, answer, known),
                              [ts |-> targets, seen |-> {}, ok |-> TRUE], order)
         IN  [work EXCEPT !.ts = DisableMissing(work.ts, work.seen)]

\* sync_credentials: what is built in or in inventory.yml is there again.
Mirrored == profiles \cup Configured

\* load_targets: what the cycle polls.  A target without usable settings is skipped.
Polled(ts) ==
    {i \in Rows(ts) : ts[i].enabled /\ ts[i].profile \notin Unusable \cup {NoProfile}}

\* apply_seed, on an empty list only; a seed that names an undefined profile makes a
\* target without one.
SeedRow(a) == [address |-> a,
               profile |-> IF SeedNames[a] \in Mirrored THEN SeedNames[a] ELSE NoProfile,
               enabled |-> TRUE, source |-> "seed", ref |-> NoDevice]
Seeded(ts) ==
    IF Rows(ts) # {} THEN ts
    ELSE LET order == CHOOSE s \in SetToSeqs(Seeds) : TRUE
         IN  [i \in Id |-> IF i \in DOMAIN order THEN SeedRow(order[i]) ELSE NoRow]

\* The transaction: sync_credentials, import_targets, apply_seed.  An exception
\* rolls it back and ends the cycle; load_targets only reads.
Commit(order) ==
    /\ answer # Waiting /\ Writable
    /\ LET work == Import(order, Mirrored)
       IN  IF work.ok
           THEN /\ targets' = Seeded(work.ts)
                /\ profiles' = Mirrored
                /\ imported' = IF answer = Unreachable THEN imported ELSE answer
           ELSE UNCHANGED <<targets, profiles, imported>>
    /\ answer' = Waiting
    /\ UNCHANGED <<netbox, deleting>>

\* A cycle that is killed leaves nothing, nor does one that a profile it cannot read
\* or convert stops (Stops in Credentials).
Abandon ==
    /\ answer # Waiting
    /\ answer' = Waiting
    /\ UNCHANGED <<targets, profiles, netbox, imported, deleting>>

-----------------------------------------------------------------------------
(* The API.                                                                 *)

\* POST /targets accepts a known profile and an address no row has.
Creatable(a) == At(targets, a) = {}

CreateTarget(a, p, on) ==
    /\ Writable
    /\ p \in profiles
    /\ Creatable(a)
    /\ targets' = [targets EXCEPT ![Free(targets)] =
                     [address |-> a, profile |-> p, enabled |-> on,
                      source |-> "manual", ref |-> NoDevice]]
    /\ UNCHANGED <<profiles, netbox, answer, imported, deleting>>

\* PATCH and DELETE refuse the rows the import owns.
Editable(i) == i \in Rows(targets) /\ targets[i].source # "imported"

\* PATCH /targets/{id}: any of the fields, the others as they are.
UpdateTarget(i, a, p, on) ==
    /\ Writable
    /\ Editable(i)
    /\ p \in profiles \cup {targets[i].profile}
    /\ At(targets, a) \subseteq {i}
    /\ targets' = [targets EXCEPT ![i].address = a, ![i].profile = p, ![i].enabled = on]
    /\ UNCHANGED <<profiles, netbox, answer, imported, deleting>>

\* Variant used as a mutant: the row stays, without its address.
DeleteTarget_Blanks(i) ==
    /\ Writable
    /\ Editable(i)
    /\ targets' = [targets EXCEPT ![i].address = NoAddress]
    /\ UNCHANGED <<profiles, netbox, answer, imported, deleting>>

DeleteTarget(i) ==
    /\ Writable
    /\ Editable(i)
    /\ targets' = [targets EXCEPT ![i] = NoRow]
    /\ UNCHANGED <<profiles, netbox, answer, imported, deleting>>

CreateCredential(p) ==
    /\ Writable
    /\ profiles' = profiles \cup {p}
    /\ UNCHANGED <<targets, netbox, answer, imported, deleting>>

\* Variant used as a mutant: nobody asks whether the profile is in use.
CheckCredential_Blind(p) ==
    /\ deleting = NoProfile
    /\ p \in profiles
    /\ deleting' = p
    /\ UNCHANGED <<targets, profiles, netbox, answer, imported>>

\* DELETE /credentials/{id} looks for users of the profile ...
CheckCredential(p) ==
    /\ deleting = NoProfile
    /\ p \in profiles
    /\ Users(p) = {}
    /\ deleting' = p
    /\ UNCHANGED <<targets, profiles, netbox, answer, imported>>

\* ... and deletes it.  The foreign key is ON DELETE SET NULL.
DeleteCredential ==
    /\ deleting # NoProfile
    /\ profiles' = profiles \ {deleting}
    /\ targets' = [i \in Id |-> IF i \in Users(deleting)
                                THEN [targets[i] EXCEPT !.profile = NoProfile] ELSE targets[i]]
    /\ deleting' = NoProfile
    /\ UNCHANGED <<netbox, answer, imported>>

-----------------------------------------------------------------------------
Finish == \E order \in SetToSeqs(Device) : Commit(order)
Cycle == AskNetBox \/ Abandon \/ Finish

Api ==
    \/ \E a \in Address, p \in Profile, on \in BOOLEAN : CreateTarget(a, p, on)
    \/ \E i \in Id, a \in Address, p \in Profile \cup {NoProfile}, on \in BOOLEAN :
          UpdateTarget(i, a, p, on)
    \/ \E i \in Id : DeleteTarget(i)
    \/ \E p \in Profile : CreateCredential(p) \/ CheckCredential(p)
    \/ DeleteCredential

Next == Cycle \/ Api \/ \E d \in Device, a \in Address \cup {NoAddress} : EditDevice(d, a)

Spec == Init /\ [][Next]_vars

\* Cycles keep coming and end, NetBox answers some of them and not every one of those
\* is killed or stopped by a profile; an API request that began ends.  The second
\* conjunct is SF_vars(answer # Unreachable /\ Finish) with its ENABLED spelled out.
Fairness ==
    /\ SF_vars(AskNetBox /\ answer' # Unreachable)
    /\ []<>(answer \in Offer /\ Writable) => []<><<answer # Unreachable /\ Finish>>_vars
    /\ WF_answer(answer # Waiting /\ answer' = Waiting)
    /\ WF_vars(DeleteCredential)

FairSpec == Spec /\ Fairness

-----------------------------------------------------------------------------
(* Properties.                                                              *)

\* An enabled row of the import stands at an address the newest successful import
\* was offered, whatever was edited, retagged or moved in between
\* ("disabled when the tag goes away", import_targets.py:46).
ImportedAreOffered ==
    \A i \in Rows(targets) :
        targets[i].source = "imported" /\ targets[i].enabled =>
            \E d \in Device : imported[d] = targets[i].address

\* A NetBox device has one row, however often it is readdressed: a second one
\* would make find_by_external_ref raise in every later cycle.
RefsAreUnique ==
    \A i, j \in Rows(targets) :
        targets[i].ref = targets[j].ref /\ targets[i].ref # NoDevice => i = j

\* No step takes a target's profile away: "Refuse rather than silently leave targets
\* unpollable" (routes.py:164), against imports and requests that begin to use the
\* profile meanwhile.  Only a seed that names an undefined profile begins without.
ProfilesAreKept ==
    [][\A i \in Rows(targets') :
          \/ targets'[i].profile \in profiles'
          \/ /\ targets'[i].profile = NoProfile
             /\ IF i \in Rows(targets) THEN targets[i].profile = NoProfile
                ELSE targets'[i].source = "seed"]_vars

\* A cycle that could not read NetBox changes no target
\* ("A NetBox outage must not look like every target was untagged").
OutageDisablesNothing ==
    [][answer = Unreachable /\ answer' = Waiting =>
          \A i \in Rows(targets) : targets'[i] = targets[i]]_vars

\* "Tag a device scan-target ... and it is imported on the next cycle": a device
\* that stays tagged, with a configured and usable profile and an address of its own,
\* is polled again and again, whatever requests do meanwhile.
OfferedIsPolled ==
    \A d \in {e \in Device : Names[e] \in Configured \ Unusable} :
        <>[](netbox[d] = Home[d]) =>
            []<>(\E i \in Polled(targets) : targets[i].address = Home[d])
=============================================================================
