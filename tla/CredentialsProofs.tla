------------------------- MODULE CredentialsProofs -------------------------
(* Theorems about Credentials. *)
EXTENDS Credentials, TLAPS

-----------------------------------------------------------------------------
(* Where a profile is written and what is written there.                    *)

Scope == {"global", "site"}
Secret == {"inline", "env_ref", "nothing"}

\* What the repository finds is a profile of that name, of the scope or global.
LEMMA HomeIsId ==
    ASSUME NEW r, NEW name \in Profile, NEW scope \in Scope
    PROVE  /\ Home(r, name, scope) \in Id
           /\ Found(r, name, scope) \in Id \cup {NoProfile}
  BY DEF Home, Found, Id, Scope

\* Without a site nothing but the global profile is written.
LEMMA GlobalHome ==
    ASSUME NEW r, NEW name
    PROVE  Home(r, name, "global") = <<name, "global">>
  BY DEF Home, Found

\* What is written is a row, and an encrypted one carries the key of the process.
LEMMA WrittenType ==
    ASSUME key \in Key \cup {NoKey}, NEW secret \in Secret, Storable(secret),
           NEW params \in Params
    PROVE  /\ Written(secret, params) \in Row
           /\ Written(secret, params).storage = "inline" => Written(secret, params).key = key
  BY DEF Written, Row, Storable, Secret

\* A profile that is stored has settings.
LEMMA StoredParams ==
    ASSUME TypeOK, NEW id \in Id, Exists(rows, id)
    PROVE  rows[id] \in Row /\ rows[id].params \in Params
  BY DEF TypeOK, Exists, Row

\* What is stored encrypted is a row and names its key.
LEMMA InlineHasKey ==
    ASSUME NEW row \in Row \cup {NoRow}, row.storage = "inline"
    PROVE  row \in Row /\ row.key \in Key
  <1>1. row # NoRow
    BY DEF NoRow
  <1> QED
    BY <1>1 DEF Row

\* Copying leaves a row in every place: the configured one or what was there.
LEMMA MirroredRows ==
    ASSUME TypeOK, NEW id \in Id
    PROVE  /\ Mirrored(rows)[id] \in Row \cup {NoRow}
           /\ \/ Mirrored(rows)[id] = rows[id]
              \/ Mirrored(rows)[id].storage = "env_ref"
  <1>1. ASSUME id[1] \in Configured
        PROVE  /\ Written("env_ref", listed[id[1]]) \in Row
               /\ Written("env_ref", listed[id[1]]).storage = "env_ref"
    <2>1. listed[id[1]] \in Params
      BY <1>1 DEF TypeOK, Inventory, Configured
    <2> QED
      BY <2>1 DEF Written, Row
  <1>2. rows[id] \in Row \cup {NoRow}
    BY DEF TypeOK
  <1> QED
    BY <1>1, <1>2 DEF Mirrored

\* Copying leaves alone what is not configured, and the site's profiles.
LEMMA MirroredElsewhere ==
    ASSUME NEW id \in Id, id[1] \notin Configured \/ id[2] = "site"
    PROVE  Mirrored(rows)[id] = rows[id]
  <1>1. id # Home(rows, id[1], "global") \/ id[1] \notin Configured
    BY GlobalHome
  <1> QED
    BY <1>1 DEF Mirrored

\* A request that stores a secret changes one row, to one that its process can read.
LEMMA UpsertedRows ==
    ASSUME TypeOK, NEW name \in Profile, NEW scope \in Scope, NEW secret \in Secret,
           Storable(secret), NEW params \in Params
    PROVE  /\ Upserted(rows, name, scope, secret, params) \in [Id -> Row \cup {NoRow}]
           /\ \A id \in Id :
                LET row == Upserted(rows, name, scope, secret, params)[id]
                IN  row = rows[id] \/ (row.storage = "inline" => row.key = key)
  <1>1. Home(rows, name, scope) \in Id
    BY HomeIsId
  <1>2. /\ Written(secret, params) \in Row
        /\ Written(secret, params).storage = "inline" => Written(secret, params).key = key
    BY WrittenType DEF TypeOK
  <1>3. rows \in [Id -> Row \cup {NoRow}]
    BY DEF TypeOK
  <1> QED
    BY <1>1, <1>2, <1>3 DEF Upserted

-----------------------------------------------------------------------------
(* The invariant.                                                           *)

\* Everything that is stored encrypted is so with a key that some process had.
KeysAreKnown ==
    /\ key \in keys
    /\ \A id \in Id : rows[id].storage = "inline" => rows[id].key \in keys

IInv == TypeOK /\ KeysAreKnown /\ ConfiguredIsStored /\ OnlyKeysAndSettingsStop

LEMMA InitIInv == Init => IInv
  <1> SUFFICES ASSUME Init PROVE IInv
    OBVIOUS
  <1>1. TypeOK
    <2>1. restarts \in 0 .. MaxRestarts
      BY CredentialsAssumption DEF Init
    <2> QED
      BY <2>1 DEF Init, TypeOK
  <1>2. KeysAreKnown
    BY DEF Init, KeysAreKnown, NoRow
  <1> QED
    BY <1>1, <1>2 DEF Init, IInv, ConfiguredIsStored, OnlyKeysAndSettingsStop

\* A cycle that fails found a profile under another key than its own, or settings
\* that are bad as they are configured by now.
LEMMA CycleIInv == IInv /\ Cycle => IInv'
  <1> SUFFICES ASSUME IInv, Cycle PROVE IInv'
    OBVIOUS
  <1> USE DEF process
  <1>1. CASE Stops(Mirrored(rows))
    <2>1. UNCHANGED <<rows, used, listed, process>> /\ last' = "failed"
      BY <1>1 DEF Cycle
    <2>2. PICK t \in Target :
             /\ used[t] # NoProfile
             /\ \/ ~Readable(used[t], Mirrored(rows)[used[t]])
                \/ ~Convertible(t, used[t], Mirrored(rows)[used[t]])
      BY <1>1 DEF Stops
    <2>3. used[t] \in Id
      BY <2>2 DEF IInv, TypeOK
    <2> DEFINE row == Mirrored(rows)[used[t]]
    <2>4. ASSUME ~Readable(used[t], row) PROVE \E k \in keys : k # key
      <3>1. row.storage = "inline" /\ (row.key # key \/ key = NoKey)
        BY <2>4 DEF Readable
      <3>2. row = rows[used[t]] /\ row \in Row \cup {NoRow}
        BY <2>3, <3>1, MirroredRows DEF IInv
      <3>3. row \in Row /\ row.key \in Key
        BY <3>1, <3>2, InlineHasKey
      <3> QED
        BY <2>3, <3>1, <3>2, <3>3, CredentialsAssumption DEF IInv, KeysAreKnown
    <2>5. ASSUME ~Convertible(t, used[t], row) PROVE row.params = "bad"
      BY <2>5 DEF Convertible
    <2>6. Mirrored(rows)' = Mirrored(rows) /\ UNCHANGED <<used, keys, key>>
      BY <2>1 DEF Mirrored, Home, Found, Exists, Configured, Written
    <2>7. OnlyKeysAndSettingsStop'
      <3> HIDE DEF row
      <3>1. CASE ~Readable(used[t], row)
        BY <2>4, <2>6, <3>1 DEF OnlyKeysAndSettingsStop
      <3>2. CASE ~Convertible(t, used[t], row)
        BY <2>2, <2>5, <2>6, <3>2 DEF OnlyKeysAndSettingsStop, row
      <3> QED
        BY <2>2, <3>1, <3>2 DEF row
    <2> HIDE DEF row
    <2> QED
      BY <2>1, <2>7 DEF IInv, TypeOK, KeysAreKnown, ConfiguredIsStored, Configured, Written
  <1>2. CASE ~Stops(Mirrored(rows))
    <2>1. rows' = Mirrored(rows) /\ last' = "cycle" /\ UNCHANGED <<used, listed, process>>
      BY <1>2 DEF Cycle
    <2>2. rows' \in [Id -> Row \cup {NoRow}]
      BY <2>1, MirroredRows DEF IInv, Mirrored
    <2>3. ConfiguredIsStored'
      <3>1. \A name \in Configured : <<name, "global">> \in Id /\ Configured \subseteq Profile
        BY CredentialsAssumption DEF IInv, TypeOK, Configured, Id
      <3> QED
        BY <2>1, <3>1, GlobalHome DEF ConfiguredIsStored, Mirrored, Configured, Written
    <2>4. KeysAreKnown'
      BY <2>1, MirroredRows DEF IInv, KeysAreKnown
    <2> QED
      BY <2>1, <2>2, <2>3, <2>4 DEF IInv, TypeOK, OnlyKeysAndSettingsStop
  <1> QED
    BY <1>1, <1>2

LEMMA StartIInv == IInv /\ Start => IInv'
  <1> SUFFICES ASSUME IInv, Start PROVE IInv'
    OBVIOUS
  <1>1. rows' = Mirrored(rows) /\ last' = "start"
        /\ UNCHANGED <<used, listed, key, env, keys, restarts>> /\ running' = TRUE
    BY DEF Start
  <1>2. rows' \in [Id -> Row \cup {NoRow}]
    BY <1>1, MirroredRows DEF IInv, Mirrored
  <1>3. ConfiguredIsStored'
    <2>1. \A name \in Configured : <<name, "global">> \in Id /\ Configured \subseteq Profile
      BY CredentialsAssumption DEF IInv, TypeOK, Configured, Id
    <2> QED
      BY <1>1, <2>1, GlobalHome DEF ConfiguredIsStored, Mirrored, Configured, Written
  <1>4. KeysAreKnown'
    BY <1>1, MirroredRows DEF IInv, KeysAreKnown
  <1> QED
    BY <1>1, <1>2, <1>3, <1>4 DEF IInv, TypeOK, OnlyKeysAndSettingsStop

LEMMA OutsideIInv ==
    ASSUME IInv, Restart \/ Edit
    PROVE  IInv'
  <1>1. CASE Restart
    <2>1. restarts' \in 0 .. MaxRestarts
      BY <1>1, CredentialsAssumption DEF Restart, IInv, TypeOK
    <2> QED
      BY <1>1, <2>1 DEF Restart, IInv, TypeOK, KeysAreKnown, ConfiguredIsStored, OnlyKeysAndSettingsStop
  <1>2. CASE Edit
    <2>1. PICK name \in Profile, settings \in Params \cup {"none"} : EditInventory(name, settings)
      BY <1>2 DEF Edit
    <2>2. listed' \in Inventory
      <3>1. listed \in [Profile -> Params \cup {"none"}] /\ name \notin Builtin
            /\ listed' = [listed EXCEPT ![name] = settings]
        BY <2>1 DEF EditInventory, IInv, TypeOK, Inventory
      <3>2. listed' \in [Profile -> Params \cup {"none"}]
        BY <3>1
      <3>3. \A other \in Builtin : other \in Profile /\ listed'[other] = listed[other]
        BY <3>1, CredentialsAssumption
      <3> QED
        BY <3>2, <3>3 DEF IInv, TypeOK, Inventory
    <2> QED
      BY <2>1, <2>2 DEF EditInventory, process, IInv, TypeOK, KeysAreKnown, ConfiguredIsStored,
                        OnlyKeysAndSettingsStop
  <1> QED
    BY <1>1, <1>2

\* A request leaves the row's shape and the keys alone; what it claims nothing of
\* is settled by last' = "api".
LEMMA RequestIInv ==
    ASSUME IInv, Request, used' \in [Target -> Id \cup {NoProfile}],
           rows' \in [Id -> Row \cup {NoRow}],
           \A id \in Id : \/ rows'[id] = rows[id]
                          \/ rows'[id].storage = "inline" => rows'[id].key = key
    PROVE  IInv'
  BY DEF Request, process, IInv, TypeOK, KeysAreKnown, ConfiguredIsStored, OnlyKeysAndSettingsStop

LEMMA ApiIInv == IInv /\ Api => IInv'
  <1> SUFFICES ASSUME IInv, Api PROVE IInv'
    OBVIOUS
  <1>0. TypeOK /\ used \in [Target -> Id \cup {NoProfile}] /\ rows \in [Id -> Row \cup {NoRow}]
    BY DEF IInv, TypeOK
  <1>1. ASSUME NEW id \in Id, NEW secret \in Secret, NEW params \in Params,
               CreateCredential(id[1], id[2], secret, params)
        PROVE  IInv'
    <2>1. id[1] \in Profile /\ id[2] \in Scope
      BY DEF Id, Scope
    <2> QED
      BY <1>0, <1>1, <2>1, UpsertedRows, RequestIInv DEF CreateCredential
  <1>2. ASSUME NEW id \in Id, NEW secret \in Secret, NEW params \in Params \cup {"kept"},
               UpdateCredential(id, secret, params)
        PROVE  IInv'
    <2>1. id[1] \in Profile /\ id[2] \in Scope
      BY DEF Id, Scope
    <2> DEFINE given == IF params = "kept" THEN rows[id].params ELSE params
    <2>2. given \in Params
      BY <1>0, <1>2, StoredParams DEF UpdateCredential
    <2>3. rows' = Upserted(rows, id[1], id[2], secret, given) /\ Storable(secret)
          /\ Request /\ UNCHANGED used
      BY <1>2 DEF UpdateCredential
    <2> HIDE DEF given
    <2> QED
      BY <1>0, <2>1, <2>2, <2>3, UpsertedRows, RequestIInv
  <1>3. ASSUME NEW id \in Id, DeleteCredential(id) PROVE IInv'
    BY <1>0, <1>3, RequestIInv DEF DeleteCredential, NoRow
  <1>4. ASSUME NEW t \in Target, Retire(t) PROVE IInv'
    BY <1>0, <1>4, RequestIInv DEF Retire
  <1>5. ASSUME NEW t \in Target, NEW name \in Profile, Assign(t, name) PROVE IInv'
    <2>1. Found(rows, name, "site") \in Id \cup {NoProfile}
      BY HomeIsId DEF Scope
    <2> QED
      BY <1>0, <1>5, <2>1, RequestIInv DEF Assign
  <1> QED
    BY <1>1, <1>2, <1>3, <1>4, <1>5 DEF Api, Secret

LEMMA NextIInv == IInv /\ [Next]_vars => IInv'
  <1> SUFFICES ASSUME IInv, [Next]_vars PROVE IInv'
    OBVIOUS
  <1>1. CASE UNCHANGED vars
    BY <1>1 DEF vars, process, IInv, TypeOK, KeysAreKnown, ConfiguredIsStored, OnlyKeysAndSettingsStop,
                Configured, Written, Mirrored, Home, Found, Exists
  <1> QED
    BY <1>1, CycleIInv, StartIInv, OutsideIInv, ApiIInv DEF Next

\* The inductive invariant holds throughout.
THEOREM SpecIInv == Spec => []IInv
  BY InitIInv, NextIInv, PTL DEF Spec

-----------------------------------------------------------------------------
(* The properties.                                                          *)

\* The variables have their types in every reachable state.
THEOREM SpecTypeOK == Spec => []TypeOK
  BY SpecIInv, PTL DEF IInv

\* After a start and after a cycle that went through, every configured profile is
\* stored as it is configured, for any profiles, targets and keys.
THEOREM SpecConfiguredIsStored == Spec => []ConfiguredIsStored
  BY SpecIInv, PTL DEF IInv

\* A cycle only fails over a profile when processes had different keys, or when the
\* settings that are configured or were stored are such that from_dict refuses them.
THEOREM SpecOnlyKeysAndSettingsStop == Spec => []OnlyKeysAndSettingsStop
  BY SpecIInv, PTL DEF IInv

\* Starts and cycles change none but the configured global profiles.
THEOREM SpecOthersSurvive == Spec => OthersSurvive
  <1> DEFINE A == last' # "api" =>
        \A id \in Id : id[1] \notin Configured \/ id[2] = "site" => rows'[id] = rows[id]
  <1>1. [Next]_vars => [A]_vars
    <2> SUFFICES ASSUME Next, last' # "api"
                 PROVE  \A id \in Id : id[1] \notin Configured \/ id[2] = "site" => rows'[id] = rows[id]
      OBVIOUS
    <2>1. CASE Cycle
      BY <2>1, MirroredElsewhere DEF Cycle
    <2>2. CASE Start
      BY <2>2, MirroredElsewhere DEF Start
    <2>3. CASE Restart \/ Edit
      BY <2>3 DEF Restart, Edit, EditInventory
    <2>4. ~Api
      BY DEF Api, CreateCredential, UpdateCredential, DeleteCredential, Retire, Assign, Request
    <2> QED
      BY <2>1, <2>2, <2>3, <2>4 DEF Next
  <1> QED
    BY <1>1, PTL DEF Spec, OthersSurvive
=============================================================================
