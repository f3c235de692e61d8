----------------------------- MODULE Credentials -----------------------------
(***************************************************************************)
(* What a credential profile holds: who writes it, and what a cycle can    *)
(* read of it (src/app/store/repository.py, store/crypto.py, targets.py,   *)
(* config.py, api/routes.py).                                              *)
(*                                                                         *)
(* A profile is global or belongs to the site.  Its secrets are references *)
(* to variables of the environment, or stored encrypted with the key of    *)
(* the process that stored them.  Three parties write the same rows: the   *)
(* start of a process and every cycle copy the configured profiles, which  *)
(* are global, and the API creates, changes and deletes.  A cycle resolves *)
(* the profile of every target in the transaction that copied them, and    *)
(* makes poller configurations of what it reads: nobody has validated the  *)
(* settings before.                                                        *)
(*                                                                         *)
(* Abstracted: the secrets of a profile are one, and so are the variables  *)
(* it refers to; settings are good, or such that int() raises on one of    *)
(* them; names that differ in case are one name, as they are for           *)
(* credential(); what a device is polled with when a variable is unset.  A *)
(* target that is switched off is none here.  A transaction is one step: a *)
(* request that commits between what a cycle reads and what it writes may  *)
(* outlive that cycle, until the next one.  Import and seed are in         *)
(* Targets, and so is the race of a deletion with a target.                *)
(***************************************************************************)
EXTENDS Integers, FiniteSets

CONSTANTS
    Profile,      \* names of profiles
    Builtin,      \* those configured by the environment alone
    Target,       \* targets of the site
    Firewall,     \* those that are polled with an API token
    Key,          \* values of SCANSPOT_SECRET_KEY
    NoKey, NoProfile,
    MaxRestarts   \* bound on restarts

ASSUME CredentialsAssumption ==
    /\ Builtin \subseteq Profile
    /\ Firewall \subseteq Target
    /\ NoKey \notin Key
    /\ NoProfile \notin Profile \X {"global", "site"}
    /\ MaxRestarts \in Nat

VARIABLES
    rows,         \* credential_profiles, by name and scope
    used,         \* the profile of each target
    listed,       \* the settings configured for each profile, in the environment or
                  \* in the credentials block of inventory.yml
    running,      \* whether the process is past prepare_store
    key,          \* its SCANSPOT_SECRET_KEY
    env,          \* the names whose variables are set in its environment
    keys,         \* history: the keys that processes have had
    last,         \* history: what was done last
    restarts

process == <<running, key, env, keys, restarts>>
vars == <<rows, used, listed, process, last>>

\* Settings that from_dict takes, or refuses.
Params == {"good", "bad"}

Id == Profile \X {"global", "site"}
Row ==
    [storage: {"inline"}, key: Key, refs: {FALSE}, params: Params] \cup
    [storage: {"env_ref"}, key: {NoKey}, refs: BOOLEAN, params: Params]
NoRow == [storage |-> "none", key |-> NoKey, refs |-> FALSE, params |-> "none"]

\* A built-in profile is always configured.
Inventory ==
    {l \in [Profile -> Params \cup {"none"}] : \A name \in Builtin : l[name] # "none"}

TypeOK ==
    /\ rows \in [Id -> Row \cup {NoRow}]
    /\ used \in [Target -> Id \cup {NoProfile}]
    /\ listed \in Inventory
    /\ running \in BOOLEAN /\ key \in Key \cup {NoKey} /\ env \subseteq Profile
    /\ keys \subseteq Key \cup {NoKey}
    /\ last \in {"start", "cycle", "failed", "api", "edit"}
    /\ restarts \in 0 .. MaxRestarts

Init ==
    /\ rows = [id \in Id |-> NoRow]
    /\ used = [t \in Target |-> NoProfile]
    /\ listed \in Inventory
    /\ running = FALSE /\ key \in Key \cup {NoKey} /\ env \in SUBSET Profile
    /\ keys = {key}
    /\ last = "start" /\ restarts = 0

Configured == {name \in Profile : listed[name] # "none"}
Exists(r, id) == r[id] # NoRow

-----------------------------------------------------------------------------
(* Repository.                                                              *)

\* credential: the profile of that scope, else the global one, else none.
Found(r, name, scope) ==
    IF Exists(r, <<name, scope>>) THEN <<name, scope>>
    ELSE IF Exists(r, <<name, "global">>) THEN <<name, "global">> ELSE NoProfile

\* upsert_credential: what is found is overwritten, whatever its scope.
Home(r, name, scope) ==
    IF Found(r, name, scope) = NoProfile THEN <<name, scope>> ELSE Found(r, name, scope)

\* Secrets are encrypted with the key of the process; without secrets the profile
\* becomes one of references, however it was stored before.
Written(secret, params) ==
    CASE secret = "inline"  -> [storage |-> "inline", key |-> key, refs |-> FALSE, params |-> params]
      [] secret = "env_ref" -> [storage |-> "env_ref", key |-> NoKey, refs |-> TRUE, params |-> params]
      [] OTHER              -> [storage |-> "env_ref", key |-> NoKey, refs |-> FALSE, params |-> params]

Upserted(r, name, scope, secret, params) ==
    [r EXCEPT ![Home(r, name, scope)] = Written(secret, params)]

-----------------------------------------------------------------------------
(* A cycle.                                                                 *)

\* Variant used as a mutant: a profile that is stored is taken for copied.
Mirrored_OnlyNew(r) ==
    [id \in Id |-> IF id[1] \in Configured /\ id[2] = "global" /\ ~Exists(r, id)
                   THEN Written("env_ref", listed[id[1]]) ELSE r[id]]

\* Variant used as a mutant: copies over the profile of the site as well.
Mirrored_Site(r) ==
    [id \in Id |-> IF id[1] \in Configured /\ (id[2] = "global" \/ Exists(r, id))
                   THEN Written("env_ref", listed[id[1]]) ELSE r[id]]

\* sync_credentials: one upsert without a site for every configured profile.
Mirrored(r) ==
    [id \in Id |-> IF id[1] \in Configured /\ id = Home(r, id[1], "global")
                   THEN Written("env_ref", listed[id[1]]) ELSE r[id]]

\* Variant used as a mutant: an unset variable is an error as well.
Readable_Strict(id, row) ==
    IF row.storage = "inline" THEN row.key = key /\ key # NoKey ELSE row.refs => id[1] \in env

\* resolve_secrets: only what is stored inline can fail to be read, and then it
\* raises SecretError.
Readable(id, row) == row.storage = "inline" => row.key = key /\ key # NoKey

\* A firewall without a token is skipped before its settings are looked at.
Skipped(t, id, row) == t \in Firewall /\ row.storage = "env_ref" /\ ~(row.refs /\ id[1] \in env)

\* from_dict raises ValueError over settings that int() does not take.
Convertible(t, id, row) == row.params = "bad" => Skipped(t, id, row)

\* load_targets reads and converts the profile of every target.
Stops(r) ==
    \E t \in Target :
        used[t] # NoProfile /\ LET row == r[used[t]]
                               IN  ~Readable(used[t], row) \/ ~Convertible(t, used[t], row)

\* prepare_targets: copying and loading in one transaction, which a profile that
\* cannot be read or converted rolls back.
Cycle ==
    /\ running
    /\ LET r == Mirrored(rows)
       IN  IF Stops(r)
           THEN /\ last' = "failed"
                /\ UNCHANGED rows
           ELSE /\ rows' = r
                /\ last' = "cycle"
    /\ UNCHANGED <<used, listed, process>>

\* prepare_store: a new process copies the profiles before it serves the API.
Start ==
    /\ ~running
    /\ running' = TRUE
    /\ rows' = Mirrored(rows)
    /\ last' = "start"
    /\ UNCHANGED <<used, listed, key, env, keys, restarts>>

\* The process ends; the next one may have another key and other variables, those
\* of the built-in settings among them.
Restart ==
    /\ running /\ restarts < MaxRestarts
    /\ running' = FALSE /\ restarts' = restarts + 1
    /\ key' \in Key \cup {NoKey}
    /\ keys' = keys \cup {key'}
    /\ env' \in SUBSET Profile
    /\ listed' \in {l \in Inventory : \A name \in Profile \ Builtin : l[name] = listed[name]}
    /\ last' = "start"
    /\ UNCHANGED <<rows, used>>

\* An operator adds a profile to inventory.yml, changes one or takes one out; what
\* was copied stays.
EditInventory(name, settings) ==
    /\ name \notin Builtin
    /\ listed' = [listed EXCEPT ![name] = settings]
    /\ last' = "edit"
    /\ UNCHANGED <<rows, used, process>>

-----------------------------------------------------------------------------
(* The API.                                                                 *)

Request == /\ running /\ last' = "api"
           /\ UNCHANGED <<listed, process>>

\* Without a key nothing can be encrypted: 409.
Storable(secret) == secret = "inline" => key # NoKey

\* POST /credentials
CreateCredential(name, scope, secret, params) ==
    /\ Request /\ Storable(secret)
    /\ rows' = Upserted(rows, name, scope, secret, params)
    /\ UNCHANGED used

\* PATCH /credentials/{id}: settings are kept when none are given, secrets are not.
UpdateCredential(id, secret, params) ==
    /\ Request /\ Storable(secret) /\ Exists(rows, id)
    /\ rows' = Upserted(rows, id[1], id[2], secret,
                        IF params = "kept" THEN rows[id].params ELSE params)
    /\ UNCHANGED used

\* DELETE /credentials/{id}: 409 while a target uses it.
Deletable(id) == Exists(rows, id) /\ \A t \in Target : used[t] # id

DeleteCredential(id) ==
    /\ Request /\ Deletable(id)
    /\ rows' = [rows EXCEPT ![id] = NoRow]
    /\ UNCHANGED used

\* POST and PATCH /targets name a profile: 422 when there is none.
Assign(t, name) ==
    /\ Request
    /\ Found(rows, name, "site") # NoProfile
    /\ used' = [used EXCEPT ![t] = Found(rows, name, "site")]
    /\ UNCHANGED rows

\* DELETE /targets, or a target that is switched off
Retire(t) ==
    /\ Request
    /\ used[t] # NoProfile
    /\ used' = [used EXCEPT ![t] = NoProfile]
    /\ UNCHANGED rows

-----------------------------------------------------------------------------
Api ==
    \/ \E id \in Id, secret \in {"inline", "env_ref", "nothing"} :
          \/ \E params \in Params : CreateCredential(id[1], id[2], secret, params)
          \/ \E params \in Params \cup {"kept"} : UpdateCredential(id, secret, params)
    \/ \E id \in Id : DeleteCredential(id)
    \/ \E t \in Target : Retire(t) \/ \E name \in Profile : Assign(t, name)

Edit == \E name \in Profile, settings \in Params \cup {"none"} : EditInventory(name, settings)

Next == Cycle \/ Start \/ Restart \/ Api \/ Edit

Spec == Init /\ [][Next]_vars

-----------------------------------------------------------------------------
(* Properties.                                                              *)

\* After a start and after every cycle that went through, each configured profile is
\* stored as it is configured, whatever the API made of it in between ("Mirror the
\* configured credential profiles into the store", targets.py:69).
ConfiguredIsStored ==
    running /\ last \in {"start", "cycle"} =>
        \A name \in Configured : rows[<<name, "global">>] = Written("env_ref", listed[name])

\* A cycle or a start touches nothing but the global profiles that are configured:
\* what was made by API, and every profile of the site, survives it.
OthersSurvive ==
    [][last' # "api" =>
        \A id \in Id : id[1] \notin Configured \/ id[2] = "site" => rows'[id] = rows[id]]_vars

\* While every process has the same key, or none, the one thing a cycle fails over is
\* a target whose profile, as configured by now, has settings that from_dict refuses:
\* neither a variable that is unset ("not a crash that takes the whole cycle down",
\* crypto.py:103), nor what was stored, nor which profile a name means stops it.
OnlyKeysAndSettingsStop ==
    last = "failed" =>
        \/ \E k \in keys : k # key
        \/ \E t \in Target : used[t] # NoProfile /\ Mirrored(rows)[used[t]].params = "bad"
=============================================================================
