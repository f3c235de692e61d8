# scanspot in TLA+

scanspot polls firewalls (FortiOS REST) and switches (SNMP), merges what they
report into one observation per MAC address, keeps that in its own SQL store with
a change log, and exports it to NetBox. This directory models the parts of it
where order, failure and concurrency decide whether the result is right.

## 1. Inventory

| Component | State | Operations | Correct when |
|---|---|---|---|
| Daemon and scan cycle (`main.py`, `healthcheck.py`, `POST /scan`) | `cycle.lock` (flock), `_shutdown`, the scheduler job, `last_run.json`, the `runs` table | start, connect, initial / scheduled / API / `--once` cycle, signal, shutdown; the steps of a cycle | one cycle at a time; nothing falls back to an older pass; an outage changes nothing; cleanup only after a complete sync; the lock always comes back |
| Store, discovery state (`store/persist.py`) | `endpoints`, `endpoint_addresses`, `events` | merge, age out, prune, in one transaction | status follows the last sighting; addresses are those of the last sighting; the pruned log still tells the truth |
| Store, network facts (`store/persist.py`) | `prefixes`, `vlans`, `dhcp_pools`, `raw_observations` | upserts; capture rotation | tells the same as NetBox where the reports agree; captures bounded |
| Targets (`targets.py`, `store/repository.py`, `backends/netbox/import_targets.py`, `/targets`) | `targets` | import of NetBox tagged devices, disabling what was untagged, seed on an empty list, API create / edit / delete | each source only touches what it owns; no step takes the profile of a target away; what stays tagged is polled |
| Credential profiles and secrets (`store/repository.py`, `store/crypto.py`, `targets.py`, `/credentials`) | `credential_profiles`, the environment, `SCANSPOT_SECRET_KEY` | built-in and inventory profiles written at every start and cycle, API create / edit / delete, encrypt, resolve for every target | configured profiles stay as configured, the others survive; nothing but another key, or settings that do not convert, stops a cycle |
| NetBox sync, endpoints (`backends/netbox/sync.py`) | devices, interfaces, MAC addresses, IP addresses in NetBox | one upsert per observed endpoint, each several HTTP calls that may fail | an address is held by the device that was seen with it; a primary address belongs to its device |
| NetBox sync, networks (`backends/netbox/sync.py`) | VLANs, prefixes, DHCP ranges, firewalls and switches in NetBox | one pass for each kind of record | the first report names a record; only own records are written; a second pass writes nothing |
| NetBox cleanup (`backends/netbox/cleanup.py`) | the same records | offline, deprecate, delete by age | protected and reserved records are never deleted; nothing seen within the window is touched |
| NetBox client (`backends/netbox/client.py`) | cached ids of site, roles, tags; the API version | connect, bootstrap, write with dry-run | what is cached exists; nothing is written in a dry run |
| Collectors (`collectors/`) | none: a `CollectionResult` being filled | FortiGate, SNMP | a failing source leaves the other sources' data alone; a port is only trusted when it is not an uplink |
| API and keys (`api/`) | `api_keys` | request per session, key check, bootstrap key | reads are consistent with the store; a write is committed or has no effect |
| Configuration (`config.py`), identity (`identity.py`), prefixes (`prefixes.py`) | none: pure functions | parse, build identity, longest prefix | |
| Migrations, engine (`store/db.py`, `store/bootstrap.py`) | schema | run once at start, site row | |

### How they interact

`main()` migrates the store, starts the API in a daemon thread, waits for NetBox,
starts the scheduler and runs the first cycle itself. A cycle (`_run_cycle`)
takes the lock, bootstraps NetBox objects, refreshes the targets in one store
transaction, collects, writes the store in one transaction, then walks NetBox
record by record, cleans up, closes its run row and writes the heartbeat.
`POST /scan` starts the same function in a new daemon thread; `main.py --once`
does so in another process. API requests read and write the target tables with
their own sessions at any moment of a cycle. The healthcheck is a separate process
that reads the heartbeat file.

### What is hard to test here

Several processes and threads that start cycles (lock, shutdown, crashes); a
cycle that writes two systems and may fail between any two steps; ageing and
pruning whose effect only shows after several cycles; ownership rules between
the sources that write the same target, profile and NetBox rows; NetBox updates
made of several calls, of which some may fail silently; a client that remembers
for the life of its process what it once did not find; keys that change between
two processes. `PROJECT.json` lists them as hazards, each
at its line with the properties that watch it.

## 2. Modules

| Module | Models | Composed with |
|---|---|---|
| `Collect` | one pass over firewalls and switches: what each source says, merged into one observation per MAC, with sources that fail | its `Deliver` hands to `Discovery` what `ScanCycle!Collect` only counts |
| `Discovery` | the store transaction of a cycle (`persist.py`): endpoints, addresses, event log | its `Cycle` is what `ScanCycle!Record` stands for |
| `ScanCycle` | the daemon, everything that starts a cycle, the lock, the steps of a cycle, run rows, heartbeat | instantiates `SerialCycles` |
| `SerialCycles` | abstract specification of the cycle lock: one cycle at a time, dates never go back | refined by `ScanCycle` |
| `Targets` | `prepare_targets` against API requests and NetBox edits | its `AskNetBox` ... `Commit` is part of `ScanCycle!Prepare` |
| `NetBoxRecords` | `sync_endpoints` and `run_cleanup` call by call | its steps are what `ScanCycle!SyncWrites`, `SyncEnds` and `Cleanup` stand for |
| `Catalogue` | `NetBoxClient.bootstrap` and its cache | extended by `Networks` |
| `Networks` | VLANs, prefixes, ranges and switches, in the store and in NetBox | a bootstrap, the store rows and four passes per cycle: part of `ScanCycle!Prepare`, `Record` and `SyncWrites` |
| `Credentials` | what profiles hold, who writes them, which key reads them | its `Cycle` is the other half of `prepare_targets`, part of `ScanCycle!Prepare` |
| `DiscoveryProofs`, `ScanCycleProofs`, `CollectProofs`, `CredentialsProofs`, `TargetsProofs`, `NetBoxProofs`, `NetworksProofs` | theorems about the module of that name (`NetBoxProofs`: about `NetBoxRecords`; `NetworksProofs`: about `Catalogue` too) | extend it |
| `FoldLemmas` | what a loop establishes | instantiated by the proof modules, once for each loop body |
| `MC*` | constants for TLC | |

`ScanCycle` keeps no discovery data and no NetBox records: it only says when a
cycle writes and how it is dated. The other modules take from it that
cycles are serial and that a cycle may end at any step, and model what is
written. No module is composed with all of them; `CyclesExclude` is the reason that
is sound: within one state directory no two cycles of the other modules overlap.

### Collect

State: the source to poll (`next`), one observation per MAC (`obs`), whether any
source answered, and the addresses in the store. `PollFirewall(r, upto)`
is `collect` of fortigate.py for one firewall: reservations, ARP table and leases,
in that order. `upto` says how far it came when it raised: a firewall may have merged
everything it reported and still fail, a switch too. `PollSwitch(fdb, arp, upto)` is the
SNMP collector: `_merge_fdb` over a forwarding database in the order it was walked, with
the `uplink_mac_threshold` of that switch, then `_merge_snmp_arp`. A reply is
any combination of tables. An optional endpoint that fails is an empty table, as
in the code. `Deliver(stored)` ends the pass: nothing is stored when no source
answered or the store fails; else an observation replaces the addresses of its
MAC. `learned` is a history variable: what each switch reported.

### Discovery

State: `endpoints` (a row per MAC: status, port, first and last sighting),
`addresses` (a row per MAC and address), `events`. `Cycle(obs, loaded)` is one
committed `_record_run`: `persist_result`, `mark_stale_offline` and
`prune_events` in the order of main.py, all dated at the start of the cycle. A
transaction that fails is no step. `obs` is any set of sightings; `loaded` is the
order in which address rows come back from a query without `ORDER BY`, which
decides the order of `ip_removed` events. `Tick` moves the clock.

The log is a set of rows ordered by (`created_at`, id), as `prune_events`
orders it. Hostname, firewall, VLAN, vendor, prefix length and address kind are
left out: the store overwrites them and decides nothing by them.

### ScanCycle

Workers are the main thread (`startup`), the scheduler job, threads of
`POST /scan` and `--once` processes. `pc` walks through `_run_cycle`: `prepare`
(bootstrap, targets), `collect`, `record` or `record_outage`, `sync`, `cleanup`,
`finish`, `beat`, `unlock`. Each `Step` ends where another worker can run, a
process can die or an exception can leave the cycle. `StartDaemon`, `Connect`,
`GiveUp`, `Signal`, `LeaveLoop` and `Exit` are `main()`. `CrashDaemon` and
`CrashOnce` kill a process: the kernel drops the flock, memory is lost, rows and
files stay. `storeAt`, `netboxAt` and `cleanedAt` hold the start time of the last
cycle that wrote there; `done` is a history variable.

### Targets

State: `targets` rows (address, profile, enabled, source, external_ref), the
profile names, what NetBox offers, and the two places where something read
earlier is used later: `answer` (NetBox's reply on which the cycle works) and
`deleting` (the profile a DELETE request found unused). `Commit(order)` is the
whole `prepare_targets` transaction, with the devices in any order. A seed names a
profile (`SeedNames`) that may be undefined: then its target has none (`SeedRow`).
`Polled` leaves out what `load_targets` skips: `Unusable` profiles, without settings
or without the token of a firewall. API actions
are the routes, each with the checks that make it answer 4xx as guards.
`Serialised` is the store: TRUE for SQLite, which has one writer at a time
(db.py:47-61 sets the busy timeout), FALSE for PostgreSQL.

### NetBoxRecords

State: endpoint devices, the device each MAC is assigned to, address records, and where
the running cycle is. Records carry an age in place of `last_seen`; ages stop one past
both windows (`Oldest`), because nothing looks at more, and nothing is assumed about
which window is the longer. One action is one endpoint (`SyncEndpoint`) or one cleanup
pass (`CleanAddresses`, `CleanDevices`). `lost` is the set of its HTTP calls that had no
effect: any single call (rejected, swallowed by `NetBoxClient.write`) or any tail of
`CallOrder` (a failed read, an uncaught error, a dead process); `GoesOn` decides whether
the cycle survives it. A record is patched twice, attributes and then tags (`update` and
`tag` for a device, `write` and `mark` for an address). `newest` is a history variable:
per address the sighting that was recorded last, which a step moves on only when its
write arrived (`Recorded`), so that a lossy step leaves the earlier claim standing.
`EditIp` and `EditDevice` are people in NetBox who protect a record or take it over
between two of these steps.

Three operators are NetBox itself, modelled from how the code in `src/` speaks
of it and marked external: `Pinned` (an address cannot be reassigned while it
is its device's primary; sync.py:782-784), `WithoutIp` and `WithoutDevice`
(deletes clear references and cascade).

### Catalogue and Networks

`Catalogue` is what the client needs in NetBox before anything else (custom
fields, tag, site, role, manufacturer, device types) and what it remembers of it:
`cache` holds for each item whether it was asked for and whether there is one.
`Order` lists the items as `bootstrap()` asks for them, with the IPAM role of a range
last. `Bootstrapped(w, lost, upto)` is one `bootstrap()` of which the creates in `lost`
are rejected and the reads after the first `upto` items fail. A dry run creates
nothing and remembers that there is nothing.

`Networks` adds the records and one action for each pass of a cycle, in the order
of `_run_cycle`: `Begin` (bootstrap, collected facts, store), `SyncVlans`,
`SyncPrefixes`, `SyncDhcpPools`, `SyncInfrastructure`. A record carries what the
code compares, and `mine`, the tag by which the scanner knows it. Each pass is an
operator on the whole of NetBox (`World`), so that `Pass` can say what another
synchronisation of the same facts would do. `lost` is a set of calls without
effect, `aborted` a pass that ends the cycle. `Restart` is a new process with
or without `DRY_RUN`; `EditVlan`, `EditPrefix`, `EditRange` and `EditDevice` are
people. NetBox itself is external: it starts empty, refuses a second range with
the same addresses and a device with custom fields it does not have.

### Credentials

State: `rows`, one per name and scope (global or site): how secrets are stored, with
which key, and whose settings they are; which profile each target uses; what the
environment and `inventory.yml` configure (`listed`); and the process: its key and the
variables it has. Settings are good, or such that `from_dict` raises over them
(`Convertible`), which nobody validates before. `Found` and `Home` are
`Repository.credential` with its fall-back from the site to the global profile, which
readers and writers share. `Start` and `Cycle` copy the configured profiles
(`Mirrored`); a cycle then reads the profile of every target and rolls back when one
cannot be read or converted (`Stops`); a firewall without a token is skipped before its
settings are looked at (`Skipped`). `CreateCredential` ... `Retire` are the routes with
their checks as guards. `Restart` ends a process: the next may have another key, or
none, and other variables. `keys` and `last` are history variables.

## 3. Runs

Every passing property has a mutant: a plausible bug, written as a `_Variant`
operator beside the definition it replaces, under which TLC finds the property
violated in the same configuration.

| Run | Bounds | Shows |
|---|---|---|
| `DiscoveryPruned` | 1 MAC, 2 addresses, 2 ports, window 1, retention 3, 1 row per type, 6 ticks, 4 cycles | types, status against age, addresses, the pruned log still tells the status |
| `DiscoveryFullLog` | the same without limits, 5 ticks | the complete log replays to the addresses; lifecycle events balance |
| `CycleSafety` | startup, scheduler, 1 API thread, 1 `--once`, 3 triggers, 2 ticks, crashes, failing store and heartbeat | lock, dates, run rows (and with them that no cleanup follows a failed sync), outage, refinement of `SerialCycles` |
| `CycleLiveness` | no `--once`, clock stands still, 3 triggers, crashes, failing store and heartbeat, fair | triggers are served, shutdown ends |
| `TargetsSafety` | 2 devices, 2 addresses, 2 profiles (1 configured), 1 seed that names the other, devices may be readdressed, SQLite | imported targets are those offered, one row per device, no step takes a profile away, an outage disables nothing |
| `TargetsLiveness` | 2 profiles (1 unusable), fixed addresses, PostgreSQL, fair | what stays tagged is polled |
| `CredentialsKeys` | 1 profile, 2 scopes, a switch and a firewall, good and bad settings, 2 keys or none, 2 restarts | configured profiles stay as configured, all others survive, only another key or settings that do not convert stop a cycle |
| `CollectMerge` | 2 firewalls, 2 switches, 2 MACs, 1 address, 2 ports, thresholds 1 and 2, tables of 3 entries | what a MAC has reserved is never its lease; a location is an access port of the first switch that has one; the store only loses what the pass observed |
| `NetBoxFaults` | 2 MACs, 1 address, 3 devices, windows 0 and 1, 1 lossy step, 1 takeover | an undisturbed step repairs its endpoint; no address goes back to an earlier holder than the one recorded last; a reservation stays once its tags arrived; without losses, one device per MAC and nothing fresh is deleted |
| `NetworksSync` | 1 VLAN, 1 network, 1 range, 2 switches, 1 model, 3 collections, 1 fault or edit, 1 restart, dry or not | the first switch names a VLAN; store and NetBox agree; a second pass is quiet; a restart repairs; only own records are written |
| `NetBoxProtected` | 1 MAC, 1 address, 1 edit | violation, see section 5 |
| `NetBoxReservation` | 1 MAC, 1 address, 1 lossy step | violation, see section 5 |

Why the bounds are enough:

- *Discovery.* Endpoints do not influence each other (every operator takes one MAC; the
  log is compared per MAC), so one MAC shows what two would. Four cycles are the
  shortest life with a discovery, a disappearance, a return and a later change; six
  ticks let an event outlive the retention of three. The proofs cover every number of
  MACs and every window and limit.
- *ScanCycle.* Three triggers let a cycle run, be overlapped by a second and followed by
  a third, or the daemon start, stop and start again; one worker of each kind is enough
  because the code treats workers of a kind alike. Two ticks distinguish an older from a
  newer cycle; `CycleLiveness`, whose properties do not look at the clock, has none. The
  proofs cover any number of workers.
- *Targets.* Two devices and two addresses are the least with which devices swap
  addresses or meet an operator's row; one unconfigured profile is the least that can be
  created and deleted, and that a seed can name while it is undefined.
- *Collect.* The merges treat each address by itself, so one is enough; two firewalls
  give every order of reservation, ARP entry and lease, two MACs on one port exceed the
  threshold of one switch and not that of the other, and three entries let a MAC be
  learned on both ports of a switch of which one is an uplink. MACs and ports are
  interchangeable (`HostSymmetry`).
- *Credentials.* Profiles of different names share nothing, so one name is enough; it is
  configured in some states and not in others. A built-in one differs in that it is
  always configured. A switch and a firewall are the two ways settings are skipped or
  converted. Two restarts let a first key come back. The proofs cover every number of
  profiles (built-in ones too), targets, keys and restarts.
- *Networks.* VLANs, networks and ranges influence each other only where a prefix makes
  or links its VLAN, which one of each shows. The three collections of `SomeFacts` hold
  what the reductions can disagree on: two switches that name one VLAN, two interfaces
  on one network of which one has a VLAN, two firewalls that serve one range, a switch
  with and without a model, two switches of one name. One fault puts a lost call, an
  aborted pass or an edit at every point; one restart follows it with a fresh client.
- *NetBoxRecords.* Two MACs are the least with which an address changes hands; the third
  device is the orphan that a lost MAC assignment leaves. One address shows hand-over
  and deletion; several addresses of one endpoint, and the choice of its primary among
  them, are left to the proofs (`CompleteStepsRepair`). Ages saturate where the code
  stops telling them apart. One lossy step is one fault per history, not per cycle;
  repeated faults are covered by the proofs. Device ids are interchangeable
  (`DeviceSymmetry`); the properties checked under symmetry are safety.

`CHECK_DEADLOCK FALSE` stands where a bound (clock, cycles, triggers) stops the
model; `Targets`, `Credentials`, `Collect`, `Networks` and `NetBoxRecords` have no such
bound on their cycles and are checked for deadlock.

### Fairness

- `ScanCycle`: weak fairness for each worker's next step, for the main loop (which polls
  its flag every second) and for the exit. It says that threads are scheduled and calls
  return; the collectors and the NetBox session have timeouts. Nothing is assumed of
  triggers, signals, crashes or the clock.
- `Targets`: cycles keep coming (the scheduler), NetBox answers some of them and not
  every cycle that got an answer is killed or stopped by a profile (strong fairness,
  because an outage or an API transaction on SQLite may disable the step again and
  again), a begun cycle or deletion ends. `OfferedIsPolled` needs exactly that: with an
  eternal outage nothing can be imported.

`TriggersAreServed` counts a skipped cycle as served, as the API does.

## 4. Proofs

The proof modules are checked by tlapm for all values of the constants, under the
named assumptions beside the constants: their types, finiteness of sets that the
code enumerates, and that special values lie outside the sets they extend. Windows,
limits, thresholds and the model's own bounds on faults, edits and restarts are any
naturals, so the theorems cover every number of them. One theorem has a side
condition, stated in it: `TargetsKeepTheirProfiles` assumes a store with one
writer at a time, without which the property is false (section 5).

Every invariant and every action property of the passing runs, and the refinement,
is stated by a theorem. Most are not inductive; each proof module names the
strengthening it needs and proves it step by step, one lemma for each action or pass.

### Loops (`FoldLemmas`)

The models write the loops of the code as folds, and induction over data is not
available: the library's induction theorems take an operator as parameter.
`FoldLemmas` has the loop body as a *constant* operator instead and proves, by a
minimal counterexample among the subsets of the finite set that is folded
(`MinimalSubset`), that the recursive function behind `FoldSet` and
`MapThenFoldSet` exists and satisfies its equations (`FoldEquation`). `FoldKeeps` is the
rule that the other modules use: what holds when nothing was handled, and what one
turn carries on, holds when everything was handled. They get it for their own loop by
`INSTANCE FoldLemmas WITH Op <- ..., Pick <- ...`; the elements may be handled in any
order (`AnyOf`) or the lowest first (`Max`, with `HighestPicks`).

### Discovery (`DiscoveryProofs`)

- `TypeCorrect`: the tables keep their types.
- `StatusFollowsAge`: `StatusMatchesAge` is not inductive: a
  sighting dated after the newest cycle would be aged wrongly by the next. `AgeInv`
  adds that no sighting is newer than the newest cycle and that one not in the
  future. `RowAfterCycle` does the case analysis for one endpoint.
- `LogTellsStatus`: `LogInv` adds that all
  rows are dated and numbered no later than the newest cycle, which makes
  appended rows newer than all others (`AppendedIsNewer`), and
  that the newest lifecycle row tells the status. `PruningKeepsNewest` is the key
  lemma: whatever the limits, pruning keeps the newest lifecycle row of an
  endpoint or removes all of that endpoint's.
- `AddressesStayCurrent`: `CurrentInv` adds that no endpoint is last seen before it was
  first seen.
- `LogReplaysAddresses`: `ReplayInv` says it with a witness for the newest event about an
  address. A cycle appends at most one row about an address (`NewRowsAbout`), which
  is newer than all before it: so the order in which rows were loaded, which
  decides the ids, cannot matter.
- `LifecycleStaysBalanced`: `BalanceInv` counts every type for itself, and that the sets
  counted are finite; a cycle appends one event of a type or none.

### Scan cycle (`ScanCycleProofs`)

- `CycleTypeCorrect`: types.
- `LockTracksCycle`: the lock is held exactly by the worker inside a cycle. The
  inductive invariant `LockInv` needs `StartupIsIdle` besides the types: otherwise
  `Connect` could start a second cycle for a main thread that is in one.
- `CyclesExclude`: mutual exclusion, from `LockInv`.
- `NeverGoesBack`: `NewestWins`. `DateInv` adds `Dated`: the holder's cycle started
  after everything written so far, which holds because cycles are dated inside the lock.
- `CyclesAreSerial`: `ScanCycle` implements `SerialCycles`. `Active` is read off the
  program counters; `ActiveIsHolder` shows it equals the lock, and every step maps to a
  begin, a write, an end or a stutter.
- `RowsTellTheTruth`: a run row is written by the worker that inserted it and by nobody
  else, because only the lock holder has one (`RowsAreOwn`), and a worker that has come
  to a phase has done the ones before it (`PhasesAreDone`).
- `OutagesWriteNothing`: from `VerdictsFollow`: a worker in a phase that writes
  collected data has a verdict other than failed.

### Collection (`CollectProofs`)

- `CollectTypeCorrect`: types, which no run repeats. Locations need `MinIsLeast`: the
  first access entry of a forwarding database is one of its entries.
- `ReservationsWin`: `ReservationBeatsLease` for any inventory, in any order, with
  failures anywhere. `FirewallMerges` and `SwitchMerges` say what the merges of one
  source leave of one observation; each of the three firewall merges keeps the property
  by itself, which is why the point of failure does not matter.
- `LocationsAreKept`: `LocationInv` says with a witness in place of a choice that a
  location is an access port of the first switch that has one, and adds `Unpolled`: a
  switch whose turn has not come has told nothing. Without it a location found now could
  be overruled by an earlier switch.
- `NothingIsLostUnseen`: from `LocationInv`: a located MAC was learned on an access
  port.

### Targets (`TargetsProofs`)

`IInv` is the types, that an address has one row and a device has one row,
`ImportedAreOffered`, and on SQLite that a profile a target names exists and that a
profile which a request found unused stays unused until the request deletes it
(`DeletingIsUnused`). That an address has one row is the unique constraint of the
table, which the model has as guards; it is what makes an insert always find a free id
(`FreeIsFree`). `ImportLoop` gives the import an invariant form through
`FoldKeeps`: whatever order NetBox lists its devices in, every row seen so far stands at
an address that was offered, even when a later device takes the row over.
From `IInv`: `TypeCorrect`, `EnabledImportsAreOffered`, `OneRowPerDevice`, and two
action properties: `TargetsKeepTheirProfiles`, where `CommitKeepsProfiles` and
`StepKeepsProfiles` follow one row through the import and the seed, and `OutagesDisableNothing`.

### NetBox endpoints (`NetBoxProofs`)

The effect of every operation on all of NetBox is stated once (`WithoutIpEffect` ...
`SyncedEffect`, for any set of lost calls), and the four loops (stale addresses, expired
devices, the addresses of an endpoint, the choice of its primary) are folds that
`FoldKeeps` reduces to one turn. `IInv` holds

- `OwnersExist`: what a MAC or an address refers to is there, without which a deleted
  and recreated device id could inherit addresses;
- `HeldByNewestHolder` and `SyncRepairs` themselves. An address whose write was lost is
  still claimed for its earlier holder, so every lost call is part of the proof;
- `ReservationsAreMarked`: an address whose last recorded sighting is a reservation has a
  record that carries the reservation or is not the scanner's, and so does the device that
  owns it. `ReservationsSurvive` alone is not inductive: `_cleanup_addresses` decides by
  the address, `_cleanup_devices` by the device and `_delete_device` by the address again,
  so both have to be marked, and every call lost later has to leave them so. A sighting
  whose tags were lost on the way does not count as recorded, because then the claim is
  false (`NetBoxReservation`, section 5);
- `Undisturbed`, while no call is lost: a device and its MAC come and go together, and no
  device is older than its addresses. The second half is why a fresh address cannot go
  with an expired device.

From it: `TypeCorrect`, `CompleteStepsRepair`, `AddressesFollowTheirHosts`,
`ReservationsStay`, `DevicesHaveOneMac` and the action property `FreshRecordsStay`, for any
number of hosts, addresses, devices, losses and edits, and any two windows. The run's
bound of one lossy step is therefore not a limit of what is known.

### Networks and catalogue (`NetworksProofs`)

Each pass has an effect predicate that relates NetBox before and after it for the part of
the loop done so far (`AfterVlans`, `AfterPrefixes`, `AfterPools`, `AfterDevices`, and
`Provides` for the bootstrap); `*TurnEffect` shows that a turn carries it on, `*Effect` gets
it for the loop by `FoldKeeps`. `IInv` is the types and

- `CatalogueInv`: the cache never lies (`Honest`), a bootstrap that came to its end has
  tried everything (`Tried`), and a process that has lost no create remembers no item as
  missing;
- `OwnInv`: a VLAN of the scanner's needed a site, and a device without the scanner's
  source has a type that a person chose;
- `StageInv`: what the passes of an intact cycle have established so far (`VlansDone`,
  `PrefixesDone`, `PoolsDone`, `DevicesDone`) stays true through the later passes and
  after the cycle. This is the strengthening of `SwitchNamesVlan` and `StoreAgrees`, and
  exactly what a second pass compares with;
- `StoreInv`: what the transaction left in the store (`StoreHas`).

From it: `TypeCorrect`, `VlansCarryTheirNames`, `BothSidesAgree`, `CatalogueIsRepaired`,
`NothingIsWrittenTwice` (`VlansDone` ... `DevicesDone` make each of the four passes an
identity, one after the other) and the action property `OthersAreLeftAlone`: VLANs,
prefixes and ranges of others for ever, a device type of a person's until the scanner
has written the device once.

### Credentials (`CredentialsProofs`)

- `SpecTypeOK`: types, which no run repeats.
- `SpecConfiguredIsStored`: a global name that is looked up without a site is found
  in the global row or nowhere (`GlobalHome`), so the mirror writes exactly the
  configured global rows.
- `SpecOnlyKeysAndSettingsStop`: the inductive invariant `IInv` adds `KeysAreKnown`:
  whatever is encrypted is encrypted under a key that some process had, and the
  running process has one of these. Without it nothing relates the rows to `keys`. That
  no other profile than the one a target names can stop the cycle is the rest of it.
- `SpecOthersSurvive`: the action property, by the same case analysis.

### Only model-checked

`ShutdownCompletes`, `TriggersAreServed` and `OfferedIsPolled`: liveness under fairness,
for which TLAPS lacks `ENABLED`.

## 5. Where the code and its documentation disagree

Shown by a run:

- `NetBoxProtected`: an address with `PROTECTED_TAG` is deleted with its expiring device
  (cleanup.py:22, and the guarantee in the repository's README.md:372).
- `NetBoxReservation`: a host whose lease became a static reservation comes back after
  more than `DELETE_AFTER_DAYS`, and NetBox rejects the PATCHes of its device while
  those of its address arrive. The cleanup of the same cycle finds the device overdue.
  `_delete_device` wants to detach the reservation, which NetBox refuses for a primary
  address; the refusal is swallowed and the address goes with the device
  (cleanup.py:265, against cleanup.py:16, cleanup.py:254-255 and the repository's
  README.md:371). `ReservationsSurvive` claims what is left: a reservation whose tags
  reached both records.

Met while modelling, read off the code and not kept as runs:

- Cycle: a cycle started by `POST /scan` is cut off by a shutdown, because nothing joins
  its thread (main.py:478; the log says "after the current cycle", main.py:373). In a
  dry run a total outage still inserts a run row (main.py:222, against the log line at
  main.py:367); a cycle whose sync raises leaves its run row open (main.py:259-279,
  against the states in models.py:200); a total outage during which the store fails as
  well writes no heartbeat, so the previous healthy one stays until it is too old
  (main.py:222, healthcheck.py:7). No property claims that an outage shows in the
  heartbeat.
- Limits of the windows: the table in the repository's README.md:363-365 puts an age of
  exactly `OFFLINE_AFTER_HOURS` on the offline side and one of exactly
  `DELETE_AFTER_DAYS` on the deleted side ("≥ 48h", "≥ `DELETE_AFTER_DAYS`"). The code
  compares strictly: persist.py:434 keeps such an endpoint active, cleanup.py:139-145
  such a record. `StatusMatchesAge` and `NothingFreshIsDeleted` say what the code does.
- Degraded cycles: when the firewall fails and a switch answers, the cycle is stored.
  The MACs the switch still learns have a location and no addresses, so
  `_apply_addresses` deletes all of theirs (persist.py:232; against persist.py:229,
  "Anything left over is an address this MAC no longer holds"). The guarantee in
  README.md:373 covers only passes in which no source answers. `LossesAreObserved`
  grants exactly that much.
- Store: an address that moved to another MAC stays with its former holder as well,
  until that one is seen again (persist.py:229-231 calls that a lie).
  `AddressesAreCurrent` and `AddressLogReplays` are about one MAC at a time.
- Collectors: "a static reservation beats a lease" (the repository's README.md:349)
  holds for each MAC. An address that is reserved for one MAC and leased to another is a
  reservation of the first and a lease of the second (fortigate.py:291), and
  `ReservationBeatsLease` says no more. Of the per-VLAN tables of a switch the first
  translation of a bridge port stays (`setdefault`, snmp.py:520), although the comment
  above says that it is refreshed (snmp.py:516).
- Targets: a seed that names an undefined profile makes a target without one, which is
  skipped by every cycle (targets.py:146-152; against "Refuse rather than silently leave
  targets unpollable", routes.py:164); when NetBox cannot be read at the first cycle,
  the seed is written although NetBox may hold the same devices (main.py:168); on
  PostgreSQL an import or a request can begin to use a profile between the check and the
  deletion in `DELETE /credentials`, and the foreign key leaves the target without one
  (routes.py:164-167); an import takes over an operator's target found by address, its
  enabled flag and profile included (repository.py:169-179, import_targets.py:47);
  deleting all targets makes the next cycle seed again (main.py:170, config.py:273); the
  target of an untagged device can be neither created, edited nor deleted by API
  (routes.py:226, 260, 294); a device readdressed onto another target's address violates
  the unique constraint and ends every cycle until someone intervenes
  (repository.py:175).
- NetBox: a stale address that is still the primary is released only by the following
  cycle (sync.py:630-640, 848-890; the repository's README.md:347 promises the same
  cycle); the reservation tag is never taken off again (cleanup.py:20); after a lost
  update of a device, the same cycle's cleanup may delete an endpoint that was just
  seen, with its addresses, which is why `NothingFreshIsDeleted` is claimed without
  losses only.
- Networks: a device type that a human chose is overwritten from the second cycle on:
  "scanner-owned" is read from `CF_SOURCE`, which the scanner writes into every device
  it updates (sync.py:428-434; against sync.py:429, README.md:455 "never overwritten",
  and `is_generic_type`). `OnlyOwnWrites` claims it for devices the scanner has not
  written. When a later poll identifies no model, a discovered type falls back to the
  placeholder. Two firewalls that serve one range flip its description on every pass,
  and two switches of one name, which nothing forbids (targets are only unique by site,
  address and method, models.py:170), write one device twice: the second sees the source
  the first wrote and overrides a type chosen by hand. `Steady` excludes these, and a
  type chosen by hand, from `SecondPassIsQuiet`; `Single` excludes the second from
  `OnlyOwnWrites`. Where reports disagree, the store keeps the last name of a VLAN or
  range and NetBox the first (persist.py:265-306, sync.py:136-144); `StoreAgrees` is
  claimed where they agree. A prefix is linked to its VLAN only when it is created.
  Status and comments of a hand-made device of the same name are rewritten
  (sync.py:424).
- Bootstrap: `_bootstrapped` is set although creates were rejected, and their `None`
  stays cached for the life of the process (client.py:341, 354), against "Safe to call
  every cycle" (client.py:285). Records made while the tag is unknown are never owned
  afterwards. `RestartRepairs` claims what is left: a fresh process repairs the
  catalogue.
- Credentials: `PATCH` with settings alone wipes the secrets (repository.py:82-89;
  schemas.py:122 suggests that they are replaced when given); `POST` for a site
  overwrites the global profile when only that exists (repository.py:73); edits of a
  configured profile by API are reverted by the next cycle; a profile removed from
  `inventory.yml` stays. One profile that cannot be decrypted stops the whole cycle, the
  import included (targets.py:163-178), and so does one whose settings `from_dict`
  cannot convert, such as a port that is no number: nothing validates what `POST` and
  `PATCH /credentials` store (targets.py:189-193, config.py:130-133, 172, 191-196).
  `OnlyKeysAndSettingsStop` grants both. An unset variable does not, but lets a switch
  be polled with the global SNMP settings, where crypto.py:100-105 promises an
  authentication failure; `${VAR:-default}` secrets lose their default. The unique
  constraint on (site, name) does not hold for the NULL site of global profiles
  (models.py:140).

## 6. Not modelled

- Clock that runs backwards (the code compares `utcnow()` values unguarded).
- Requests and edits within a step. `Credentials!Cycle` is one transaction: a `PATCH`
  that commits between its reads and its commit may outlive that cycle, until the next
  one mirrors again (`Targets` does separate request, import and deletion). In
  `NetBoxRecords` people edit between two endpoints or passes: a tag they set between
  the read of a record and its PATCH is lost, because the list of tags is sent whole
  (sync.py:117-122).
- Within `Collect`: L3 interfaces, VLAN names, captures, the identity of a switch, and
  the translation of bridge ports to interface names.
- Within `Discovery`: the columns every sighting overwrites, raw captures; within
  `NetBoxRecords`: device names and their collisions, records without a timestamp, the
  dry run (`ScanCycle` and `Networks` have it).
- Within `Networks`: firewalls as devices, interfaces and ports of the infrastructure,
  manufacturers and platforms apart from their model, timestamps, the version of NetBox
  and the two spellings of a create, choice sets.
- Within `Credentials`: several secrets in one profile, the encryption itself, several
  sites; within `Targets`: the two scan methods.
- `identity.py` and `prefixes.py`: pure functions on strings, without state, and covered
  by table tests (tests/test_identity.py, tests/test_prefix_index.py).
- `config.py`: read once at the start.
- Two processes with different state directories on one database.
- The write of the heartbeat as several system calls.
- Pure I/O: HTTP sessions, SNMP encoding, the web pages, migrations, logging.

## 7. Plan

In this order:

1. The abstract specification `AddressHolder` (an address is held by its newest
   holder or nobody), refined by `NetBoxRecords`; `HeldByNewestHolder` and `OwnersExist` are
   the invariants its proof needs.
2. The rest of `Collect`: bridge ports and per-VLAN tables (snmp.py:286-522).
3. Firewalls and ports in `Networks`.
4. `PrefixIndex` as a pure operator against a reference definition; `RawCapture`.
5. A variant of `ScanCycle` with one lock per state directory on one store.

New questions are added to existing runs where their bounds fit.
