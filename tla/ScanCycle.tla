------------------------------ MODULE ScanCycle ------------------------------
(***************************************************************************)
(* The daemon, the ways a scan cycle is started and the cycle itself       *)
(* (src/app/main.py, src/app/api/routes.py, src/app/healthcheck.py).       *)
(*                                                                         *)
(* A cycle is started by the main thread (run-on-start), by the scheduler  *)
(* job, by the daemon threads POST /scan spawns, and by separate           *)
(* `main.py --once` processes.  flock() on state_dir/cycle.lock keeps them *)
(* apart; the kernel frees it when its holder dies.  A cycle is broken     *)
(* into the steps between which others may run or the process may die.     *)
(*                                                                         *)
(* Abstracted: what was collected (module Discovery), what is written to   *)
(* NetBox (only the start time of the cycle that wrote last is kept).      *)
(***************************************************************************)
EXTENDS Integers, Sequences, FiniteSets

CONSTANTS
    Api,           \* threads POST /scan may start
    Once,          \* `--once` processes sharing the state directory
    Nobody,        \* the lock is free
    RunOnStart,    \* scanner.run_on_start
    DryRun,        \* scanner.dry_run
    Crashes,       \* may processes be killed?
    StoreFails,    \* may a store transaction fail?
    BeatFails,     \* may writing the heartbeat fail?
    MaxClock,      \* bound on the clock
    MaxTriggers    \* bound on daemon starts and cycle triggers together

Resident == {"startup", "scheduler"} \cup Api   \* they live in the daemon
Worker == Resident \cup Once

ASSUME ScanCycleAssumption ==
    /\ Nobody \notin Worker
    /\ Api \cap {"startup", "scheduler"} = {}
    /\ Once \cap Resident = {}
    /\ RunOnStart \in BOOLEAN
    /\ DryRun \in BOOLEAN
    /\ Crashes \in BOOLEAN
    /\ StoreFails \in BOOLEAN
    /\ BeatFails \in BOOLEAN
    /\ MaxClock \in Nat
    /\ MaxTriggers \in Nat

VARIABLES
    daemon,      \* the daemon process and its main thread
    shutdown,    \* _shutdown, set by the signal handler
    pc,          \* where each worker is
    lock,        \* who holds flock() on cycle.lock
    started,     \* utcnow() at the start of a worker's cycle
    verdict,     \* outcome["status"], as far as it is decided
    row,         \* run_id of a worker's cycle, 0 for None
    runs,        \* the runs table
    storeAt,     \* start of the newest cycle merged into the store
    netboxAt,    \* start of the newest cycle that wrote to NetBox
    cleanedAt,   \* start of the newest cycle whose cleanup completed
    heartbeat,   \* last_run.json; finished = 0 for no file
    clock,
    triggers,    \* daemon starts and cycle triggers so far
    done         \* history: which rows' cycles completed the sync, and the cleanup

daemonVars == <<daemon, shutdown>>
cycleVars == <<started, verdict, row>>
dataVars == <<runs, storeAt, netboxAt, cleanedAt, heartbeat, done>>
vars == <<daemonVars, pc, lock, cycleVars, dataVars, clock, triggers>>

\* Inside run_cycle with the lock held.
Critical == {"prepare", "collect", "record_outage", "record", "sync", "cleanup",
             "finish", "beat", "unlock"}
Phase == {"idle", "enter"} \cup Critical
Status == {"ok", "degraded", "failed", "idle", "error"}
RunRow == [status: Status, closed: BOOLEAN]   \* closed: finished_at is set
BeatFile == [status: Status, finished: Nat]
NoRow == 0

TypeOK ==
    /\ daemon \in {"down", "connecting", "running", "exiting"}
    /\ shutdown \in BOOLEAN
    /\ pc \in [Worker -> Phase]
    /\ lock \in Worker \cup {Nobody}
    /\ started \in [Worker -> Nat]
    /\ verdict \in [Worker -> Status]
    /\ row \in [Worker -> Nat]
    /\ runs \in Seq(RunRow)
    /\ storeAt \in Nat /\ netboxAt \in Nat /\ cleanedAt \in Nat
    /\ heartbeat \in BeatFile
    /\ clock \in Nat /\ triggers \in Nat
    /\ done \subseteq Nat \X {"sync", "cleanup"}

InCycle(w) == pc[w] \in Critical

Init ==
    /\ daemon = "down" /\ shutdown = FALSE
    /\ pc = [w \in Worker |-> "idle"]
    /\ lock = Nobody
    /\ started = [w \in Worker |-> 0]
    /\ verdict = [w \in Worker |-> "idle"]
    /\ row = [w \in Worker |-> NoRow]
    /\ runs = <<>>
    /\ storeAt = 0 /\ netboxAt = 0 /\ cleanedAt = 0
    /\ heartbeat = [status |-> "idle", finished |-> 0]
    /\ clock = 1 /\ triggers = 0
    /\ done = {}

-----------------------------------------------------------------------------
(* The daemon process: main().                                              *)

\* The API answers from here on, before NetBox is waited for.
StartDaemon ==
    /\ daemon = "down"
    /\ triggers < MaxTriggers
    /\ triggers' = triggers + 1
    /\ daemon' = "connecting" /\ shutdown' = FALSE
    /\ UNCHANGED <<pc, lock, cycleVars, dataVars, clock>>

\* client.connect() succeeded: handlers installed, scheduler started, then the
\* initial cycle in the main thread.
Connect ==
    /\ daemon = "connecting"
    /\ daemon' = "running"
    /\ pc' = IF RunOnStart THEN [pc EXCEPT !["startup"] = "enter"] ELSE pc
    /\ UNCHANGED <<shutdown, lock, cycleVars, dataVars, clock, triggers>>

\* The local variables of a cycle are gone with it.
Forget(gone) ==
    /\ started' = [w \in Worker |-> IF w \in gone THEN 0 ELSE started[w]]
    /\ verdict' = [w \in Worker |-> IF w \in gone THEN "idle" ELSE verdict[w]]
    /\ row' = [w \in Worker |-> IF w \in gone THEN NoRow ELSE row[w]]

\* What the death of the given workers' process leaves: the kernel releases
\* the lock, everything in memory is gone.
Killed(dead) ==
    /\ pc' = [w \in Worker |-> IF w \in dead THEN "idle" ELSE pc[w]]
    /\ lock' = IF lock \in dead THEN Nobody ELSE lock
    /\ Forget(dead)
    /\ UNCHANGED <<dataVars, clock, triggers>>

\* The thirtieth attempt failed: main returns 3.
GiveUp ==
    /\ daemon = "connecting"
    /\ daemon' = "down"
    /\ Killed(Resident)
    /\ UNCHANGED shutdown

\* SIGTERM or SIGINT: _handle_signal.
Signal ==
    /\ daemon = "running"
    /\ ~shutdown
    /\ shutdown' = TRUE
    /\ UNCHANGED <<daemon, pc, lock, cycleVars, dataVars, clock, triggers>>

\* The main thread leaves its loop, which it is in once the initial cycle has
\* returned, and enters scheduler.shutdown(wait=True): no new job fires.
LeaveLoop ==
    /\ daemon = "running"
    /\ shutdown
    /\ pc["startup"] = "idle"
    /\ daemon' = "exiting"
    /\ UNCHANGED <<shutdown, pc, lock, cycleVars, dataVars, clock, triggers>>

\* The scheduler's running job has ended; the interpreter exits and takes the
\* daemon threads of the API with it.
Exit ==
    /\ daemon = "exiting"
    /\ pc["scheduler"] = "idle"
    /\ daemon' = "down"
    /\ Killed(Resident)
    /\ UNCHANGED shutdown

\* SIGKILL, power loss, out of memory.
CrashDaemon ==
    /\ Crashes
    /\ daemon # "down"
    /\ daemon' = "down"
    /\ Killed(Resident)
    /\ UNCHANGED shutdown

CrashOnce(w) ==
    /\ Crashes
    /\ pc[w] # "idle"
    /\ Killed({w})
    /\ UNCHANGED daemonVars

-----------------------------------------------------------------------------
(* What starts a cycle.                                                     *)

Trigger(w) ==
    /\ triggers < MaxTriggers
    /\ triggers' = triggers + 1
    /\ pc[w] = "idle"
    /\ pc' = [pc EXCEPT ![w] = "enter"]
    /\ UNCHANGED <<daemonVars, lock, cycleVars, dataVars, clock>>

\* max_instances=1: the job does not fire while its last instance runs.
SchedulerFires == daemon = "running" /\ Trigger("scheduler")

\* POST /scan, answered 202 at once.
TriggerScan(w) == daemon # "down" /\ Trigger(w)

\* docker exec ... --once, with the daemon up or down.
RunOnce(w) == Trigger(w)

-----------------------------------------------------------------------------
(* run_cycle and _run_cycle, by worker w.                                   *)

\* Variant used as a mutant: the cycle starts whether or not the lock was free.
Acquire_Blind(w) ==
    /\ pc[w] = "enter"
    /\ lock' = w
    /\ pc' = [pc EXCEPT ![w] = "prepare"]
    /\ started' = [started EXCEPT ![w] = clock]
    /\ UNCHANGED <<daemonVars, verdict, row, dataVars, clock, triggers>>

\* cycle_lock: LOCK_EX | LOCK_NB; the cycle is dated once the lock is held.
Acquire(w) ==
    /\ pc[w] = "enter"
    /\ lock = Nobody
    /\ lock' = w
    /\ pc' = [pc EXCEPT ![w] = "prepare"]
    /\ started' = [started EXCEPT ![w] = clock]
    /\ UNCHANGED <<daemonVars, verdict, row, dataVars, clock, triggers>>

\* Another cycle is running: {"status": "skipped"}, nothing is touched.
Skip(w) ==
    /\ pc[w] = "enter"
    /\ lock # Nobody
    /\ pc' = [pc EXCEPT ![w] = "idle"]
    /\ UNCHANGED <<daemonVars, lock, cycleVars, dataVars, clock, triggers>>

Go(w, from, to) == pc[w] = from /\ pc' = [pc EXCEPT ![w] = to]

Decide(w, status) == verdict' = [verdict EXCEPT ![w] = status]

\* Variant used as a mutant: a status outside RUN_STATUSES.
Prepare_Misnamed(w) ==
    /\ \/ Go(w, "prepare", "collect") /\ UNCHANGED verdict
       \/ Go(w, "prepare", "beat") /\ Decide(w, "no_targets")
    /\ UNCHANGED <<daemonVars, lock, started, row, dataVars, clock, triggers>>

\* client.bootstrap() and prepare_targets(): targets, none, or an exception.
Prepare(w) ==
    /\ \/ Go(w, "prepare", "collect") /\ UNCHANGED verdict
       \/ Go(w, "prepare", "beat") /\ Decide(w, "idle")
       \/ Go(w, "prepare", "beat") /\ Decide(w, "error")
    /\ UNCHANGED <<daemonVars, lock, started, row, dataVars, clock, triggers>>

\* Variant used as a mutant: a total outage is treated like an empty network.
Collect_OutageGoesOn(w) ==
    /\ Go(w, "collect", "record")
    /\ \E status \in {"ok", "degraded", "failed"} : Decide(w, status)
    /\ UNCHANGED <<daemonVars, lock, started, row, dataVars, clock, triggers>>

\* collect_all: every source answered, some did, or none.
Collect(w) ==
    /\ \/ Go(w, "collect", "record") /\ Decide(w, "ok")
       \/ Go(w, "collect", "record") /\ Decide(w, "degraded")
       \/ Go(w, "collect", "record_outage") /\ Decide(w, "failed")
    /\ UNCHANGED <<daemonVars, lock, started, row, dataVars, clock, triggers>>

\* begin_run and finish_run
Opened == [status |-> "idle", closed |-> FALSE]
Closed(v) == [status |-> v, closed |-> TRUE]

\* _record_run(..., "failed"), outside any try: when the store fails the
\* exception leaves the cycle, which ends without a heartbeat.
RecordOutage(w) ==
    /\ \/ /\ Go(w, "record_outage", "beat")
          /\ runs' = Append(runs, Closed("failed"))
       \/ /\ StoreFails
          /\ Go(w, "record_outage", "unlock")
          /\ UNCHANGED runs
    /\ UNCHANGED <<daemonVars, lock, cycleVars, storeAt, netboxAt, cleanedAt, heartbeat,
                   done, clock, triggers>>

\* The store transaction of a cycle with data; dry_run skips it, a failure of
\* the store does not stop the cycle.
Record(w) ==
    /\ Go(w, "record", "sync")
    /\ \/ /\ ~DryRun
          /\ runs' = Append(runs, Opened)
          /\ row' = [row EXCEPT ![w] = Len(runs) + 1]
          /\ storeAt' = started[w]
       \/ /\ DryRun \/ StoreFails
          /\ UNCHANGED <<runs, row, storeAt>>
    /\ UNCHANGED <<daemonVars, lock, started, verdict, netboxAt, cleanedAt, heartbeat,
                   done, clock, triggers>>

\* The data a step of this cycle may have written to NetBox; with dry_run the
\* client's write() drops it.
Pushed(w) == IF DryRun THEN netboxAt ELSE started[w]

\* build_prefix_index ... sync_endpoints write record by record ...
SyncWrites(w) ==
    /\ pc[w] = "sync"
    /\ netboxAt' = Pushed(w)
    /\ UNCHANGED <<daemonVars, pc, lock, cycleVars, runs, storeAt, cleanedAt, heartbeat,
                   done, clock, triggers>>

\* Variant used as a mutant: an exception of the sync is logged and the cycle
\* goes on.
SyncEnds_GoesOn(w) ==
    /\ Go(w, "sync", "cleanup")
    /\ \/ /\ netboxAt' = Pushed(w)
          /\ done' = done \cup {<<row[w], "sync">>}
       \/ UNCHANGED <<netboxAt, done>>
    /\ UNCHANGED <<daemonVars, lock, cycleVars, runs, storeAt, cleanedAt, heartbeat,
                   clock, triggers>>

\* ... and end with everything written, or with an exception anywhere.
SyncEnds(w) ==
    /\ \/ /\ Go(w, "sync", "cleanup")
          /\ netboxAt' = Pushed(w)
          /\ done' = done \cup {<<row[w], "sync">>}
          /\ UNCHANGED verdict
       \/ /\ Go(w, "sync", "beat")
          /\ Decide(w, "error")
          /\ UNCHANGED <<netboxAt, done>>
    /\ UNCHANGED <<daemonVars, lock, started, row, runs, storeAt, cleanedAt, heartbeat,
                   clock, triggers>>

\* run_cleanup: done, or an exception on the way.
Cleanup(w) ==
    /\ \/ /\ Go(w, "cleanup", "finish")
          /\ cleanedAt' = IF DryRun THEN cleanedAt ELSE started[w]
          /\ done' = done \cup {<<row[w], "cleanup">>}
          /\ UNCHANGED verdict
       \/ /\ Go(w, "cleanup", "beat")
          /\ Decide(w, "error")
          /\ UNCHANGED <<cleanedAt, done>>
    /\ UNCHANGED <<daemonVars, lock, started, row, runs, storeAt, netboxAt, heartbeat,
                   clock, triggers>>

\* finish_run, when there is a row to close; a failure is only logged.
Finish(w) ==
    /\ Go(w, "finish", "beat")
    /\ \/ /\ row[w] # NoRow
          /\ runs' = [runs EXCEPT ![row[w]] = Closed(verdict[w])]
       \/ /\ row[w] = NoRow \/ StoreFails
          /\ UNCHANGED runs
    /\ UNCHANGED <<daemonVars, lock, cycleVars, storeAt, netboxAt, cleanedAt, heartbeat,
                   done, clock, triggers>>

\* _write_heartbeat; an OSError is swallowed.
Beat(w) ==
    /\ Go(w, "beat", "unlock")
    /\ \/ heartbeat' = [status |-> verdict[w], finished |-> clock]
       \/ BeatFails /\ UNCHANGED heartbeat
    /\ UNCHANGED <<daemonVars, lock, cycleVars, runs, storeAt, netboxAt, cleanedAt, done,
                   clock, triggers>>

\* Variant used as a mutant: the lock is not given back.
Release_Leaks(w) ==
    /\ Go(w, "unlock", "idle")
    /\ Forget({w})
    /\ UNCHANGED <<daemonVars, lock, dataVars, clock, triggers>>

\* Variant used as a mutant: the cycle is run again instead of returning.
Release_Reruns(w) ==
    /\ Go(w, "unlock", "enter")
    /\ lock' = Nobody
    /\ Forget({w})
    /\ UNCHANGED <<daemonVars, dataVars, clock, triggers>>

\* The finally of cycle_lock.
Release(w) ==
    /\ Go(w, "unlock", "idle")
    /\ lock' = Nobody
    /\ Forget({w})
    /\ UNCHANGED <<daemonVars, dataVars, clock, triggers>>

Step(w) ==
    \/ Acquire(w) \/ Skip(w) \/ Prepare(w) \/ Collect(w) \/ RecordOutage(w) \/ Record(w)
    \/ SyncWrites(w) \/ SyncEnds(w) \/ Cleanup(w) \/ Finish(w) \/ Beat(w) \/ Release(w)

Tick ==
    /\ clock < MaxClock
    /\ clock' = clock + 1
    /\ UNCHANGED <<daemonVars, pc, lock, cycleVars, dataVars, triggers>>

Next ==
    \/ StartDaemon \/ Connect \/ GiveUp \/ Signal \/ LeaveLoop \/ Exit \/ CrashDaemon
    \/ SchedulerFires
    \/ \E w \in Api : TriggerScan(w)
    \/ \E w \in Once : RunOnce(w) \/ CrashOnce(w)
    \/ \E w \in Worker : Step(w)
    \/ Tick

Spec == Init /\ [][Next]_vars

\* A thread that can take its next step does so; the main thread polls its
\* flag every second.  Triggers, signals, crashes and the clock owe nothing.
Fairness ==
    /\ \A w \in Worker : WF_vars(Step(w))
    /\ WF_vars(LeaveLoop)
    /\ WF_vars(Exit)

FairSpec == Spec /\ Fairness

-----------------------------------------------------------------------------
(* Properties.                                                              *)

\* The lock is held exactly by the worker whose cycle is running: a cycle that
\* raised, was skipped or was killed leaves no lock behind.
LockIsNeverLeaked == \A w \in Worker : InCycle(w) <=> lock = w

\* Neither the store nor NetBox ever goes back to an older pass: cycles are
\* dated inside the lock (main.py:177).
NewestWins == [][storeAt' >= storeAt /\ netboxAt' >= netboxAt /\ cleanedAt' >= cleanedAt]_vars

\* A cycle no source answered changes neither the discovery data nor NetBox and
\* ages nothing out (main.py:214-223).
OutageChangesNothing ==
    [][\A w \in Worker : lock = w /\ verdict[w] = "failed" =>
          UNCHANGED <<storeAt, netboxAt, cleanedAt>>]_vars

\* A run row says ok or degraded only when the sync and the cleanup of that very
\* cycle both completed, so no cleanup followed a sync that raised
\* (main.py:259-264); every row that names an end has one.
RowsAreHonest ==
    \A i \in DOMAIN runs :
        /\ runs[i].status \in {"ok", "degraded"} => {<<i, "sync">>, <<i, "cleanup">>} \subseteq done
        /\ runs[i].closed <=> runs[i].status # "idle"

\* After a signal the daemon stops, whatever is triggered meanwhile.
ShutdownCompletes == daemon = "running" /\ shutdown ~> daemon = "down"

\* A request for a cycle ends: run or skipped, never left waiting.
TriggersAreServed == \A w \in Worker : pc[w] = "enter" ~> pc[w] = "idle"

\* The cycle lock as the abstract specification: the active worker is read off
\* the program counters, not off the lock.
Active == IF \E w \in Worker : InCycle(w) THEN CHOOSE w \in Worker : InCycle(w) ELSE Nobody

Serial == INSTANCE SerialCycles WITH active <- Active

\* Scan cycles implement SerialCycles.
ImplementsSerialCycles == Serial!Spec
=============================================================================
