--------------------------- MODULE ScanCycleProofs ---------------------------
(* Theorems about module ScanCycle, for any number of workers and every     *)
(* value of its constants.                                                  *)
EXTENDS ScanCycle, TLAPS

-----------------------------------------------------------------------------
(* Types.                                                                   *)

LEMMA WorkersAreWorkers ==
    /\ "startup" \in Worker /\ "scheduler" \in Worker
    /\ Api \subseteq Worker /\ Once \subseteq Worker /\ Resident \subseteq Worker
    /\ Nobody \notin Worker
  BY ScanCycleAssumption DEF Worker, Resident

\* The runs table stays a table of run rows when a row is added or rewritten.
LEMMA AppendKeepsRows ==
    ASSUME NEW s \in Seq(RunRow), NEW r \in RunRow
    PROVE  Append(s, r) \in Seq(RunRow)
  OBVIOUS

LEMMA UpdateKeepsRows ==
    ASSUME NEW s \in Seq(RunRow), NEW i, NEW r \in RunRow
    PROVE  [s EXCEPT ![i] = r] \in Seq(RunRow)
  <1>1. s \in [1 .. Len(s) -> RunRow] /\ Len(s) \in Nat
    OBVIOUS
  <1>2. [s EXCEPT ![i] = r] \in [1 .. Len(s) -> RunRow]
    BY <1>1
  <1> QED
    BY <1>1, <1>2

LEMMA CycleTypeInit == Init => TypeOK
  <1> SUFFICES ASSUME Init PROVE TypeOK
    OBVIOUS
  <1>1. pc \in [Worker -> Phase] /\ started \in [Worker -> Nat]
        /\ verdict \in [Worker -> Status] /\ row \in [Worker -> Nat]
    BY DEF Init, Phase, Status, NoRow
  <1>2. runs \in Seq(RunRow)
    BY DEF Init
  <1> QED
    BY <1>1, <1>2 DEF Init, TypeOK, Status, BeatFile

LEMMA KilledType ==
    ASSUME TypeOK, NEW dead, Killed(dead)
    PROVE  /\ pc' \in [Worker -> Phase] /\ lock' \in Worker \cup {Nobody}
           /\ started' \in [Worker -> Nat] /\ verdict' \in [Worker -> Status]
           /\ row' \in [Worker -> Nat]
  BY DEF TypeOK, Killed, Forget, Phase, Status, NoRow

LEMMA DaemonType ==
    ASSUME TypeOK,
           StartDaemon \/ Connect \/ GiveUp \/ Signal \/ LeaveLoop \/ Exit \/ CrashDaemon
    PROVE  TypeOK'
  <1>1. CASE StartDaemon
    <2>1. triggers' \in Nat /\ daemon' = "connecting" /\ shutdown' = FALSE
      BY <1>1 DEF StartDaemon, TypeOK
    <2>2. UNCHANGED <<pc, lock, cycleVars, dataVars, clock>>
      BY <1>1 DEF StartDaemon
    <2> QED
      BY <2>1, <2>2 DEF TypeOK, cycleVars, dataVars
  <1>2. CASE Connect
    <2>1. pc' \in [Worker -> Phase]
      BY <1>2 DEF Connect, TypeOK, Phase
    <2> QED
      BY <1>2, <2>1 DEF Connect, TypeOK, cycleVars, dataVars
  <1>3. CASE GiveUp
    BY <1>3, KilledType DEF GiveUp, Killed, TypeOK, dataVars
  <1>4. CASE Signal
    BY <1>4 DEF Signal, TypeOK, cycleVars, dataVars
  <1>5. CASE LeaveLoop
    BY <1>5 DEF LeaveLoop, TypeOK, cycleVars, dataVars
  <1>6. CASE Exit
    BY <1>6, KilledType DEF Exit, Killed, TypeOK, dataVars
  <1>7. CASE CrashDaemon
    BY <1>7, KilledType DEF CrashDaemon, Killed, TypeOK, dataVars
  <1> QED
    BY <1>1, <1>2, <1>3, <1>4, <1>5, <1>6, <1>7

LEMMA TriggerType ==
    ASSUME TypeOK, NEW w \in Worker, Trigger(w)
    PROVE  TypeOK'
  <1>1. pc' \in [Worker -> Phase]
    BY DEF Trigger, TypeOK, Phase
  <1> QED
    BY <1>1 DEF Trigger, TypeOK, daemonVars, cycleVars, dataVars

LEMMA StepType ==
    ASSUME TypeOK, NEW w \in Worker, Step(w)
    PROVE  TypeOK'
  <1> USE DEF daemonVars, cycleVars, dataVars
  <1>1. pc' \in [Worker -> Phase]
    BY DEF Step, Acquire, Skip, Prepare, Collect, RecordOutage, Record, SyncWrites, SyncEnds,
           Cleanup, Finish, Beat, Release, Go, TypeOK, Phase, Critical
  <1>2. verdict' \in [Worker -> Status]
    BY DEF Step, Acquire, Skip, Prepare, Collect, RecordOutage, Record, SyncWrites, SyncEnds,
           Cleanup, Finish, Beat, Release, Decide, Forget, TypeOK, Status
  <1>3. runs' \in Seq(RunRow)
    <2>0. /\ runs \in Seq(RunRow)
          /\ Closed("failed") \in RunRow /\ Opened \in RunRow /\ Closed(verdict[w]) \in RunRow
      BY DEF TypeOK, RunRow, Status, Opened, Closed
    <2>1. CASE RecordOutage(w)
      <3>1. runs' = Append(runs, Closed("failed")) \/ runs' = runs
        BY <2>1 DEF RecordOutage
      <3> QED
        BY <2>0, <3>1, AppendKeepsRows
    <2>2. CASE Record(w)
      <3>1. runs' = Append(runs, Opened) \/ runs' = runs
        BY <2>2 DEF Record
      <3> QED
        BY <2>0, <3>1, AppendKeepsRows
    <2>3. CASE Finish(w)
      <3>1. runs' = [runs EXCEPT ![row[w]] = Closed(verdict[w])] \/ runs' = runs
        BY <2>3 DEF Finish
      <3> QED
        BY <2>0, <3>1, UpdateKeepsRows
    <2>4. CASE UNCHANGED runs
      BY <2>4 DEF TypeOK
    <2> QED
      BY <2>1, <2>2, <2>3, <2>4 DEF Step, Acquire, Skip, Prepare, Collect, SyncWrites, SyncEnds,
           Cleanup, Beat, Release
  <1>4. lock' \in Worker \cup {Nobody} /\ started' \in [Worker -> Nat]
    <2>1. CASE Acquire(w)
      BY <2>1 DEF Acquire, TypeOK
    <2>2. CASE Release(w)
      BY <2>2 DEF Release, Forget, TypeOK
    <2>3. CASE UNCHANGED <<lock, started>>
      BY <2>3 DEF TypeOK
    <2> QED
      BY <2>1, <2>2, <2>3 DEF Step, Skip, Prepare, Collect, RecordOutage, Record, SyncWrites,
           SyncEnds, Cleanup, Finish, Beat
  <1>5. row' \in [Worker -> Nat]
    <2>1. CASE Record(w)
      BY <2>1 DEF Record, TypeOK
    <2>2. CASE Release(w)
      BY <2>2 DEF Release, Forget, NoRow, TypeOK
    <2>3. CASE UNCHANGED row
      BY <2>3 DEF TypeOK
    <2> QED
      BY <2>1, <2>2, <2>3 DEF Step, Acquire, Skip, Prepare, Collect, RecordOutage, SyncWrites,
           SyncEnds, Cleanup, Finish, Beat
  <1>6. storeAt' \in Nat /\ netboxAt' \in Nat /\ cleanedAt' \in Nat
    BY DEF Step, Acquire, Skip, Prepare, Collect, RecordOutage, Record, SyncWrites, SyncEnds,
           Cleanup, Finish, Beat, Release, Pushed, TypeOK
  <1>7. heartbeat' \in BeatFile
    BY DEF Step, Acquire, Skip, Prepare, Collect, RecordOutage, Record, SyncWrites, SyncEnds,
           Cleanup, Finish, Beat, Release, BeatFile, TypeOK
  <1>8. done' \subseteq Nat \X {"sync", "cleanup"}
    <2>1. done' \in {done, done \cup {<<row[w], "sync">>}, done \cup {<<row[w], "cleanup">>}}
      BY DEF Step, Acquire, Skip, Prepare, Collect, RecordOutage, Record, SyncWrites, SyncEnds,
             Cleanup, Finish, Beat, Release, dataVars
    <2>2. row[w] \in Nat /\ done \subseteq Nat \X {"sync", "cleanup"}
      BY DEF TypeOK
    <2> QED
      BY <2>1, <2>2
  <1>9. UNCHANGED <<daemon, shutdown, clock, triggers>>
    BY DEF Step, Acquire, Skip, Prepare, Collect, RecordOutage, Record, SyncWrites, SyncEnds,
           Cleanup, Finish, Beat, Release
  <1> QED
    BY <1>1, <1>2, <1>3, <1>4, <1>5, <1>6, <1>7, <1>8, <1>9 DEF TypeOK

LEMMA TickType == TypeOK /\ Tick => TypeOK'
  BY DEF Tick, TypeOK, daemonVars, cycleVars, dataVars

LEMMA CycleTypeStep ==
    ASSUME TypeOK, [Next]_vars
    PROVE  TypeOK'
  <1>1. ASSUME NEW w \in Worker, Trigger(w) PROVE TypeOK'
    BY <1>1, TriggerType
  <1>2. CASE SchedulerFires
    BY <1>1, <1>2, WorkersAreWorkers DEF SchedulerFires
  <1>3. ASSUME NEW w \in Api, TriggerScan(w) PROVE TypeOK'
    BY <1>1, <1>3, WorkersAreWorkers DEF TriggerScan
  <1>4. ASSUME NEW w \in Once, RunOnce(w) PROVE TypeOK'
    BY <1>1, <1>4, WorkersAreWorkers DEF RunOnce
  <1>5. ASSUME NEW w \in Once, CrashOnce(w) PROVE TypeOK'
    BY <1>5, KilledType DEF CrashOnce, Killed, TypeOK, daemonVars, dataVars
  <1>6. ASSUME NEW w \in Worker, Step(w) PROVE TypeOK'
    BY <1>6, StepType
  <1>7. CASE UNCHANGED vars
    BY <1>7 DEF vars, TypeOK, daemonVars, cycleVars, dataVars
  <1> QED
    BY <1>2, <1>3, <1>4, <1>5, <1>6, <1>7, DaemonType, TickType DEF Next

\* The state of the daemon, of the workers, of the run table and of the two
\* destinations keeps its types, crashes and failures included.
THEOREM CycleTypeCorrect == Spec => []TypeOK
  <1>1. TypeOK /\ [Next]_vars => TypeOK'
    BY CycleTypeStep
  <1> QED
    BY CycleTypeInit, <1>1, PTL DEF Spec

-----------------------------------------------------------------------------
(* The lock.  LockIsNeverLeaked is inductive as it stands, given the types:  *)
(* the workers in a cycle are exactly the holder of the lock.                *)

LEMMA LockInit == Init => LockIsNeverLeaked
  BY WorkersAreWorkers DEF Init, LockIsNeverLeaked, InCycle, Critical

LEMMA KilledLock ==
    ASSUME TypeOK, LockIsNeverLeaked, NEW dead, Killed(dead)
    PROVE  LockIsNeverLeaked'
  <1> SUFFICES ASSUME NEW w \in Worker
               PROVE  InCycle(w)' <=> lock' = w
    BY DEF LockIsNeverLeaked
  <1>1. CASE w \in dead
    BY <1>1, WorkersAreWorkers DEF Killed, InCycle, Critical, TypeOK
  <1>2. CASE w \notin dead
    BY <1>2, WorkersAreWorkers DEF Killed, InCycle, LockIsNeverLeaked, TypeOK
  <1> QED
    BY <1>1, <1>2

\* A worker that is not in a cycle may start one or not; nobody else is touched.
LEMMA OutsideLock ==
    ASSUME TypeOK, LockIsNeverLeaked, UNCHANGED lock, NEW w \in Worker,
           ~InCycle(w), NEW to, to \notin Critical, pc' = [pc EXCEPT ![w] = to]
    PROVE  LockIsNeverLeaked'
  <1> SUFFICES ASSUME NEW v \in Worker
               PROVE  InCycle(v)' <=> lock = v
    BY DEF LockIsNeverLeaked
  <1>1. pc'[v] = IF v = w THEN to ELSE pc[v]
    BY DEF TypeOK
  <1> QED
    BY <1>1 DEF InCycle, LockIsNeverLeaked

LEMMA StepLock ==
    ASSUME TypeOK, LockIsNeverLeaked, NEW w \in Worker, Step(w)
    PROVE  LockIsNeverLeaked'
  <1>1. ASSUME NEW to \in Critical, UNCHANGED lock, InCycle(w), pc' = [pc EXCEPT ![w] = to]
        PROVE  LockIsNeverLeaked'
    <2> SUFFICES ASSUME NEW v \in Worker
                 PROVE  InCycle(v)' <=> lock = v
      BY <1>1 DEF LockIsNeverLeaked
    <2>1. pc'[v] = IF v = w THEN to ELSE pc[v]
      BY <1>1 DEF TypeOK
    <2> QED
      BY <1>1, <2>1 DEF InCycle, LockIsNeverLeaked
  <1>2. CASE Acquire(w)
    <2> SUFFICES ASSUME NEW v \in Worker
                 PROVE  InCycle(v)' <=> lock' = v
      BY DEF LockIsNeverLeaked
    <2>1. lock = Nobody /\ lock' = w /\ pc'[v] = IF v = w THEN "prepare" ELSE pc[v]
      BY <1>2 DEF Acquire, TypeOK
    <2>2. ~InCycle(v)
      BY <2>1, WorkersAreWorkers DEF LockIsNeverLeaked
    <2> QED
      BY <2>1, <2>2 DEF InCycle, Critical
  <1>3. CASE Skip(w)
    BY <1>3, OutsideLock DEF Skip, InCycle, Critical
  <1>4. CASE Release(w)
    <2> SUFFICES ASSUME NEW v \in Worker
                 PROVE  InCycle(v)' <=> lock' = v
      BY DEF LockIsNeverLeaked
    <2>1. pc[w] = "unlock" /\ lock' = Nobody /\ pc'[v] = IF v = w THEN "idle" ELSE pc[v]
      BY <1>4 DEF Release, Go, TypeOK
    <2>2. lock = w
      BY <2>1 DEF LockIsNeverLeaked, InCycle, Critical
    <2>3. v # w => ~InCycle(v)
      BY <2>2 DEF LockIsNeverLeaked
    <2> QED
      BY <2>1, <2>3, WorkersAreWorkers DEF InCycle, Critical
  <1>5. CASE SyncWrites(w)
    BY <1>5 DEF SyncWrites, LockIsNeverLeaked, InCycle
  <1>6. CASE Prepare(w)
    BY <1>1, <1>6 DEF Prepare, Go, InCycle, Critical
  <1>7. CASE Collect(w)
    BY <1>1, <1>7 DEF Collect, Go, InCycle, Critical
  <1>8. CASE RecordOutage(w)
    BY <1>1, <1>8 DEF RecordOutage, Go, InCycle, Critical
  <1>9. CASE Record(w)
    BY <1>1, <1>9 DEF Record, Go, InCycle, Critical
  <1>10. CASE SyncEnds(w)
    BY <1>1, <1>10 DEF SyncEnds, Go, InCycle, Critical
  <1>11. CASE Cleanup(w)
    BY <1>1, <1>11 DEF Cleanup, Go, InCycle, Critical
  <1>12. CASE Finish(w)
    BY <1>1, <1>12 DEF Finish, Go, InCycle, Critical
  <1>13. CASE Beat(w)
    BY <1>1, <1>13 DEF Beat, Go, InCycle, Critical
  <1> QED
    BY <1>2, <1>3, <1>4, <1>5, <1>6, <1>7, <1>8, <1>9, <1>10, <1>11, <1>12, <1>13 DEF Step

\* The initial cycle only runs while the main thread is past the connection
\* loop and not yet in the shutdown.  Without it Connect could start a second
\* cycle for a main thread that holds the lock.
StartupIsIdle == daemon # "running" => pc["startup"] = "idle"

LockInv == TypeOK /\ LockIsNeverLeaked /\ StartupIsIdle

LEMMA LockInvInit == Init => LockInv
  BY CycleTypeInit, LockInit, WorkersAreWorkers DEF Init, LockInv, StartupIsIdle

LEMMA DaemonLock ==
    ASSUME LockInv,
           StartDaemon \/ Connect \/ GiveUp \/ Signal \/ LeaveLoop \/ Exit \/ CrashDaemon
    PROVE  LockIsNeverLeaked' /\ StartupIsIdle'
  <1> USE DEF LockInv
  <1>1. CASE StartDaemon \/ Signal \/ LeaveLoop
    <2>1. UNCHANGED <<pc, lock>>
      BY <1>1 DEF StartDaemon, Signal, LeaveLoop
    <2>2. LockIsNeverLeaked'
      BY <2>1 DEF LockIsNeverLeaked, InCycle
    <2> QED
      BY <1>1, <2>1, <2>2 DEF StartDaemon, Signal, LeaveLoop, StartupIsIdle
  <1>2. CASE Connect
    <2>1. ~InCycle("startup")
      BY <1>2 DEF Connect, StartupIsIdle, InCycle, Critical
    <2>2. LockIsNeverLeaked'
      <3>1. CASE RunOnStart
        BY <1>2, <2>1, <3>1, OutsideLock, WorkersAreWorkers DEF Connect, Critical
      <3>2. CASE ~RunOnStart
        BY <1>2, <3>2 DEF Connect, LockIsNeverLeaked, InCycle
      <3> QED
        BY <3>1, <3>2
    <2> QED
      BY <1>2, <2>2 DEF Connect, StartupIsIdle
  <1>3. CASE Killed(Resident)
    <2>1. pc'["startup"] = "idle"
      BY <1>3, WorkersAreWorkers DEF Killed, Resident
    <2> QED
      BY <1>3, <2>1, KilledLock DEF StartupIsIdle
  <1> QED
    BY <1>1, <1>2, <1>3 DEF GiveUp, Exit, CrashDaemon

LEMMA LockInvStep ==
    ASSUME LockInv, [Next]_vars
    PROVE  LockInv'
  <1> USE DEF LockInv
  <1>1. TypeOK'
    BY CycleTypeStep
  <1>2. ASSUME NEW w \in Worker, Trigger(w) PROVE LockIsNeverLeaked'
    BY <1>2, OutsideLock DEF Trigger, InCycle, Critical
  <1>3. ASSUME NEW w \in Worker, Trigger(w), w # "startup" PROVE StartupIsIdle'
    BY <1>3, WorkersAreWorkers DEF Trigger, StartupIsIdle, TypeOK, daemonVars
  <1>4. CASE SchedulerFires
    BY <1>1, <1>2, <1>3, <1>4, WorkersAreWorkers DEF SchedulerFires
  <1>5. ASSUME NEW w \in Api, TriggerScan(w) PROVE LockInv'
    BY <1>1, <1>2, <1>3, <1>5, WorkersAreWorkers, ScanCycleAssumption DEF TriggerScan
  <1>6. ASSUME NEW w \in Once, RunOnce(w) PROVE LockInv'
    <2>1. w # "startup"
      BY ScanCycleAssumption DEF Resident
    <2> QED
      BY <1>1, <1>2, <1>3, <1>6, <2>1, WorkersAreWorkers DEF RunOnce
  <1>7. ASSUME NEW w \in Once, CrashOnce(w) PROVE LockInv'
    <2>1. w # "startup" /\ Killed({w}) /\ daemon' = daemon
      BY <1>7, ScanCycleAssumption DEF Resident, CrashOnce, daemonVars
    <2>2. LockIsNeverLeaked'
      BY <2>1, KilledLock
    <2>3. pc'["startup"] = pc["startup"]
      BY <2>1, WorkersAreWorkers DEF Killed, TypeOK
    <2> QED
      BY <1>1, <2>1, <2>2, <2>3 DEF StartupIsIdle
  <1>8. ASSUME NEW w \in Worker, Step(w) PROVE LockInv'
    <2>1. LockIsNeverLeaked'
      BY <1>8, StepLock
    <2>2. pc[w] # "idle" /\ daemon' = daemon
      BY <1>8 DEF Step, Acquire, Skip, Prepare, Collect, RecordOutage, Record, SyncWrites,
           SyncEnds, Cleanup, Finish, Beat, Release, Go, daemonVars
    <2>3. w = "startup" \/ pc'["startup"] = pc["startup"]
      BY <1>8, WorkersAreWorkers DEF Step, Acquire, Skip, Prepare, Collect, RecordOutage, Record,
           SyncWrites, SyncEnds, Cleanup, Finish, Beat, Release, Go, TypeOK
    <2> QED
      BY <1>1, <2>1, <2>2, <2>3 DEF StartupIsIdle
  <1>9. CASE Tick \/ UNCHANGED vars
    <2>1. UNCHANGED <<daemon, pc, lock>>
      BY <1>9 DEF Tick, vars, daemonVars
    <2> QED
      BY <1>1, <2>1 DEF StartupIsIdle, LockIsNeverLeaked, InCycle
  <1> QED
    BY <1>1, <1>4, <1>5, <1>6, <1>7, <1>8, <1>9, DaemonLock DEF Next

LEMMA LockInvariant == Spec => []LockInv
  <1>1. LockInv /\ [Next]_vars => LockInv'
    BY LockInvStep
  <1> QED
    BY LockInvInit, <1>1, PTL DEF Spec

\* The cycle lock is held exactly by the worker in a cycle, for any number of
\* workers: no exception, skip, shutdown or crash leaks it.
THEOREM LockTracksCycle == Spec => []LockIsNeverLeaked
  <1>1. LockInv => LockIsNeverLeaked
    BY DEF LockInv
  <1> QED
    BY <1>1, LockInvariant, PTL

\* No two cycles run at once, whichever threads or processes started them
\* ("Serialise cycles across processes", cycle_lock).
MutualExclusion == \A v, w \in Worker : InCycle(v) /\ InCycle(w) => v = w

\* No two scan cycles ever run at the same time.
THEOREM CyclesExclude == Spec => []MutualExclusion
  <1>1. LockInv => MutualExclusion
    BY DEF LockInv, LockIsNeverLeaked, MutualExclusion
  <1> QED
    BY <1>1, LockInvariant, PTL

-----------------------------------------------------------------------------
(* Dates.  NewestWins needs to know that the holder of the lock has dated    *)
(* its cycle after everything written so far.                                *)

Dated ==
    /\ storeAt <= clock /\ netboxAt <= clock /\ cleanedAt <= clock
    /\ \A w \in Worker : InCycle(w) =>
          /\ started[w] <= clock
          /\ storeAt <= started[w] /\ netboxAt <= started[w] /\ cleanedAt <= started[w]

DateInv == LockInv /\ Dated

LEMMA DatedInit == Init => Dated
  BY WorkersAreWorkers DEF Init, Dated, InCycle, Critical

\* What one step of a cycle does to the dates.
Forward ==
    /\ storeAt' >= storeAt /\ netboxAt' >= netboxAt /\ cleanedAt' >= cleanedAt

\* Outside a worker's own step nothing is written and no cycle is started.
LEMMA Elsewhere ==
    ASSUME DateInv, UNCHANGED <<storeAt, netboxAt, cleanedAt>>, clock' \in Nat, clock' >= clock,
           \A w \in Worker : InCycle(w)' => InCycle(w) /\ started'[w] = started[w]
    PROVE  Dated' /\ Forward
  <1> USE DEF DateInv, LockInv, TypeOK
  <1>1. storeAt \in Nat /\ netboxAt \in Nat /\ cleanedAt \in Nat /\ clock \in Nat
    OBVIOUS
  <1>2. ASSUME NEW w \in Worker, InCycle(w)'
        PROVE  /\ started'[w] <= clock'
               /\ storeAt <= started'[w] /\ netboxAt <= started'[w] /\ cleanedAt <= started'[w]
    BY <1>1, <1>2 DEF Dated
  <1> QED
    BY <1>1, <1>2 DEF Dated, Forward

\* The dates a step of worker w may leave behind.
LEMMA OwnWrites ==
    ASSUME DateInv, NEW w \in Worker, InCycle(w), UNCHANGED <<clock, started>>,
           storeAt' \in {storeAt, started[w]}, netboxAt' \in {netboxAt, started[w]},
           cleanedAt' \in {cleanedAt, started[w]},
           \A v \in Worker : InCycle(v)' => v = w
    PROVE  Dated' /\ Forward
  <1>1. storeAt \in Nat /\ netboxAt \in Nat /\ cleanedAt \in Nat /\ clock \in Nat
        /\ started[w] \in Nat
    BY DEF DateInv, LockInv, TypeOK
  <1>2. started[w] <= clock /\ storeAt <= started[w] /\ netboxAt <= started[w]
        /\ cleanedAt <= started[w]
    BY DEF DateInv, Dated
  <1> QED
    BY <1>1, <1>2 DEF Dated, Forward

LEMMA StepDates ==
    ASSUME DateInv, NEW w \in Worker, Step(w)
    PROVE  Dated' /\ Forward
  <1> USE DEF DateInv, LockInv
  <1>1. LockIsNeverLeaked'
    BY StepLock
  <1>2. CASE Acquire(w)
    <2>1. UNCHANGED <<storeAt, netboxAt, cleanedAt, clock>> /\ started'[w] = clock
      BY <1>2 DEF Acquire, TypeOK, dataVars
    <2>2. \A v \in Worker : InCycle(v)' => v = w
      BY <1>1, <1>2 DEF Acquire, LockIsNeverLeaked
    <2>3. storeAt \in Nat /\ netboxAt \in Nat /\ cleanedAt \in Nat /\ clock \in Nat
      BY DEF TypeOK
    <2> QED
      BY <2>1, <2>2, <2>3 DEF Dated, Forward
  <1>3. CASE Skip(w) \/ Release(w)
    <2>1. UNCHANGED <<storeAt, netboxAt, cleanedAt, clock>>
      BY <1>3 DEF Skip, Release, dataVars
    <2>2. ASSUME NEW v \in Worker, InCycle(v)'
          PROVE  InCycle(v) /\ started'[v] = started[v]
      <3>1. pc'[w] = "idle" /\ (v # w => pc'[v] = pc[v])
        BY <1>3 DEF Skip, Release, Go, TypeOK
      <3>2. v # w
        BY <2>2, <3>1 DEF InCycle, Critical
      <3> QED
        BY <1>3, <2>2, <3>1, <3>2 DEF InCycle, Skip, Release, Forget, cycleVars
    <2> QED
      BY <2>1, <2>2, Elsewhere DEF TypeOK
  <1>4. CASE ~Acquire(w) /\ ~Skip(w) /\ ~Release(w)
    <2>1. InCycle(w) /\ UNCHANGED <<lock, clock, started>>
      BY <1>4 DEF Step, Prepare, Collect, RecordOutage, Record, SyncWrites, SyncEnds, Cleanup,
             Finish, Beat, Go, InCycle, Critical, cycleVars
    <2>2. \A v \in Worker : InCycle(v)' => v = w
      BY <1>1, <2>1 DEF LockIsNeverLeaked
    <2>3. /\ storeAt' \in {storeAt, started[w]}
          /\ netboxAt' \in {netboxAt, started[w]}
          /\ cleanedAt' \in {cleanedAt, started[w]}
      BY <1>4 DEF Step, Prepare, Collect, RecordOutage, Record, SyncWrites, SyncEnds, Cleanup,
             Finish, Beat, Pushed, dataVars
    <2> QED
      BY <2>1, <2>2, <2>3, OwnWrites
  <1> QED
    BY <1>2, <1>3, <1>4

LEMMA KilledDates ==
    ASSUME DateInv, NEW dead, Killed(dead)
    PROVE  Dated' /\ Forward
  <1>1. UNCHANGED <<storeAt, netboxAt, cleanedAt, clock>>
    BY DEF Killed, dataVars
  <1>2. ASSUME NEW w \in Worker, InCycle(w)'
        PROVE  InCycle(w) /\ started'[w] = started[w]
    BY <1>2 DEF Killed, Forget, InCycle, Critical
  <1> QED
    BY <1>1, <1>2, Elsewhere DEF DateInv, LockInv, TypeOK

\* Worker w is called, or not: nobody enters a cycle by that.
LEMMA CalledDates ==
    ASSUME DateInv, UNCHANGED <<cycleVars, dataVars, clock>>, NEW w \in Worker,
           pc' = [pc EXCEPT ![w] = "enter"] \/ pc' = pc
    PROVE  Dated' /\ Forward
  <1>1. UNCHANGED <<storeAt, netboxAt, cleanedAt, clock, started>>
    BY DEF cycleVars, dataVars
  <1>2. ASSUME NEW v \in Worker, InCycle(v)' PROVE InCycle(v)
    BY <1>2 DEF InCycle, Critical, DateInv, LockInv, TypeOK
  <1> QED
    BY <1>1, <1>2, Elsewhere DEF DateInv, LockInv, TypeOK

LEMMA DateStep ==
    ASSUME DateInv, [Next]_vars
    PROVE  Dated' /\ Forward
  <1>1. CASE StartDaemon \/ Connect \/ Signal \/ LeaveLoop
    BY <1>1, CalledDates, WorkersAreWorkers DEF StartDaemon, Connect, Signal, LeaveLoop
  <1>2. CASE GiveUp \/ Exit \/ CrashDaemon
    BY <1>2, KilledDates DEF GiveUp, Exit, CrashDaemon
  <1>3. ASSUME NEW w \in Worker, Trigger(w) PROVE Dated' /\ Forward
    BY <1>3, CalledDates DEF Trigger
  <1>4. CASE SchedulerFires
    BY <1>3, <1>4, WorkersAreWorkers DEF SchedulerFires
  <1>5. ASSUME NEW w \in Api, TriggerScan(w) PROVE Dated' /\ Forward
    BY <1>3, <1>5, WorkersAreWorkers DEF TriggerScan
  <1>6. ASSUME NEW w \in Once, RunOnce(w) \/ CrashOnce(w) PROVE Dated' /\ Forward
    BY <1>3, <1>6, KilledDates, WorkersAreWorkers DEF RunOnce, CrashOnce
  <1>7. ASSUME NEW w \in Worker, Step(w) PROVE Dated' /\ Forward
    BY <1>7, StepDates
  <1>8. CASE Tick
    <2>1. UNCHANGED <<pc, cycleVars, dataVars>> /\ clock' = clock + 1 /\ clock \in Nat
      BY <1>8 DEF Tick, DateInv, LockInv, TypeOK
    <2>2. UNCHANGED <<storeAt, netboxAt, cleanedAt, started>>
      BY <2>1 DEF cycleVars, dataVars
    <2>3. \A w \in Worker : InCycle(w)' => InCycle(w)
      BY <2>1 DEF InCycle
    <2> QED
      BY <2>1, <2>2, <2>3, Elsewhere
  <1>9. CASE UNCHANGED vars
    <2>1. UNCHANGED <<pc, cycleVars, dataVars, clock>>
      BY <1>9 DEF vars
    <2> QED
      BY <2>1, CalledDates, WorkersAreWorkers
  <1> QED
    BY <1>1, <1>2, <1>4, <1>5, <1>6, <1>7, <1>8, <1>9 DEF Next

LEMMA DateInvariant == Spec => []DateInv
  <1>1. Init => DateInv
    BY LockInvInit, DatedInit DEF DateInv
  <1>2. DateInv /\ [Next]_vars => DateInv'
    BY LockInvStep, DateStep DEF DateInv
  <1> QED
    BY <1>1, <1>2, PTL DEF Spec

\* Neither the store, nor NetBox, nor the cleanup ever falls back to an older
\* pass over the network, whoever started the cycles and whenever they died.
THEOREM NeverGoesBack == Spec => NewestWins
  <1>1. DateInv /\ [Next]_vars => [storeAt' >= storeAt /\ netboxAt' >= netboxAt
                                     /\ cleanedAt' >= cleanedAt]_vars
    BY DateStep DEF Forward
  <1> QED
    BY <1>1, DateInvariant, PTL DEF Spec, NewestWins

-----------------------------------------------------------------------------
(* The refinement.  Under LockIsNeverLeaked the active worker of the mapping *)
(* is the holder of the lock, so a step maps to Begin, Write, End or nothing *)
(* by what it does to the lock and to the dates.                             *)

LEMMA ActiveIsHolder ==
    ASSUME TypeOK, LockIsNeverLeaked
    PROVE  Active = lock
  <1>1. CASE lock \in Worker
    <2>1. InCycle(lock) /\ \A w \in Worker : InCycle(w) => w = lock
      BY <1>1 DEF LockIsNeverLeaked
    <2> QED
      BY <1>1, <2>1 DEF Active
  <1>2. CASE lock = Nobody
    <2>1. \A w \in Worker : ~InCycle(w)
      BY <1>2, WorkersAreWorkers DEF LockIsNeverLeaked
    <2> QED
      BY <1>2, <2>1 DEF Active
  <1> QED
    BY <1>1, <1>2 DEF TypeOK

\* What a step may do to the lock and the dates together.
LEMMA StepMoves ==
    ASSUME DateInv, [Next]_vars
    PROVE  \/ UNCHANGED <<lock, storeAt, netboxAt>>
           \/ lock = Nobody /\ lock' \in Worker /\ UNCHANGED <<storeAt, netboxAt>>
           \/ lock \in Worker /\ lock' = Nobody /\ UNCHANGED <<storeAt, netboxAt>>
           \/ lock \in Worker /\ lock' = lock /\ (storeAt' = storeAt \/ netboxAt' = netboxAt)
  <1> USE DEF DateInv, LockInv
  <1>1. ASSUME NEW dead, Killed(dead)
        PROVE  /\ UNCHANGED <<storeAt, netboxAt>>
               /\ lock' = lock \/ (lock \in Worker /\ lock' = Nobody)
    BY <1>1 DEF Killed, dataVars, TypeOK
  <1>2. ASSUME NEW w \in Worker, Trigger(w) PROVE UNCHANGED <<lock, storeAt, netboxAt>>
    BY <1>2 DEF Trigger, dataVars
  <1>3. CASE \/ StartDaemon \/ Connect \/ Signal \/ LeaveLoop \/ Tick \/ UNCHANGED vars
    BY <1>3 DEF StartDaemon, Connect, Signal, LeaveLoop, Tick, vars, dataVars
  <1>4. CASE GiveUp \/ Exit \/ CrashDaemon \/ \E w \in Once : CrashOnce(w)
    BY <1>1, <1>4 DEF GiveUp, Exit, CrashDaemon, CrashOnce
  <1>5. CASE SchedulerFires \/ (\E w \in Api : TriggerScan(w)) \/ \E w \in Once : RunOnce(w)
    BY <1>2, <1>5, WorkersAreWorkers DEF SchedulerFires, TriggerScan, RunOnce
  <1>6. ASSUME NEW w \in Worker, Acquire(w)
        PROVE  lock = Nobody /\ lock' = w /\ UNCHANGED <<storeAt, netboxAt>>
    BY <1>6 DEF Acquire, dataVars
  <1>7. ASSUME NEW w \in Worker, Skip(w) PROVE UNCHANGED <<lock, storeAt, netboxAt>>
    BY <1>7 DEF Skip, dataVars
  <1>8. ASSUME NEW w \in Worker, Release(w)
        PROVE  lock = w /\ lock' = Nobody /\ UNCHANGED <<storeAt, netboxAt>>
    BY <1>8 DEF Release, Go, dataVars, LockIsNeverLeaked, InCycle, Critical
  <1>9. ASSUME NEW w \in Worker, Step(w), ~Acquire(w), ~Skip(w), ~Release(w)
        PROVE  lock = w /\ lock' = lock /\ (storeAt' = storeAt \/ netboxAt' = netboxAt)
    <2>1. InCycle(w)
      BY <1>9 DEF Step, Prepare, Collect, RecordOutage, Record, SyncWrites, SyncEnds, Cleanup,
             Finish, Beat, Go, InCycle, Critical
    <2>2. lock' = lock /\ (storeAt' = storeAt \/ netboxAt' = netboxAt)
      BY <1>9 DEF Step, Prepare, Collect, RecordOutage, Record, SyncWrites, SyncEnds, Cleanup,
             Finish, Beat, dataVars
    <2> QED
      BY <2>1, <2>2 DEF LockIsNeverLeaked
  <1> QED
    BY <1>3, <1>4, <1>5, <1>6, <1>7, <1>8, <1>9 DEF Next

LEMMA StepRefines ==
    ASSUME DateInv, DateInv', [Next]_vars
    PROVE  [Serial!Next]_(Serial!vars)
  <1>1. Active = lock /\ Active' = lock'
    <2>1. Active = lock
      BY ActiveIsHolder DEF DateInv, LockInv
    <2>2. \A w \in Worker : InCycle(w)' <=> lock' = w
      BY DEF DateInv, LockInv, LockIsNeverLeaked
    <2>3. lock' \in Worker \cup {Nobody}
      BY DEF DateInv, LockInv, TypeOK
    <2>4. CASE lock' \in Worker
      BY <2>1, <2>2, <2>4 DEF Active
    <2>5. CASE lock' = Nobody
      BY <2>1, <2>2, <2>5, WorkersAreWorkers DEF Active
    <2> QED
      BY <2>3, <2>4, <2>5
  <1>2. storeAt' >= storeAt /\ netboxAt' >= netboxAt
    BY DateStep DEF Forward
  <1>3. storeAt' \in Int /\ netboxAt' \in Int
    BY DEF DateInv, LockInv, TypeOK
  <1>4. CASE UNCHANGED <<lock, storeAt, netboxAt>>
    BY <1>1, <1>4 DEF Serial!vars
  <1>5. CASE lock = Nobody /\ lock' \in Worker /\ UNCHANGED <<storeAt, netboxAt>>
    <2>1. Serial!Begin(lock')
      BY <1>1, <1>5 DEF Serial!Begin
    <2> QED
      BY <1>5, <2>1 DEF Serial!Next
  <1>6. CASE lock \in Worker /\ lock' = Nobody /\ UNCHANGED <<storeAt, netboxAt>>
    BY <1>1, <1>6 DEF Serial!End, Serial!Next
  <1>7. CASE lock \in Worker /\ lock' = lock /\ (storeAt' = storeAt \/ netboxAt' = netboxAt)
    BY <1>1, <1>2, <1>3, <1>7 DEF Serial!Write, Serial!Next
  <1> QED
    BY <1>4, <1>5, <1>6, <1>7, StepMoves

\* Scan cycles implement SerialCycles: however threads and processes are
\* interleaved, killed and restarted, what they do to the store and to NetBox is
\* a sequence of cycles that follow one another.
THEOREM CyclesAreSerial == Spec => ImplementsSerialCycles
  <1>1. Init => Serial!Init
    BY WorkersAreWorkers DEF Init, Serial!Init, Active, InCycle, Critical
  <1>2. DateInv /\ DateInv' /\ [Next]_vars => [Serial!Next]_(Serial!vars)
    BY StepRefines
  <1> QED
    BY <1>1, <1>2, DateInvariant, PTL DEF Spec, Serial!Spec, ImplementsSerialCycles

-----------------------------------------------------------------------------
(* Verdicts and run rows.  Past the collection a cycle has data, a row is    *)
(* that of the cycle under way, and what a phase has behind it is done.      *)

WithData == {"record", "sync", "cleanup", "finish"}

VerdictsFollow ==
    \A w \in Worker : pc[w] \in WithData => verdict[w] \in {"ok", "degraded"}

RowsAreOwn ==
    \A w \in Worker : row[w] # NoRow => InCycle(w) /\ row[w] \in DOMAIN runs

PhasesAreDone ==
    \A w \in Worker :
        /\ pc[w] = "cleanup" => <<row[w], "sync">> \in done
        /\ pc[w] = "finish" => {<<row[w], "sync">>, <<row[w], "cleanup">>} \subseteq done

RowInv == LockInv /\ VerdictsFollow /\ RowsAreOwn /\ PhasesAreDone /\ RowsAreHonest

LEMMA RowInvInit == Init => RowInv
  <1> SUFFICES ASSUME Init PROVE RowInv
    OBVIOUS
  <1>1. VerdictsFollow /\ RowsAreOwn /\ PhasesAreDone
    BY DEF Init, VerdictsFollow, RowsAreOwn, PhasesAreDone, WithData
  <1>2. RowsAreHonest
    BY DEF Init, RowsAreHonest
  <1> QED
    BY <1>1, <1>2, LockInvInit DEF RowInv

\* A step that leaves the rows alone and at most stops workers or calls them.
LEMMA RowsUntouched ==
    ASSUME RowInv, LockInv', UNCHANGED <<runs, done>>,
           \A w \in Worker :
              \/ pc'[w] \in {"idle", "enter"} /\ row'[w] = NoRow
              \/ pc'[w] = pc[w] /\ row'[w] = row[w] /\ verdict'[w] = verdict[w]
    PROVE  RowInv'
  <1> USE DEF RowInv
  <1>1. VerdictsFollow'
    BY DEF VerdictsFollow, WithData
  <1>2. RowsAreOwn'
    BY DEF RowsAreOwn, InCycle
  <1>3. PhasesAreDone'
    BY DEF PhasesAreDone
  <1>4. RowsAreHonest'
    BY DEF RowsAreHonest
  <1> QED
    BY <1>1, <1>2, <1>3, <1>4

\* Who is not in a cycle has no row; so being called changes nothing.
LEMMA CalledRows ==
    ASSUME RowInv, LockInv', UNCHANGED <<cycleVars, dataVars>>, NEW w \in Worker,
           \/ pc' = pc
           \/ ~InCycle(w) /\ pc' = [pc EXCEPT ![w] = "enter"]
    PROVE  RowInv'
  <1>1. UNCHANGED <<runs, done, row, verdict>>
    BY DEF cycleVars, dataVars
  <1>2. \A v \in Worker : ~InCycle(v) => row[v] = NoRow
    BY DEF RowInv, RowsAreOwn
  <1>3. \A v \in Worker :
           \/ pc'[v] \in {"idle", "enter"} /\ row'[v] = NoRow
           \/ pc'[v] = pc[v] /\ row'[v] = row[v] /\ verdict'[v] = verdict[v]
    BY <1>1, <1>2 DEF RowInv, LockInv, TypeOK
  <1> QED
    BY <1>1, <1>3, RowsUntouched

LEMMA KilledRows ==
    ASSUME RowInv, LockInv', NEW dead, Killed(dead)
    PROVE  RowInv'
  <1>1. UNCHANGED <<runs, done>>
    BY DEF Killed, dataVars
  <1>2. \A w \in Worker :
           \/ pc'[w] \in {"idle", "enter"} /\ row'[w] = NoRow
           \/ pc'[w] = pc[w] /\ row'[w] = row[w] /\ verdict'[w] = verdict[w]
    BY DEF Killed, Forget
  <1> QED
    BY <1>1, <1>2, RowsUntouched

\* A step of the worker that holds the lock: only its own phase, verdict and row
\* change, a row of the table keeps its number, and what is done stays done.
LEMMA StepRows ==
    ASSUME RowInv, LockInv', NEW w \in Worker, Step(w)
    PROVE  RowInv'
  <1> USE DEF cycleVars, dataVars
  <1>1. TypeOK /\ LockIsNeverLeaked /\ TypeOK' /\ LockIsNeverLeaked'
    BY DEF RowInv, LockInv
  <1>2. CASE Acquire(w)
    <2>1. /\ ~InCycle(w) /\ UNCHANGED <<runs, done, row, verdict>>
          /\ pc'[w] = "prepare" /\ \A v \in Worker \ {w} : pc'[v] = pc[v]
      BY <1>1, <1>2 DEF Acquire, InCycle, Critical, TypeOK
    <2>2. VerdictsFollow' /\ PhasesAreDone'
      BY <2>1 DEF RowInv, VerdictsFollow, PhasesAreDone, WithData
    <2>3. RowsAreOwn'
      BY <2>1 DEF RowInv, RowsAreOwn, InCycle
    <2>4. RowsAreHonest'
      BY <2>1 DEF RowInv, RowsAreHonest
    <2> QED
      BY <2>2, <2>3, <2>4 DEF RowInv
  <1>3. CASE Skip(w) \/ Release(w)
    <2>1. UNCHANGED <<runs, done>>
      BY <1>3 DEF Skip, Release
    <2>2. ASSUME NEW v \in Worker
          PROVE  \/ pc'[v] \in {"idle", "enter"} /\ row'[v] = NoRow
                 \/ pc'[v] = pc[v] /\ row'[v] = row[v] /\ verdict'[v] = verdict[v]
      <3>1. CASE Skip(w)
        <4>1. row[w] = NoRow
          BY <3>1 DEF Skip, RowInv, RowsAreOwn, InCycle, Critical
        <4> QED
          BY <1>1, <3>1, <4>1 DEF Skip, TypeOK
      <3>2. CASE Release(w)
        BY <1>1, <3>2 DEF Release, Go, Forget, TypeOK
      <3> QED
        BY <1>3, <3>1, <3>2
    <2> QED
      BY <2>1, <2>2, RowsUntouched
  <1>4. CASE ~Acquire(w) /\ ~Skip(w) /\ ~Release(w)
    <2>1. InCycle(w) /\ InCycle(w)'
      BY <1>1, <1>4 DEF Step, Prepare, Collect, RecordOutage, Record, SyncWrites, SyncEnds,
             Cleanup, Finish, Beat, Go, InCycle, Critical, TypeOK
    <2>2. \A v \in Worker \ {w} : ~InCycle(v) /\ ~InCycle(v)'
      BY <1>1, <2>1 DEF LockIsNeverLeaked
    <2>3. \A v \in Worker \ {w} : row'[v] = row[v] /\ row[v] = NoRow
      BY <1>1, <1>4, <2>2 DEF Step, Prepare, Collect, RecordOutage, Record, SyncWrites, SyncEnds,
             Cleanup, Finish, Beat, TypeOK, RowInv, RowsAreOwn
    <2>4. ASSUME pc'[w] \in WithData => verdict'[w] \in {"ok", "degraded"}
          PROVE  VerdictsFollow'
      BY <2>2, <2>4 DEF VerdictsFollow, WithData, InCycle, Critical
    <2>5. ASSUME row'[w] # NoRow => row'[w] \in DOMAIN runs'
          PROVE  RowsAreOwn'
      BY <2>1, <2>3, <2>5 DEF RowsAreOwn
    <2>6. ASSUME pc'[w] = "cleanup" => <<row'[w], "sync">> \in done',
                 pc'[w] = "finish" =>
                     {<<row'[w], "sync">>, <<row'[w], "cleanup">>} \subseteq done'
          PROVE  PhasesAreDone'
      BY <2>2, <2>6 DEF PhasesAreDone, InCycle, Critical
    <2>7. /\ pc[w] \in WithData => verdict[w] \in {"ok", "degraded"}
          /\ row[w] # NoRow => row[w] \in DOMAIN runs
          /\ pc[w] = "cleanup" => <<row[w], "sync">> \in done
          /\ pc[w] = "finish" => {<<row[w], "sync">>, <<row[w], "cleanup">>} \subseteq done
      BY DEF RowInv, VerdictsFollow, RowsAreOwn, PhasesAreDone
    <2>8. pc'[w] \in WithData => verdict'[w] \in {"ok", "degraded"}
      BY <1>1, <1>4, <2>7 DEF Step, Prepare, Collect, RecordOutage, Record, SyncWrites, SyncEnds,
             Cleanup, Finish, Beat, Go, Decide, WithData, TypeOK
    <2>9. /\ pc'[w] = "cleanup" => <<row'[w], "sync">> \in done'
          /\ pc'[w] = "finish" => {<<row'[w], "sync">>, <<row'[w], "cleanup">>} \subseteq done'
      BY <1>1, <1>4, <2>7 DEF Step, Prepare, Collect, RecordOutage, Record, SyncWrites, SyncEnds,
             Cleanup, Finish, Beat, Go, TypeOK
    <2>10. runs \in Seq(RunRow) /\ done \subseteq done'
      BY <1>1, <1>4 DEF Step, Prepare, Collect, RecordOutage, Record, SyncWrites, SyncEnds,
             Cleanup, Finish, Beat, TypeOK
    <2>11. CASE \E r \in {Opened, Closed("failed")} : runs' = Append(runs, r)
      <3>1. PICK r \in {Opened, Closed("failed")} : runs' = Append(runs, r)
        BY <2>11
      <3>2. RecordOutage(w) \/ Record(w)
        <4>1. runs' # runs
          BY <2>10, <3>1
        <4>2. Finish(w) => DOMAIN runs' = DOMAIN runs
          BY <2>10 DEF Finish
        <4>3. DOMAIN runs' # DOMAIN runs
          <5>1. Len(runs') = Len(runs) + 1 /\ Len(runs) \in Nat
            BY <2>10, <3>1
          <5>2. DOMAIN runs = 1 .. Len(runs) /\ DOMAIN runs' = 1 .. Len(runs) + 1
            BY <2>10, <3>1
          <5>3. Len(runs) + 1 \in DOMAIN runs' /\ Len(runs) + 1 \notin DOMAIN runs
            BY <5>1, <5>2
          <5> QED
            BY <5>3
        <4> QED
          BY <1>4, <4>1, <4>2, <4>3 DEF Step, Prepare, Collect, SyncWrites, SyncEnds, Cleanup, Beat
      <3>3. /\ \A i \in DOMAIN runs : i \in DOMAIN runs' /\ runs'[i] = runs[i]
            /\ \A i \in DOMAIN runs' : i \in DOMAIN runs \/ runs'[i] = r
            /\ Len(runs) + 1 \in DOMAIN runs'
        BY <2>10, <3>1
      <3>4. row'[w] = row[w] \/ row'[w] = Len(runs) + 1
        BY <1>1, <3>2 DEF RecordOutage, Record, TypeOK
      <3>5. RowsAreOwn'
        BY <2>5, <2>7, <3>3, <3>4
      <3>6. /\ r.status \notin {"ok", "degraded"}
            /\ r.closed <=> r.status # "idle"
        BY DEF Opened, Closed
      <3>7. RowsAreHonest'
        BY <2>10, <3>3, <3>6 DEF RowInv, RowsAreHonest
      <3> QED
        BY <2>4, <2>6, <2>8, <2>9, <3>5, <3>7 DEF RowInv
    <2>12. CASE Finish(w)
      <3>1. /\ pc[w] = "finish" /\ row'[w] = row[w]
            /\ \/ runs' = runs
               \/ row[w] # NoRow /\ runs' = [runs EXCEPT ![row[w]] = Closed(verdict[w])]
        BY <2>12 DEF Finish, Go
      <3>2. DOMAIN runs' = DOMAIN runs
        BY <3>1
      <3>3. \A i \in DOMAIN runs :
               \/ runs'[i] = runs[i]
               \/ i = row[w] /\ runs'[i] = Closed(verdict[w])
        BY <3>1
      <3>4. RowsAreOwn'
        BY <2>5, <2>7, <3>1, <3>2
      <3>5. RowsAreHonest'
        <4> SUFFICES ASSUME NEW i \in DOMAIN runs
                     PROVE  /\ runs'[i].status \in {"ok", "degraded"} =>
                                  {<<i, "sync">>, <<i, "cleanup">>} \subseteq done'
                            /\ runs'[i].closed <=> runs'[i].status # "idle"
          BY <3>2 DEF RowsAreHonest
        <4>1. CASE runs'[i] = runs[i]
          BY <2>10, <4>1 DEF RowInv, RowsAreHonest
        <4>2. CASE i = row[w] /\ runs'[i] = Closed(verdict[w])
          <5>1. {<<i, "sync">>, <<i, "cleanup">>} \subseteq done'
            BY <2>7, <2>10, <3>1, <4>2
          <5>2. verdict[w] \in {"ok", "degraded"}
            BY <2>7, <3>1 DEF WithData
          <5> QED
            BY <4>2, <5>1, <5>2 DEF Closed
        <4> QED
          BY <3>3, <4>1, <4>2
      <3> QED
        BY <2>4, <2>6, <2>8, <2>9, <3>4, <3>5 DEF RowInv
    <2>13. CASE UNCHANGED <<runs, row>>
      <3>1. RowsAreOwn'
        BY <2>5, <2>7, <2>13
      <3>2. RowsAreHonest'
        BY <2>10, <2>13 DEF RowInv, RowsAreHonest
      <3> QED
        BY <2>4, <2>6, <2>8, <2>9, <3>1, <3>2 DEF RowInv
    <2> QED
      BY <1>4, <2>11, <2>12, <2>13 DEF Step, Prepare, Collect, RecordOutage, Record, SyncWrites,
           SyncEnds, Cleanup, Beat
  <1> QED
    BY <1>2, <1>3, <1>4

LEMMA RowInvStep ==
    ASSUME RowInv, [Next]_vars
    PROVE  RowInv'
  <1>1. LockInv /\ LockInv' /\ TypeOK
    BY LockInvStep DEF RowInv, LockInv
  <1>2. CASE StartDaemon \/ Signal \/ LeaveLoop \/ Tick \/ UNCHANGED vars
    <2>1. UNCHANGED <<pc, cycleVars, dataVars>>
      BY <1>2 DEF StartDaemon, Signal, LeaveLoop, Tick, vars
    <2> QED
      BY <1>1, <2>1, CalledRows, WorkersAreWorkers
  <1>3. CASE Connect
    <2>1. ~InCycle("startup")
      BY <1>1, <1>3 DEF Connect, LockInv, StartupIsIdle, InCycle, Critical
    <2> QED
      BY <1>1, <1>3, <2>1, CalledRows, WorkersAreWorkers DEF Connect
  <1>4. CASE GiveUp \/ Exit \/ CrashDaemon
    BY <1>1, <1>4, KilledRows DEF GiveUp, Exit, CrashDaemon
  <1>5. ASSUME NEW w \in Worker, Trigger(w) PROVE RowInv'
    BY <1>1, <1>5, CalledRows DEF Trigger, InCycle, Critical
  <1>6. CASE SchedulerFires
    BY <1>5, <1>6, WorkersAreWorkers DEF SchedulerFires
  <1>7. ASSUME NEW w \in Api, TriggerScan(w) PROVE RowInv'
    BY <1>5, <1>7, WorkersAreWorkers DEF TriggerScan
  <1>8. ASSUME NEW w \in Once, RunOnce(w) \/ CrashOnce(w) PROVE RowInv'
    BY <1>1, <1>5, <1>8, KilledRows, WorkersAreWorkers DEF RunOnce, CrashOnce
  <1>9. ASSUME NEW w \in Worker, Step(w) PROVE RowInv'
    BY <1>1, <1>9, StepRows
  <1> QED
    BY <1>2, <1>3, <1>4, <1>6, <1>7, <1>8, <1>9 DEF Next

LEMMA RowInvariant == Spec => []RowInv
  <1>1. RowInv /\ [Next]_vars => RowInv'
    BY RowInvStep
  <1> QED
    BY RowInvInit, <1>1, PTL DEF Spec

\* A run row that reports success is the row of a cycle whose sync and whose cleanup
\* both completed, whichever steps failed and whoever was killed (_run_cycle).
THEOREM RowsTellTheTruth == Spec => []RowsAreHonest
  <1>1. RowInv => RowsAreHonest
    BY DEF RowInv
  <1> QED
    BY <1>1, RowInvariant, PTL

\* A cycle that reached no source writes nothing: not to the store, not to NetBox,
\* and its cleanup does not run (_run_cycle's early return).
THEOREM OutagesWriteNothing == Spec => OutageChangesNothing
  <1> DEFINE Quiet == \A w \in Worker : lock = w /\ verdict[w] = "failed" =>
                          UNCHANGED <<storeAt, netboxAt, cleanedAt>>
  <1>1. ASSUME RowInv, Next, NEW w \in Worker, lock = w, verdict[w] = "failed"
        PROVE  UNCHANGED <<storeAt, netboxAt, cleanedAt>>
    <2>1. pc[w] \notin WithData
      BY <1>1 DEF RowInv, VerdictsFollow
    <2>2. \A v \in Worker : InCycle(v) => v = w
      BY <1>1 DEF RowInv, LockInv, LockIsNeverLeaked
    <2>3. ASSUME NEW v \in Worker, Step(v) PROVE UNCHANGED <<storeAt, netboxAt, cleanedAt>>
      <3>1. pc[v] \notin WithData
        BY <2>1, <2>2 DEF InCycle, WithData, Critical
      <3> QED
        BY <2>3, <3>1 DEF Step, Acquire, Skip, Prepare, Collect, RecordOutage, Record, SyncWrites,
           SyncEnds, Cleanup, Finish, Beat, Release, Go, WithData, dataVars
    <2> QED
      BY <1>1, <2>3 DEF Next, StartDaemon, Connect, GiveUp, Signal, LeaveLoop, Exit, CrashDaemon,
           SchedulerFires, TriggerScan, RunOnce, CrashOnce, Trigger, Killed, Tick, dataVars
  <1>2. RowInv /\ [Next]_vars => [Quiet]_vars
    BY <1>1
  <1> HIDE DEF Quiet
  <1>3. Spec => [][Quiet]_vars
    BY RowInvariant, <1>2, PTL DEF Spec
  <1> QED
    BY <1>3 DEF OutageChangesNothing, Quiet

=============================================================================
