------------------------ MODULE SuiteFiles_proofs --------------------------
(***************************************************************************)
(* Theorems about what the files of GuardedSuite remember, for every       *)
(* number of suites, cases, worker processes and faults: orphaned workers  *)
(* are found, checkpointed cases are kept, a cut batch is followed by a    *)
(* pilot, COMPLETE is truthful, no worker is started beside another, the   *)
(* files implement the register a sequence reads, and a start runs a       *)
(* bounded number of batches.                                              *)
(*                                                                         *)
(* The inductive invariants are Kept(s); LeftInv, what a worker without a  *)
(* supervisor may still do; and LoopInv, what an exit says of a batch.     *)
(* A step of another suite, or of its worker, leaves s untouched, because  *)
(* a batch holds the lease.                                                *)
(***************************************************************************)
EXTENDS GuardedSuite_proofs

-----------------------------------------------------------------------------
(* The inductive invariant *)

\* Where a supervisor may hold a worker.
Holding == {"spawned", "watch", "stop", "unload", "record", "cool", "cooling"}

\* The Popen object: which worker it is, and what its exit status says of the
\* group it leads.
HoldsItsOwn(s) ==
    /\ pc[s] \in {"lease", "preflight"} => mem[s].exit = "none"
    /\ pc[s] \in {"spawned", "watch", "stop"} => mem[s].proc # NoPid
    /\ mem[s].proc # NoPid =>
         /\ pc[s] \in Holding
         /\ mem[s].exit = "none" => Running(mem[s].proc)
         /\ Running(mem[s].proc) => worker[mem[s].proc].suite = s
         /\ mem[s].exit = "ok" /\ Running(mem[s].proc) =>
                worker[mem[s].proc].stage = "saved"
         /\ pc[s] \in {"unload", "record", "cool", "cooling"} /\ Running(mem[s].proc) =>
                mem[s].cleanupError

\* What a batch has told the state file about itself.
BatchIsRecorded(s) ==
    /\ pc[s] \in {"lease", "preflight", "spawned", "watch", "stop", "unload",
                  "record", "cool"} => disk[s].phase = "RUNNING" /\ mem[s].cleanup
    /\ pc[s] \in {"cooling", "check"} => disk[s].phase = "COOLING"
    /\ pc[s] = "failed" => disk[s].phase \in {"RUNNING", "COOLING"}
    /\ pc[s] \in {"lease", "preflight"} =>
         mem[s].pid = NoPid /\ disk[s].pid = NoPid /\ disk[s].boot
    /\ pc[s] \in {"watch", "stop", "unload", "record", "cool"} =>
         mem[s].pid = mem[s].proc /\ disk[s].pid = mem[s].proc /\ disk[s].boot
    /\ pc[s] = "cooling" /\ mem[s].proc # NoPid /\ Running(mem[s].proc) =>
         mem[s].pid = mem[s].proc /\ disk[s].pid = mem[s].proc /\ disk[s].boot

\* Who still finds a worker of s.
WorkersAreFound(s) ==
    \A p \in LiveWorkers : worker[p].suite = s =>
        \/ mem[s].proc = p
        \/ /\ disk[s].boot /\ disk[s].pid = p
           /\ pc[s] \in {"off", "loaded"} \/ (pc[s] = "failed" /\ mem[s].pid = p)

\* A worker appends to the checkpoint it has read, and so did its supervisor.
BaseIsCurrent(s) ==
    /\ \A p \in LiveWorkers : worker[p].suite = s /\ worker[p].stage # "new" =>
           worker[p].base = prefix[s]
    /\ pc[s] \in {"loaded", "dropping"} => mem[s].base <= prefix[s]

\* That the last batch was cut short is on disk, and whoever may run the next
\* one knows it.
CutIsRecorded(s) ==
    /\ dirty[s] /\ prefix[s] # Total =>
         /\ Unclean(s) \/ latch[s]
         /\ pc[s] \in {"waiting", "top", "lease", "preflight", "spawned", "watch"} =>
                mem[s].recovery /\ mem[s].pilot
         /\ pc[s] \in {"stop", "unload", "record"} =>
                mem[s].recovery \/ mem[s].reason = "resource"
         /\ pc[s] \in {"cool", "cooling", "failed", "check"} =>
                mem[s].recovery \/ latch[s]
    /\ pc[s] = "dropping" /\ Unclean(s) /\ mem[s].base < Total => mem[s].pilot

\* A supervised suite whose worker nobody lost.
SuiteInv(s) == s \notin lost =>
    WorkersAreFound(s) /\ BaseIsCurrent(s) /\ CutIsRecorded(s)

\* Whether the suite's last worker has left its model.
CleanupIsOwed(s) == s \notin lost /\ ~raced[s] =>
    /\ disk[s].pid # NoPid => disk[s].phase = "RUNNING" \/ disk[s].cleanup
    /\ disk[s].phase \in {"COMPLETE", "READY", "PAUSED"} => disk[s].pid = NoPid
    /\ pc[s] \in {"cooling", "failed", "check"} /\ mem[s].pid # NoPid => mem[s].cleanup
    /\ pc[s] \in {"loaded", "dropping", "waiting"} => mem[s].base = prefix[s]
    /\ pc[s] \in {"waiting", "top"} => mem[s].cleanup = mem[s].need
    /\ pc[s] \in {"record", "cool", "cooling", "check"} /\ ~mem[s].cleanupError =>
          s \notin resident
    /\ pc[s] \in {"lease", "check"} => ~mem[s].cleanupError
    /\ pc[s] \in {"cool", "cooling", "failed"} /\ mem[s].cleanupError => latch[s]
    /\ pc[s] \in {"waiting", "top"} /\ ~mem[s].need /\ prefix[s] = Total =>
          s \notin resident
    /\ pc[s] = "failed" /\ ~mem[s].cleanup => s \notin resident \/ latch[s]
    /\ /\ prefix[s] = Total
       /\ disk[s].phase \notin {"NONE", "RUNNING"}
       /\ ~disk[s].cleanup
       => s \notin resident \/ latch[s]

\* CompleteIsTruthful of one suite.
Truthful(s) ==
    disk[s].phase = "COMPLETE" =>
        /\ prefix[s] = Total \/ s \in lost
        /\ report[s]
        /\ s \notin resident \/ raced[s] \/ s \in lost


Kept(s) == /\ HoldsItsOwn(s) /\ BatchIsRecorded(s) /\ SuiteInv(s)
           /\ CleanupIsOwed(s) /\ Truthful(s)

KeptInv == TypeOK /\ LeaseHeld /\ LatchedIsLeaving /\ \A s \in Suites : Kept(s)

-----------------------------------------------------------------------------
(* Steps of somebody else *)

\* A step that changes nothing Kept(s) depends on, unless it unloads models.
Untouched(s) ==
    /\ pc'[s] = pc[s] /\ mem'[s] = mem[s] /\ disk'[s] = disk[s]
    /\ prefix'[s] = prefix[s] /\ report'[s] = report[s] /\ latch'[s] = latch[s]
    /\ dirty'[s] = dirty[s] /\ raced'[s] = raced[s]
    /\ s \in lost' <=> s \in lost
    /\ s \in resident' => s \in resident
    /\ \A p \in Pids : worker'[p].stage # "dead" /\ worker'[p].suite = s =>
           worker'[p] = worker[p]
    /\ mem[s].proc # NoPid => worker'[mem[s].proc] = worker[mem[s].proc]

LEMMA UntouchedKept ==
    ASSUME KeptInv, NEW s \in Suites, Untouched(s)
    PROVE  Kept(s)'
<1> USE DEF Untouched
<1>1. HoldsItsOwn(s)'
  BY DEF KeptInv, Kept, HoldsItsOwn, Running
<1>2. BatchIsRecorded(s)'
  BY DEF KeptInv, Kept, BatchIsRecorded, Running
<1>3. SuiteInv(s)'
  BY DEF KeptInv, Kept, SuiteInv, WorkersAreFound, BaseIsCurrent, CutIsRecorded,
         LiveWorkers, Running, Unclean
<1>4. CleanupIsOwed(s)' /\ Truthful(s)'
  BY DEF KeptInv, Kept, CleanupIsOwed, Truthful
<1> QED
  BY <1>1, <1>2, <1>3, <1>4 DEF Kept

\* Only the suite whose batch is under way holds a worker.
LEMMA HolderHasLease ==
    ASSUME KeptInv, NEW s \in Suites, mem[s].proc # NoPid
    PROVE  MidBatch(s) /\ lease = s
  BY DEF KeptInv, Kept, HoldsItsOwn, Holding, MidBatch, LeaseHeld

\* A supervisor works on its own files.
LEMMA OthersUntouched ==
    ASSUME KeptInv, NEW s \in Suites, NEW t \in Suites \ {s},
           Supervise(t) \/ Mishap(t) \/ Operate(t) \/ DeadlinePasses(t) \/ Kill(t)
    PROVE  Untouched(s)
<1> USE DEF Goto, files, history
<1>typ. /\ pc \in [Suites -> Pc] /\ mem \in [Suites -> Memory]
        /\ disk \in [Suites -> SuiteState] /\ latch \in [Suites -> BOOLEAN]
        /\ dirty \in [Suites -> BOOLEAN] /\ worker \in [Pids -> Worker]
  BY DEF KeptInv, TypeOK
<1>proc. mem[s].proc \in Pids \cup {NoPid}
  BY <1>typ DEF Memory
<1>1. ASSUME UNCHANGED <<prefix, report, latch, worker, resident, dirty, lost, raced>>,
             pc'[s] = pc[s], mem'[s] = mem[s], disk'[s] = disk[s]
      PROVE  Untouched(s)
  BY <1>1 DEF Untouched
<1>2. CASE Refuse(t) \/ Finish(t) \/ PauseAtBoundary(t) \/ BatchFailed(t)
  BY <1>1, <1>2, <1>typ DEF Refuse, Finish, PauseAtBoundary, BatchFailed, Leave, WriteState
<1>3. CASE Launch(t) \/ Admit(t) \/ DropPause(t)
  BY <1>1, <1>3, <1>typ DEF Launch, Admit, DropPause, Ready
<1>4. CASE BeginBatch(t) \/ RecordChild(t) \/ RecordCooldown(t)
  BY <1>1, <1>4, <1>typ DEF BeginBatch, RecordChild, RecordCooldown, WriteState
<1>5. CASE \/ FindStalePause(t) \/ ResumeCooldownOver(t) \/ AcquireLease(t)
           \/ LeaseBusy(t) \/ ChildExited(t) \/ CooldownOver(t)
  BY <1>1, <1>5, <1>typ DEF FindStalePause, ResumeCooldownOver, AcquireLease,
     LeaseBusy, ChildExited, CooldownOver
<1>6. CASE \/ SpawnFails(t) \/ StopFails(t) \/ UnloadFails(t) \/ SignalPause(t)
           \/ RequestPause(t) \/ DeadlinePasses(t)
  BY <1>1, <1>6, <1>typ DEF SpawnFails, StopFails, UnloadFails, SignalPause,
     RequestPause, DeadlinePasses
<1>7. CASE PreflightBreach(t) \/ Breach(t) \/ BatchSucceeded(t) \/ Kill(t)
  BY <1>7, <1>typ DEF PreflightBreach, Breach, BatchSucceeded, Kill, Leave, Untouched
<1>8. CASE Unload(t) \/ RecordOutcome(t)
  BY <1>8, <1>typ DEF Unload, RecordOutcome, Untouched
<1>9. CASE Spawn(t)
  <2>1. mem[s].proc = NoPid
    BY <1>9, HolderHasLease, <1>typ DEF Spawn, At, MidBatch, KeptInv, LeaseHeld
  <2> QED
    BY <1>9, <1>typ, <2>1 DEF Spawn, Untouched
<1>10. CASE StopChild(t)
  <2>1. mem[s].proc = NoPid
    BY <1>10, HolderHasLease, <1>typ DEF StopChild, At, MidBatch, KeptInv, LeaseHeld
  <2>2. \A p \in Pids : worker'[p] = worker[p] \/ worker'[p] = Dead
    BY <1>10, <1>typ DEF StopChild
  <2>3. pc'[s] = pc[s] /\ mem'[s] = mem[s]
    BY <1>10, <1>typ DEF StopChild
  <2> QED
    BY <1>10, <2>1, <2>2, <2>3 DEF StopChild, Untouched, Dead
<1> QED
  BY <1>2, <1>3, <1>4, <1>5, <1>6, <1>7, <1>8, <1>9, <1>10
     DEF Supervise, Mishap, Operate

\* So does a worker.
LEMMA OthersWorkersUntouched ==
    ASSUME KeptInv, NEW s \in Suites, NEW p \in Pids,
           Work(p) \/ Crash(p) \/ LeaderExits(p), worker[p].suite # s
    PROVE  Untouched(s)
<1> USE DEF files, history
<1>typ. /\ mem \in [Suites -> Memory] /\ worker \in [Pids -> Worker]
        /\ prefix \in [Suites -> 0..Total] /\ report \in [Suites -> BOOLEAN]
        /\ raced \in [Suites -> BOOLEAN]
  BY DEF KeptInv, TypeOK
<1>1. Running(p) /\ mem[s].proc # p
  BY SuiteConstants DEF Work, ReadCheckpoint, Checkpoint, Succeed, Crash, LeaderExits,
     Running, KeptInv, Kept, HoldsItsOwn
<1>2. CASE ReadCheckpoint(p)
  BY <1>1, <1>2, <1>typ DEF ReadCheckpoint, Untouched
<1>3. CASE Checkpoint(p)
  BY <1>1, <1>3, <1>typ DEF Checkpoint, Untouched
<1>4. CASE Succeed(p) \/ Crash(p)
  <2>1. mem'[s] = mem[s]
    BY <1>1, <1>4 DEF Succeed, Crash, Exit, Holds
  <2>2. \A q \in Pids : worker'[q] = IF q = p THEN Dead ELSE worker[q]
    BY <1>4, <1>typ DEF Succeed, Crash, Exit
  <2> QED
    <3>1. mem[s].proc \in Pids \cup {NoPid}
      BY <1>typ DEF Memory
    <3>2. pc' = pc /\ disk' = disk /\ prefix' = prefix /\ latch' = latch /\ report'[s] = report[s]
          /\ dirty' = dirty /\ raced' = raced /\ lost' = lost /\ resident' = resident
      BY <1>4, <1>typ DEF Succeed, Crash
    <3> QED
      BY <1>1, <2>1, <2>2, <3>1, <3>2 DEF Untouched, Dead
<1>5. CASE LeaderExits(p)
  <2>1. mem'[s] = mem[s]
    BY <1>5, <1>typ, LeaderStep DEF KeptInv
  <2>2. report'[s] = report[s]
    BY <1>5, <1>typ DEF LeaderExits
  <2> QED
    BY <1>5, <2>1, <2>2 DEF LeaderExits, Untouched
<1> QED
  BY <1>2, <1>3, <1>4, <1>5 DEF Work

-----------------------------------------------------------------------------
(* A suite's own steps: the worker it holds *)

LEMMA HoldsKept ==
    ASSUME KeptInv, NEW s \in Suites, Supervise(s) \/ Mishap(s) \/ Launch(s)
             \/ SignalPause(s) \/ Kill(s)
    PROVE  HoldsItsOwn(s)'
<1> USE DEF Goto, At, files, history, Holding, Running
<1>typ. /\ pc \in [Suites -> Pc] /\ mem \in [Suites -> Memory]
        /\ mem[s] \in Memory /\ worker \in [Pids -> Worker]
        /\ pc[s] \in Pc /\ NoPid \notin Pids
  BY SuiteConstants DEF KeptInv, TypeOK
<1>inv. HoldsItsOwn(s)
  BY DEF KeptInv, Kept
<1>1. CASE Leave(s)
  BY <1>1, <1>typ DEF Leave, NoMemory, HoldsItsOwn
<1>2. CASE Launch(s) \/ Admit(s) \/ DropPause(s) \/ FindStalePause(s)
             \/ ResumeCooldownOver(s) \/ BatchSucceeded(s)
  <2>1. mem[s].proc = NoPid
    BY <1>2, <1>inv
       DEF Launch, Admit, DropPause, FindStalePause, ResumeCooldownOver,
           BatchSucceeded, HoldsItsOwn
  <2>2. mem'[s].proc = NoPid
    <3>1. CASE Launch(s)
      <4>1. PICK pilot \in BOOLEAN :
               mem' = [mem EXCEPT ![s] = [@ EXCEPT !.pilot = pilot, !.base = prefix[s]]]
        BY <3>1 DEF Launch
      <4> QED
        BY <4>1, <1>typ, <2>1 DEF Memory
    <3>2. CASE Ready(s)
      BY <3>2, <1>typ, <2>1 DEF Ready, Memory
    <3>3. CASE UNCHANGED mem
      BY <3>3, <2>1
    <3>4. CASE BatchSucceeded(s)
      BY <3>4, <1>typ, <2>1 DEF BatchSucceeded, Memory
    <3> QED
      BY <1>2, <3>1, <3>2, <3>3, <3>4
         DEF Admit, DropPause, FindStalePause, ResumeCooldownOver
  <2>3. pc'[s] \in {"loaded", "dropping", "waiting", "top"}
    BY <1>2, <1>typ
       DEF Launch, Admit, DropPause, Ready, FindStalePause, ResumeCooldownOver,
           BatchSucceeded
  <2> QED
    BY <2>2, <2>3 DEF HoldsItsOwn
<1>3. CASE BeginBatch(s)
  BY <1>3, <1>typ DEF BeginBatch, HoldsItsOwn, Memory
<1>10. CASE AcquireLease(s) \/ LeaseBusy(s)
  BY <1>10, <1>typ, <1>inv DEF AcquireLease, LeaseBusy, HoldsItsOwn, Memory
<1>11. CASE SpawnFails(s) \/ PreflightBreach(s)
  <2>1. mem[s].proc = NoPid /\ mem'[s].proc = NoPid /\ pc'[s] = "unload"
    BY <1>11, <1>typ, <1>inv DEF SpawnFails, PreflightBreach, HoldsItsOwn, Memory
  <2> QED
    BY <2>1 DEF HoldsItsOwn
<1>4. CASE Spawn(s)
  BY <1>4, <1>typ, <1>inv DEF Spawn, HoldsItsOwn, Memory
<1>5. CASE RecordChild(s) \/ Breach(s) \/ ChildExited(s) \/ StopFails(s)
  BY <1>5, <1>typ, <1>inv
     DEF RecordChild, Breach, ChildExited, StopFails, HoldsItsOwn, Memory
<1>6. CASE StopChild(s)
  BY <1>6, <1>typ, <1>inv DEF StopChild, HoldsItsOwn, Memory, Dead
<1>7. CASE Unload(s) \/ UnloadFails(s) \/ RecordOutcome(s)
  BY <1>7, <1>typ, <1>inv DEF Unload, UnloadFails, RecordOutcome, HoldsItsOwn, Memory
<1>8. CASE RecordCooldown(s)
  BY <1>8, <1>typ, <1>inv DEF RecordCooldown, HoldsItsOwn, Memory
<1>9. CASE CooldownOver(s) \/ SignalPause(s)
  BY <1>9, <1>typ, <1>inv DEF CooldownOver, SignalPause, HoldsItsOwn, Memory
<1> QED
  BY <1>1, <1>2, <1>3, <1>10, <1>11, <1>4, <1>5, <1>6, <1>7, <1>8, <1>9
     DEF Supervise, Mishap, Refuse, Finish, PauseAtBoundary, BatchFailed, Kill

\* What its batch has recorded.
LEMMA BatchRecordedKept ==
    ASSUME KeptInv, NEW s \in Suites, Supervise(s) \/ Mishap(s) \/ Launch(s)
             \/ SignalPause(s) \/ Kill(s)
    PROVE  BatchIsRecorded(s)'
<1> USE DEF Goto, At, files, history, Holding, Running
<1>typ. /\ pc \in [Suites -> Pc] /\ mem \in [Suites -> Memory]
        /\ mem[s] \in Memory /\ worker \in [Pids -> Worker]
        /\ disk \in [Suites -> SuiteState] /\ disk[s] \in SuiteState
        /\ pc[s] \in Pc /\ NoPid \notin Pids
  BY SuiteConstants DEF KeptInv, TypeOK
<1>inv. HoldsItsOwn(s) /\ BatchIsRecorded(s)
  BY DEF KeptInv, Kept
<1>1. CASE Leave(s)
  BY <1>1, <1>typ DEF Leave, BatchIsRecorded
<1>2. CASE Launch(s) \/ Admit(s) \/ DropPause(s) \/ FindStalePause(s)
             \/ ResumeCooldownOver(s) \/ BatchSucceeded(s)
  <2>1. pc'[s] \in {"loaded", "dropping", "waiting", "top"}
    BY <1>2, <1>typ
       DEF Launch, Admit, DropPause, Ready, FindStalePause, ResumeCooldownOver,
           BatchSucceeded
  <2> QED
    BY <2>1 DEF BatchIsRecorded
<1>3. CASE BeginBatch(s)
  BY <1>3, <1>typ DEF BeginBatch, WriteState, BatchIsRecorded, Memory
<1>4. CASE AcquireLease(s) \/ LeaseBusy(s) \/ Spawn(s)
  BY <1>4, <1>typ, <1>inv
     DEF AcquireLease, LeaseBusy, Spawn, BatchIsRecorded, Memory
<1>5. CASE SpawnFails(s) \/ PreflightBreach(s)
  <2>1. mem[s].proc = NoPid
    BY <1>5, <1>inv DEF SpawnFails, PreflightBreach, HoldsItsOwn
  <2> QED
    BY <1>5, <1>typ, <1>inv, <2>1 DEF SpawnFails, PreflightBreach, BatchIsRecorded, Memory
<1>6. CASE RecordChild(s)
  BY <1>6, <1>typ, <1>inv DEF RecordChild, WriteState, BatchIsRecorded, HoldsItsOwn, Memory
<1>7. CASE Breach(s) \/ ChildExited(s) \/ StopFails(s) \/ StopChild(s)
  BY <1>7, <1>typ, <1>inv
     DEF Breach, ChildExited, StopFails, StopChild, BatchIsRecorded, Memory
<1>8. CASE Unload(s) \/ UnloadFails(s) \/ RecordOutcome(s)
  BY <1>8, <1>typ, <1>inv DEF Unload, UnloadFails, RecordOutcome, BatchIsRecorded, Memory
<1>9. CASE RecordCooldown(s)
  BY <1>9, <1>typ, <1>inv
     DEF RecordCooldown, ChildStillAlive, Alive, WriteState, BatchIsRecorded, HoldsItsOwn, Memory
<1>10. CASE CooldownOver(s) \/ SignalPause(s)
  BY <1>10, <1>typ, <1>inv DEF CooldownOver, SignalPause, BatchIsRecorded, Memory
<1> QED
  BY <1>1, <1>2, <1>3, <1>4, <1>5, <1>6, <1>7, <1>8, <1>9, <1>10
     DEF Supervise, Mishap, Refuse, Finish, PauseAtBoundary, BatchFailed, Kill

-----------------------------------------------------------------------------
(* A suite's own steps: the workers nobody holds *)

LEMMA FoundKept ==
    ASSUME KeptInv, NEW s \in Suites, Supervise(s) \/ Mishap(s) \/ Launch(s)
             \/ SignalPause(s) \/ Kill(s),
           s \notin lost, s \notin lost'
    PROVE  WorkersAreFound(s)'
<1> DEFINE Own == {p \in LiveWorkers : worker[p].suite = s}
           Recorded(p) == disk[s].boot /\ disk[s].pid = p
<1> USE DEF Goto, At, files, history
<1>typ. /\ pc \in [Suites -> Pc] /\ mem \in [Suites -> Memory]
        /\ mem[s] \in Memory /\ worker \in [Pids -> Worker]
        /\ disk \in [Suites -> SuiteState] /\ disk[s] \in SuiteState
        /\ pc[s] \in Pc /\ NoPid \notin Pids
  BY SuiteConstants DEF KeptInv, TypeOK
<1>inv. HoldsItsOwn(s) /\ BatchIsRecorded(s) /\ WorkersAreFound(s)
  BY DEF KeptInv, Kept, SuiteInv
<1>0. Own \subseteq Pids
  BY DEF LiveWorkers
<1>1. pc[s] \notin {"off", "loaded", "failed"} \cup Holding => Own = {}
  BY <1>inv, <1>typ DEF WorkersAreFound, HoldsItsOwn, LiveWorkers
<1>2. pc[s] \in Holding => \A p \in Own : mem[s].proc = p
  BY <1>inv DEF WorkersAreFound, Holding
<1>3. pc[s] \in {"off", "loaded", "failed"} => \A p \in Own : Recorded(p)
  BY <1>inv, <1>typ DEF WorkersAreFound, HoldsItsOwn, Holding, LiveWorkers
<1>4. pc[s] \in {"watch", "stop", "unload", "record", "cool", "cooling"} =>
         \A p \in Own : Recorded(p) /\ mem[s].pid = p
  BY <1>2, <1>inv, <1>typ DEF BatchIsRecorded, Holding, LiveWorkers
<1>5. pc[s] = "failed" => \A p \in Own : mem[s].pid = p
  BY <1>inv, <1>typ DEF WorkersAreFound, HoldsItsOwn, Holding, LiveWorkers
<1>6. ASSUME UNCHANGED worker, Own = {} PROVE WorkersAreFound(s)'
  BY <1>6 DEF WorkersAreFound, LiveWorkers, Running
<1>7. ASSUME UNCHANGED worker, pc'[s] = "off", \A p \in Own : disk'[s].boot /\ disk'[s].pid = p
      PROVE  WorkersAreFound(s)'
  BY <1>7 DEF WorkersAreFound, LiveWorkers, Running
<1>8. ASSUME UNCHANGED worker, \A p \in Own : mem'[s].proc = p
      PROVE  WorkersAreFound(s)'
  BY <1>8 DEF WorkersAreFound, LiveWorkers, Running
<1>11. CASE Refuse(s) \/ Kill(s)
  <2>1. UNCHANGED worker /\ UNCHANGED disk /\ pc'[s] = "off"
    BY <1>11, <1>typ DEF Refuse, Kill, Leave
  <2>2. pc[s] # "spawned"
    BY <1>11 DEF Refuse, Kill
  <2> QED
    BY <1>1, <1>3, <1>4, <1>7, <2>1, <2>2 DEF Holding
<1>12. CASE BatchFailed(s)
  <2>1. UNCHANGED worker /\ pc'[s] = "off"
    BY <1>12, <1>typ DEF BatchFailed, Leave
  <2>2. disk'[s].boot /\ disk'[s].pid = ChildStillAlive(s)
    BY <1>12, <1>typ DEF BatchFailed, WriteState
  <2>3. \A p \in Own : ChildStillAlive(s) = p
    BY <1>12, <1>0, <1>1, <1>5 DEF BatchFailed, ChildStillAlive, Alive, LiveWorkers, Holding
  <2> QED
    BY <1>7, <2>1, <2>2, <2>3
<1>13. CASE \/ Admit(s) \/ FindStalePause(s) \/ DropPause(s) \/ ResumeCooldownOver(s)
            \/ Finish(s) \/ PauseAtBoundary(s) \/ BeginBatch(s) \/ AcquireLease(s)
            \/ LeaseBusy(s) \/ BatchSucceeded(s) \/ PreflightBreach(s) \/ SpawnFails(s)
  <2>1. UNCHANGED worker
    BY <1>13 DEF Admit, FindStalePause, DropPause, ResumeCooldownOver, Finish,
       PauseAtBoundary, BeginBatch, AcquireLease, LeaseBusy, BatchSucceeded,
       PreflightBreach, SpawnFails
  <2>2. CASE Admit(s) \/ FindStalePause(s)
    BY <1>0, <1>3, <2>2, <2>1, <1>6 DEF Admit, FindStalePause, Refusal, Alive, LiveWorkers
  <2>3. CASE ~(Admit(s) \/ FindStalePause(s))
    BY <1>13, <1>1, <1>6, <2>1, <2>3
       DEF DropPause, ResumeCooldownOver, Finish, Holding,
       PauseAtBoundary, BeginBatch, AcquireLease, LeaseBusy, BatchSucceeded,
       PreflightBreach, SpawnFails
  <2> QED
    BY <2>2, <2>3
<1>14. CASE Launch(s)
  <2>1. UNCHANGED <<worker, disk>> /\ pc'[s] = "loaded"
    BY <1>14, <1>typ DEF Launch
  <2> QED
    BY <1>3, <1>14, <2>1 DEF Launch, WorkersAreFound, LiveWorkers, Running
<1>15. CASE Spawn(s)
  <2>1. PICK p \in Pids :
           /\ worker' = [worker EXCEPT ![p] =
                           [stage |-> "new", suite |-> s, base |-> 0]]
           /\ mem' = [mem EXCEPT ![s].proc = p]
    BY <1>15 DEF Spawn
  <2>2. mem'[s].proc = p
    BY <2>1, <1>typ DEF Memory
  <2>3. Own = {}
    BY <1>1, <1>15 DEF Spawn, Holding
  <2> QED
    BY <2>1, <2>2, <2>3, <1>typ DEF WorkersAreFound, LiveWorkers, Running
<1>16. CASE \/ RecordChild(s) \/ Breach(s) \/ ChildExited(s) \/ StopFails(s)
            \/ Unload(s) \/ UnloadFails(s) \/ RecordOutcome(s) \/ RecordCooldown(s)
  <2>1. UNCHANGED worker
    BY <1>16 DEF RecordChild, Breach, ChildExited, StopFails, Unload, UnloadFails,
       RecordOutcome, RecordCooldown
  <2>2. mem'[s].proc = mem[s].proc
    <3>1. CASE RecordCooldown(s)
      BY <3>1, <1>typ DEF RecordCooldown, Memory
    <3>2. CASE ~RecordCooldown(s)
      BY <3>2, <1>16, <1>typ DEF RecordChild, Breach, ChildExited, StopFails, Unload,
         UnloadFails, RecordOutcome, Memory
    <3> QED
      BY <3>1, <3>2
  <2>3. pc[s] \in Holding
    BY <1>16 DEF RecordChild, Breach, ChildExited, StopFails, Unload, UnloadFails,
       RecordOutcome, RecordCooldown, Holding
  <2>4. CASE Own = {}
    BY <2>1, <2>4, <1>6
  <2> QED
    BY <1>2, <1>8, <2>1, <2>2, <2>3
<1>17. CASE StopChild(s)
  <2>1. mem'[s].proc = mem[s].proc /\ pc[s] \in Holding
    BY <1>17, <1>typ DEF StopChild, Memory, Holding
  <2>2. \A p \in Pids : worker'[p] = worker[p] \/ worker'[p] = Dead
    BY <1>17, <1>typ DEF StopChild
  <2>3. \A p \in LiveWorkers' : worker'[p].suite = s => p \in Own
    BY <2>2 DEF LiveWorkers, Running, Dead
  <2> QED
    BY <1>2, <2>1, <2>3 DEF WorkersAreFound
<1>18. CASE CooldownOver(s)
  <2>1. UNCHANGED <<worker, disk>> /\ mem'[s].pid = mem[s].pid
    BY <1>18, <1>typ DEF CooldownOver, Memory
  <2>2. \A p \in Own : pc'[s] = "failed"
    BY <1>2, <1>inv, <1>18, <1>typ DEF CooldownOver, HoldsItsOwn, Holding, LiveWorkers
  <2>3. \A p \in Own : disk'[s].boot /\ disk'[s].pid = p /\ mem'[s].pid = p
    BY <1>4, <1>18, <2>1 DEF CooldownOver
  <2> QED
    BY <2>1, <2>2, <2>3 DEF WorkersAreFound, LiveWorkers, Running
<1>19. CASE SignalPause(s)
  <2>1. /\ UNCHANGED <<worker, disk, pc>>
        /\ mem'[s].proc = mem[s].proc /\ mem'[s].pid = mem[s].pid
    BY <1>19, <1>typ DEF SignalPause, Memory
  <2> QED
    BY <1>inv, <2>1 DEF WorkersAreFound, LiveWorkers, Running
<1> QED
  BY <1>11, <1>12, <1>13, <1>14, <1>15, <1>16, <1>17, <1>18, <1>19
     DEF Supervise, Mishap

\* No supervisor writes a checkpoint.
LEMMA BaseKept ==
    ASSUME KeptInv, NEW s \in Suites, Supervise(s) \/ Mishap(s) \/ Launch(s)
             \/ SignalPause(s) \/ Kill(s),
           s \notin lost
    PROVE  BaseIsCurrent(s)'
<1> USE DEF Goto, At, files, history
<1>typ. /\ pc \in [Suites -> Pc] /\ mem \in [Suites -> Memory]
        /\ mem[s] \in Memory /\ worker \in [Pids -> Worker]
        /\ prefix[s] \in 0..Total
  BY DEF KeptInv, TypeOK
<1>inv. BaseIsCurrent(s)
  BY DEF KeptInv, Kept, SuiteInv
<1>1. UNCHANGED prefix
  BY DEF Supervise, Mishap, Launch, SignalPause, Kill, Refuse, Admit, FindStalePause,
     DropPause, ResumeCooldownOver, Finish, PauseAtBoundary, BeginBatch, AcquireLease,
     LeaseBusy, Spawn, RecordChild, ChildExited, StopChild, Unload, RecordOutcome,
     RecordCooldown, CooldownOver, BatchSucceeded, BatchFailed, PreflightBreach,
     SpawnFails, Breach, StopFails, UnloadFails
<1>2. \A p \in Pids : worker'[p] = worker[p] \/ worker'[p].stage \in {"dead", "new"}
  <2>1. CASE Spawn(s)
    BY <2>1, <1>typ DEF Spawn
  <2>2. CASE StopChild(s)
    BY <2>2, <1>typ DEF StopChild, Dead
  <2>3. CASE UNCHANGED worker
    BY <2>3
  <2> QED
    BY <2>1, <2>2, <2>3
       DEF Supervise, Mishap, Launch, SignalPause, Kill, Refuse, Admit, FindStalePause,
     DropPause, ResumeCooldownOver, Finish, PauseAtBoundary, BeginBatch, AcquireLease,
     LeaseBusy, RecordChild, ChildExited, Unload, RecordOutcome,
     RecordCooldown, CooldownOver, BatchSucceeded, BatchFailed, PreflightBreach,
     SpawnFails, Breach, StopFails, UnloadFails
<1>3. pc'[s] \in {"loaded", "dropping"} => mem'[s].base <= prefix[s]
  <2>1. CASE Launch(s)
    <3>1. PICK pilot \in BOOLEAN :
             mem' = [mem EXCEPT ![s] = [@ EXCEPT !.pilot = pilot, !.base = prefix[s]]]
      BY <2>1 DEF Launch
    <3>2. mem'[s].base = prefix[s]
      BY <3>1, <1>typ DEF Memory
    <3> QED
      BY <3>2, <1>typ
  <2>2. CASE FindStalePause(s)
    BY <2>2, <1>typ, <1>inv DEF FindStalePause, BaseIsCurrent
  <2>3. CASE SignalPause(s)
    <3>1. mem'[s].base = mem[s].base /\ pc' = pc
      BY <2>3, <1>typ DEF SignalPause, Memory
    <3> QED
      BY <3>1, <1>inv DEF BaseIsCurrent
  <2>4. CASE \/ Refuse(s) \/ Finish(s) \/ PauseAtBoundary(s) \/ BatchFailed(s) \/ Kill(s)
    BY <2>4, <1>typ DEF Refuse, Finish, PauseAtBoundary, BatchFailed, Kill, Leave
  <2>5. CASE \/ Admit(s) \/ DropPause(s) \/ ResumeCooldownOver(s) \/ BeginBatch(s)
             \/ AcquireLease(s) \/ LeaseBusy(s) \/ Spawn(s) \/ RecordChild(s)
             \/ ChildExited(s) \/ StopChild(s) \/ Unload(s) \/ RecordOutcome(s)
             \/ RecordCooldown(s) \/ CooldownOver(s) \/ BatchSucceeded(s) \/ Mishap(s)
    BY <2>5, <1>typ DEF Admit, DropPause, Ready, ResumeCooldownOver, BeginBatch,
       AcquireLease, LeaseBusy, Spawn, RecordChild, ChildExited, StopChild, Unload,
       RecordOutcome, RecordCooldown, CooldownOver, BatchSucceeded, Mishap,
       PreflightBreach, SpawnFails, Breach, StopFails, UnloadFails
  <2> QED
    BY <2>1, <2>2, <2>3, <2>4, <2>5 DEF Supervise
<1> QED
  BY <1>inv, <1>1, <1>2, <1>3 DEF BaseIsCurrent, LiveWorkers, Running

-----------------------------------------------------------------------------
(* A suite's own steps: the cut batch *)

LEMMA CutKept ==
    ASSUME KeptInv, NEW s \in Suites, Supervise(s) \/ Mishap(s) \/ Launch(s)
             \/ SignalPause(s) \/ Kill(s),
           s \notin lost
    PROVE  CutIsRecorded(s)'
<1> USE DEF Goto, At, files, history
<1>typ. /\ pc \in [Suites -> Pc] /\ mem \in [Suites -> Memory]
        /\ mem[s] \in Memory /\ disk \in [Suites -> SuiteState] /\ disk[s] \in SuiteState
        /\ prefix[s] \in 0..Total /\ mem[s].base \in 0..Total /\ Total \in Nat
        /\ latch \in [Suites -> BOOLEAN] /\ dirty \in [Suites -> BOOLEAN]
  <2>1. mem[s] \in Memory /\ mem \in [Suites -> Memory]
    BY DEF KeptInv, TypeOK
  <2> QED
    BY <2>1, SuiteConstants DEF KeptInv, TypeOK, Memory
<1>inv. BatchIsRecorded(s) /\ BaseIsCurrent(s) /\ CutIsRecorded(s)
  BY DEF KeptInv, Kept, SuiteInv
<1>1. UNCHANGED prefix
  BY DEF Supervise, Mishap, Launch, SignalPause, Kill, Refuse, Admit, FindStalePause,
     DropPause, ResumeCooldownOver, Finish, PauseAtBoundary, BeginBatch, AcquireLease,
     LeaseBusy, Spawn, RecordChild, ChildExited, StopChild, Unload, RecordOutcome,
     RecordCooldown, CooldownOver, BatchSucceeded, BatchFailed, PreflightBreach,
     SpawnFails, Breach, StopFails, UnloadFails
<1>2. pc[s] \in {"preflight", "spawned", "watch", "stop", "unload", "record", "cool",
                 "cooling", "check", "failed", "lease"} => Unclean(s)
  BY <1>inv DEF BatchIsRecorded, Unclean
\* Steps that end the supervisor.
<1>3. CASE Refuse(s)
  BY <1>3, <1>1, <1>typ, <1>inv DEF Refuse, Leave, CutIsRecorded, Unclean
<1>4. CASE Kill(s)
  BY <1>4, <1>1, <1>2, <1>typ, <1>inv DEF Kill, Leave, MidBatch, CutIsRecorded, Unclean
<1>5. CASE Finish(s)
  BY <1>5, <1>1, <1>typ DEF Finish, Finished, Leave, CutIsRecorded
<1>6. CASE PauseAtBoundary(s)
  BY <1>6, <1>1, <1>typ, <1>inv
     DEF PauseAtBoundary, Leave, WriteState, CutIsRecorded, Unclean
<1>7. CASE BatchFailed(s)
  BY <1>7, <1>1, <1>typ, <1>inv DEF BatchFailed, Leave, WriteState, CutIsRecorded, Unclean
\* The start.
<1>8. CASE Launch(s)
  BY <1>8, <1>1, <1>typ, <1>inv DEF Launch, CutIsRecorded, Unclean
<1>9. CASE Admit(s)
  BY <1>9, <1>1, <1>typ, <1>inv DEF Admit, Refusal, Ready, CutIsRecorded, BaseIsCurrent, Unclean, Memory
<1>10. CASE FindStalePause(s)
  BY <1>10, <1>1, <1>typ, <1>inv DEF FindStalePause, Refusal, CutIsRecorded, Unclean
<1>11. CASE DropPause(s)
  <2>1. ~latch[s]
    BY <1>11 DEF DropPause, KeptInv, LatchedIsLeaving
  <2> QED
    <3>1. pc[s] = "dropping" /\ pc'[s] = "waiting" /\ UNCHANGED <<latch, dirty>>
      BY <1>11, <1>typ DEF DropPause, Ready
    <3>2. disk'[s].phase = "READY" /\ disk'[s].recovery = (Unclean(s) /\ mem[s].base < Total)
      BY <1>11, <1>typ DEF DropPause, Ready
    <3>3. /\ mem'[s].recovery = (Unclean(s) /\ mem[s].base < Total)
          /\ mem'[s].pilot = mem[s].pilot
      BY <1>11, <1>typ DEF DropPause, Ready, Memory
    <3>4. ASSUME dirty[s], prefix[s] # Total
          PROVE  Unclean(s) /\ mem[s].base < Total /\ mem[s].pilot
      BY <2>1, <3>1, <3>4, <1>typ, <1>inv DEF CutIsRecorded, BaseIsCurrent
    <3>5. ASSUME dirty[s], prefix[s] # Total
          PROVE  Unclean(s)' /\ mem'[s].recovery /\ mem'[s].pilot
      BY <3>2, <3>3, <3>4, <3>5 DEF Unclean
    <3> QED
      BY <1>1, <3>1, <3>5 DEF CutIsRecorded
<1>12. CASE ResumeCooldownOver(s)
  BY <1>12, <1>1, <1>typ, <1>inv DEF ResumeCooldownOver, CutIsRecorded, Unclean
\* The batch.
<1>13. CASE BeginBatch(s)
  BY <1>13, <1>1, <1>typ, <1>inv DEF BeginBatch, WriteState, CutIsRecorded, Unclean, Memory
<1>14. CASE AcquireLease(s) \/ LeaseBusy(s) \/ Spawn(s) \/ SpawnFails(s)
  BY <1>14, <1>1, <1>typ, <1>inv
     DEF AcquireLease, LeaseBusy, Spawn, SpawnFails, CutIsRecorded, Unclean, Memory
<1>15. CASE PreflightBreach(s) \/ Breach(s)
  BY <1>15, <1>1, <1>2, <1>typ, <1>inv
     DEF PreflightBreach, Breach, CutIsRecorded, Unclean, Memory
<1>16. CASE RecordChild(s) \/ RecordCooldown(s)
  <2>1. disk'[s].phase \in {"RUNNING", "COOLING"}
    BY <1>16, <1>typ DEF RecordChild, RecordCooldown, WriteState
  <2>2. mem'[s].recovery = mem[s].recovery /\ mem'[s].pilot = mem[s].pilot
    <3>1. CASE RecordChild(s)
      BY <3>1, <1>typ DEF RecordChild, Memory
    <3>2. CASE RecordCooldown(s)
      BY <3>2, <1>typ DEF RecordCooldown, Memory
    <3> QED
      BY <1>16, <3>1, <3>2
  <2>3. UNCHANGED <<latch, dirty>>
    BY <1>16 DEF RecordChild, RecordCooldown
  <2>4. \/ pc[s] = "spawned" /\ pc'[s] = "watch"
        \/ pc[s] = "cool" /\ pc'[s] = "cooling"
    BY <1>16, <1>typ DEF RecordChild, RecordCooldown
  <2> QED
    BY <1>1, <1>inv, <2>1, <2>2, <2>3, <2>4 DEF CutIsRecorded, Unclean
<1>17. CASE ChildExited(s) \/ StopChild(s) \/ StopFails(s) \/ Unload(s) \/ UnloadFails(s)
  BY <1>17, <1>1, <1>typ, <1>inv
     DEF ChildExited, StopChild, StopFails, Unload, UnloadFails, CutIsRecorded, Unclean, Memory
<1>18. CASE RecordOutcome(s)
  BY <1>18, <1>1, <1>typ, <1>inv DEF RecordOutcome, CutIsRecorded, Unclean
<1>19. CASE CooldownOver(s) \/ SignalPause(s)
  BY <1>19, <1>1, <1>typ, <1>inv DEF CooldownOver, SignalPause, CutIsRecorded, Unclean, Memory
<1>20. CASE BatchSucceeded(s)
  BY <1>20, <1>1, <1>typ DEF BatchSucceeded, CutIsRecorded
<1> QED
  BY <1>3, <1>4, <1>5, <1>6, <1>7, <1>8, <1>9, <1>10, <1>11, <1>12, <1>13, <1>14,
     <1>15, <1>16, <1>17, <1>18, <1>19, <1>20
     DEF Supervise, Mishap

-----------------------------------------------------------------------------
(* A suite's own steps: the cleanup and the end *)

LEMMA CleanupKept ==
    ASSUME KeptInv, NEW s \in Suites, Supervise(s) \/ Mishap(s) \/ Launch(s)
             \/ SignalPause(s) \/ Kill(s),
           s \notin lost, ~raced[s]
    PROVE  CleanupIsOwed(s)'
<1> USE DEF Goto, At, files, history
<1>typ. /\ pc \in [Suites -> Pc] /\ mem \in [Suites -> Memory]
        /\ mem[s] \in Memory /\ disk \in [Suites -> SuiteState] /\ disk[s] \in SuiteState
        /\ latch \in [Suites -> BOOLEAN] /\ NoPid \notin Pids
  BY SuiteConstants DEF KeptInv, TypeOK
<1>inv. BatchIsRecorded(s) /\ CleanupIsOwed(s)
  BY DEF KeptInv, Kept
<1>1. UNCHANGED prefix
  BY DEF Supervise, Mishap, Launch, SignalPause, Kill, Refuse, Admit, FindStalePause,
     DropPause, ResumeCooldownOver, Finish, PauseAtBoundary, BeginBatch, AcquireLease,
     LeaseBusy, Spawn, RecordChild, ChildExited, StopChild, Unload, RecordOutcome,
     RecordCooldown, CooldownOver, BatchSucceeded, BatchFailed, PreflightBreach,
     SpawnFails, Breach, StopFails, UnloadFails
\* Steps that end the supervisor.
<1>2. CASE Refuse(s) \/ Kill(s)
  BY <1>2, <1>1, <1>typ, <1>inv DEF Refuse, Kill, Leave, CleanupIsOwed
<1>3. CASE Finish(s) \/ PauseAtBoundary(s)
  BY <1>3, <1>1, <1>typ, <1>inv
     DEF Finish, Finished, PauseAtBoundary, Leave, WriteState, CleanupIsOwed
<1>4. CASE BatchFailed(s)
  BY <1>4, <1>1, <1>typ, <1>inv
     DEF BatchFailed, ChildStillAlive, Alive, Leave, WriteState, CleanupIsOwed
\* The start.
<1>5. CASE Launch(s)
  <2>1. PICK pilot \in BOOLEAN :
           mem' = [mem EXCEPT ![s] = [@ EXCEPT !.pilot = pilot, !.base = prefix[s]]]
    BY <1>5 DEF Launch
  <2>2. mem'[s].base = prefix[s]
    BY <2>1, <1>typ DEF Memory
  <2> QED
    BY <1>5, <1>1, <1>typ, <1>inv, <2>2 DEF Launch, CleanupIsOwed
<1>6. CASE Admit(s) \/ DropPause(s)
  <2>1. ~latch[s]
    BY <1>6 DEF Admit, DropPause, Refusal, KeptInv, LatchedIsLeaving
  <2>2. Ready(s) /\ pc[s] \in {"loaded", "dropping"} /\ UNCHANGED <<resident, latch>>
    BY <1>6 DEF Admit, DropPause
  <2>3. /\ pc'[s] = "waiting"
        /\ disk'[s].phase = "READY" /\ disk'[s].pid = NoPid
        /\ disk'[s].cleanup = NeedsFinalCleanup(s)
    BY <2>2, <1>typ DEF Ready
  <2>4. /\ mem'[s].need = NeedsFinalCleanup(s) /\ mem'[s].cleanup = NeedsFinalCleanup(s)
        /\ mem'[s].base = mem[s].base
    BY <2>2, <1>typ DEF Ready, Memory
  <2>5. ~NeedsFinalCleanup(s) /\ prefix[s] = Total => s \notin resident
    BY <2>1, <2>2, <1>inv DEF NeedsFinalCleanup, CleanupIsOwed
  <2> QED
    BY <1>1, <1>inv, <2>2, <2>3, <2>4, <2>5 DEF CleanupIsOwed
<1>7. CASE FindStalePause(s) \/ ResumeCooldownOver(s)
  BY <1>7, <1>1, <1>typ, <1>inv DEF FindStalePause, ResumeCooldownOver, CleanupIsOwed
\* The batch.
<1>8. CASE BeginBatch(s)
  BY <1>8, <1>1, <1>typ, <1>inv DEF BeginBatch, WriteState, CleanupIsOwed, Memory
<1>9. CASE AcquireLease(s) \/ LeaseBusy(s)
  BY <1>9, <1>1, <1>typ, <1>inv
     DEF AcquireLease, LeaseBusy, CleanupIsOwed, BatchIsRecorded, Memory
<1>10. CASE Spawn(s) \/ SpawnFails(s) \/ PreflightBreach(s)
  BY <1>10, <1>1, <1>typ, <1>inv
     DEF Spawn, SpawnFails, PreflightBreach, CleanupIsOwed
<1>11. CASE RecordChild(s)
  BY <1>11, <1>1, <1>typ, <1>inv DEF RecordChild, WriteState, CleanupIsOwed
<1>12. CASE Breach(s) \/ ChildExited(s) \/ StopChild(s) \/ StopFails(s)
  BY <1>12, <1>1, <1>typ, <1>inv DEF Breach, ChildExited, StopChild, StopFails, CleanupIsOwed
<1>13. CASE Unload(s) \/ UnloadFails(s)
  BY <1>13, <1>1, <1>typ, <1>inv DEF Unload, UnloadFails, CleanupIsOwed, Memory
<1>14. CASE RecordOutcome(s)
  BY <1>14, <1>1, <1>typ, <1>inv DEF RecordOutcome, CleanupIsOwed
<1>15. CASE RecordCooldown(s)
  BY <1>15, <1>1, <1>typ, <1>inv
     DEF RecordCooldown, WriteState, CleanupIsOwed, BatchIsRecorded, Memory
<1>16. CASE CooldownOver(s)
  BY <1>16, <1>1, <1>typ, <1>inv DEF CooldownOver, CleanupIsOwed, Memory
<1>17. CASE BatchSucceeded(s)
  BY <1>17, <1>1, <1>typ, <1>inv DEF BatchSucceeded, CleanupIsOwed, Memory
<1>18. CASE SignalPause(s)
  BY <1>18, <1>1, <1>typ, <1>inv DEF SignalPause, CleanupIsOwed, Memory
<1> QED
  BY <1>2, <1>3, <1>4, <1>5, <1>6, <1>7, <1>8, <1>9, <1>10, <1>11, <1>12, <1>13, <1>14,
     <1>15, <1>16, <1>17, <1>18
     DEF Supervise, Mishap

\* COMPLETE is only written when it is true.
LEMMA TruthKept ==
    ASSUME KeptInv, NEW s \in Suites, Supervise(s) \/ Mishap(s) \/ Launch(s)
             \/ SignalPause(s) \/ Kill(s)
    PROVE  Truthful(s)'
<1> USE DEF Goto, At, files, history
<1>typ. disk \in [Suites -> SuiteState] /\ lost \in SUBSET Suites
  BY DEF KeptInv, TypeOK
<1>inv. CleanupIsOwed(s) /\ Truthful(s)
  BY DEF KeptInv, Kept
<1>1. UNCHANGED <<prefix, report, raced>> /\ lost \subseteq lost' /\ resident' \subseteq resident
  BY DEF Supervise, Mishap, Launch, SignalPause, Kill, Refuse, Admit, FindStalePause,
     DropPause, ResumeCooldownOver, Finish, PauseAtBoundary, BeginBatch, AcquireLease,
     LeaseBusy, Spawn, RecordChild, ChildExited, StopChild, Unload, RecordOutcome,
     RecordCooldown, CooldownOver, BatchSucceeded, BatchFailed, PreflightBreach,
     SpawnFails, Breach, StopFails, UnloadFails
<1>2. CASE Finish(s)
  BY <1>2, <1>1, <1>inv DEF Finish, Finished, Truthful, CleanupIsOwed
<1>3. CASE UNCHANGED disk
  BY <1>3, <1>1, <1>inv DEF Truthful
<1>4. CASE disk'[s].phase # "COMPLETE"
  BY <1>4 DEF Truthful
<1>5. CASE Admit(s) \/ DropPause(s)
  BY <1>4, <1>5, <1>typ DEF Admit, DropPause, Ready
<1>6. CASE PauseAtBoundary(s) \/ BeginBatch(s) \/ RecordChild(s) \/ RecordCooldown(s)
             \/ BatchFailed(s)
  BY <1>4, <1>6, <1>typ DEF PauseAtBoundary, BeginBatch, RecordChild, RecordCooldown,
     BatchFailed, WriteState
<1> QED
  BY <1>2, <1>3, <1>5, <1>6
     DEF Supervise, Mishap, Launch, SignalPause, Kill, Refuse, FindStalePause,
     ResumeCooldownOver, AcquireLease,
     LeaseBusy, Spawn, ChildExited, StopChild, Unload, RecordOutcome,
     CooldownOver, BatchSucceeded, PreflightBreach,
     SpawnFails, Breach, StopFails, UnloadFails

-----------------------------------------------------------------------------
(* The steps of its workers *)

\* What a step of a worker may change, for the suite it works for.
WorkerMoves(p, s) ==
    /\ UNCHANGED <<pc, disk, latch, dirty, lost>>
    /\ \A q \in Pids \ {p} : worker'[q] = worker[q]
    /\ Running(p)' => worker'[p].suite = s
    /\ resident' \in {resident, resident \cup {s}}
    /\ report[s] => report'[s]
    /\ \/ mem' = mem /\ Running(p)'
       \/ /\ ~Running(p)'
          /\ resident' = resident
          /\ \E status \in {"ok", "error"} :
               mem'[s] = IF Holds(s, p) /\ mem[s].exit = "none"
                         THEN [mem[s] EXCEPT !.exit = status] ELSE mem[s]
       \/ /\ worker' = worker /\ resident' = resident
          /\ Holds(s, p) /\ mem[s].exit = "none"
          /\ \E status \in {"ok", "error"} :
               /\ mem'[s] = [mem[s] EXCEPT !.exit = status]
               /\ status = "ok" => worker[p].stage = "saved"
    /\ Running(p)' /\ worker[p].stage = "saved" => worker'[p].stage = "saved"
    /\ \/ prefix'[s] = prefix[s] /\ raced'[s] = raced[s]
          /\ (Running(p)' /\ worker'[p].stage # "new" => worker'[p].base = prefix[s]
                \/ worker'[p] = worker[p])
       \/ /\ worker[p].stage = "infer"
          /\ prefix'[s] = worker[p].base + 1 /\ worker'[p].base = worker[p].base + 1
          /\ raced'[s] = (raced[s] \/ At(s, "loaded"))

LEMMA WorkerStep ==
    ASSUME KeptInv, NEW s \in Suites, NEW p \in Pids,
           Work(p) \/ Crash(p) \/ LeaderExits(p), worker[p].suite = s
    PROVE  Running(p) /\ WorkerMoves(p, s)
<1> USE DEF files, history
<1>typ. /\ mem \in [Suites -> Memory] /\ worker \in [Pids -> Worker]
        /\ prefix \in [Suites -> 0..Total] /\ report \in [Suites -> BOOLEAN]
        /\ raced \in [Suites -> BOOLEAN] /\ worker[p] \in Worker
  BY DEF KeptInv, TypeOK
<1>1. Running(p)
  BY DEF Work, ReadCheckpoint, Checkpoint, Succeed, Crash, LeaderExits, Running
<1>2. CASE ReadCheckpoint(p)
  BY <1>1, <1>2, <1>typ DEF ReadCheckpoint, WorkerMoves, Running, Worker
<1>3. CASE Checkpoint(p)
  BY <1>1, <1>3, <1>typ DEF Checkpoint, WorkerMoves, Running, Worker
<1>4. ASSUME NEW status \in {"ok", "error"}, Exit(p, status),
             UNCHANGED <<pc, disk, prefix, latch, lease, resident, dirty, lost, raced>>,
             report'[s] = TRUE \/ report' = report
      PROVE  WorkerMoves(p, s)
  <2>1. ~Running(p)' /\ \A q \in Pids \ {p} : worker'[q] = worker[q]
    BY <1>4, <1>typ DEF Exit, Running, Dead
  <2>2. mem'[s] = IF Holds(s, p) /\ mem[s].exit = "none"
                  THEN [mem[s] EXCEPT !.exit = status] ELSE mem[s]
    BY <1>4 DEF Exit
  <2> QED
    BY <1>4, <2>1, <2>2 DEF WorkerMoves
<1>5. CASE Succeed(p) \/ Crash(p)
  <2>1. CASE Succeed(p)
    <3>1. Exit(p, "ok") /\ (report'[s] = TRUE \/ report' = report)
      BY <2>1, <1>typ DEF Succeed
    <3>2. UNCHANGED <<pc, disk, prefix, latch, lease, resident, dirty, lost, raced>>
      BY <2>1 DEF Succeed
    <3> QED
      BY <1>1, <1>4, <3>1, <3>2
  <2>2. CASE Crash(p)
    BY <1>1, <1>4, <2>2 DEF Crash
  <2> QED
    BY <1>5, <2>1, <2>2
<1>6. CASE LeaderExits(p)
  <2>1. PICK status \in {"ok", "error"} :
           /\ mem' = [mem EXCEPT ![s].exit = status]
           /\ status = "ok" => worker[p].stage = "saved"
    BY <1>6, LeaderStep DEF KeptInv
  <2>2. report[s] => report'[s]
    BY <1>6, <1>typ DEF LeaderExits
  <2> QED
    BY <1>1, <1>6, <1>typ, <2>1, <2>2 DEF LeaderExits, WorkerMoves, Running
<1> QED
  BY <1>1, <1>2, <1>3, <1>5, <1>6 DEF Work

LEMMA WorkerStepKept ==
    ASSUME KeptInv, NEW s \in Suites, NEW p \in Pids,
           Work(p) \/ Crash(p) \/ LeaderExits(p), worker[p].suite = s
    PROVE  Kept(s)'
<1>typ. /\ mem[s] \in Memory /\ worker[p] \in Worker /\ NoPid \notin Pids
        /\ prefix[s] \in 0..Total /\ Total \in Nat /\ disk[s] \in SuiteState
        /\ mem[s].base \in 0..Total /\ mem[s].proc \in Pids \cup {NoPid}
  <2>1. mem[s] \in Memory
    BY DEF KeptInv, TypeOK
  <2> QED
    BY <2>1, SuiteConstants DEF KeptInv, TypeOK, Memory
<1>inv. /\ HoldsItsOwn(s) /\ BatchIsRecorded(s) /\ SuiteInv(s)
        /\ CleanupIsOwed(s) /\ Truthful(s)
  BY DEF KeptInv, Kept
<1>1. Running(p) /\ WorkerMoves(p, s)
  BY WorkerStep
<1>2. /\ UNCHANGED <<pc, disk, latch, dirty, lost>>
      /\ \A q \in Pids : Running(q)' => Running(q) /\ worker'[q].suite = worker[q].suite
  BY <1>1 DEF WorkerMoves, Running
<1>3. /\ mem'[s].proc = mem[s].proc /\ mem'[s].pid = mem[s].pid
      /\ mem'[s].base = mem[s].base /\ mem'[s].recovery = mem[s].recovery
      /\ mem'[s].pilot = mem[s].pilot /\ mem'[s].reason = mem[s].reason
      /\ mem'[s].cleanup = mem[s].cleanup /\ mem'[s].need = mem[s].need
      /\ mem'[s].cleanupError = mem[s].cleanupError
  BY <1>1, <1>typ DEF WorkerMoves, Memory
<1>4. HoldsItsOwn(s)'
  <2>1. mem[s].proc # p => mem'[s].exit = mem[s].exit
    BY <1>1, <1>typ DEF WorkerMoves, Holds
  <2>2. mem[s].proc = p =>
           /\ mem'[s].exit = "none" => Running(p)'
           /\ mem'[s].exit = "ok" /\ Running(p)' => worker'[p].stage = "saved"
    BY <1>1, <1>inv, <1>typ DEF WorkerMoves, Holds, HoldsItsOwn, Memory
  <2>3. mem[s].proc \in Pids \ {p} => worker'[mem[s].proc] = worker[mem[s].proc]
    BY <1>1, <1>3 DEF WorkerMoves
  <2>4. pc[s] \in {"lease", "preflight"} => mem[s].proc = NoPid
    BY <1>inv DEF HoldsItsOwn, Holding
  <2> QED
    BY <1>2, <1>3, <1>inv, <1>typ, <2>1, <2>2, <2>3, <2>4 DEF HoldsItsOwn, Running
<1>5. BatchIsRecorded(s)'
  BY <1>2, <1>3, <1>inv, <1>typ DEF BatchIsRecorded
\* Unless the suite lost a worker, this one is its only one, and is found.
<1>6. ASSUME s \notin lost
      PROVE  /\ \A q \in LiveWorkers : worker[q].suite = s => q = p
             /\ \/ mem[s].proc = p
                \/ /\ disk[s].boot /\ disk[s].pid = p
                   /\ pc[s] \in {"off", "loaded"} \/ (pc[s] = "failed" /\ mem[s].pid = p)
  <2>1. WorkersAreFound(s)
    BY <1>6, <1>inv DEF SuiteInv
  <2> QED
    BY <1>1, <1>inv, <2>1, <1>typ DEF WorkersAreFound, LiveWorkers, HoldsItsOwn, Holding
<1>7. ASSUME s \notin lost, worker[p].stage = "infer"
      PROVE  worker[p].base = prefix[s] /\ prefix[s] < Total
  BY <1>1, <1>7, <1>inv, <1>typ DEF SuiteInv, BaseIsCurrent, LiveWorkers, Worker
<1>8. s \notin lost => prefix'[s] = prefix[s] \/ (prefix'[s] = prefix[s] + 1 /\ prefix[s] < Total)
  BY <1>1, <1>7 DEF WorkerMoves
<1>9. SuiteInv(s)'
  <2> SUFFICES ASSUME s \notin lost
               PROVE  WorkersAreFound(s)' /\ BaseIsCurrent(s)' /\ CutIsRecorded(s)'
    BY <1>2 DEF SuiteInv
  <2>1. WorkersAreFound(s)'
    BY <1>2, <1>3, <1>inv DEF SuiteInv, WorkersAreFound, LiveWorkers
  <2>2. BaseIsCurrent(s)'
    <3>1. \A q \in LiveWorkers' : worker'[q].suite = s => q = p
      BY <1>2, <1>6 DEF LiveWorkers
    <3>2. Running(p)' /\ worker'[p].stage # "new" => worker'[p].base = prefix'[s]
      BY <1>1, <1>inv DEF WorkerMoves, SuiteInv, BaseIsCurrent, LiveWorkers
    <3>3. pc[s] \in {"loaded", "dropping"} => mem[s].base <= prefix'[s]
      BY <1>8, <1>inv, <1>typ DEF SuiteInv, BaseIsCurrent
    <3> QED
      BY <1>2, <1>3, <3>1, <3>2, <3>3 DEF BaseIsCurrent, LiveWorkers
  <2>3. CutIsRecorded(s)'
    <3>1. prefix'[s] # Total => prefix[s] # Total
      BY <1>8, <1>typ
    <3> QED
      BY <1>2, <1>3, <1>inv, <3>1 DEF SuiteInv, CutIsRecorded, Unclean
  <2> QED
    BY <2>1, <2>2, <2>3
\* Where a live worker can be, nothing claims that its model is gone.
<1>10. ASSUME s \notin lost, ~raced[s], ~raced'[s]
       PROVE  /\ prefix'[s] # prefix[s] => pc[s] \notin {"loaded", "dropping", "waiting"}
              /\ pc[s] \notin {"waiting", "top"}
              /\ pc[s] \in {"record", "cool", "cooling", "check"} => mem[s].cleanupError
              /\ pc[s] = "failed" => mem[s].cleanup
              /\ disk[s].phase = "RUNNING" \/ disk[s].cleanup
              /\ disk[s].phase # "COMPLETE"
  <2>1. CASE mem[s].proc = p
    BY <2>1, <1>1, <1>10, <1>inv, <1>typ
       DEF HoldsItsOwn, Holding, BatchIsRecorded, CleanupIsOwed
  <2>2. CASE disk[s].pid = p /\ pc[s] \in {"off", "loaded", "failed"}
             /\ (pc[s] = "failed" => mem[s].pid = p)
    <3>1. prefix'[s] # prefix[s] => pc[s] # "loaded"
      BY <1>1, <1>10 DEF WorkerMoves, At
    <3> QED
      BY <2>2, <3>1, <1>10, <1>inv, <1>typ DEF CleanupIsOwed
  <2> QED
    BY <1>6, <1>10, <2>1, <2>2
<1>11. CleanupIsOwed(s)'
  <2> SUFFICES ASSUME s \notin lost, ~raced'[s]
               PROVE  CleanupIsOwed(s)'
    BY <1>2 DEF CleanupIsOwed
  <2>1. ~raced[s]
    BY <1>1 DEF WorkerMoves
  <2> QED
    BY <1>2, <1>3, <1>10, <1>inv, <2>1 DEF CleanupIsOwed
<1>12. Truthful(s)'
  <2> SUFFICES ASSUME disk[s].phase = "COMPLETE"
               PROVE  /\ prefix'[s] = Total \/ s \in lost
                      /\ report'[s]
                      /\ s \notin resident' \/ raced'[s] \/ s \in lost
    BY <1>2 DEF Truthful
  <2>1. report'[s]
    BY <1>1, <1>inv DEF WorkerMoves, Truthful
  <2>2. s \notin lost => prefix'[s] = Total
    BY <1>8, <1>inv, <1>typ DEF Truthful
  <2>3. s \notin lost /\ ~raced'[s] => FALSE
    BY <1>1, <1>10 DEF WorkerMoves
  <2> QED
    BY <2>1, <2>2, <2>3
<1> QED
  BY <1>4, <1>5, <1>9, <1>11, <1>12 DEF Kept

-----------------------------------------------------------------------------
(* All steps *)

LEMMA RebootKept ==
    ASSUME KeptInv, Reboot, NEW s \in Suites
    PROVE  Kept(s)'
<1>typ. disk[s] \in SuiteState /\ NoPid \notin Pids /\ mem \in [Suites -> Memory]
  BY SuiteConstants DEF KeptInv, TypeOK
<1>inv. /\ BatchIsRecorded(s) /\ SuiteInv(s) /\ CleanupIsOwed(s) /\ Truthful(s)
  BY DEF KeptInv, Kept
<1>1. /\ pc'[s] = "off" /\ mem'[s] = NoMemory /\ resident' = {}
      /\ UNCHANGED <<prefix, report, latch, lost, raced>>
      /\ \A p \in Pids : ~Running(p)'
      /\ dirty'[s] = (dirty[s] \/ MidBatch(s))
  BY DEF Reboot, Running, Dead
<1>2. /\ disk'[s].phase = disk[s].phase /\ disk'[s].pid = disk[s].pid
      /\ disk'[s].recovery = disk[s].recovery /\ disk'[s].cleanup = disk[s].cleanup
      /\ disk'[s].boot => disk[s].boot
  BY <1>typ DEF Reboot, SuiteState
<1>3. HoldsItsOwn(s)' /\ BatchIsRecorded(s)'
  BY <1>1 DEF HoldsItsOwn, BatchIsRecorded, NoMemory
<1>4. SuiteInv(s)'
  <2>1. Unclean(s) => Unclean(s)'
    BY <1>2 DEF Unclean
  <2>2. MidBatch(s) => Unclean(s)
    BY <1>inv DEF MidBatch, BatchIsRecorded, Unclean
  <2> QED
    BY <1>1, <1>inv, <2>1, <2>2
       DEF SuiteInv, WorkersAreFound, BaseIsCurrent, CutIsRecorded, LiveWorkers
<1>5. CleanupIsOwed(s)' /\ Truthful(s)'
  BY <1>1, <1>2, <1>inv DEF CleanupIsOwed, Truthful
<1> QED
  BY <1>3, <1>4, <1>5 DEF Kept

LEMMA OwnStepKept ==
    ASSUME KeptInv, NEW s \in Suites, Supervise(s) \/ Mishap(s) \/ Launch(s)
             \/ SignalPause(s) \/ Kill(s)
    PROVE  Kept(s)'
<1>1. lost \subseteq lost' /\ (raced[s] => raced'[s])
  BY DEF Supervise, Mishap, Launch, SignalPause, Kill, Refuse, Admit, FindStalePause,
     DropPause, ResumeCooldownOver, Finish, PauseAtBoundary, BeginBatch, AcquireLease,
     LeaseBusy, Spawn, RecordChild, ChildExited, StopChild, Unload, RecordOutcome,
     RecordCooldown, CooldownOver, BatchSucceeded, BatchFailed, PreflightBreach,
     SpawnFails, Breach, StopFails, UnloadFails, history
<1>2. SuiteInv(s)'
  BY <1>1, FoundKept, BaseKept, CutKept DEF SuiteInv
<1>3. CleanupIsOwed(s)'
  BY <1>1, CleanupKept DEF CleanupIsOwed
<1> QED
  BY <1>2, <1>3, HoldsKept, BatchRecordedKept, TruthKept DEF Kept

LEMMA StepKept == KeptInv /\ [Next]_vars => KeptInv'
<1> SUFFICES ASSUME KeptInv, [Next]_vars, NEW s \in Suites
             PROVE  Kept(s)'
  BY StepTyped, StepLease, StepLatch DEF KeptInv
<1>1. ASSUME NEW t \in Suites,
             Supervise(t) \/ Mishap(t) \/ Operate(t) \/ DeadlinePasses(t) \/ Kill(t)
      PROVE  Kept(s)'
  <2>1. CASE t # s
    BY <1>1, <2>1, OthersUntouched, UntouchedKept
  <2>2. CASE RequestPause(s) \/ DeadlinePasses(s)
    <3>1. Untouched(s)
      BY <2>2 DEF RequestPause, DeadlinePasses, Untouched, history
    <3> QED
      BY <3>1, UntouchedKept
  <2> QED
    BY <1>1, <2>1, <2>2, OwnStepKept DEF Operate
<1>2. ASSUME NEW p \in Pids, Work(p) \/ Crash(p) \/ LeaderExits(p) PROVE Kept(s)'
  BY <1>2, OthersWorkersUntouched, UntouchedKept, WorkerStepKept
<1>3. CASE Reboot
  BY <1>3, RebootKept
<1>4. CASE UNCHANGED vars
  <2>1. Untouched(s)
    BY <1>4 DEF vars, files, history, Untouched
  <2> QED
    BY <2>1, UntouchedKept
<1> QED
  BY <1>1, <1>2, <1>3, <1>4 DEF Next

LEMMA KeptAlways == Spec => []KeptInv
<1>1. Init => KeptInv
  <2> SUFFICES ASSUME Init PROVE KeptInv
    OBVIOUS
  <2>1. TypeOK /\ LeaseHeld /\ LatchedIsLeaving
    BY InitTyped DEF Init, LeaseHeld, MidBatch, LatchedIsLeaving
  <2>2. ASSUME NEW s \in Suites PROVE Kept(s)
    BY DEF Init, Kept, HoldsItsOwn, BatchIsRecorded, SuiteInv, WorkersAreFound,
           BaseIsCurrent, CutIsRecorded, CleanupIsOwed, Truthful, LiveWorkers,
           Running, Dead, NoMemory, NoState
  <2> QED
    BY <2>1, <2>2 DEF KeptInv
<1> QED
  BY <1>1, StepKept, PTL DEF Spec

-----------------------------------------------------------------------------
(* The theorems *)

\* A worker nobody holds a Popen object for is named by its suite's state file,
\* unless its supervisor died between Popen and on_spawn: the next start finds it.
THEOREM OrphansRecorded == Spec => []OrphansAreRecorded
<1>1. KeptInv => OrphansAreRecorded
  <2> SUFFICES ASSUME KeptInv, NEW p \in LiveWorkers, worker[p].suite \notin lost
               PROVE  \/ Supervised(p)
                      \/ disk[worker[p].suite].boot /\ disk[worker[p].suite].pid = p
    BY DEF OrphansAreRecorded
  <2>1. worker[p].suite \in Suites
    <3>1. worker[p] \in Worker /\ Running(p)
      BY DEF KeptInv, TypeOK, LiveWorkers
    <3> QED
      BY <3>1 DEF Worker, Running
  <2> QED
    BY <2>1 DEF KeptInv, Kept, SuiteInv, WorkersAreFound, Supervised, Holds
<1> QED
  BY <1>1, KeptAlways, PTL

\* A suite that says COMPLETE has every case, its report, and no model resident,
\* outside the two windows of which CompleteIsTruthful speaks.
THEOREM CompleteTruthful == Spec => []CompleteIsTruthful
<1>1. KeptInv => CompleteIsTruthful
  BY DEF KeptInv, Kept, Truthful, CompleteIsTruthful
<1> QED
  BY <1>1, KeptAlways, PTL

\* A worker replaces the checkpoint by what it has read and one case more, and
\* what it has read is still all there is: no checkpointed case is lost.
THEOREM CheckpointsKept == Spec => CheckpointsAreKept
<1> DEFINE Grows == \A s \in Suites : prefix'[s] >= prefix[s] \/ s \in lost
<1>1. KeptInv /\ [Next]_vars => Grows
  <2> SUFFICES ASSUME KeptInv, [Next]_vars PROVE Grows
    OBVIOUS
  <2>typ. prefix \in [Suites -> 0..Total] /\ worker \in [Pids -> Worker]
    BY DEF KeptInv, TypeOK
  <2>1. CASE UNCHANGED prefix
    BY <2>1, <2>typ
  <2>2. ASSUME NEW p \in Pids, Checkpoint(p) PROVE Grows
    <3>1. worker[p].suite \in Suites /\ p \in LiveWorkers /\ worker[p].stage = "infer"
      BY <2>2, <2>typ DEF Checkpoint, Worker, LiveWorkers, Running
    <3>2. worker[p].suite \notin lost => worker[p].base = prefix[worker[p].suite]
      BY <3>1 DEF KeptInv, Kept, SuiteInv, BaseIsCurrent
    <3>3. prefix' = [prefix EXCEPT ![worker[p].suite] = worker[p].base + 1]
      BY <2>2 DEF Checkpoint
    <3> QED
      BY <3>1, <3>2, <3>3, <2>typ
  <2> QED
    BY <2>1, <2>2 DEF Next, Supervise, Mishap, Operate, Work, Launch, SignalPause,
     RequestPause, DeadlinePasses, Kill, Reboot, Refuse, Admit, FindStalePause,
     DropPause, ResumeCooldownOver, Finish, PauseAtBoundary, BeginBatch, AcquireLease,
     LeaseBusy, Spawn, RecordChild, ChildExited, StopChild, Unload, RecordOutcome,
     RecordCooldown, CooldownOver, BatchSucceeded, BatchFailed, PreflightBreach,
     SpawnFails, Breach, StopFails, UnloadFails, ReadCheckpoint, Succeed, Crash,
     LeaderExits, files, vars
<1> QED
  BY <1>1, KeptAlways, PTL DEF Spec, CheckpointsAreKept

\* After a batch was cut short, whatever happens to the starts in between, the
\* next worker of an unfinished suite is started by a recovery pilot.
THEOREM PilotIsFirst == Spec => PilotFirst
<1> DEFINE First == \A s \in Suites : Spawned(s) /\ dirty[s] =>
                        mem[s].pilot \/ prefix[s] = Total \/ s \in lost
<1>1. KeptInv /\ [Next]_vars => First
  <2> SUFFICES ASSUME KeptInv, [Next]_vars, NEW s \in Suites,
                      Spawned(s), dirty[s], prefix[s] # Total, s \notin lost
               PROVE  mem[s].pilot
    OBVIOUS
  <2>1. Spawn(s)
    BY OnlySpawnSpawns DEF KeptInv
  <2>2. pc[s] = "preflight"
    BY <2>1 DEF Spawn, At
  <2> QED
    BY <2>2 DEF KeptInv, Kept, SuiteInv, CutIsRecorded
<1> QED
  BY <1>1, KeptAlways, PTL DEF Spec, PilotFirst
-----------------------------------------------------------------------------
(* Workers beside one another, and workers left behind *)

\* A worker that was not lost is held by a batch of its suite, or recorded where
\* the next start looks for it: nowhere else in main() is there one.
LEMMA WorkerIsKnown ==
    ASSUME KeptInv, NEW s \in Suites, s \notin lost,
           NEW p \in LiveWorkers, worker[p].suite = s
    PROVE  \/ pc[s] \in Holding /\ mem[s].proc = p
           \/ pc[s] \in {"off", "loaded", "failed"} /\ disk[s].boot /\ disk[s].pid = p
<1>1. HoldsItsOwn(s) /\ WorkersAreFound(s)
  BY DEF KeptInv, Kept, SuiteInv
<1>2. p \in Pids /\ NoPid \notin Pids
  BY SuiteConstants DEF LiveWorkers
<1> QED
  BY <1>1, <1>2 DEF HoldsItsOwn, WorkersAreFound

\* Spawn is tried at "preflight", where a suite has no worker.
THEOREM WorkersAlone == Spec => WorkersStartAlone
<1> DEFINE Alone == \A s \in Suites : Spawned(s) =>
                        \/ s \in lost
                        \/ \A p \in LiveWorkers : worker[p].suite # s
<1>1. KeptInv /\ [Next]_vars => Alone
  <2> SUFFICES ASSUME KeptInv, [Next]_vars, NEW s \in Suites, Spawned(s), s \notin lost,
                      NEW p \in LiveWorkers, worker[p].suite = s
               PROVE  FALSE
    OBVIOUS
  <2>1. pc[s] = "preflight"
    BY OnlySpawnSpawns DEF KeptInv, Spawn, At
  <2> QED
    BY <2>1, WorkerIsKnown DEF Holding
<1> QED
  BY <1>1, KeptAlways, PTL DEF Spec, WorkersStartAlone

\* A worker that its batch could not stop has latched its suite; any other works
\* for a suite whose file still says that it runs.
LeftBehind(s) ==
    /\ pc[s] \in {"cool", "cooling"} /\ mem[s].cleanupError => latch[s]
    /\ s \notin lost => \A p \in LiveWorkers : worker[p].suite = s =>
           latch[s] \/ (pc[s] # "failed" /\ disk[s].phase \in {"RUNNING", "COOLING"})

\* Between two batches the file says that the suite runs.
BoundarySays(s) ==
    pc[s] \in {"waiting", "top"} => disk[s].phase \in {"READY", "COOLING"}

LeftInv == KeptInv /\ \A s \in Suites : LeftBehind(s) /\ BoundarySays(s)

LEMMA UntouchedLeft ==
    ASSUME LeftInv, NEW s \in Suites, Untouched(s)
    PROVE  LeftBehind(s)' /\ BoundarySays(s)'
  BY DEF LeftInv, LeftBehind, BoundarySays, Untouched, LiveWorkers, Running

\* A suite's own steps.
LEMMA OwnStepLeft ==
    ASSUME LeftInv, NEW s \in Suites, Supervise(s) \/ Mishap(s) \/ Launch(s)
             \/ SignalPause(s) \/ Kill(s)
    PROVE  LeftBehind(s)'
<1>2. s \in lost => s \in lost'
  BY DEF Supervise, Mishap, Launch, SignalPause, Kill, Refuse, Admit, FindStalePause,
     DropPause, ResumeCooldownOver, Finish, PauseAtBoundary, BeginBatch, AcquireLease,
     LeaseBusy, Spawn, RecordChild, ChildExited, StopChild, Unload, RecordOutcome,
     RecordCooldown, CooldownOver, BatchSucceeded, BatchFailed, PreflightBreach,
     SpawnFails, Breach, StopFails, UnloadFails, history
<1> DEFINE Own == {p \in LiveWorkers : worker[p].suite = s}
<1> USE DEF Goto, At, files, history
<1>typ. /\ pc \in [Suites -> Pc] /\ mem \in [Suites -> Memory] /\ mem[s] \in Memory
        /\ disk \in [Suites -> SuiteState] /\ latch \in [Suites -> BOOLEAN]
        /\ worker \in [Pids -> Worker] /\ lost \in SUBSET Suites
  BY DEF LeftInv, KeptInv, TypeOK
<1>inv. HoldsItsOwn(s) /\ BatchIsRecorded(s) /\ LeftBehind(s)
  BY DEF LeftInv, KeptInv, Kept
<1>1. ASSUME s \notin lost, NEW p \in Own
      PROVE  \/ pc[s] \in Holding /\ mem[s].proc = p
             \/ pc[s] \in {"off", "loaded", "failed"} /\ disk[s].boot /\ disk[s].pid = p
  <2>1. KeptInv /\ p \in LiveWorkers /\ worker[p].suite = s
    BY DEF LeftInv
  <2> QED
    BY <1>1, <2>1, WorkerIsKnown
\* What a step has to show.
<1>3. ASSUME pc'[s] \notin {"cool", "cooling", "failed"}, disk'[s].phase \in {"RUNNING", "COOLING"}
      PROVE  LeftBehind(s)'
  BY <1>3 DEF LeftBehind
<1>4. ASSUME pc'[s] \notin {"cool", "cooling"}, UNCHANGED worker, s \notin lost => Own = {}
      PROVE  LeftBehind(s)'
  BY <1>2, <1>4 DEF LeftBehind, LiveWorkers, Running
<1>5. ASSUME pc'[s] \notin {"cool", "cooling", "failed"}, UNCHANGED <<worker, disk, latch>>
      PROVE  LeftBehind(s)'
  BY <1>2, <1>5, <1>inv DEF LeftBehind, LiveWorkers, Running
\* The start, and the end.
<1>6. CASE Launch(s) \/ Refuse(s) \/ Kill(s)
  <2>1. pc'[s] \in {"loaded", "off"}
    BY <1>6, <1>typ DEF Launch, Refuse, Kill, Leave
  <2>2. UNCHANGED <<worker, disk, latch>>
    BY <1>6 DEF Launch, Refuse, Kill
  <2> QED
    BY <1>5, <2>1, <2>2
<1>7. CASE Admit(s) \/ FindStalePause(s)
  <2>1. Own = {} \/ s \in lost
    BY <1>1, <1>7 DEF Admit, FindStalePause, Refusal, Alive, LiveWorkers, Holding
  <2> QED
    BY <1>4, <1>7, <1>typ, <2>1 DEF Admit, Ready, FindStalePause
<1>8. CASE \/ DropPause(s) \/ ResumeCooldownOver(s) \/ Finish(s) \/ PauseAtBoundary(s)
           \/ LeaseBusy(s) \/ BatchSucceeded(s)
  <2>1. pc[s] \in {"dropping", "waiting", "top", "lease", "check"} /\ UNCHANGED worker
    BY <1>8 DEF DropPause, ResumeCooldownOver, Finish, PauseAtBoundary, LeaseBusy,
       BatchSucceeded
  <2>2. pc'[s] \notin {"cool", "cooling"}
    BY <1>8, <1>typ DEF DropPause, Ready, ResumeCooldownOver, Finish, PauseAtBoundary,
       LeaseBusy, BatchSucceeded, Leave
  <2> QED
    BY <1>1, <1>4, <2>1, <2>2 DEF Holding
<1>9. CASE BatchFailed(s)
  <2>1. pc'[s] = "off" /\ UNCHANGED <<worker, latch, lost>>
    BY <1>9, <1>typ DEF BatchFailed, Leave
  <2>2. s \notin lost => \A p \in Own : latch[s]
    BY <1>1, <1>9, <1>inv DEF BatchFailed, LeftBehind, Holding
  <2> QED
    BY <2>1, <2>2 DEF LeftBehind, LiveWorkers, Running
\* The batch.
<1>10. CASE \/ BeginBatch(s) \/ AcquireLease(s) \/ Spawn(s) \/ SpawnFails(s)
            \/ PreflightBreach(s) \/ RecordChild(s) \/ Breach(s) \/ ChildExited(s)
            \/ StopChild(s) \/ StopFails(s) \/ Unload(s) \/ UnloadFails(s)
  <2>1. pc'[s] \in {"lease", "preflight", "spawned", "unload", "watch", "stop", "record"}
    BY <1>10, <1>typ DEF BeginBatch, AcquireLease, Spawn, SpawnFails, PreflightBreach,
       RecordChild, Breach, ChildExited, StopChild, StopFails, Unload, UnloadFails
  <2>2. BatchIsRecorded(s)'
    BY <1>10, BatchRecordedKept DEF LeftInv, Supervise, Mishap
  <2> QED
    BY <1>3, <2>1, <2>2 DEF BatchIsRecorded
<1>11. CASE RecordOutcome(s)
  <2>1. /\ UNCHANGED <<mem, disk, worker, lost>> /\ pc'[s] = "cool" /\ pc[s] = "record"
        /\ mem[s].cleanupError => latch'[s]
    BY <1>11, <1>typ DEF RecordOutcome
  <2> QED
    BY <2>1, <1>inv DEF LeftBehind, BatchIsRecorded
<1>12. CASE RecordCooldown(s)
  <2>1. /\ UNCHANGED latch /\ pc'[s] = "cooling" /\ pc[s] = "cool"
        /\ disk'[s].phase = "COOLING"
    BY <1>12, <1>typ DEF RecordCooldown, WriteState
  <2>2. mem'[s].cleanupError = mem[s].cleanupError
    BY <1>12, <1>typ DEF RecordCooldown, Memory
  <2> QED
    BY <2>1, <2>2, <1>inv DEF LeftBehind
<1>13. CASE CooldownOver(s)
  <2>1. /\ UNCHANGED <<disk, latch, worker, lost>> /\ pc[s] = "cooling"
        /\ pc'[s] \in {"failed", "check"}
    BY <1>13, <1>typ DEF CooldownOver
  <2>2. s \notin lost /\ pc'[s] = "failed" => \A p \in Own : latch[s]
    BY <1>1, <1>inv, <2>1, SuiteConstants DEF HoldsItsOwn, LeftBehind, LiveWorkers
  <2> QED
    BY <1>inv, <2>1, <2>2 DEF LeftBehind, LiveWorkers, Running, BatchIsRecorded
<1>14. CASE SignalPause(s)
  <2>1. UNCHANGED <<pc, disk, latch, worker, lost>> /\ mem'[s].cleanupError = mem[s].cleanupError
    BY <1>14, <1>typ DEF SignalPause, Memory
  <2> QED
    BY <1>inv, <2>1 DEF LeftBehind, LiveWorkers, Running
<1> QED
  BY <1>6, <1>7, <1>8, <1>9, <1>10, <1>11, <1>12, <1>13, <1>14 DEF Supervise, Mishap
LEMMA OwnStepSays ==
    ASSUME LeftInv, NEW s \in Suites, Supervise(s) \/ Mishap(s) \/ Launch(s)
             \/ SignalPause(s) \/ Kill(s)
    PROVE  BoundarySays(s)'
<1> USE DEF Goto, At, files, history
<1>typ. pc \in [Suites -> Pc] /\ disk \in [Suites -> SuiteState]
  BY DEF LeftInv, KeptInv, TypeOK
<1>inv. BatchIsRecorded(s) /\ BoundarySays(s)
  BY DEF LeftInv, KeptInv, Kept
<1>1. CASE Admit(s) \/ DropPause(s)
  <2>1. disk'[s].phase = "READY"
    BY <1>1, <1>typ DEF Admit, DropPause, Ready
  <2> QED
    BY <2>1 DEF BoundarySays
<1>2. CASE ResumeCooldownOver(s) \/ BatchSucceeded(s) \/ SignalPause(s)
  BY <1>2, <1>inv, <1>typ
     DEF ResumeCooldownOver, BatchSucceeded, SignalPause, BoundarySays, BatchIsRecorded
<1>3. CASE ~(\/ Admit(s) \/ DropPause(s) \/ ResumeCooldownOver(s)
             \/ BatchSucceeded(s) \/ SignalPause(s))
  <2>1. CASE Leave(s)
    BY <2>1, <1>typ DEF Leave, BoundarySays
  <2>2. CASE \E to \in Pc \ {"waiting", "top"} : pc' = [pc EXCEPT ![s] = to]
    BY <2>2, <1>typ DEF BoundarySays
  <2> QED
    BY <1>3, <2>1, <2>2
       DEF Pc, Supervise, Mishap, Launch, Kill, Refuse, FindStalePause, Finish,
           PauseAtBoundary, BeginBatch, AcquireLease, LeaseBusy, Spawn, RecordChild,
           ChildExited, StopChild, Unload, RecordOutcome, RecordCooldown, CooldownOver,
           BatchFailed, PreflightBreach, SpawnFails, Breach, StopFails, UnloadFails
<1> QED
  BY <1>1, <1>2, <1>3

\* Nor is anybody left behind by a step of a worker, or of anybody else.
LEMMA LeftStep == LeftInv /\ [Next]_vars => LeftInv'
<1> SUFFICES ASSUME LeftInv, [Next]_vars, NEW s \in Suites
             PROVE  LeftBehind(s)' /\ BoundarySays(s)'
  BY StepKept DEF LeftInv
<1>0. KeptInv /\ LeftBehind(s) /\ BoundarySays(s)
  BY DEF LeftInv
<1>1. ASSUME NEW t \in Suites,
             Supervise(t) \/ Mishap(t) \/ Operate(t) \/ DeadlinePasses(t) \/ Kill(t)
      PROVE  LeftBehind(s)' /\ BoundarySays(s)'
  <2>1. CASE t # s
    BY <1>0, <1>1, <2>1, OthersUntouched, UntouchedLeft
  <2>2. CASE RequestPause(s) \/ DeadlinePasses(s)
    <3>1. Untouched(s)
      BY <2>2 DEF RequestPause, DeadlinePasses, Untouched, history
    <3> QED
      BY <3>1, UntouchedLeft
  <2> QED
    BY <1>1, <2>1, <2>2, OwnStepLeft, OwnStepSays DEF Operate
<1>2. ASSUME NEW p \in Pids, Work(p) \/ Crash(p) \/ LeaderExits(p)
      PROVE  LeftBehind(s)' /\ BoundarySays(s)'
  <2>1. CASE worker[p].suite # s
    BY <1>0, <1>2, <2>1, OthersWorkersUntouched, UntouchedLeft
  <2>2. CASE worker[p].suite = s
    <3>1. Running(p) /\ WorkerMoves(p, s)
      BY <1>0, <1>2, <2>2, WorkerStep
    <3>2. \A q \in LiveWorkers' : worker'[q].suite = s => q \in LiveWorkers /\ worker[q].suite = s
      BY <2>2, <3>1 DEF WorkerMoves, LiveWorkers, Running
    <3>3. mem'[s].cleanupError = mem[s].cleanupError
      <4>1. mem[s] \in Memory
        BY <1>0 DEF KeptInv, TypeOK
      <4> QED
        BY <3>1, <4>1 DEF WorkerMoves, Memory
    <3> QED
      BY <1>0, <3>1, <3>2, <3>3 DEF WorkerMoves, LeftBehind, BoundarySays
  <2> QED
    BY <2>1, <2>2
<1>3. CASE Reboot
  BY <1>3 DEF Reboot, LeftBehind, BoundarySays, LiveWorkers, Running, Dead
<1>4. CASE UNCHANGED vars
  <2>1. Untouched(s)
    BY <1>4 DEF vars, files, history, Untouched
  <2> QED
    BY <2>1, UntouchedLeft
<1> QED
  BY <1>1, <1>2, <1>3, <1>4 DEF Next

LEMMA LeftAlways == Spec => []LeftInv
<1>1. Init => \A s \in Suites : LeftBehind(s) /\ BoundarySays(s)
  <2> SUFFICES ASSUME Init, NEW s \in Suites PROVE LeftBehind(s) /\ BoundarySays(s)
    OBVIOUS
  <2>1. pc[s] = "off" /\ LiveWorkers = {}
    BY DEF Init, LiveWorkers, Running, Dead
  <2> QED
    BY <2>1 DEF LeftBehind, BoundarySays
<1>2. Init /\ KeptInv => LeftInv
  BY <1>1 DEF LeftInv
<1> QED
  BY <1>2, LeftStep, KeptAlways, PTL DEF Spec

-----------------------------------------------------------------------------
(* The batches of one start *)

\* From the spawn of a worker to the judgement on its batch.
UnderWay == {"spawned", "watch", "stop", "unload", "record", "cool", "cooling", "check"}

\* A batch without a reason to fail had a worker that exited with 0, and such a
\* worker leaves a report when it leaves no case open.
ExitIsJudged(s) ==
    /\ pc[s] \in {"stop", "unload", "record", "cool", "cooling"} /\ mem[s].reason = "none" =>
           mem[s].exit = "ok"
    /\ pc[s] = "check" => mem[s].exit = "ok"
    /\ s \notin lost /\ pc[s] \in UnderWay /\ mem[s].exit = "ok" /\ prefix[s] = Total =>
           report[s]

LoopInv == KeptInv /\ \A s \in Suites : ExitIsJudged(s)

LEMMA UntouchedJudged ==
    ASSUME LoopInv, NEW s \in Suites, Untouched(s)
    PROVE  ExitIsJudged(s)'
  BY DEF LoopInv, ExitIsJudged, Untouched

\* A suite's own steps.
LEMMA OwnStepJudged ==
    ASSUME LoopInv, NEW s \in Suites, Supervise(s) \/ Mishap(s) \/ Launch(s)
             \/ SignalPause(s) \/ Kill(s)
    PROVE  ExitIsJudged(s)'
<1> USE DEF Goto, At, files, history
<1>typ. /\ pc \in [Suites -> Pc] /\ mem \in [Suites -> Memory] /\ mem[s] \in Memory
  BY DEF LoopInv, KeptInv, TypeOK
<1>inv. HoldsItsOwn(s) /\ ExitIsJudged(s)
  BY DEF LoopInv, KeptInv, Kept
<1>1. ASSUME pc'[s] \notin UnderWay PROVE ExitIsJudged(s)'
  BY <1>1 DEF ExitIsJudged, UnderWay
\* Before a worker is spawned, and after a batch.
<1>2. CASE Launch(s) \/ Refuse(s) \/ Finish(s) \/ PauseAtBoundary(s) \/ BatchFailed(s) \/ Kill(s)
  <2>1. pc'[s] \in {"loaded", "off"}
    BY <1>2, <1>typ DEF Launch, Refuse, Finish, PauseAtBoundary, BatchFailed, Kill, Leave
  <2> QED
    BY <1>1, <2>1 DEF UnderWay
<1>3. CASE \/ Admit(s) \/ FindStalePause(s) \/ DropPause(s) \/ ResumeCooldownOver(s)
           \/ BeginBatch(s) \/ AcquireLease(s) \/ LeaseBusy(s) \/ BatchSucceeded(s)
  <2>1. pc'[s] \in {"dropping", "waiting", "top", "lease", "preflight", "failed"}
    BY <1>3, <1>typ DEF Admit, Ready, FindStalePause, DropPause, ResumeCooldownOver,
       BeginBatch, AcquireLease, LeaseBusy, BatchSucceeded
  <2> QED
    BY <1>1, <2>1 DEF UnderWay
<1>4. CASE Spawn(s) \/ SpawnFails(s) \/ PreflightBreach(s)
  <2>1. /\ pc'[s] \in {"spawned", "unload"}
        /\ pc'[s] = "unload" => mem'[s].reason # "none"
    BY <1>4, <1>typ DEF Spawn, SpawnFails, PreflightBreach, Memory
  <2>2. mem'[s].exit = "none"
    BY <1>4, <1>typ, <1>inv DEF Spawn, SpawnFails, PreflightBreach, Memory, HoldsItsOwn
  <2> QED
    BY <2>1, <2>2 DEF ExitIsJudged
\* A batch under way keeps its exit status, unless it had none.
<1>5. CASE RecordChild(s)
  <2>1. /\ pc[s] = "spawned" /\ pc'[s] = "watch" /\ mem'[s].exit = mem[s].exit
        /\ UNCHANGED <<prefix, report, lost>>
    BY <1>5, <1>typ DEF RecordChild, Memory
  <2> QED
    BY <1>inv, <2>1 DEF ExitIsJudged, UnderWay
<1>6. CASE Breach(s) \/ ChildExited(s)
  <2>1. /\ pc[s] = "watch" /\ pc'[s] = "stop" /\ mem'[s].exit = mem[s].exit
        /\ mem'[s].reason = "none" => mem[s].exit = "ok"
        /\ UNCHANGED <<prefix, report, lost>>
    BY <1>6, <1>typ DEF Breach, ChildExited, Memory
  <2> QED
    BY <1>inv, <2>1 DEF ExitIsJudged, UnderWay
<1>7. CASE \/ StopChild(s) \/ StopFails(s) \/ Unload(s) \/ UnloadFails(s)
           \/ RecordOutcome(s) \/ RecordCooldown(s)
  <2>1. /\ pc[s] \in {"stop", "unload", "record", "cool"}
        /\ pc'[s] \in {"unload", "record", "cool", "cooling"}
    BY <1>7, <1>typ DEF StopChild, StopFails, Unload, UnloadFails, RecordOutcome,
       RecordCooldown
  <2>2. /\ mem'[s].reason = mem[s].reason
        /\ mem'[s].exit = "ok" <=> mem[s].exit = "ok"
    <3>1. CASE StopChild(s)
      BY <3>1, <1>typ DEF StopChild, Memory
    <3>2. CASE StopFails(s) \/ UnloadFails(s)
      BY <3>2, <1>typ DEF StopFails, UnloadFails, Memory
    <3>3. CASE RecordCooldown(s)
      BY <3>3, <1>typ DEF RecordCooldown, Memory
    <3> QED
      BY <1>7, <3>1, <3>2, <3>3 DEF Unload, RecordOutcome
  <2>3. UNCHANGED <<prefix, report, lost>>
    BY <1>7 DEF StopChild, StopFails, Unload, UnloadFails, RecordOutcome, RecordCooldown
  <2> QED
    BY <1>inv, <2>1, <2>2, <2>3 DEF ExitIsJudged, UnderWay
<1>8. CASE CooldownOver(s)
  <2>1. /\ pc[s] = "cooling" /\ mem'[s].exit = mem[s].exit
        /\ (pc'[s] = "check" /\ mem[s].reason = "none") \/ pc'[s] = "failed"
        /\ UNCHANGED <<prefix, report, lost>>
    BY <1>8, <1>typ DEF CooldownOver, Memory
  <2> QED
    BY <1>inv, <2>1 DEF ExitIsJudged, UnderWay
<1>9. CASE SignalPause(s)
  <2>1. /\ UNCHANGED <<pc, prefix, report, lost>>
        /\ mem'[s].reason = mem[s].reason /\ mem'[s].exit = mem[s].exit
    BY <1>9, <1>typ DEF SignalPause, Memory
  <2> QED
    BY <1>inv, <2>1 DEF ExitIsJudged
<1> QED
  BY <1>2, <1>3, <1>4, <1>5, <1>6, <1>7, <1>8, <1>9 DEF Supervise, Mishap

\* A step of a worker of the suite.
LEMMA WorkerStepJudged ==
    ASSUME LoopInv, NEW s \in Suites, NEW p \in Pids,
           Work(p) \/ Crash(p) \/ LeaderExits(p), worker[p].suite = s
    PROVE  ExitIsJudged(s)'
<1>typ. /\ mem \in [Suites -> Memory] /\ worker \in [Pids -> Worker]
        /\ report \in [Suites -> BOOLEAN] /\ p # NoPid
  BY SuiteConstants DEF LoopInv, KeptInv, TypeOK
<1>mem. mem[s] \in Memory
  BY <1>typ
<1>inv. HoldsItsOwn(s) /\ SuiteInv(s) /\ ExitIsJudged(s)
  BY DEF LoopInv, KeptInv, Kept
<1>1. Running(p) /\ WorkerMoves(p, s)
  BY WorkerStep DEF LoopInv
<1>2. /\ UNCHANGED <<pc, lost>> /\ mem'[s].reason = mem[s].reason
      /\ mem'[s].exit = mem[s].exit \/ Holds(s, p)
  BY <1>1, <1>typ DEF WorkerMoves, Memory
<1>3. Holds(s, p) =>
         /\ pc[s] \in Holding
         /\ mem[s].exit = "ok" => worker[p].stage = "saved"
  BY <1>1, <1>inv, <1>typ DEF HoldsItsOwn, Holds
<1>4. mem[s].exit # "none" => mem'[s].exit = mem[s].exit
  BY <1>1 DEF WorkerMoves
<1>5. ASSUME s \notin lost, pc[s] \in UnderWay, mem'[s].exit = "ok", prefix'[s] = Total
      PROVE  report'[s]
  <2>1. Holds(s, p)
    BY <1>1, <1>5, WorkerIsKnown DEF LoopInv, LiveWorkers, UnderWay, Holds
  <2>2. worker[p].stage = "saved" => worker[p].base = prefix[s]
    BY <1>1, <1>5, <1>inv DEF SuiteInv, BaseIsCurrent, LiveWorkers
  <2>3. CASE ReadCheckpoint(p) \/ Checkpoint(p)
    BY <1>3, <1>5, <2>1, <2>3 DEF ReadCheckpoint, Checkpoint
  <2>4. CASE Succeed(p)
    <3>1. worker[p].stage = "saved" /\ prefix' = prefix
      BY <2>4 DEF Succeed
    <3> QED
      BY <1>5, <1>typ, <2>2, <2>4, <3>1 DEF Succeed
  <2>5. CASE Crash(p)
    <3>1. mem[s].exit = "ok" /\ UNCHANGED <<prefix, report>>
      BY <1>5, <2>5, <1>mem DEF Crash, Exit, Memory, files
    <3> QED
      BY <1>inv, <1>5, <3>1 DEF ExitIsJudged
  <2>6. CASE LeaderExits(p)
    <3>1. worker[p].stage = "saved" /\ prefix' = prefix
      BY <1>5, <2>6, <1>typ, <1>mem DEF LeaderExits, Memory
    <3>2. report' = [report EXCEPT ![s] = @ \/ worker[p].base = Total]
      BY <1>5, <2>6, <1>typ, <1>mem DEF LeaderExits, Memory
    <3> QED
      BY <1>5, <1>typ, <2>2, <3>1, <3>2
  <2> QED
    BY <2>3, <2>4, <2>5, <2>6 DEF Work
<1> QED
  BY <1>inv, <1>2, <1>3, <1>4, <1>5 DEF ExitIsJudged, Holding

LEMMA LoopStep == LoopInv /\ [Next]_vars => LoopInv'
<1> SUFFICES ASSUME LoopInv, [Next]_vars, NEW s \in Suites
             PROVE  ExitIsJudged(s)'
  BY StepKept DEF LoopInv
<1>0. KeptInv
  BY DEF LoopInv
<1>1. ASSUME NEW t \in Suites,
             Supervise(t) \/ Mishap(t) \/ Operate(t) \/ DeadlinePasses(t) \/ Kill(t)
      PROVE  ExitIsJudged(s)'
  <2>1. CASE t # s
    BY <1>0, <1>1, <2>1, OthersUntouched, UntouchedJudged
  <2>2. CASE RequestPause(s) \/ DeadlinePasses(s)
    <3>1. Untouched(s)
      BY <2>2 DEF RequestPause, DeadlinePasses, Untouched, history
    <3> QED
      BY <3>1, UntouchedJudged
  <2> QED
    BY <1>1, <2>1, <2>2, OwnStepJudged DEF Operate
<1>2. ASSUME NEW p \in Pids, Work(p) \/ Crash(p) \/ LeaderExits(p)
      PROVE  ExitIsJudged(s)'
  BY <1>0, <1>2, OthersWorkersUntouched, UntouchedJudged, WorkerStepJudged
<1>3. CASE Reboot
  BY <1>3 DEF Reboot, ExitIsJudged, UnderWay
<1>4. CASE UNCHANGED vars
  <2>1. Untouched(s)
    BY <1>4 DEF vars, files, history, Untouched
  <2> QED
    BY <2>1, UntouchedJudged
<1> QED
  BY <1>1, <1>2, <1>3, <1>4 DEF Next

LEMMA LoopAlways == Spec => []LoopInv
<1>1. Init => \A s \in Suites : ExitIsJudged(s)
  BY DEF Init, ExitIsJudged, UnderWay
<1>2. Init /\ KeptInv => LoopInv
  BY <1>1 DEF LoopInv
<1> QED
  BY <1>2, LoopStep, KeptAlways, PTL DEF Spec

\* One step of a suite's own, from one control point to another.
LEMMA OwnStepAdvances ==
    ASSUME LoopInv, NEW s \in Suites, Supervise(s) \/ Mishap(s)
    PROVE  \/ Position[pc[s]] < Position[pc'[s]]
           \/ /\ pc[s] = "check" /\ pc'[s] = "top"
              /\ \/ mem[s].base < prefix[s] /\ prefix[s] < Total
                 \/ Finished(s)'
                 \/ s \in lost
<1> USE DEF Goto, At, Leave
<1>typ. /\ pc \in [Suites -> Pc] /\ mem \in [Suites -> Memory] /\ mem[s] \in Memory
        /\ prefix[s] \in 0..Total
  BY DEF LoopInv, KeptInv, TypeOK
<1>1. CASE Refuse(s) \/ Admit(s) \/ FindStalePause(s) \/ DropPause(s) \/ ResumeCooldownOver(s)
  BY <1>1, <1>typ DEF Refuse, Admit, Ready, FindStalePause, DropPause, ResumeCooldownOver,
     Position
<1>2. CASE \/ Finish(s) \/ PauseAtBoundary(s) \/ BeginBatch(s) \/ AcquireLease(s)
           \/ LeaseBusy(s) \/ Spawn(s)
  <2>1. \/ pc[s] = "top" /\ pc'[s] \in {"off", "lease"}
        \/ pc[s] = "lease" /\ pc'[s] \in {"preflight", "failed"}
        \/ pc[s] = "preflight" /\ pc'[s] = "spawned"
    BY <1>2, <1>typ DEF Finish, PauseAtBoundary, BeginBatch, AcquireLease, LeaseBusy, Spawn
  <2> QED
    BY <2>1 DEF Position
<1>3. CASE \/ PreflightBreach(s) \/ SpawnFails(s) \/ Breach(s) \/ StopFails(s)
           \/ UnloadFails(s) \/ RecordChild(s) \/ ChildExited(s) \/ StopChild(s)
  BY <1>3, <1>typ DEF PreflightBreach, SpawnFails, Breach, StopFails, UnloadFails,
     RecordChild, ChildExited, StopChild, Position
<1>4. CASE \/ Unload(s) \/ RecordOutcome(s) \/ RecordCooldown(s) \/ CooldownOver(s)
           \/ BatchFailed(s)
  BY <1>4, <1>typ DEF Unload, RecordOutcome, RecordCooldown, CooldownOver, BatchFailed,
     Position
<1>5. CASE BatchSucceeded(s)
  <2>1. /\ pc[s] = "check" /\ pc'[s] = "top" /\ ~mem'[s].need
        /\ UNCHANGED <<prefix, report>> /\ PersistedAsExpected(s)
    BY <1>5, <1>typ DEF BatchSucceeded, Memory, files
  <2>2. mem[s].base \in 0..Total
    BY <1>typ DEF Memory
  <2>3. CASE prefix[s] < Total
    BY <1>typ, <2>1, <2>2, <2>3, SuiteConstants DEF PersistedAsExpected
  <2>4. CASE prefix[s] = Total /\ s \notin lost
    <3>1. report[s]
      BY <2>1, <2>4 DEF LoopInv, ExitIsJudged, UnderWay
    <3> QED
      BY <2>1, <2>4, <3>1 DEF Finished
  <2> QED
    BY <1>typ, <2>1, <2>3, <2>4, SuiteConstants
<1> QED
  BY <1>1, <1>2, <1>3, <1>4, <1>5 DEF Supervise, Mishap

\* A start makes a bounded number of steps of its own, for every manifest: what
\* its liveness rests on beside the fairness of its processes.
THEOREM AlwaysAdvances == Spec => LaunchAdvances
<1> DEFINE Advances == \A s \in Suites :
           \/ pc[s] \in {"off", pc'[s]}
           \/ Position[pc[s]] < Position[pc'[s]]
           \/ /\ pc[s] = "check" /\ pc'[s] = "top"
              /\ \/ mem[s].base < prefix[s] /\ prefix[s] < Total
                 \/ Finished(s)'
                 \/ s \in lost
<1>1. LoopInv /\ [Next]_vars => Advances
  <2> SUFFICES ASSUME LoopInv, [Next]_vars, NEW s \in Suites, pc'[s] # pc[s], pc[s] # "off"
               PROVE  \/ Position[pc[s]] < Position[pc'[s]]
                      \/ /\ pc[s] = "check" /\ pc'[s] = "top"
                         /\ \/ mem[s].base < prefix[s] /\ prefix[s] < Total
                            \/ Finished(s)'
                            \/ s \in lost
    OBVIOUS
  <2>typ. KeptInv /\ pc \in [Suites -> Pc] /\ pc[s] \in Pc
    BY DEF LoopInv, KeptInv, TypeOK
  <2>1. CASE Reboot \/ Kill(s)
    <3>1. pc'[s] = "off"
      BY <2>1, <2>typ DEF Reboot, Kill, Leave, Goto
    <3> QED
      BY <2>typ, <3>1 DEF Pc, Position
  <2>2. ASSUME NEW t \in Suites \ {s},
               Supervise(t) \/ Mishap(t) \/ Operate(t) \/ DeadlinePasses(t) \/ Kill(t)
        PROVE  FALSE
    BY <2>2, <2>typ, OthersUntouched DEF Untouched
  <2>3. ~Operate(s) /\ ~DeadlinePasses(s)
    BY DEF Operate, Launch, SignalPause, RequestPause, DeadlinePasses, At
  <2>4. ASSUME NEW p \in Pids, Work(p) \/ Crash(p) \/ LeaderExits(p)
        PROVE  FALSE
    BY <2>4 DEF Work, ReadCheckpoint, Checkpoint, Succeed, Crash, LeaderExits
  <2>5. CASE Supervise(s) \/ Mishap(s)
    BY <2>5, OwnStepAdvances
  <2> QED
    BY <2>1, <2>2, <2>3, <2>4, <2>5 DEF Next, vars
<1> QED
  BY <1>1, LoopAlways, PTL DEF Spec, LaunchAdvances

-----------------------------------------------------------------------------
(* The files are a register *)

\* The step means nothing to a reader of the files.
Stutters == UNCHANGED <<prefix, report, [s \in Suites |-> Says(disk[s].phase)], latch, lost>>

\* A state that a supervisor writes is a phase entered.
LEMMA PhaseEntered ==
    ASSUME NEW s \in Suites, \A t \in Suites \ {s} : disk'[t].phase = disk[t].phase
    PROVE  Register!Enter(s, Says(disk'[s].phase))
<1> DEFINE Phases == [t \in Suites |-> Says(disk[t].phase)]
<1>1. Phases' = [t \in Suites |-> Says(disk'[t].phase)]
  BY DEF Says
<1>2. Phases' = [Phases EXCEPT ![s] = Says(disk'[s].phase)]
  BY <1>1
<1> QED
  BY <1>2 DEF Register!Enter

\* A supervisor's steps.
LEMMA SupervisorRegisters ==
    ASSUME LeftInv, NEW s \in Suites, Supervise(s)
    PROVE  Register!Next \/ Stutters
<1> DEFINE Others == \A t \in Suites \ {s} : disk'[t].phase = disk[t].phase
<1> USE DEF At, files, history
<1>typ. /\ disk \in [Suites -> SuiteState] /\ latch \in [Suites -> BOOLEAN]
        /\ prefix \in [Suites -> 0..Total] /\ report \in [Suites -> BOOLEAN]
  BY DEF LeftInv, KeptInv, TypeOK
<1>inv. BatchIsRecorded(s) /\ BoundarySays(s)
  BY DEF LeftInv, KeptInv, Kept
<1>latch. pc[s] \notin {"off", "loaded", "failed", "cool", "cooling"} => ~latch[s]
  BY DEF LeftInv, KeptInv, LatchedIsLeaving
\* What becomes of a state that is written.
<1>1. ASSUME Others, UNCHANGED <<prefix, report, latch, lost>>, ~latch[s],
             Says(disk'[s].phase) \in {"RUNNING", "PAUSED"}
      PROVE  Register!Next
  <2>1. Register!Begin(s)
    BY <1>1, PhaseEntered DEF Register!Begin
  <2> QED
    BY <2>1 DEF Register!Next
<1>2. CASE \/ Refuse(s) \/ FindStalePause(s) \/ ResumeCooldownOver(s)
           \/ AcquireLease(s) \/ LeaseBusy(s) \/ Spawn(s) \/ ChildExited(s)
           \/ StopChild(s) \/ Unload(s) \/ CooldownOver(s) \/ BatchSucceeded(s)
  <2>1. UNCHANGED <<disk, prefix, report, latch, lost>>
    BY <1>2 DEF Refuse, FindStalePause, ResumeCooldownOver, AcquireLease, LeaseBusy,
       Spawn, ChildExited, StopChild, Unload, CooldownOver, BatchSucceeded
  <2> QED
    BY <2>1 DEF Stutters
<1>3. CASE Admit(s) \/ DropPause(s)
  <2>1. ~latch[s] /\ Ready(s) /\ UNCHANGED <<prefix, report, latch, lost>>
    BY <1>3, <1>latch DEF Admit, DropPause, Refusal
  <2>2. Others /\ disk'[s].phase = "READY"
    BY <2>1, <1>typ DEF Ready
  <2> QED
    BY <1>1, <2>1, <2>2 DEF Says
<1>4. CASE BeginBatch(s) \/ RecordChild(s) \/ PauseAtBoundary(s)
  <2>1. ~latch[s] /\ UNCHANGED <<prefix, report, latch, lost>>
    BY <1>4, <1>latch DEF BeginBatch, RecordChild, PauseAtBoundary
  <2>2. Others /\ disk'[s].phase \in {"RUNNING", "PAUSED"}
    BY <1>4, <1>typ DEF BeginBatch, RecordChild, PauseAtBoundary, WriteState
  <2> QED
    BY <1>1, <2>1, <2>2 DEF Says
<1>5. CASE RecordCooldown(s)
  <2>1. pc[s] = "cool" /\ UNCHANGED <<prefix, report, latch, lost>>
    BY <1>5 DEF RecordCooldown
  <2>2. Others /\ disk'[s].phase = "COOLING"
    BY <1>5, <1>typ DEF RecordCooldown, WriteState
  <2>3. \A t \in Suites : Says(disk'[t].phase) = Says(disk[t].phase)
    BY <2>1, <2>2, <1>inv, <1>typ DEF BatchIsRecorded, Says
  <2> QED
    BY <2>1, <2>3 DEF Stutters
<1>6. CASE Finish(s)
  <2>1. /\ pc[s] = "top" /\ UNCHANGED <<prefix, report, latch, lost>>
        /\ prefix[s] = Total /\ report[s]
    BY <1>6 DEF Finish, Finished
  <2>2. Others /\ disk'[s].phase = "COMPLETE"
    BY <1>6, <1>typ DEF Finish, WriteState
  <2>3. Register!Enter(s, "COMPLETE")
    <3>1. Says(disk'[s].phase) = "COMPLETE"
      BY <2>2 DEF Says
    <3> QED
      BY <2>2, <3>1, PhaseEntered DEF Register!Enter
  <2>4. Register!Settle(s)
    BY <2>1, <2>3, <1>inv, <1>latch
       DEF Register!Settle, Register!Runs, BoundarySays, Says
  <2> QED
    BY <2>4 DEF Register!Next
<1>7. CASE BatchFailed(s)
  <2>1. pc[s] \in {"failed", "check"} /\ UNCHANGED <<prefix, report, latch, lost>>
    BY <1>7 DEF BatchFailed
  <2>2. Others /\ disk'[s].phase \in {"FAILED", "RESOURCE_STOP"}
    BY <1>7, <1>typ DEF BatchFailed, WriteState
  <2>3. Register!Enter(s, "FAILED")
    <3>1. Says(disk'[s].phase) = "FAILED"
      BY <2>2 DEF Says
    <3> QED
      BY <2>2, <3>1, PhaseEntered DEF Register!Enter
  <2>4. Register!Fail(s)
    BY <2>1, <2>3, <1>inv DEF Register!Fail, Register!Runs, BatchIsRecorded, Says
  <2> QED
    BY <2>4 DEF Register!Next
<1>8. CASE RecordOutcome(s)
  <2>1. pc[s] = "record" /\ UNCHANGED <<disk, prefix, report, lost>>
    BY <1>8 DEF RecordOutcome
  <2>2. CASE UNCHANGED latch
    BY <2>1, <2>2 DEF Stutters
  <2>3. CASE latch' = [latch EXCEPT ![s] = TRUE]
    <3>1. Register!Latch(s)
      BY <2>1, <2>3, <1>inv DEF Register!Latch, Register!Runs, BatchIsRecorded, Says
    <3> QED
      BY <3>1 DEF Register!Next
  <2>4. latch' = [latch EXCEPT ![s] = TRUE] \/ latch' = [latch EXCEPT ![s] = FALSE]
    BY <1>8, <1>typ DEF RecordOutcome
  <2> QED
    BY <2>2, <2>3, <2>4, <2>1, <1>latch, <1>typ
<1> QED
  BY <1>2, <1>3, <1>4, <1>5, <1>6, <1>7, <1>8 DEF Supervise

\* A worker's steps.
LEMMA WorkerRegisters ==
    ASSUME LeftInv, NEW p \in Pids, Work(p) \/ Crash(p) \/ LeaderExits(p)
    PROVE  Register!Next \/ Stutters
<1> USE DEF files, history
<1> DEFINE s == worker[p].suite
<1>typ. /\ worker[p] \in Worker /\ Total \in Nat
        /\ prefix \in [Suites -> 0..Total] /\ report \in [Suites -> BOOLEAN]
  BY SuiteConstants DEF LeftInv, KeptInv, TypeOK
<1>1. Running(p) /\ s \in Suites
  BY <1>typ DEF Work, ReadCheckpoint, Checkpoint, Succeed, Crash, LeaderExits, Running, Worker
<1>2. ASSUME s \notin lost
      PROVE  /\ Register!Runs(s) \/ latch[s]
             /\ worker[p].stage # "new" => worker[p].base = prefix[s]
  BY <1>1, <1>2 DEF LeftInv, LeftBehind, KeptInv, Kept, SuiteInv, BaseIsCurrent,
     LiveWorkers, Register!Runs, Says
<1>3. CASE ReadCheckpoint(p) \/ Crash(p)
  BY <1>3 DEF ReadCheckpoint, Crash, Stutters
<1>4. CASE Checkpoint(p)
  <2>1. /\ prefix' = [prefix EXCEPT ![s] = worker[p].base + 1]
        /\ worker[p].stage = "infer" /\ worker[p].base < Total
        /\ UNCHANGED <<report, disk, latch, lost>>
    BY <1>1, <1>4, <1>typ DEF Checkpoint, Worker
  <2>2. CASE s \in lost
    <3>1. worker[p].base + 1 \in 0..Total
      BY <2>1, <1>typ DEF Worker
    <3>2. Register!Overwrite(s)
      BY <1>1, <2>1, <2>2, <3>1 DEF Register!Overwrite
    <3> QED
      BY <1>1, <3>2 DEF Register!Next
  <2>3. CASE s \notin lost
    <3>1. Register!Checkpoint(s)
      BY <1>1, <1>2, <2>1, <2>3 DEF Register!Checkpoint
    <3> QED
      BY <1>1, <3>1 DEF Register!Next
  <2> QED
    BY <2>2, <2>3
\* The report is written by a worker that then ends, or whose leader does.
<1>5. ASSUME worker[p].stage = "saved", UNCHANGED <<prefix, disk, latch, lost>>,
             report' = [report EXCEPT ![s] = @ \/ worker[p].base = Total]
      PROVE  Register!Next \/ Stutters
  <2>2. CASE worker[p].base # Total
    <3>1. report' = report
      BY <1>1, <1>typ, <1>5, <2>2
    <3> QED
      BY <1>5, <3>1 DEF Stutters
  <2>3. CASE worker[p].base = Total
    <3>1. report' = [report EXCEPT ![s] = TRUE]
      BY <1>1, <1>5, <2>3
    <3>2. CASE s \in lost
      <4>1. Register!ConcludeAstray(s)
        BY <1>1, <1>5, <3>1, <3>2 DEF Register!ConcludeAstray
      <4> QED
        BY <1>1, <4>1 DEF Register!Next
    <3>3. CASE s \notin lost
      <4>1. Register!Conclude(s)
        BY <1>1, <1>2, <1>5, <2>3, <3>1, <3>3 DEF Register!Conclude
      <4> QED
        BY <1>1, <4>1 DEF Register!Next
    <3> QED
      BY <3>2, <3>3
  <2> QED
    BY <2>2, <2>3
<1>6. CASE Succeed(p)
  BY <1>5, <1>6 DEF Succeed
<1>7. CASE LeaderExits(p)
  <2>1. UNCHANGED <<prefix, disk, latch, lost>>
    BY <1>7 DEF LeaderExits
  <2>2. CASE UNCHANGED report
    BY <2>1, <2>2 DEF Stutters
  <2> QED
    BY <1>5, <1>7, <2>1, <2>2 DEF LeaderExits
<1> QED
  BY <1>3, <1>4, <1>6, <1>7 DEF Work

\* Every step of supervisors and workers, killed or not, is a step of the register
\* a reader of the files may rely on, or is none.
THEOREM FilesRegister == Spec => FilesAreARegister
<1> DEFINE Phases == [s \in Suites |-> Says(disk[s].phase)]
<1>1. Init => Register!Init
  BY DEF Init, Register!Init, NoState, Says
<1>2. LeftInv /\ [Next]_vars => [Register!Next]_<<prefix, report, Phases, latch, lost>>
  <2> SUFFICES ASSUME LeftInv, [Next]_vars PROVE Register!Next \/ Stutters
    BY DEF Stutters
  <2>1. ASSUME NEW s \in Suites, Kill(s) PROVE Register!Next \/ Stutters
    <3>1. UNCHANGED <<disk, prefix, report, latch>>
      BY <2>1 DEF Kill, files
    <3>2. CASE lost' = lost
      BY <3>1, <3>2 DEF Stutters
    <3>3. CASE lost' = lost \cup {s}
      <4>1. Register!Lose(s)
        BY <3>1, <3>3 DEF Register!Lose
      <4> QED
        BY <4>1 DEF Register!Next
    <3> QED
      BY <2>1, <3>2, <3>3 DEF Kill
  <2>2. ASSUME NEW s \in Suites, Mishap(s) \/ Operate(s) \/ DeadlinePasses(s)
        PROVE  Stutters
    BY <2>2 DEF Mishap, Operate, DeadlinePasses, PreflightBreach, SpawnFails, Breach,
       StopFails, UnloadFails, Launch, SignalPause, RequestPause, Stutters, files, history
  <2>3. CASE Reboot
    <3>1. \A s \in Suites : disk'[s].phase = disk[s].phase
      <4>1. disk \in [Suites -> SuiteState]
        BY DEF LeftInv, KeptInv, TypeOK
      <4> QED
        BY <2>3, <4>1 DEF Reboot, SuiteState
    <3> QED
      BY <2>3, <3>1 DEF Reboot, Stutters
  <2>4. CASE UNCHANGED vars
    BY <2>4 DEF vars, files, history, Stutters
  <2> QED
    BY <2>1, <2>2, <2>3, <2>4, SupervisorRegisters, WorkerRegisters DEF Next
<1> QED
  BY <1>1, <1>2, LeftAlways, PTL DEF Spec, FilesAreARegister, Register!Spec
=============================================================================
