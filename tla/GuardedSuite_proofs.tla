------------------------ MODULE GuardedSuite_proofs -------------------------
(***************************************************************************)
(* Theorems about GuardedSuite, for every number of suites, cases, worker  *)
(* processes and faults: type correctness, the machine-wide exclusion of   *)
(* batches, the finality of the resource latch, the recorded cooldown and  *)
(* the pause file.                                                         *)
(***************************************************************************)
EXTENDS GuardedSuite, TLAPS

-----------------------------------------------------------------------------
(* Typing *)

\* Writing a well-typed suite state keeps the two files it touches well typed.
LEMMA WriteStateTyped ==
    ASSUME TypeOK, NEW s \in Suites, NEW phase \in Phase,
           NEW pid \in Pids \cup {NoPid},
           NEW recovery \in BOOLEAN, NEW cleanup \in BOOLEAN,
           WriteState(s, phase, pid, recovery, cleanup)
    PROVE  /\ disk' \in [Suites -> SuiteState]
           /\ pause' \in [Suites -> PauseFile]
  BY DEF TypeOK, WriteState, SuiteState, PauseFile

\* A supervisor that ends leaves well-typed memory and control behind.
LEMMA LeaveTyped ==
    ASSUME TypeOK, NEW s \in Suites, Leave(s)
    PROVE  pc' \in [Suites -> Pc] /\ mem' \in [Suites -> Memory]
<1>1. NoMemory \in Memory
  BY SuiteConstants DEF NoMemory, Memory
<1> QED
  BY <1>1 DEF TypeOK, Leave, Goto, Pc

\* So does a worker that ends.
LEMMA ExitTyped ==
    ASSUME TypeOK, NEW p \in Pids, NEW exit \in {"ok", "error"}, Exit(p, exit)
    PROVE  worker' \in [Pids -> Worker] /\ mem' \in [Suites -> Memory]
<1>1. Dead \in Worker
  BY SuiteConstants DEF Dead, Worker
<1>2. \A s \in Suites : mem[s] \in Memory
  BY DEF TypeOK
<1>3. \A s \in Suites : [mem[s] EXCEPT !.exit = exit] \in Memory
  BY <1>2 DEF Memory
<1> QED
  BY <1>1, <1>2, <1>3 DEF TypeOK, Exit

\* A leader that exits changes nothing in any supervisor's memory but the exit
\* status of the batch whose worker it leaves behind.
LEMMA LeaderStep ==
    ASSUME TypeOK, NEW p \in Pids, LeaderExits(p)
    PROVE  /\ worker[p].suite \in Suites
           /\ \E e \in {"ok", "error"} :
                /\ mem' = [mem EXCEPT ![worker[p].suite].exit = e]
                /\ e = "ok" => worker[p].stage = "saved"
<1>1. worker[p] \in Worker /\ worker[p].stage # "dead"
  BY DEF TypeOK, LeaderExits, Running
<1>2. worker[p].suite \in Suites
  BY <1>1 DEF Worker
<1> QED
  BY <1>2 DEF LeaderExits

\* The initial state is well typed.
LEMMA InitTyped == Init => TypeOK
<1>1. NoMemory \in Memory
  BY SuiteConstants DEF NoMemory, Memory
<1>2. Dead \in Worker
  BY SuiteConstants DEF Dead, Worker
<1>3. NoState \in SuiteState
  BY DEF NoState, SuiteState, Phase
<1> QED
  BY <1>1, <1>2, <1>3, SuiteConstants DEF Init, TypeOK, Pc, PauseFile

\* Every step keeps the types.
LEMMA StepTyped == TypeOK /\ [Next]_vars => TypeOK'
<1> SUFFICES ASSUME TypeOK, [Next]_vars PROVE TypeOK'
  OBVIOUS
<1> USE DEF Goto, files, history
<1>mem. ASSUME NEW s \in Suites
        PROVE  /\ mem[s] \in Memory
               /\ mem[s].recovery \in BOOLEAN /\ mem[s].cleanup \in BOOLEAN
               /\ mem[s].base \in 0..Total /\ mem[s].pid \in Pids \cup {NoPid}
               /\ mem[s].proc \in Pids \cup {NoPid}
  BY DEF TypeOK, Memory
<1>1. ASSUME NEW s \in Suites, Launch(s) PROVE TypeOK'
  <2>1. \A pilot \in BOOLEAN :
           [mem[s] EXCEPT !.pilot = pilot, !.base = prefix[s]] \in Memory
    BY <1>mem DEF TypeOK, Memory
  <2> QED
    BY <1>1, <2>1 DEF Launch, TypeOK, Pc
<1>2. ASSUME NEW s \in Suites, Refuse(s) PROVE TypeOK'
  BY <1>2, LeaveTyped DEF Refuse, TypeOK
<1>3. ASSUME NEW s \in Suites, Admit(s) \/ DropPause(s) PROVE TypeOK'
  <2>1. \A need, recovery \in BOOLEAN :
           /\ [mem[s] EXCEPT !.need = need, !.recovery = recovery,
                             !.cleanup = need] \in Memory
           /\ [phase |-> "READY", pid |-> NoPid, boot |-> TRUE,
               recovery |-> recovery, cleanup |-> need] \in SuiteState
    BY <1>mem DEF Memory, SuiteState, Phase
  <2>2. /\ NeedsFinalCleanup(s) \in BOOLEAN
        /\ (Unclean(s) /\ mem[s].base < Total) \in BOOLEAN
    BY DEF NeedsFinalCleanup
  <2>3. mem' \in [Suites -> Memory] /\ disk' \in [Suites -> SuiteState]
    <3>1. Ready(s)
      BY <1>3 DEF Admit, DropPause
    <3> QED
      BY <2>1, <2>2, <3>1 DEF Ready, TypeOK
  <2> QED
    BY <1>3, <2>3 DEF Admit, DropPause, Ready, TypeOK, Pc, PauseFile
<1>4. ASSUME NEW s \in Suites, FindStalePause(s) \/ ResumeCooldownOver(s)
      PROVE  TypeOK'
  BY <1>4 DEF FindStalePause, ResumeCooldownOver, TypeOK, Pc
<1>5. ASSUME NEW s \in Suites, Finish(s) PROVE TypeOK'
  <2>1. disk' \in [Suites -> SuiteState] /\ pause' \in [Suites -> PauseFile]
    BY <1>5, <1>mem, WriteStateTyped DEF Finish, Phase
  <2> QED
    BY <1>5, <2>1, LeaveTyped DEF Finish, TypeOK
<1>6. ASSUME NEW s \in Suites, PauseAtBoundary(s) PROVE TypeOK'
  <2>1. disk' \in [Suites -> SuiteState] /\ pause' \in [Suites -> PauseFile]
    BY <1>6, <1>mem, WriteStateTyped DEF PauseAtBoundary, Phase
  <2> QED
    BY <1>6, <2>1, LeaveTyped DEF PauseAtBoundary, TypeOK
<1>7. ASSUME NEW s \in Suites, BeginBatch(s) PROVE TypeOK'
  <2>1. [mem[s] EXCEPT !.base = prefix[s], !.cleanup = TRUE, !.pid = NoPid,
                       !.proc = NoPid, !.exit = "none", !.reason = "none",
                       !.cleanupError = FALSE] \in Memory
    BY <1>mem DEF TypeOK, Memory
  <2>2. mem' \in [Suites -> Memory]
    BY <1>7, <2>1 DEF BeginBatch, TypeOK
  <2>3. disk' \in [Suites -> SuiteState] /\ pause' \in [Suites -> PauseFile]
    BY <1>7, <1>mem, WriteStateTyped DEF BeginBatch, Phase
  <2> QED
    BY <1>7, <2>2, <2>3 DEF BeginBatch, TypeOK, Pc
<1>8. ASSUME NEW s \in Suites, AcquireLease(s) PROVE TypeOK'
  BY <1>8 DEF AcquireLease, TypeOK, Pc
<1>9. ASSUME NEW s \in Suites, LeaseBusy(s) PROVE TypeOK'
  <2>1. [mem[s] EXCEPT !.reason = "error"] \in Memory
    BY <1>mem DEF Memory
  <2> QED
    BY <1>9, <2>1 DEF LeaseBusy, TypeOK, Pc
<1>10. ASSUME NEW s \in Suites, Spawn(s) PROVE TypeOK'
  <2>1. PICK p \in Pids :
           /\ worker' = [worker EXCEPT ![p] =
                           [stage |-> "new", suite |-> s, base |-> 0]]
           /\ mem' = [mem EXCEPT ![s].proc = p]
    BY <1>10 DEF Spawn
  <2>2. [mem[s] EXCEPT !.proc = p] \in Memory
    BY <1>mem DEF Memory
  <2>3. [stage |-> "new", suite |-> s, base |-> 0] \in Worker
    BY SuiteConstants DEF Worker
  <2> QED
    BY <1>10, <2>1, <2>2, <2>3 DEF Spawn, TypeOK, Pc
<1>11. ASSUME NEW s \in Suites, RecordChild(s) PROVE TypeOK'
  <2>1. [mem[s] EXCEPT !.pid = mem[s].proc] \in Memory
    BY <1>mem DEF Memory
  <2>2. disk' \in [Suites -> SuiteState] /\ pause' \in [Suites -> PauseFile]
    BY <1>11, <1>mem, WriteStateTyped DEF RecordChild, Phase
  <2> QED
    BY <1>11, <2>1, <2>2 DEF RecordChild, TypeOK, Pc
<1>12. ASSUME NEW s \in Suites, ChildExited(s) PROVE TypeOK'
  <2>1. \A r \in {"none", "error"} : [mem[s] EXCEPT !.reason = r] \in Memory
    BY <1>mem DEF Memory
  <2> QED
    BY <1>12, <2>1 DEF ChildExited, TypeOK, Pc
<1>13. ASSUME NEW s \in Suites, StopChild(s) PROVE TypeOK'
  <2>1. \A e \in {"none", "ok", "error"} : [mem[s] EXCEPT !.exit = e] \in Memory
    BY <1>mem DEF Memory
  <2>2. mem[s].exit \in {"none", "ok", "error"}
    BY <1>mem DEF Memory
  <2>3. mem' \in [Suites -> Memory]
    BY <1>13, <2>1, <2>2 DEF StopChild, TypeOK
  <2>4. Dead \in Worker
    BY SuiteConstants DEF Dead, Worker
  <2> QED
    BY <1>13, <2>3, <2>4 DEF StopChild, TypeOK, Pc
<1>14. ASSUME NEW s \in Suites, Unload(s) PROVE TypeOK'
  BY <1>14 DEF Unload, TypeOK, Pc
<1>15. ASSUME NEW s \in Suites, RecordOutcome(s) PROVE TypeOK'
  BY <1>15 DEF RecordOutcome, TypeOK, Pc
<1>16. ASSUME NEW s \in Suites, RecordCooldown(s) PROVE TypeOK'
  <2>1. ChildStillAlive(s) \in Pids \cup {NoPid}
    BY <1>mem DEF ChildStillAlive
  <2>2. \A pid \in Pids \cup {NoPid}, clean \in BOOLEAN :
           [mem[s] EXCEPT !.pid = pid, !.cleanup = clean] \in Memory
    BY <1>mem DEF Memory
  <2>3. (ChildStillAlive(s) # NoPid /\ mem[s].cleanup) \in BOOLEAN
    OBVIOUS
  <2>4. mem' \in [Suites -> Memory]
    BY <1>16, <2>1, <2>2, <2>3 DEF RecordCooldown, TypeOK
  <2>5. disk' \in [Suites -> SuiteState] /\ pause' \in [Suites -> PauseFile]
    BY <1>16, <1>mem, <2>1, <2>3, WriteStateTyped DEF RecordCooldown, Phase
  <2> QED
    BY <1>16, <2>4, <2>5 DEF RecordCooldown, TypeOK, Pc
<1>17. ASSUME NEW s \in Suites, CooldownOver(s) PROVE TypeOK'
  <2>1. [mem[s] EXCEPT !.proc = NoPid] \in Memory
    BY <1>mem DEF Memory
  <2> QED
    BY <1>17, <2>1 DEF CooldownOver, TypeOK, Pc
<1>18. ASSUME NEW s \in Suites, BatchSucceeded(s) PROVE TypeOK'
  <2>1. [mem[s] EXCEPT !.ran = TRUE, !.need = FALSE, !.recovery = FALSE,
                       !.cleanup = FALSE] \in Memory
    BY <1>mem DEF Memory
  <2> QED
    BY <1>18, <2>1 DEF BatchSucceeded, TypeOK, Pc
<1>19. ASSUME NEW s \in Suites, BatchFailed(s) PROVE TypeOK'
  <2>1. ChildStillAlive(s) \in Pids \cup {NoPid}
    BY <1>mem DEF ChildStillAlive
  <2>2. disk' \in [Suites -> SuiteState] /\ pause' \in [Suites -> PauseFile]
    <3>1. "FAILED" \in Phase /\ "RESOURCE_STOP" \in Phase
      BY DEF Phase
    <3> QED
      BY <1>19, <1>mem, <2>1, <3>1, WriteStateTyped DEF BatchFailed
  <2> QED
    BY <1>19, <2>2, LeaveTyped DEF BatchFailed, TypeOK
<1>20. ASSUME NEW s \in Suites, PreflightBreach(s) \/ Breach(s) PROVE TypeOK'
  <2>1. [mem[s] EXCEPT !.reason = "resource"] \in Memory
    BY <1>mem DEF Memory
  <2>2. mem' \in [Suites -> Memory] /\ pc' \in [Suites -> Pc]
    BY <1>20, <2>1 DEF PreflightBreach, Breach, TypeOK, Pc
  <2> QED
    BY <1>20, <2>2 DEF PreflightBreach, Breach, TypeOK
<1>21. ASSUME NEW s \in Suites, SpawnFails(s) PROVE TypeOK'
  <2>1. [mem[s] EXCEPT !.reason = "error"] \in Memory
    BY <1>mem DEF Memory
  <2> QED
    BY <1>21, <2>1 DEF SpawnFails, TypeOK, Pc
<1>22. ASSUME NEW s \in Suites, StopFails(s) \/ UnloadFails(s) PROVE TypeOK'
  <2>1. [mem[s] EXCEPT !.cleanupError = TRUE] \in Memory
    BY <1>mem DEF Memory
  <2> QED
    BY <1>22, <2>1 DEF StopFails, UnloadFails, TypeOK, Pc
<1>23. ASSUME NEW s \in Suites, SignalPause(s) PROVE TypeOK'
  <2>1. [mem[s] EXCEPT !.signalled = TRUE] \in Memory
    BY <1>mem DEF Memory
  <2> QED
    BY <1>23, <2>1 DEF SignalPause, TypeOK
<1>24. ASSUME NEW s \in Suites, RequestPause(s) PROVE TypeOK'
  BY <1>24 DEF RequestPause, TypeOK, PauseFile
<1>25. ASSUME NEW s \in Suites, DeadlinePasses(s) PROVE TypeOK'
  BY <1>25 DEF DeadlinePasses, TypeOK
<1>26. ASSUME NEW s \in Suites, Kill(s) PROVE TypeOK'
  <2>1. pc' \in [Suites -> Pc] /\ mem' \in [Suites -> Memory]
    BY <1>26, LeaveTyped DEF Kill
  <2>2. faults' \in 0..MaxFaults
    BY <1>26, SuiteConstants DEF Kill, TypeOK
  <2>3. dirty' \in [Suites -> BOOLEAN]
    BY <1>26 DEF Kill, TypeOK, MidBatch
  <2> QED
    BY <1>26, <2>1, <2>2, <2>3 DEF Kill, TypeOK
<1>27. ASSUME NEW p \in Pids, ReadCheckpoint(p) PROVE TypeOK'
  <2>1. worker[p] \in Worker /\ prefix \in [Suites -> 0..Total]
    BY DEF TypeOK
  <2>2. worker[p].suite \in Suites
    BY <1>27, <2>1 DEF ReadCheckpoint, Worker
  <2> DEFINE w == [worker[p] EXCEPT !.base = prefix[worker[p].suite],
                     !.stage = IF prefix[worker[p].suite] < Total THEN "infer"
                               ELSE "saved"]
  <2>3. w \in Worker
    BY <2>1, <2>2, SuiteConstants DEF Worker
  <2>4. worker' = [worker EXCEPT ![p] = w]
    BY <1>27 DEF ReadCheckpoint
  <2> QED
    BY <1>27, <2>2, <2>3, <2>4 DEF ReadCheckpoint, TypeOK
<1>28. ASSUME NEW p \in Pids, Checkpoint(p) PROVE TypeOK'
  <2>1. worker[p] \in Worker
    BY DEF TypeOK
  <2>2. worker[p].suite \in Suites /\ worker[p].base + 1 \in 0..Total
    BY <1>28, <2>1, SuiteConstants DEF Checkpoint, Worker
  <2> DEFINE w == [worker[p] EXCEPT !.base = worker[p].base + 1, !.stage = "saved"]
  <2>3. w \in Worker
    BY <2>1, <2>2 DEF Worker
  <2>4. worker' = [worker EXCEPT ![p] = w]
    BY <1>28 DEF Checkpoint
  <2> QED
    BY <1>28, <2>2, <2>3, <2>4 DEF Checkpoint, TypeOK
<1>29. ASSUME NEW p \in Pids, Succeed(p) PROVE TypeOK'
  <2>1. worker' \in [Pids -> Worker] /\ mem' \in [Suites -> Memory]
    BY <1>29, ExitTyped DEF Succeed
  <2>2. report' \in [Suites -> BOOLEAN]
    BY <1>29 DEF Succeed, TypeOK
  <2> QED
    BY <1>29, <2>1, <2>2 DEF Succeed, TypeOK
<1>30. ASSUME NEW p \in Pids, Crash(p) PROVE TypeOK'
  BY <1>30, ExitTyped DEF Crash, TypeOK
<1>31. ASSUME NEW p \in Pids, LeaderExits(p) PROVE TypeOK'
  <2>1. PICK e \in {"ok", "error"} : mem' = [mem EXCEPT ![worker[p].suite].exit = e]
    BY <1>31, LeaderStep
  <2>2. \A s \in Suites : [mem[s] EXCEPT !.exit = e] \in Memory
    BY <1>mem DEF Memory
  <2>3. mem' \in [Suites -> Memory]
    BY <1>31, <2>1, <2>2, LeaderStep DEF TypeOK
  <2>4. report' \in [Suites -> BOOLEAN]
    BY <1>31 DEF LeaderExits, TypeOK
  <2> QED
    BY <1>31, <2>3, <2>4 DEF LeaderExits, TypeOK
<1>32. CASE Reboot
  <2>1. NoMemory \in Memory /\ Dead \in Worker
    BY SuiteConstants DEF NoMemory, Memory, Dead, Worker
  <2>2. \A s \in Suites : [disk[s] EXCEPT !.boot = FALSE] \in SuiteState
    BY DEF TypeOK, SuiteState
  <2>3. disk' \in [Suites -> SuiteState]
    BY <1>32, <2>2 DEF Reboot, TypeOK
  <2>4. dirty' \in [Suites -> BOOLEAN]
    BY <1>32 DEF Reboot, TypeOK, MidBatch
  <2>5. faults' \in 0..MaxFaults
    BY <1>32, SuiteConstants DEF Reboot, TypeOK
  <2> QED
    BY <1>32, <2>1, <2>3, <2>4, <2>5 DEF Reboot, TypeOK, Pc
<1>33. CASE UNCHANGED vars
  BY <1>33 DEF vars, TypeOK
<1> QED
  BY <1>1, <1>2, <1>3, <1>4, <1>5, <1>6, <1>7, <1>8, <1>9, <1>10, <1>11, <1>12,
     <1>13, <1>14, <1>15, <1>16, <1>17, <1>18, <1>19, <1>20, <1>21, <1>22, <1>23,
     <1>24, <1>25, <1>26, <1>27, <1>28, <1>29, <1>30, <1>31, <1>32, <1>33
  DEF Next, Supervise, Mishap, Operate, Work

\* Every variable keeps its type; in particular a worker's progress stays
\* within the manifest, and a state file names no process but a worker.
THEOREM TypeCorrect == Spec => []TypeOK
<1> QED
  BY InitTyped, StepTyped, PTL DEF Spec

-----------------------------------------------------------------------------
(* The workload lease *)

\* A batch under way holds the lease: the lease is a lock, not a flag, and
\* only the end of the cooldown or the death of its holder lets go of it.
LeaseHeld == \A s \in Suites : MidBatch(s) => lease = s

\* Every step keeps the lease with the supervisor whose batch is under way.
LEMMA StepLease == TypeOK /\ LeaseHeld /\ [Next]_vars => LeaseHeld'
<1> SUFFICES ASSUME TypeOK, LeaseHeld, [Next]_vars PROVE LeaseHeld'
  OBVIOUS
<1> USE DEF LeaseHeld, MidBatch, Goto
<1>pc. pc \in [Suites -> Pc]
  BY DEF TypeOK
\* Steps that leave the lease alone and do not enter a batch.
<1>1. ASSUME NEW s \in Suites,
             Launch(s) \/ Admit(s) \/ FindStalePause(s) \/ DropPause(s)
               \/ ResumeCooldownOver(s) \/ BeginBatch(s) \/ LeaseBusy(s)
               \/ BatchSucceeded(s)
      PROVE  LeaseHeld'
  BY <1>1, <1>pc DEF Launch, Admit, FindStalePause, DropPause, Ready,
     ResumeCooldownOver, BeginBatch, LeaseBusy, BatchSucceeded
<1>2. ASSUME NEW s \in Suites,
             Refuse(s) \/ Finish(s) \/ PauseAtBoundary(s) \/ BatchFailed(s)
      PROVE  LeaseHeld'
  BY <1>2, <1>pc DEF Refuse, Finish, PauseAtBoundary, BatchFailed, Leave
\* Steps from one point of a batch to the next.
<1>3. ASSUME NEW s \in Suites,
             Spawn(s) \/ RecordChild(s) \/ ChildExited(s) \/ StopChild(s)
               \/ Unload(s) \/ RecordOutcome(s) \/ RecordCooldown(s)
      PROVE  LeaseHeld'
  BY <1>3, <1>pc DEF At, Spawn, RecordChild, ChildExited, StopChild, Unload,
     RecordOutcome, RecordCooldown
<1>4. ASSUME NEW s \in Suites, Mishap(s) PROVE LeaseHeld'
  BY <1>4, <1>pc DEF At, Mishap, PreflightBreach, SpawnFails, Breach, StopFails,
     UnloadFails
\* The lease is taken when it is free, so no batch was under way.
<1>5. ASSUME NEW s \in Suites, AcquireLease(s) PROVE LeaseHeld'
  BY <1>5, <1>pc, SuiteConstants DEF AcquireLease
<1>6. ASSUME NEW s \in Suites, CooldownOver(s) PROVE LeaseHeld'
  BY <1>6, <1>pc DEF At, CooldownOver
<1>7. ASSUME NEW s \in Suites, Kill(s) PROVE LeaseHeld'
  BY <1>7, <1>pc DEF Kill, Leave
<1>8. CASE Reboot
  BY <1>8 DEF Reboot
\* Steps that move no supervisor.
<1>9. ASSUME NEW s \in Suites,
             SignalPause(s) \/ RequestPause(s) \/ DeadlinePasses(s)
      PROVE  LeaseHeld'
  BY <1>9 DEF SignalPause, RequestPause, DeadlinePasses
<1>10. ASSUME NEW p \in Pids, Work(p) \/ Crash(p) \/ LeaderExits(p) PROVE LeaseHeld'
  BY <1>10 DEF Work, ReadCheckpoint, Checkpoint, Succeed, Crash, LeaderExits
<1>11. CASE UNCHANGED vars
  BY <1>11 DEF vars
<1> QED
  BY <1>1, <1>2, <1>3, <1>4, <1>5, <1>6, <1>7, <1>8, <1>9, <1>10, <1>11
  DEF Next, Supervise, Operate

\* Spec keeps LeaseHeld.
LEMMA LeaseAlwaysHeld == Spec => []LeaseHeld
<1>1. Init => LeaseHeld
  BY DEF Init, LeaseHeld, MidBatch
<1> QED
  BY <1>1, StepLease, TypeCorrect, PTL DEF Spec

\* At most one supervisor of the machine is between its preflight and the end
\* of its cooldown, whoever was killed and whatever failed before.
THEOREM OneBatch == Spec => []OneBatchAtATime
<1>1. LeaseHeld => OneBatchAtATime
  BY DEF LeaseHeld, OneBatchAtATime
<1> QED
  BY <1>1, LeaseAlwaysHeld, PTL

-----------------------------------------------------------------------------
(* The resource latch *)

\* A supervisor whose suite is latched is on its way out: it has not passed
\* main()'s checks yet, or the batch that latched the suite is cooling down
\* with a failure still to report.
LatchedIsLeaving ==
    \A s \in Suites : latch[s] =>
        \/ pc[s] \in {"off", "loaded", "failed"}
        \/ pc[s] \in {"cool", "cooling"}
             /\ (mem[s].reason # "none" \/ mem[s].cleanupError)

\* Every step keeps a latched suite on its way out.
LEMMA StepLatch == TypeOK /\ LatchedIsLeaving /\ [Next]_vars => LatchedIsLeaving'
<1> SUFFICES ASSUME TypeOK, LatchedIsLeaving, [Next]_vars PROVE LatchedIsLeaving'
  OBVIOUS
<1> USE DEF LatchedIsLeaving, Goto, At, files
<1>typ. /\ pc \in [Suites -> Pc] /\ mem \in [Suites -> Memory]
        /\ latch \in [Suites -> BOOLEAN]
  BY DEF TypeOK
\* Steps of a suite that is not latched, because the latch is refused ...
<1>1. ASSUME NEW s \in Suites, Admit(s) \/ FindStalePause(s)
      PROVE  LatchedIsLeaving'
  BY <1>1, <1>typ DEF Admit, FindStalePause, Ready, Refusal
\* ... or because it is past that refusal.
<1>2. ASSUME NEW s \in Suites,
             DropPause(s) \/ ResumeCooldownOver(s) \/ BeginBatch(s)
               \/ AcquireLease(s) \/ LeaseBusy(s) \/ BatchSucceeded(s)
      PROVE  LatchedIsLeaving'
  BY <1>2, <1>typ DEF DropPause, Ready, ResumeCooldownOver, BeginBatch, WriteState,
     AcquireLease, LeaseBusy, BatchSucceeded
<1>3. ASSUME NEW s \in Suites,
             Spawn(s) \/ RecordChild(s) \/ ChildExited(s) \/ StopChild(s)
               \/ Unload(s)
      PROVE  LatchedIsLeaving'
  BY <1>3, <1>typ DEF Spawn, RecordChild, WriteState, ChildExited, StopChild,
     Unload
<1>4. ASSUME NEW s \in Suites, Mishap(s) PROVE LatchedIsLeaving'
  BY <1>4, <1>typ DEF Mishap, PreflightBreach, SpawnFails, Breach, StopFails,
     UnloadFails
\* The latch is set together with its reason, which outlives the cooldown.
<1>5. ASSUME NEW s \in Suites, RecordOutcome(s) PROVE LatchedIsLeaving'
  <2>1. latch[s]' => mem[s].reason # "none" \/ mem[s].cleanupError
    BY <1>5, <1>typ DEF RecordOutcome
  <2>2. \A t \in Suites \ {s} : pc'[t] = pc[t] /\ latch'[t] = latch[t]
    BY <1>5, <1>typ DEF RecordOutcome
  <2> QED
    BY <1>5, <1>typ, <2>1, <2>2 DEF RecordOutcome
<1>6. ASSUME NEW s \in Suites, RecordCooldown(s) PROVE LatchedIsLeaving'
  <2>1. PICK pid, clean :
           mem' = [mem EXCEPT ![s] = [@ EXCEPT !.pid = pid, !.cleanup = clean]]
    BY <1>6 DEF RecordCooldown
  <2>2. \A t \in Suites : /\ mem'[t].reason = mem[t].reason
                          /\ mem'[t].cleanupError = mem[t].cleanupError
    BY <1>typ, <2>1 DEF Memory
  <2> QED
    BY <1>6, <1>typ, <2>2 DEF RecordCooldown
<1>7. ASSUME NEW s \in Suites, CooldownOver(s) PROVE LatchedIsLeaving'
  BY <1>7, <1>typ DEF CooldownOver
\* The supervisor ends, or has hardly begun.
<1>8. ASSUME NEW s \in Suites,
             Launch(s) \/ Refuse(s) \/ Finish(s) \/ PauseAtBoundary(s)
               \/ BatchFailed(s) \/ Kill(s)
      PROVE  LatchedIsLeaving'
  <2>1. CASE Launch(s)
    BY <2>1, <1>typ DEF Launch
  <2>2. CASE Leave(s) /\ UNCHANGED latch
    BY <2>2, <1>typ DEF Leave
  <2> QED
    BY <1>8, <2>1, <2>2 DEF Refuse, Finish, PauseAtBoundary, BatchFailed, Kill
<1>9. CASE Reboot
  BY <1>9 DEF Reboot
\* Steps that neither move a supervisor nor touch its reasons.
<1>10. ASSUME NEW s \in Suites,
              SignalPause(s) \/ RequestPause(s) \/ DeadlinePasses(s)
       PROVE  LatchedIsLeaving'
  BY <1>10, <1>typ DEF SignalPause, RequestPause, DeadlinePasses, Memory
<1>11. ASSUME NEW p \in Pids, Work(p) \/ Crash(p) \/ LeaderExits(p) PROVE LatchedIsLeaving'
  <2>1. /\ pc' = pc /\ latch' = latch
        /\ \A s \in Suites : /\ mem'[s].reason = mem[s].reason
                             /\ mem'[s].cleanupError = mem[s].cleanupError
    <3>1. CASE mem' = mem
      BY <1>11, <3>1 DEF Work, ReadCheckpoint, Checkpoint, Succeed, Crash, LeaderExits
    <3>2. ASSUME NEW exit, Exit(p, exit), UNCHANGED <<pc, latch>>
          PROVE  <2>1!:
      BY <3>2, <1>typ DEF Exit, Memory
    <3>3. CASE LeaderExits(p)
      <4>1. PICK e : mem' = [mem EXCEPT ![worker[p].suite].exit = e]
        BY <3>3, LeaderStep
      <4> QED
        BY <3>3, <4>1, <1>typ DEF LeaderExits, Memory
    <3> QED
      BY <1>11, <3>1, <3>2, <3>3 DEF Work, ReadCheckpoint, Checkpoint, Succeed, Crash
  <2> QED
    BY <2>1
<1>12. CASE UNCHANGED vars
  BY <1>12 DEF vars
<1> QED
  BY <1>1, <1>2, <1>3, <1>4, <1>5, <1>6, <1>7, <1>8, <1>9, <1>10, <1>11, <1>12
  DEF Next, Supervise, Operate

\* Spec keeps LatchedIsLeaving.
LEMMA LatchedAlwaysLeaving == Spec => []LatchedIsLeaving
<1>1. Init => LatchedIsLeaving
  BY DEF Init, LatchedIsLeaving
<1> QED
  BY <1>1, StepLatch, TypeCorrect, PTL DEF Spec

\* Once a suite is latched, no step writes another phase into its state file
\* than COOLING and RESOURCE_STOP, however often it is started again.
THEOREM LatchFinal == Spec => LatchIsFinal
<1> DEFINE Final == \A s \in Suites : latch[s] /\ disk'[s].phase # disk[s].phase
                       => disk'[s].phase \in {"COOLING", "RESOURCE_STOP"}
<1>1. ASSUME TypeOK, LatchedIsLeaving, [Next]_vars PROVE Final
  <2> USE <1>1 DEF files
  <2>typ. disk \in [Suites -> SuiteState]
    BY DEF TypeOK
  <2>1. ASSUME NEW s \in Suites, Admit(s) \/ DropPause(s) PROVE Final
    <3>1. ~latch[s] /\ \A t \in Suites \ {s} : disk'[t] = disk[t]
      BY <2>1, <2>typ DEF Admit, DropPause, Ready, Refusal, At, LatchedIsLeaving
    <3> QED
      BY <3>1
  <2>2. ASSUME NEW s \in Suites,
               Finish(s) \/ PauseAtBoundary(s) \/ BeginBatch(s) \/ RecordChild(s)
        PROVE  Final
    <3>1. ~latch[s]
      BY <2>2 DEF Finish, PauseAtBoundary, BeginBatch, RecordChild, At,
         LatchedIsLeaving
    <3>2. \A t \in Suites \ {s} : disk'[t] = disk[t]
      BY <2>2, <2>typ DEF Finish, PauseAtBoundary, BeginBatch, RecordChild,
         WriteState
    <3> QED
      BY <3>1, <3>2
  <2>3. ASSUME NEW s \in Suites, RecordCooldown(s) PROVE Final
    BY <2>3, <2>typ DEF RecordCooldown, WriteState
  <2>4. ASSUME NEW s \in Suites, BatchFailed(s) PROVE Final
    BY <2>4, <2>typ DEF BatchFailed, WriteState
  <2>5. CASE Reboot
    BY <2>5, <2>typ DEF Reboot, SuiteState
  <2>6. CASE UNCHANGED disk
    BY <2>6
  <2>7. ASSUME NEW s \in Suites,
               Launch(s) \/ Refuse(s) \/ FindStalePause(s)
                 \/ ResumeCooldownOver(s) \/ AcquireLease(s)
                 \/ LeaseBusy(s) \/ Spawn(s) \/ ChildExited(s) \/ StopChild(s)
                 \/ Unload(s) \/ RecordOutcome(s) \/ CooldownOver(s)
                 \/ BatchSucceeded(s) \/ Mishap(s) \/ SignalPause(s)
                 \/ RequestPause(s) \/ DeadlinePasses(s) \/ Kill(s)
        PROVE  UNCHANGED disk
    BY <2>7 DEF Launch, Refuse, FindStalePause, ResumeCooldownOver, AcquireLease, LeaseBusy, Spawn,
       ChildExited, StopChild, Unload, RecordOutcome, CooldownOver,
       BatchSucceeded, Mishap, PreflightBreach, SpawnFails, Breach, StopFails,
       UnloadFails, SignalPause, RequestPause, DeadlinePasses, Kill
  <2>8. ASSUME NEW p \in Pids, Work(p) \/ Crash(p) \/ LeaderExits(p) PROVE UNCHANGED disk
    BY <2>8 DEF Work, ReadCheckpoint, Checkpoint, Succeed, Crash, LeaderExits
  <2>9. CASE UNCHANGED vars
    BY <2>9, <2>6 DEF vars
  <2> QED
    BY <2>1, <2>2, <2>3, <2>4, <2>5, <2>6, <2>7, <2>8, <2>9
    DEF Next, Supervise, Operate
<1> QED
  BY <1>1, TypeCorrect, LatchedAlwaysLeaving, PTL DEF Spec, LatchIsFinal

-----------------------------------------------------------------------------
(* The cooldown *)

\* A deadline still ahead belongs to a cooldown in progress, or to a start that
\* has not waited for it yet.
DeadlineIsAwaited ==
    \A s \in Suites : deadline[s] =>
        pc[s] \in {"off", "loaded", "dropping", "waiting", "cooling"}

\* Every step keeps the supervisors behind a recorded deadline.
LEMMA StepDeadline == TypeOK /\ DeadlineIsAwaited /\ [Next]_vars => DeadlineIsAwaited'
<1> SUFFICES ASSUME TypeOK, DeadlineIsAwaited, [Next]_vars PROVE DeadlineIsAwaited'
  OBVIOUS
<1> USE DEF DeadlineIsAwaited, Goto, At, files
<1>typ. pc \in [Suites -> Pc] /\ deadline \in [Suites -> BOOLEAN]
  BY DEF TypeOK
\* The two places that wait for the deadline.
<1>1. ASSUME NEW s \in Suites, ResumeCooldownOver(s) \/ CooldownOver(s)
      PROVE  DeadlineIsAwaited'
  BY <1>1, <1>typ DEF ResumeCooldownOver, CooldownOver
\* The place that sets it.
<1>2. ASSUME NEW s \in Suites, RecordCooldown(s) PROVE DeadlineIsAwaited'
  BY <1>2, <1>typ DEF RecordCooldown
\* Between them there is none.
<1>3. ASSUME NEW s \in Suites,
             Launch(s) \/ Admit(s) \/ FindStalePause(s) \/ DropPause(s)
               \/ BeginBatch(s) \/ AcquireLease(s) \/ LeaseBusy(s)
               \/ BatchSucceeded(s)
      PROVE  DeadlineIsAwaited'
  BY <1>3, <1>typ DEF Launch, Admit, FindStalePause, DropPause, Ready, BeginBatch,
     WriteState, AcquireLease, LeaseBusy, BatchSucceeded
<1>4. ASSUME NEW s \in Suites,
             Spawn(s) \/ RecordChild(s) \/ ChildExited(s) \/ StopChild(s)
               \/ Unload(s) \/ RecordOutcome(s)
      PROVE  DeadlineIsAwaited'
  BY <1>4, <1>typ DEF Spawn, RecordChild, WriteState, ChildExited, StopChild,
     Unload, RecordOutcome
<1>5. ASSUME NEW s \in Suites, Mishap(s) PROVE DeadlineIsAwaited'
  BY <1>5, <1>typ DEF Mishap, PreflightBreach, SpawnFails, Breach, StopFails,
     UnloadFails
<1>6. ASSUME NEW s \in Suites,
             Refuse(s) \/ Finish(s) \/ PauseAtBoundary(s) \/ BatchFailed(s)
               \/ Kill(s)
      PROVE  DeadlineIsAwaited'
  BY <1>6, <1>typ DEF Refuse, Finish, PauseAtBoundary, BatchFailed, Kill, Leave
<1>7. CASE Reboot
  BY <1>7 DEF Reboot
<1>8. ASSUME NEW s \in Suites,
             SignalPause(s) \/ RequestPause(s) \/ DeadlinePasses(s)
      PROVE  DeadlineIsAwaited'
  BY <1>8, <1>typ DEF SignalPause, RequestPause, DeadlinePasses
<1>9. ASSUME NEW p \in Pids, Work(p) \/ Crash(p) \/ LeaderExits(p) PROVE DeadlineIsAwaited'
  BY <1>9 DEF Work, ReadCheckpoint, Checkpoint, Succeed, Crash, LeaderExits
<1>10. CASE UNCHANGED vars
  BY <1>10 DEF vars
<1> QED
  BY <1>1, <1>2, <1>3, <1>4, <1>5, <1>6, <1>7, <1>8, <1>9, <1>10
  DEF Next, Supervise, Operate

\* Spec keeps DeadlineIsAwaited.
LEMMA DeadlineAlwaysAwaited == Spec => []DeadlineIsAwaited
<1>1. Init => DeadlineIsAwaited
  BY DEF Init, DeadlineIsAwaited
<1> QED
  BY <1>1, StepDeadline, TypeCorrect, PTL DEF Spec

\* A worker comes to life in no other step than Spawn of its own suite.
LEMMA OnlySpawnSpawns ==
    ASSUME TypeOK, [Next]_vars, NEW s \in Suites, Spawned(s) PROVE Spawn(s)
<1> USE DEF Spawned, Running
<1>typ. worker \in [Pids -> Worker]
  BY DEF TypeOK
<1>1. ASSUME NEW t \in Suites, Spawn(t) PROVE Spawn(s)
  <2>1. t = s
    BY <1>1, <1>typ DEF Spawn
  <2> QED
    BY <1>1, <2>1
<1>2. ASSUME NEW t \in Suites, StopChild(t) PROVE FALSE
  BY <1>2, <1>typ DEF StopChild, Dead
<1>3. ASSUME NEW p \in Pids, Succeed(p) \/ Crash(p) PROVE FALSE
  BY <1>3, <1>typ DEF Succeed, Crash, Exit, Dead
<1>4. ASSUME NEW p \in Pids, ReadCheckpoint(p) PROVE FALSE
  <2>1. \A q \in Pids : ~Running(q) => worker'[q] = worker[q]
    BY <1>4, <1>typ DEF ReadCheckpoint
  <2> QED
    BY <2>1
<1>5. ASSUME NEW p \in Pids, Checkpoint(p) PROVE FALSE
  <2>1. \A q \in Pids : ~Running(q) => worker'[q] = worker[q]
    BY <1>5, <1>typ DEF Checkpoint
  <2> QED
    BY <2>1
<1>6. CASE Reboot
  BY <1>6 DEF Reboot, Dead
<1>7. ASSUME UNCHANGED worker PROVE FALSE
  BY <1>7
<1>8. ASSUME NEW t \in Suites, Supervise(t), ~Spawn(t), ~StopChild(t)
      PROVE  UNCHANGED worker
  BY <1>8 DEF Supervise, Refuse, Admit, FindStalePause, DropPause, Ready,
     ResumeCooldownOver, Finish,
     PauseAtBoundary, BeginBatch, AcquireLease, LeaseBusy, RecordChild,
     ChildExited, Unload, RecordOutcome, RecordCooldown, CooldownOver,
     BatchSucceeded, BatchFailed
<1>9. ASSUME NEW t \in Suites,
             Mishap(t) \/ Operate(t) \/ DeadlinePasses(t) \/ Kill(t)
      PROVE  UNCHANGED worker
  BY <1>9 DEF Mishap, PreflightBreach, SpawnFails, Breach, StopFails, UnloadFails,
     Operate, Launch, SignalPause, RequestPause, DeadlinePasses, Kill
<1>10. ASSUME NEW p \in Pids, LeaderExits(p) PROVE FALSE
  BY <1>10, <1>7 DEF LeaderExits
<1>11. CASE UNCHANGED vars
  BY <1>11, <1>7 DEF vars
<1> QED
  BY <1>1, <1>2, <1>3, <1>4, <1>5, <1>6, <1>7, <1>8, <1>9, <1>10, <1>11
  DEF Next, Work

\* No worker starts before the recorded cooldown of its suite is over, whoever
\* recorded it, nor while another suite of the machine cools down.
THEOREM CooldownKept == Spec => CooldownIsKept
<1> DEFINE Kept == \A s \in Suites : Spawned(s) =>
                      /\ ~deadline[s]
                      /\ \A t \in Suites : deadline[t] => pc[t] # "cooling"
<1>1. ASSUME TypeOK, LeaseHeld, DeadlineIsAwaited, [Next]_vars PROVE Kept
  <2> SUFFICES ASSUME NEW s \in Suites, Spawned(s)
               PROVE  /\ ~deadline[s]
                      /\ \A t \in Suites : deadline[t] => pc[t] # "cooling"
    OBVIOUS
  <2>1. pc[s] = "preflight"
    BY <1>1, OnlySpawnSpawns DEF Spawn, At
  <2>2. ~deadline[s]
    BY <1>1, <2>1 DEF DeadlineIsAwaited
  <2>3. ASSUME NEW t \in Suites, pc[t] = "cooling" PROVE FALSE
    BY <1>1, <2>1, <2>3 DEF LeaseHeld, MidBatch
  <2> QED
    BY <2>2, <2>3
<1> QED
  BY <1>1, TypeCorrect, LeaseAlwaysHeld, DeadlineAlwaysAwaited, PTL
  DEF Spec, CooldownIsKept

-----------------------------------------------------------------------------
(* The pause file *)

\* A pause file no younger than a PAUSED state has been answered by it.
PausedAnswers ==
    \A s \in Suites : disk[s].phase = "PAUSED" /\ pause[s] = "old" => ~asked[s]

\* Every step keeps PAUSED an answer to the request it aged.
LEMMA StepPaused == TypeOK /\ PausedAnswers /\ [Next]_vars => PausedAnswers'
<1> SUFFICES ASSUME TypeOK, PausedAnswers, [Next]_vars PROVE PausedAnswers'
  OBVIOUS
<1> USE DEF PausedAnswers, files, history
<1>typ. /\ disk \in [Suites -> SuiteState] /\ pause \in [Suites -> PauseFile]
        /\ asked \in [Suites -> BOOLEAN]
  BY DEF TypeOK
\* PAUSED is written together with the answer.
<1>1. ASSUME NEW s \in Suites, PauseAtBoundary(s) PROVE PausedAnswers'
  <2>1. ~asked'[s] /\ \A t \in Suites \ {s} : asked'[t] = asked[t]
    BY <1>1, <1>typ DEF PauseAtBoundary
  <2>2. \A t \in Suites \ {s} : disk'[t] = disk[t] /\ pause'[t] = pause[t]
    BY <1>1, <1>typ DEF PauseAtBoundary, WriteState
  <2> QED
    BY <2>1, <2>2
\* Any other state written is not PAUSED.
<1>2. ASSUME NEW s \in Suites, Admit(s) \/ DropPause(s) PROVE PausedAnswers'
  <2>1. /\ disk'[s].phase = "READY"
        /\ \A t \in Suites \ {s} : disk'[t] = disk[t] /\ pause'[t] = pause[t]
        /\ asked' = asked
    BY <1>2, <1>typ DEF Admit, DropPause, Ready
  <2> QED
    BY <2>1
<1>3. ASSUME NEW s \in Suites, NEW phase \in Phase \ {"PAUSED"}, NEW pid,
             NEW recovery, NEW cleanup,
             WriteState(s, phase, pid, recovery, cleanup),
             \A t \in Suites \ {s} : asked'[t] = asked[t]
      PROVE  PausedAnswers'
  <2>1. /\ disk'[s].phase # "PAUSED"
        /\ \A t \in Suites \ {s} : disk'[t] = disk[t] /\ pause'[t] = pause[t]
    BY <1>3, <1>typ DEF WriteState
  <2> QED
    BY <1>3, <2>1
<1>4. ASSUME NEW s \in Suites, Finish(s) PROVE PausedAnswers'
  BY <1>4, <1>3, <1>typ DEF Finish, Phase
<1>5. ASSUME NEW s \in Suites, BeginBatch(s) \/ RecordChild(s) \/ RecordCooldown(s)
      PROVE  PausedAnswers'
  BY <1>5, <1>3 DEF BeginBatch, RecordChild, RecordCooldown, Phase
<1>6. ASSUME NEW s \in Suites, BatchFailed(s) PROVE PausedAnswers'
  <2>1. "FAILED" \in Phase \ {"PAUSED"} /\ "RESOURCE_STOP" \in Phase \ {"PAUSED"}
    BY DEF Phase
  <2> QED
    BY <1>6, <1>3, <2>1 DEF BatchFailed
\* A new request makes the file new.
<1>7. ASSUME NEW s \in Suites, RequestPause(s) PROVE PausedAnswers'
  BY <1>7, <1>typ DEF RequestPause
<1>8. CASE Reboot
  BY <1>8, <1>typ DEF Reboot, SuiteState
\* The others touch neither file.
<1>9. ASSUME UNCHANGED <<disk, pause, asked>> PROVE PausedAnswers'
  BY <1>9
<1>10. ASSUME NEW s \in Suites,
              Launch(s) \/ Refuse(s) \/ FindStalePause(s)
                \/ ResumeCooldownOver(s) \/ AcquireLease(s) \/ LeaseBusy(s) \/ Spawn(s) \/ ChildExited(s) \/ StopChild(s)
                \/ Unload(s) \/ RecordOutcome(s) \/ CooldownOver(s)
                \/ BatchSucceeded(s) \/ Mishap(s) \/ SignalPause(s)
                \/ DeadlinePasses(s) \/ Kill(s)
       PROVE  UNCHANGED <<disk, pause, asked>>
  BY <1>10 DEF Launch, Refuse, FindStalePause, ResumeCooldownOver, AcquireLease,
     LeaseBusy, Spawn, ChildExited, StopChild, Unload, RecordOutcome, CooldownOver, BatchSucceeded,
     Mishap, PreflightBreach, SpawnFails, Breach, StopFails, UnloadFails,
     SignalPause, DeadlinePasses, Kill
<1>11. ASSUME NEW p \in Pids, Work(p) \/ Crash(p) \/ LeaderExits(p)
       PROVE  UNCHANGED <<disk, pause, asked>>
  BY <1>11 DEF Work, ReadCheckpoint, Checkpoint, Succeed, Crash, LeaderExits
<1>12. CASE UNCHANGED vars
  BY <1>12 DEF vars
<1> QED
  BY <1>1, <1>2, <1>4, <1>5, <1>6, <1>7, <1>8, <1>9, <1>10, <1>11, <1>12
  DEF Next, Supervise, Operate

\* Spec keeps PausedAnswers.
LEMMA PausedAlwaysAnswers == Spec => []PausedAnswers
<1>1. Init => PausedAnswers
  BY DEF Init, PausedAnswers
<1> QED
  BY <1>1, StepPaused, TypeCorrect, PTL DEF Spec

\* A start that is about to remove a pause file has seen it answered.
DroppingIsAnswered == \A s \in Suites : pc[s] = "dropping" => ~asked[s]

\* Every step keeps DroppingIsAnswered: FindStalePause is the way in, and a
\* request inside the window is not counted as asked.
LEMMA StepDropping ==
    TypeOK /\ PausedAnswers /\ DroppingIsAnswered /\ [Next]_vars => DroppingIsAnswered'
<1> SUFFICES ASSUME TypeOK, PausedAnswers, DroppingIsAnswered, [Next]_vars
             PROVE  DroppingIsAnswered'
  OBVIOUS
<1> USE DEF DroppingIsAnswered, Goto, At, files, history
<1>typ. pc \in [Suites -> Pc] /\ asked \in [Suites -> BOOLEAN]
  BY DEF TypeOK
<1>1. ASSUME NEW s \in Suites, FindStalePause(s) PROVE DroppingIsAnswered'
  BY <1>1, <1>typ DEF FindStalePause, StalePause, PausedAnswers
<1>2. ASSUME NEW s \in Suites, RequestPause(s) PROVE DroppingIsAnswered'
  BY <1>2, <1>typ DEF RequestPause
<1>3. ASSUME NEW s \in Suites, Finish(s) \/ PauseAtBoundary(s)
      PROVE  DroppingIsAnswered'
  BY <1>3, <1>typ DEF Finish, PauseAtBoundary, Leave
\* The others count no request and lead elsewhere.
<1>4. ASSUME NEW s \in Suites, NEW to \in Pc \ {"dropping"},
             pc' = [pc EXCEPT ![s] = to], UNCHANGED asked
      PROVE  DroppingIsAnswered'
  BY <1>4, <1>typ
<1>5. ASSUME NEW s \in Suites, Refuse(s) \/ BatchFailed(s) \/ Kill(s)
      PROVE  DroppingIsAnswered'
  BY <1>5, <1>4 DEF Refuse, BatchFailed, Kill, Leave, Pc
<1>6. ASSUME NEW s \in Suites,
             Launch(s) \/ Admit(s) \/ DropPause(s) \/ ResumeCooldownOver(s)
               \/ BeginBatch(s) \/ AcquireLease(s) \/ LeaseBusy(s)
               \/ BatchSucceeded(s)
      PROVE  DroppingIsAnswered'
  BY <1>6, <1>4 DEF Launch, Admit, DropPause, Ready, ResumeCooldownOver, BeginBatch,
     AcquireLease, LeaseBusy, BatchSucceeded, Pc
<1>7. ASSUME NEW s \in Suites,
             Spawn(s) \/ RecordChild(s) \/ ChildExited(s) \/ StopChild(s)
               \/ Unload(s) \/ RecordOutcome(s) \/ RecordCooldown(s)
      PROVE  DroppingIsAnswered'
  BY <1>7, <1>4 DEF Spawn, RecordChild, ChildExited, StopChild, Unload,
     RecordOutcome, RecordCooldown, Pc
<1>8. ASSUME NEW s \in Suites, CooldownOver(s) \/ Mishap(s)
      PROVE  DroppingIsAnswered'
  BY <1>8, <1>typ DEF CooldownOver, Mishap, PreflightBreach, SpawnFails, Breach,
     StopFails, UnloadFails
<1>9. CASE Reboot
  BY <1>9 DEF Reboot
\* Or they move no supervisor at all.
<1>10. ASSUME UNCHANGED <<pc, asked>> PROVE DroppingIsAnswered'
  BY <1>10
<1>11. ASSUME NEW s \in Suites, SignalPause(s) \/ DeadlinePasses(s)
       PROVE  UNCHANGED <<pc, asked>>
  BY <1>11 DEF SignalPause, DeadlinePasses
<1>12. ASSUME NEW p \in Pids, Work(p) \/ Crash(p) \/ LeaderExits(p) PROVE UNCHANGED <<pc, asked>>
  BY <1>12 DEF Work, ReadCheckpoint, Checkpoint, Succeed, Crash, LeaderExits
<1>13. CASE UNCHANGED vars
  BY <1>13, <1>10 DEF vars
<1> QED
  BY <1>1, <1>2, <1>3, <1>5, <1>6, <1>7, <1>8, <1>9, <1>10, <1>11, <1>12, <1>13
  DEF Next, Supervise, Operate

\* Spec keeps DroppingIsAnswered.
LEMMA DroppingAlwaysAnswered == Spec => []DroppingIsAnswered
<1>1. Init => DroppingIsAnswered
  BY DEF Init, DroppingIsAnswered
<1> QED
  BY <1>1, StepDropping, PausedAlwaysAnswers, TypeCorrect, PTL DEF Spec

\* A pause file is only removed by a start that found it answered: no request
\* of the operator is dropped, across kills, reboots and restarts.
THEOREM PauseKept == Spec => PauseIsNotLost
<1> DEFINE Kept == \A s \in Suites :
                      pause[s] # "none" /\ pause'[s] = "none" => ~asked[s]
<1>1. ASSUME TypeOK, DroppingIsAnswered, [Next]_vars PROVE Kept
  <2> USE <1>1 DEF files
  <2>typ. pause \in [Suites -> PauseFile]
    BY DEF TypeOK
  <2>1. ASSUME NEW s \in Suites, Admit(s) \/ DropPause(s) PROVE Kept
    <3>1. pause'[s] = "none" => ~asked[s] \/ pause[s] = "none"
      BY <2>1, <2>typ DEF Admit, DropPause, At, DroppingIsAnswered
    <3>2. \A t \in Suites \ {s} : pause'[t] = pause[t]
      BY <2>1, <2>typ DEF Admit, DropPause
    <3> QED
      BY <3>1, <3>2
  <2>2. ASSUME NEW s \in Suites, NEW phase, NEW pid, NEW recovery, NEW cleanup,
               WriteState(s, phase, pid, recovery, cleanup)
        PROVE  Kept
    BY <2>2, <2>typ DEF WriteState
  <2>3. ASSUME NEW s \in Suites,
               Finish(s) \/ PauseAtBoundary(s) \/ BeginBatch(s) \/ RecordChild(s)
                 \/ RecordCooldown(s) \/ BatchFailed(s)
        PROVE  Kept
    BY <2>3, <2>2 DEF Finish, PauseAtBoundary, BeginBatch, RecordChild,
       RecordCooldown, BatchFailed
  <2>4. ASSUME NEW s \in Suites, RequestPause(s) PROVE Kept
    BY <2>4, <2>typ DEF RequestPause
  <2>5. ASSUME UNCHANGED pause PROVE Kept
    BY <2>5
  <2>6. ASSUME NEW s \in Suites,
               Launch(s) \/ Refuse(s) \/ FindStalePause(s)
                 \/ ResumeCooldownOver(s) \/ AcquireLease(s)
                 \/ LeaseBusy(s) \/ Spawn(s) \/ ChildExited(s) \/ StopChild(s)
                 \/ Unload(s) \/ RecordOutcome(s) \/ CooldownOver(s)
                 \/ BatchSucceeded(s) \/ Mishap(s) \/ SignalPause(s)
                 \/ DeadlinePasses(s) \/ Kill(s)
        PROVE  UNCHANGED pause
    BY <2>6 DEF Launch, Refuse, FindStalePause, ResumeCooldownOver, AcquireLease,
       LeaseBusy, Spawn,
       ChildExited, StopChild, Unload, RecordOutcome, CooldownOver,
       BatchSucceeded, Mishap, PreflightBreach, SpawnFails, Breach, StopFails,
       UnloadFails, SignalPause, DeadlinePasses, Kill
  <2>7. ASSUME NEW p \in Pids, Work(p) \/ Crash(p) \/ LeaderExits(p) PROVE UNCHANGED pause
    BY <2>7 DEF Work, ReadCheckpoint, Checkpoint, Succeed, Crash, LeaderExits
  <2>8. CASE Reboot
    BY <2>8 DEF Reboot
  <2>9. CASE UNCHANGED vars
    BY <2>9, <2>5 DEF vars
  <2> QED
    BY <2>1, <2>3, <2>4, <2>5, <2>6, <2>7, <2>8, <2>9
    DEF Next, Supervise, Operate
<1> QED
  BY <1>1, TypeCorrect, DroppingAlwaysAnswered, PTL DEF Spec, PauseIsNotLost
=============================================================================
