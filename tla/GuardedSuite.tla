---------------------------- MODULE GuardedSuite ----------------------------
(***************************************************************************)
(* The guarded one-case suites: supervisors (scripts/_guarded_suite.py),   *)
(* the resource guard each batch runs under (resource_guard.py), the       *)
(* worker process a batch spawns (scripts/run_benchmark.py and             *)
(* run_olist_acceptance.py), and the files that outlive them all.          *)
(*                                                                         *)
(* A suite has at most one live supervisor, because main() holds           *)
(* <report>.suite.lock; different suites share the machine-wide workload   *)
(* lease.  Any process may be killed between any two steps, and the        *)
(* machine may reboot.  A worker is started in a session of its own, so it *)
(* survives the death of its supervisor.                                   *)
(*                                                                         *)
(* Time is reduced to one bit per suite, "the recorded cooldown deadline   *)
(* is still ahead".  Samples are reduced to safe or breaching; a monitor   *)
(* failure counts as a breach, as in the code.                             *)
(***************************************************************************)
EXTENDS Naturals

CONSTANTS Suites,     \* the suites run on this machine, one report path each
          Total,      \* len(ids): the cases of a manifest
          Pids,       \* worker process groups alive at once (a bound)
          MaxFaults,  \* bound on kills of a supervisor and reboots together
          PauseBy,    \* the ways an operator asks for a pause: "signal", "file"
          NoPid,      \* None for a process id
          NoSuite     \* None for the holder of the workload lease

ASSUME SuiteConstants ==
    /\ Total \in Nat \ {0}
    /\ MaxFaults \in Nat
    /\ PauseBy \subseteq {"signal", "file"}
    /\ NoPid \notin Pids
    /\ NoSuite \notin Suites

VARIABLES
    pc,        \* pc[s]: where the supervisor of s is in main()
    mem,       \* mem[s]: its arguments, locals and state object
    disk,      \* disk[s]: <report>.suite-state.json, a SuiteState
    prefix,    \* prefix[s]: prediction_prefix(): cases checkpointed so far
    report,    \* report[s]: the complete final report exists
    latch,     \* latch[s]: <report>.resource-stop.json exists
    pause,     \* pause[s]: <report>.pause-request.json, see PauseFile
    deadline,  \* deadline[s]: the recorded cooldown_until is in the future
    lease,     \* the holder of the machine-wide workload lease
    worker,    \* worker[p]: the worker process group p
    resident,  \* suites whose worker left a model resident in Ollama
    faults,    \* kills and reboots so far
    dirty,     \* history: a batch of s was cut short and no batch has
               \* completed cleanly since
    asked,     \* history: a pause file was written, other than in the instant
               \* in which a start removes an answered one, and no PAUSED since
    lost,      \* history: suites whose supervisor died between spawning a
               \* worker and recording its pid
    raced      \* history: an unsupervised worker of s checkpointed while its
               \* successor's start was between reading the prefix and the state

files   == <<disk, prefix, report, latch, pause, deadline>>
history == <<dirty, asked, lost, raced>>
vars    == <<pc, mem, files, lease, worker, resident, faults, history>>

-----------------------------------------------------------------------------
(* State *)

\* The suite-state phases; "NONE" when no state file has been written yet.
Phase == {"NONE", "READY", "RUNNING", "COOLING", "PAUSED", "COMPLETE",
          "FAILED", "RESOURCE_STOP"}

\* A SuiteState.  boot says that its boot_id is the current one.
SuiteState == [phase : Phase, pid : Pids \cup {NoPid}, recovery : BOOLEAN,
               cleanup : BOOLEAN, boot : BOOLEAN]

NoState == [phase |-> "NONE", pid |-> NoPid, recovery |-> FALSE,
            cleanup |-> FALSE, boot |-> TRUE]

\* A pause file is "old" once a state write is at least as recent as it.
PauseFile == {"none", "new", "old"}

\* Control points of main() and guarded_process(), in program order.
Pc == {"off", "loaded", "dropping", "waiting", "top", "lease", "preflight", "spawned",
       "watch", "stop", "unload", "record", "cool", "cooling", "check",
       "failed"}

\* Supervisor memory: arguments, local variables, the in-memory state object
\* and the guard's Popen object with the exit status it will poll.
Memory == [pilot : BOOLEAN, signalled : BOOLEAN, ran : BOOLEAN,
           base : 0..Total, need : BOOLEAN, recovery : BOOLEAN,
           cleanup : BOOLEAN, pid : Pids \cup {NoPid},
           proc : Pids \cup {NoPid}, exit : {"none", "ok", "error"},
           reason : {"none", "error", "resource"}, cleanupError : BOOLEAN]

NoMemory == [pilot |-> FALSE, signalled |-> FALSE, ran |-> FALSE,
             base |-> 0, need |-> FALSE, recovery |-> FALSE,
             cleanup |-> FALSE, pid |-> NoPid, proc |-> NoPid,
             exit |-> "none", reason |-> "none", cleanupError |-> FALSE]

\* A worker process group: the suite it works for, its progress, and the
\* number of cases it knows to be in the checkpoint.  A worker that infers has
\* a case left.
Worker ==
    {w \in [stage : {"dead", "new", "infer", "saved"},
            suite : Suites \cup {NoSuite}, base : 0..Total] :
        /\ w.stage # "dead" => w.suite \in Suites
        /\ w.stage = "infer" => w.base < Total}

Dead == [stage |-> "dead", suite |-> NoSuite, base |-> 0]

Init ==
    /\ pc = [s \in Suites |-> "off"]
    /\ mem = [s \in Suites |-> NoMemory]
    /\ disk = [s \in Suites |-> NoState]
    /\ prefix = [s \in Suites |-> 0]
    /\ report = [s \in Suites |-> FALSE]
    /\ latch = [s \in Suites |-> FALSE]
    /\ pause = [s \in Suites |-> "none"]
    /\ deadline = [s \in Suites |-> FALSE]
    /\ lease = NoSuite
    /\ worker = [p \in Pids |-> Dead]
    /\ resident = {}
    /\ faults = 0
    /\ dirty = [s \in Suites |-> FALSE]
    /\ asked = [s \in Suites |-> FALSE]
    /\ lost = {}
    /\ raced = [s \in Suites |-> FALSE]

-----------------------------------------------------------------------------
(* Helpers *)

\* process_group_alive(pid); None is never alive.
Running(p)  == worker[p].stage # "dead"
Alive(p)    == p \in Pids /\ Running(p)
LiveWorkers == {p \in Pids : Running(p)}

\* A worker some supervisor still holds a Popen object for.
Holds(s, p)   == mem[s].proc = p
Supervised(p) == \E s \in Suites : Holds(s, p)

At(s, label) == pc[s] = label

Goto(s, to) == pc' = [pc EXCEPT ![s] = to]

\* write_state: the whole state object replaces the file, updated_at moves on.
WriteState(s, phase, pid, recovery, cleanup) ==
    /\ disk' = [disk EXCEPT ![s] =
                  [phase |-> phase, pid |-> pid, recovery |-> recovery,
                   cleanup |-> cleanup, boot |-> TRUE]]
    /\ pause' = [pause EXCEPT ![s] = IF @ = "new" THEN "old" ELSE @]

\* The supervisor process ends; its locks go with it.
Leave(s) == Goto(s, "off") /\ mem' = [mem EXCEPT ![s] = NoMemory]

-----------------------------------------------------------------------------
(* Starting a suite *)

\* main() takes the suite lock and reads the checkpoint before anything else.
Launch(s) ==
    /\ At(s, "off")
    /\ Goto(s, "loaded")
    /\ \E pilot \in BOOLEAN :
         mem' = [mem EXCEPT ![s] =
             [@ EXCEPT !.pilot = pilot, !.base = prefix[s]]]
    /\ UNCHANGED <<files, lease, worker, resident, faults, history>>

\* Mutant: a pilot that was paused before its case is forgotten.
UncleanByPhase(s) == /\ disk[s].phase # "NONE"
                     /\ ~disk[s].boot \/ disk[s].phase \in {"RUNNING", "COOLING"}

\* A state left by a batch that did not end cleanly, or by another boot.
Unclean(s) == /\ disk[s].phase # "NONE"
              /\ \/ disk[s].recovery
                 \/ ~disk[s].boot
                 \/ disk[s].phase \in {"RUNNING", "COOLING"}

\* Mutants: the latch, or the liveness of the recorded worker, is not read.
RefusalSansLatch(s) == \/ disk[s].boot /\ Alive(disk[s].pid)
                       \/ Unclean(s) /\ mem[s].base < Total /\ ~mem[s].pilot
RefusalSansLiveness(s) == \/ latch[s]
                          \/ Unclean(s) /\ mem[s].base < Total /\ ~mem[s].pilot

\* What main() refuses to start over.
Refusal(s) == \/ latch[s]
              \/ disk[s].boot /\ Alive(disk[s].pid)
              \/ Unclean(s) /\ mem[s].base < Total /\ ~mem[s].pilot

\* Mutant: a complete checkpoint needs nothing more.
NeedsNoCleanup(s) == FALSE

\* Every case is checkpointed, but the last batch's cleanup is not known done.
NeedsFinalCleanup(s) == /\ mem[s].base = Total
                        /\ \/ disk[s].phase \in {"NONE", "RUNNING"}
                           \/ disk[s].cleanup

\* Mutant: the age of the file is not compared.
AnyPauseIsStale(s) == disk[s].phase = "PAUSED" /\ pause[s] # "none"

\* A pause file that a PAUSED state already answered.
StalePause(s) == disk[s].phase = "PAUSED" /\ pause[s] = "old"

Refuse(s) ==
    /\ At(s, "loaded")
    /\ Refusal(s)
    /\ Leave(s)
    /\ UNCHANGED <<files, lease, worker, resident, faults, history>>

\* READY, with the recovery and the cleanup this start still owes.
Ready(s) ==
    LET need     == NeedsFinalCleanup(s)
        recovery == Unclean(s) /\ mem[s].base < Total
    IN  /\ Goto(s, "waiting")
        /\ mem' = [mem EXCEPT ![s] =
               [@ EXCEPT !.need = need, !.recovery = recovery,
                         !.cleanup = need]]
        /\ disk' = [disk EXCEPT ![s] =
                      [phase |-> "READY", pid |-> NoPid, boot |-> TRUE,
                       recovery |-> recovery, cleanup |-> need]]

Admit(s) ==
    /\ At(s, "loaded")
    /\ ~Refusal(s)
    /\ ~StalePause(s)
    /\ Ready(s)
    /\ pause' = [pause EXCEPT ![s] = IF @ = "new" THEN "old" ELSE @]
    /\ UNCHANGED <<prefix, report, latch, deadline, lease, worker, resident,
                   faults, history>>

\* stat(): the pause file is not newer than the PAUSED state ...
FindStalePause(s) ==
    /\ At(s, "loaded")
    /\ ~Refusal(s)
    /\ StalePause(s)
    /\ Goto(s, "dropping")
    /\ UNCHANGED <<mem, files, lease, worker, resident, faults, history>>

\* ... unlink(): whatever is there now goes, and the start is admitted.
DropPause(s) ==
    /\ At(s, "dropping")
    /\ Ready(s)
    /\ pause' = [pause EXCEPT ![s] = "none"]
    /\ UNCHANGED <<prefix, report, latch, deadline, lease, worker, resident,
                   faults, history>>

\* Mutant: a restart begins at once.
ResumeAtOnce(s) ==
    /\ At(s, "waiting")
    /\ Goto(s, "top")
    /\ UNCHANGED <<mem, files, lease, worker, resident, faults, history>>

\* A cooldown recorded by an earlier supervisor is waited for before any work.
ResumeCooldownOver(s) ==
    /\ At(s, "waiting")
    /\ ~deadline[s]
    /\ Goto(s, "top")
    /\ UNCHANGED <<mem, files, lease, worker, resident, faults, history>>

-----------------------------------------------------------------------------
(* The batch loop *)

Finished(s) == prefix[s] = Total /\ report[s] /\ ~mem[s].need

\* A signal, a pause file, or the one batch of a recovery pilot.  The
\* --max-batches boundary is the same exit, taken as a signal would take it.
PauseDue(s) == \/ mem[s].signalled
               \/ pause[s] # "none"
               \/ mem[s].pilot /\ mem[s].ran

\* COMPLETE.  require_complete_report() accepts the report, since a worker
\* only ever replaces it atomically by one over the whole manifest.
Finish(s) ==
    /\ At(s, "top")
    /\ Finished(s)
    /\ WriteState(s, "COMPLETE", NoPid, mem[s].recovery, mem[s].cleanup)
    /\ Leave(s)
    /\ asked' = [asked EXCEPT ![s] = FALSE]
    /\ UNCHANGED <<prefix, report, latch, deadline, lease, worker, resident,
                   faults, dirty, lost, raced>>

PauseAtBoundary(s) ==
    /\ At(s, "top")
    /\ ~Finished(s)
    /\ PauseDue(s)
    /\ WriteState(s, "PAUSED", NoPid, mem[s].recovery, mem[s].cleanup)
    /\ Leave(s)
    /\ asked' = [asked EXCEPT ![s] = FALSE]
    /\ UNCHANGED <<prefix, report, latch, deadline, lease, worker, resident,
                   faults, dirty, lost, raced>>

BeginBatch(s) ==
    /\ At(s, "top")
    /\ ~Finished(s)
    /\ ~PauseDue(s)
    /\ WriteState(s, "RUNNING", NoPid, mem[s].recovery, TRUE)
    /\ Goto(s, "lease")
    /\ mem' = [mem EXCEPT ![s] =
           [@ EXCEPT !.base = prefix[s], !.cleanup = TRUE, !.pid = NoPid,
                     !.proc = NoPid, !.exit = "none", !.reason = "none",
                     !.cleanupError = FALSE]]
    /\ UNCHANGED <<prefix, report, latch, deadline, lease, worker, resident,
                   faults, history>>

\* after == expected: exactly the next case, or none when all were done.
PersistedAsExpected(s) ==
    prefix[s] = IF mem[s].base < Total THEN mem[s].base + 1 ELSE mem[s].base

\* Mutant: the request for a final cleanup is not reset.
BatchSucceededStillNeedy(s) ==
    /\ At(s, "check")
    /\ PersistedAsExpected(s)
    /\ Goto(s, "top")
    /\ mem' = [mem EXCEPT ![s] =
           [@ EXCEPT !.ran = TRUE, !.recovery = FALSE, !.cleanup = FALSE]]
    /\ dirty' = [dirty EXCEPT ![s] = FALSE]
    /\ UNCHANGED <<files, lease, worker, resident, faults, asked, lost, raced>>

BatchSucceeded(s) ==
    /\ At(s, "check")
    /\ PersistedAsExpected(s)
    /\ Goto(s, "top")
    /\ mem' = [mem EXCEPT ![s] =
           [@ EXCEPT !.ran = TRUE, !.need = FALSE, !.recovery = FALSE,
                     !.cleanup = FALSE]]
    /\ dirty' = [dirty EXCEPT ![s] = FALSE]
    /\ UNCHANGED <<files, lease, worker, resident, faults, asked, lost, raced>>

\* Mutant: the state forgets the child in any case.
NoChild(s) == NoPid

\* The pid a state keeps after a batch: a group that could not be stopped.
ChildStillAlive(s) == IF Alive(mem[s].pid) THEN mem[s].pid ELSE NoPid

\* The except branch: FAILED or RESOURCE_STOP, keeping a pid still alive.
BatchFailed(s) ==
    /\ \/ At(s, "failed")
       \/ At(s, "check") /\ ~PersistedAsExpected(s)
    /\ WriteState(s, IF latch[s] THEN "RESOURCE_STOP" ELSE "FAILED",
                  ChildStillAlive(s), mem[s].recovery, mem[s].cleanup)
    /\ Leave(s)
    /\ UNCHANGED <<prefix, report, latch, deadline, lease, worker, resident,
                   faults, history>>

-----------------------------------------------------------------------------
(* guarded_process: one batch under the workload lease *)

\* Mutant: the lease is taken without asking.
TakeLease(s) ==
    /\ At(s, "lease")
    /\ lease' = s
    /\ Goto(s, "preflight")
    /\ UNCHANGED <<mem, files, worker, resident, faults, history>>

AcquireLease(s) ==
    /\ At(s, "lease")
    /\ lease = NoSuite
    /\ lease' = s
    /\ Goto(s, "preflight")
    /\ UNCHANGED <<mem, files, worker, resident, faults, history>>

\* flock(LOCK_NB): another guarded workload is active; no cooldown follows.
LeaseBusy(s) ==
    /\ At(s, "lease")
    /\ lease # NoSuite
    /\ Goto(s, "failed")
    /\ mem' = [mem EXCEPT ![s].reason = "error"]
    /\ UNCHANGED <<files, lease, worker, resident, faults, history>>

\* The observation before the spawn breaches a limit or a monitor fails.
PreflightBreach(s) ==
    /\ At(s, "preflight")
    /\ Goto(s, "unload")
    /\ mem' = [mem EXCEPT ![s].reason = "resource"]
    /\ dirty' = [dirty EXCEPT ![s] = TRUE]
    /\ UNCHANGED <<files, lease, worker, resident, faults, asked, lost, raced>>

\* Popen raises OSError: an ordinary failure, with no child to stop.
SpawnFails(s) ==
    /\ At(s, "preflight")
    /\ Goto(s, "unload")
    /\ mem' = [mem EXCEPT ![s].reason = "error"]
    /\ UNCHANGED <<files, lease, worker, resident, faults, history>>

\* A latch refuses the spawn (main() refused it earlier, too).
Spawn(s) ==
    /\ At(s, "preflight")
    /\ ~latch[s]
    /\ \E p \in Pids :
         /\ ~Running(p)
         /\ worker' = [worker EXCEPT ![p] =
                         [stage |-> "new", suite |-> s, base |-> 0]]
         /\ Goto(s, "spawned")
         /\ mem' = [mem EXCEPT ![s].proc = p]
    /\ UNCHANGED <<files, lease, resident, faults, history>>

\* on_spawn: the child's pid reaches the state file.
RecordChild(s) ==
    /\ At(s, "spawned")
    /\ Goto(s, "watch")
    /\ mem' = [mem EXCEPT ![s].pid = mem[s].proc]
    /\ WriteState(s, "RUNNING", mem[s].proc, mem[s].recovery, mem[s].cleanup)
    /\ UNCHANGED <<prefix, report, latch, deadline, lease, worker, resident,
                   faults, history>>

\* A sample breaches, during the run or after the child has exited.
Breach(s) ==
    /\ At(s, "watch")
    /\ Goto(s, "stop")
    /\ mem' = [mem EXCEPT ![s].reason = "resource"]
    /\ dirty' = [dirty EXCEPT ![s] = TRUE]
    /\ UNCHANGED <<files, lease, worker, resident, faults, asked, lost, raced>>

\* poll() returned a status and the final observation was safe.
ChildExited(s) ==
    /\ At(s, "watch")
    /\ mem[s].exit # "none"
    /\ Goto(s, "stop")
    /\ mem' = [mem EXCEPT ![s].reason =
                  IF mem[s].exit = "ok" THEN "none" ELSE "error"]
    /\ UNCHANGED <<files, lease, worker, resident, faults, history>>

\* _stop: SIGINT, SIGTERM, SIGKILL to the process group, whether or not its
\* leader has exited.
StopChild(s) ==
    /\ At(s, "stop")
    /\ worker' = [worker EXCEPT ![mem[s].proc] = Dead]
    /\ mem' = [mem EXCEPT ![s].exit = IF @ = "none" THEN "error" ELSE @]
    /\ Goto(s, "unload")
    /\ UNCHANGED <<files, lease, resident, faults, history>>

\* What is left of the group survived SIGKILL (blocked in the kernel).
StopFails(s) ==
    /\ At(s, "stop")
    /\ Running(mem[s].proc)
    /\ Goto(s, "unload")
    /\ mem' = [mem EXCEPT ![s].cleanupError = TRUE]
    /\ UNCHANGED <<files, lease, worker, resident, faults, history>>

\* unload_models: every resident model, whoever loaded it.
Unload(s) ==
    /\ At(s, "unload")
    /\ resident' = {}
    /\ Goto(s, "record")
    /\ UNCHANGED <<mem, files, lease, worker, faults, history>>

UnloadFails(s) ==
    /\ At(s, "unload")
    /\ Goto(s, "record")
    /\ mem' = [mem EXCEPT ![s].cleanupError = TRUE]
    /\ UNCHANGED <<files, lease, worker, resident, faults, history>>

\* A breach or a failed cleanup latches the suite; an ordinary child failure
\* leaves only a workload-error file that nothing reads.
RecordOutcome(s) ==
    /\ At(s, "record")
    /\ latch' = [latch EXCEPT ![s] = @ \/ mem[s].reason = "resource"
                                       \/ mem[s].cleanupError]
    /\ Goto(s, "cool")
    /\ UNCHANGED <<mem, disk, prefix, report, pause, deadline, lease, worker,
                   resident, faults, history>>

\* on_cooldown: COOLING and the deadline are durable before the sleep starts.
RecordCooldown(s) ==
    /\ At(s, "cool")
    /\ LET pid   == ChildStillAlive(s)
           clean == pid # NoPid /\ mem[s].cleanup
       IN  /\ Goto(s, "cooling")
           /\ mem' = [mem EXCEPT ![s] =
                  [@ EXCEPT !.pid = pid, !.cleanup = clean]]
           /\ WriteState(s, "COOLING", pid, mem[s].recovery, clean)
    /\ deadline' = [deadline EXCEPT ![s] = TRUE]
    /\ UNCHANGED <<prefix, report, latch, lease, worker, resident, faults,
                   history>>

\* The lease is held until the cooldown is over, whatever the outcome.
CooldownOver(s) ==
    /\ At(s, "cooling")
    /\ ~deadline[s]
    /\ lease' = NoSuite
    /\ Goto(s, IF mem[s].reason # "none" \/ mem[s].cleanupError
               THEN "failed" ELSE "check")
    /\ mem' = [mem EXCEPT ![s].proc = NoPid]
    /\ UNCHANGED <<files, worker, resident, faults, history>>

-----------------------------------------------------------------------------
(* The worker: one new case, then the report when the manifest is complete *)

Exit(p, status) ==
    /\ worker' = [worker EXCEPT ![p] = Dead]
    /\ mem' = [s \in Suites |-> IF Holds(s, p) /\ mem[s].exit = "none"
                                THEN [mem[s] EXCEPT !.exit = status]
                                ELSE mem[s]]

\* The checkpoint is read once; inference starts only if a case is missing.
ReadCheckpoint(p) ==
    /\ worker[p].stage = "new"
    /\ LET s == worker[p].suite
       IN  /\ worker' = [worker EXCEPT ![p] =
                [@ EXCEPT !.base = prefix[s],
                          !.stage = IF prefix[s] < Total THEN "infer"
                                    ELSE "saved"]]
           /\ resident' = IF prefix[s] < Total THEN resident \cup {s}
                          ELSE resident
    /\ UNCHANGED <<pc, mem, files, lease, faults, history>>

\* atomic_text: the rows read at the start and the new one replace the file.
Checkpoint(p) ==
    /\ worker[p].stage = "infer"
    /\ LET s == worker[p].suite
       IN  /\ prefix' = [prefix EXCEPT ![s] = worker[p].base + 1]
           /\ resident' = resident \cup {s}
           /\ raced' = [raced EXCEPT ![s] = @ \/ At(s, "loaded")]
    /\ worker' = [worker EXCEPT ![p] =
         [@ EXCEPT !.base = worker[p].base + 1, !.stage = "saved"]]
    /\ UNCHANGED <<pc, mem, disk, report, latch, pause, deadline, lease, faults,
                   dirty, asked, lost>>

\* Exit 0, after writing the report when every case is checkpointed.
Succeed(p) ==
    /\ worker[p].stage = "saved"
    /\ report' = [report EXCEPT ![worker[p].suite] =
                    @ \/ worker[p].base = Total]
    /\ Exit(p, "ok")
    /\ UNCHANGED <<pc, disk, prefix, latch, pause, deadline, lease, resident,
                   faults, history>>

\* A typed infrastructure stop, a failed identity check, a bug, a signal.
Crash(p) ==
    /\ Running(p)
    /\ Exit(p, "error")
    /\ UNCHANGED <<pc, files, lease, resident, faults, history>>

\* "uv may exit before its Python worker": the leader's status is known, and its
\* group lives on.  After a clean exit nothing is left in it that writes.
LeaderExits(p) ==
    LET s == worker[p].suite
    IN  /\ Running(p)
        /\ Holds(s, p)
        /\ mem[s].exit = "none"
        /\ \/ /\ worker[p].stage = "saved"
              /\ report' = [report EXCEPT ![s] = @ \/ worker[p].base = Total]
              /\ mem' = [mem EXCEPT ![s].exit = "ok"]
           \/ /\ mem' = [mem EXCEPT ![s].exit = "error"]
              /\ UNCHANGED report
        /\ UNCHANGED <<pc, disk, prefix, latch, pause, deadline, lease, worker,
                       resident, faults, history>>

-----------------------------------------------------------------------------
(* The environment *)

DeadlinePasses(s) ==
    /\ deadline[s]
    /\ deadline' = [deadline EXCEPT ![s] = FALSE]
    /\ UNCHANGED <<pc, mem, disk, prefix, report, latch, pause, lease, worker,
                   resident, faults, history>>

\* SIGINT or SIGTERM: the handler only sets requested_pause.
SignalPause(s) ==
    /\ "signal" \in PauseBy
    /\ pc[s] # "off"
    /\ ~mem[s].signalled
    /\ mem' = [mem EXCEPT ![s].signalled = TRUE]
    /\ UNCHANGED <<pc, files, lease, worker, resident, faults, history>>

\* The operator, or a sequence, writes the pause file.
RequestPause(s) ==
    /\ "file" \in PauseBy
    /\ pause[s] # "new"
    /\ pause' = [pause EXCEPT ![s] = "new"]
    /\ asked' = [asked EXCEPT ![s] = @ \/ ~At(s, "dropping")]
    /\ UNCHANGED <<pc, mem, disk, prefix, report, latch, deadline, lease, worker,
                   resident, faults, dirty, lost, raced>>

\* Between the preflight and the end of the cooldown a batch is under way.
MidBatch(s) == pc[s] \in {"preflight", "spawned", "watch", "stop",
                              "unload", "record", "cool", "cooling"}

\* kill -9, an OOM kill, a closed VM: no handler of the supervisor runs.
Kill(s) ==
    /\ faults < MaxFaults
    /\ faults' = faults + 1
    /\ pc[s] # "off"
    /\ Leave(s)
    /\ lease' = IF lease = s THEN NoSuite ELSE lease
    /\ dirty' = [dirty EXCEPT ![s] = @ \/ MidBatch(s)]
    /\ lost' = IF At(s, "spawned") THEN lost \cup {s} ELSE lost
    /\ UNCHANGED <<files, worker, resident, asked, raced>>

Reboot ==
    /\ faults < MaxFaults
    /\ faults' = faults + 1
    /\ pc' = [s \in Suites |-> "off"]
    /\ mem' = [s \in Suites |-> NoMemory]
    /\ disk' = [s \in Suites |->
                  IF disk[s].phase = "NONE" THEN disk[s]
                  ELSE [disk[s] EXCEPT !.boot = FALSE]]
    /\ worker' = [p \in Pids |-> Dead]
    /\ lease' = NoSuite
    /\ resident' = {}
    /\ dirty' = [s \in Suites |-> dirty[s] \/ MidBatch(s)]
    /\ UNCHANGED <<prefix, report, latch, pause, deadline, asked, lost, raced>>

-----------------------------------------------------------------------------
(* Specification *)

\* What a supervisor does of itself, and what befalls it.
Supervise(s) ==
    \/ Refuse(s) \/ Admit(s) \/ FindStalePause(s) \/ DropPause(s)
    \/ ResumeCooldownOver(s)
    \/ Finish(s) \/ PauseAtBoundary(s) \/ BeginBatch(s)
    \/ AcquireLease(s) \/ LeaseBusy(s) \/ Spawn(s) \/ RecordChild(s)
    \/ ChildExited(s) \/ StopChild(s) \/ Unload(s)
    \/ RecordOutcome(s) \/ RecordCooldown(s) \/ CooldownOver(s)
    \/ BatchSucceeded(s) \/ BatchFailed(s)

Mishap(s) ==
    PreflightBreach(s) \/ SpawnFails(s) \/ Breach(s) \/ StopFails(s) \/ UnloadFails(s)

Operate(s) == Launch(s) \/ SignalPause(s) \/ RequestPause(s)

Work(p) == ReadCheckpoint(p) \/ Checkpoint(p) \/ Succeed(p)

Next ==
    \/ \E s \in Suites : Supervise(s)
    \/ \E s \in Suites : Mishap(s)
    \/ \E s \in Suites : Operate(s)
    \/ \E s \in Suites : DeadlinePasses(s)
    \/ \E s \in Suites : Kill(s)
    \/ \E p \in Pids : Work(p)
    \/ \E p \in Pids : Crash(p)
    \/ \E p \in Pids : LeaderExits(p)
    \/ Reboot

Spec == Init /\ [][Next]_vars

\* A running supervisor keeps executing, a worker's model calls time out so it
\* gets on, and time passes.  Nothing obliges an operator to launch or pause,
\* and no fault has to happen.
Fairness ==
    /\ \A s \in Suites : WF_vars(Supervise(s)) /\ WF_vars(DeadlinePasses(s))
    /\ \A p \in Pids : WF_vars(Work(p))

FairSpec == Spec /\ Fairness

-----------------------------------------------------------------------------
(* Invariants *)

TypeOK ==
    /\ pc \in [Suites -> Pc]
    /\ mem \in [Suites -> Memory]
    /\ disk \in [Suites -> SuiteState]
    /\ prefix \in [Suites -> 0..Total]
    /\ report \in [Suites -> BOOLEAN]
    /\ latch \in [Suites -> BOOLEAN]
    /\ pause \in [Suites -> PauseFile]
    /\ deadline \in [Suites -> BOOLEAN]
    /\ lease \in Suites \cup {NoSuite}
    /\ worker \in [Pids -> Worker]
    /\ resident \in SUBSET Suites
    /\ faults \in 0..MaxFaults
    /\ dirty \in [Suites -> BOOLEAN]
    /\ asked \in [Suites -> BOOLEAN]
    /\ lost \in SUBSET Suites
    /\ raced \in [Suites -> BOOLEAN]

\* workload_lease, "Hold an exclusive local workload lease, including its
\* cooldown": no two supervisors are between preflight and the end of the
\* cooldown at once, whatever failed and whoever was killed.
OneBatchAtATime ==
    \A s, t \in Suites : MidBatch(s) /\ MidBatch(t) => s = t

\* A worker that nobody holds any more is named by its suite's state file, so
\* that the next start finds it.  The exception is the suite whose supervisor
\* died in the window between Popen and on_spawn.
OrphansAreRecorded ==
    \A p \in LiveWorkers :
        \/ Supervised(p)
        \/ worker[p].suite \in lost
        \/ disk[worker[p].suite].boot /\ disk[worker[p].suite].pid = p

\* COMPLETE is truthful: every case is checkpointed, the report exists, and
\* the suite's last worker left no model resident.  Excepted are the two
\* windows the history variables record.
CompleteIsTruthful ==
    \A s \in Suites : disk[s].phase = "COMPLETE" =>
        /\ prefix[s] = Total \/ s \in lost
        /\ report[s]
        /\ s \notin resident \/ raced[s] \/ s \in lost

-----------------------------------------------------------------------------
(* Action properties *)

Spawned(s) == \E p \in Pids : ~Running(p) /\ Running(p)' /\ worker'[p].suite = s

\* A checkpointed case is never lost again: two workers of one suite, each
\* replacing the file by the rows it read plus one, never overlap.
CheckpointsAreKept ==
    [][\A s \in Suites : prefix'[s] >= prefix[s] \/ s \in lost]_vars

\* A latched suite is over: it only finishes its cooldown and records the
\* stop.  No later start readies, runs, pauses or completes it.
LatchIsFinal ==
    [][\A s \in Suites : latch[s] /\ disk'[s].phase # disk[s].phase =>
           disk'[s].phase \in {"COOLING", "RESOURCE_STOP"}]_vars

\* After a batch was cut short (a breach, a kill, a reboot) the next model run
\* of an unfinished suite is a recovery pilot, through any number of refused,
\* paused, failed or killed starts in between.
PilotFirst ==
    [][\A s \in Suites : Spawned(s) /\ dirty[s] =>
           mem[s].pilot \/ prefix[s] = Total \/ s \in lost]_vars

\* No worker starts before the suite's recorded cooldown is over, even when
\* another supervisor recorded it, nor during a cooldown held by another suite.
CooldownIsKept ==
    [][\A s \in Suites : Spawned(s) =>
           /\ ~deadline[s]
           /\ \A t \in Suites : deadline[t] => pc[t] # "cooling"]_vars

\* A pause file is removed only after a PAUSED or COMPLETE state answered the
\* latest request, across kills and restarts.  Excepted (see asked) is the
\* request that replaces an answered file between its stat() and its unlink().
PauseIsNotLost ==
    [][\A s \in Suites : pause[s] # "none" /\ pause'[s] = "none" =>
           ~asked[s]]_vars

\* A worker starts beside a live one of its suite only when the supervisor of
\* that one died before it could record it: the promise of the next section,
\* with its only exception.
WorkersStartAlone ==
    [][\A s \in Suites : Spawned(s) =>
           \/ s \in lost
           \/ \A p \in LiveWorkers : worker[p].suite # s]_vars

\* The control points of main() and guarded_process(), in program order.
Position == [loaded |-> 1, dropping |-> 2, waiting |-> 3, top |-> 4, lease |-> 5,
             preflight |-> 6, spawned |-> 7, watch |-> 8, stop |-> 9, unload |-> 10,
             record |-> 11, cool |-> 12, cooling |-> 13, check |-> 14, failed |-> 15,
             off |-> 16]

\* A start runs a bounded number of batches: it goes back to the head of the loop
\* only with one case more than its batch began with, and after the batch that
\* leaves no case open, or that only had a cleanup to make good, it is finished.
LaunchAdvances ==
    [][\A s \in Suites :
           \/ pc[s] \in {"off", pc'[s]}
           \/ Position[pc[s]] < Position[pc'[s]]
           \/ /\ pc[s] = "check" /\ pc'[s] = "top"
              /\ \/ mem[s].base < prefix[s] /\ prefix[s] < Total
                 \/ Finished(s)'
                 \/ s \in lost]_vars

-----------------------------------------------------------------------------
(* What the files promise to a sequence *)

\* A state file says of a batch under way, or about to begin, that it runs.
Says(phase) == CASE phase \in {"READY", "RUNNING", "COOLING"} -> "RUNNING"
                 [] phase = "RESOURCE_STOP" -> "FAILED"
                 [] OTHER -> phase

Register == INSTANCE SuiteRegister WITH
    Cases   <- [s \in Suites |-> Total],
    done    <- prefix,
    phase   <- [s \in Suites |-> Says(disk[s].phase)],
    latched <- latch,
    astray  <- lost

\* A suite's files are a SuiteRegister, through kills and reboots: the checkpoint
\* stands still while they say PAUSED or COMPLETE, as tmux_benchmarks.py assumes
\* when it reads state and checkpoint one after the other.
FilesAreARegister == Register!Spec

-----------------------------------------------------------------------------
(* What the documents promise of the workers themselves *)

\* "Stale worker is still alive; do not launch another model run": no worker
\* of a suite starts beside a live one of the same suite.
NoLaunchBesideStaleWorker ==
    [][\A s \in Suites : Spawned(s) =>
           \A p \in LiveWorkers : worker[p].suite # s]_vars

-----------------------------------------------------------------------------
(* Liveness *)

\* Every supervisor that starts comes to an end by itself.
EveryLaunchEnds ==
    \A s \in Suites : pc[s] # "off" ~> pc[s] = "off"
=============================================================================
