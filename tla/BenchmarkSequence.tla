------------------------- MODULE BenchmarkSequence --------------------------
(***************************************************************************)
(* A benchmark sequence (scripts/tmux_benchmarks.py): one process that     *)
(* owns a native Ollama server, through a Windows guardian and a loopback  *)
(* proxy, and runs guarded one-case suites one batch at a time until all   *)
(* of them are complete.                                                   *)
(*                                                                         *)
(* The sequence, its worker (a suite's wrapper), the guardian and the      *)
(* proxy are processes of their own.  Any of them may die alone; only the  *)
(* state file, the latches and the guardian's heartbeat tie them together. *)
(* A worker is reduced to what module GuardedSuite establishes of a batch. *)
(* The tmux pane runs one sequence process at a time.                      *)
(*                                                                         *)
(* A beat is at most 0.2 s old while a sequence polls and the guardian     *)
(* allows ten seconds, so a heartbeat goes stale only without a sequence.  *)
(***************************************************************************)
EXTENDS Naturals, FiniteSets

CONSTANTS Suites,     \* the plan's benchmarks, in the order First
          First,      \* spider: the suite that comes first in the plan
          Cases,      \* Cases[s] = len(ids(child)): the cases of each suite
          Servers,    \* guardians with their proxies, alive at once (a bound)
          Workers,    \* wrapper processes alive at once (a bound)
          MaxFaults,  \* bound on kills, reboots, failing saves and processes
                      \* that cannot be stopped, together
          None        \* None for a process id, and for no suite

ASSUME SequenceConstants ==
    /\ First \in Suites
    /\ IsFiniteSet(Suites)
    /\ Cases \in [Suites -> Nat \ {0}]
    /\ MaxFaults \in Nat
    /\ None \notin Servers \cup Workers \cup Suites
    /\ Servers \cap Workers = {}

VARIABLES
    pc,       \* where the sequence process is in execute()
    mem,      \* its arguments and locals
    st,       \* its in-memory SequenceState
    disk,     \* sequence-state.json
    suite,    \* suite[s]: the files of a suite, see SuiteFiles
    worker,   \* worker[w]: a wrapper process
    server,   \* server[g]: a guardian, what it owns, and its proxy
    latch,    \* server.resource-stop.json: "none", or its cleanup evidence
    cleanup,  \* cleanup.resource-stop.json exists
    stop,     \* server.stop-request exists
    pause,    \* pause-request.json exists
    told,     \* suites whose own pause-request.json exists
    faults,   \* kills, reboots and such failures so far
    dirty,    \* history: a batch was cut short and none has ended since
    lost,     \* history: processes started by a sequence that ended before
              \* it saved their pids, and native servers that outlived WSL
              \* or a relay no sequence was waiting for
    author    \* history: the guardian whose cleanup the latch tells of

files   == <<disk, latch, cleanup, stop, pause, told>>
history == <<dirty, lost, author>>
vars    == <<pc, mem, st, files, suite, worker, server, faults, history>>

-----------------------------------------------------------------------------
(* State *)

\* Control points of execute(), in program order.
Pc == {"off", "launched", "prepared", "guard", "owned", "ready", "top",
       "finishing", "finished", "spawned", "watch", "reap", "ended",
       "except", "final", "closing"}

Phase == {"NONE", "PREPARING", "PILOT", "RUNNING", "PAUSED", "COMPLETE",
          "FAILED", "RESOURCE_STOP"}

\* A SequenceState; server stands for server_pid and proxy_pid.
SequenceState == [phase : Phase, boot : BOOLEAN, pilots : SUBSET Suites,
                  recovery : BOOLEAN, worker : Workers \cup {None},
                  server : Servers \cup {None}]

NoState == [phase |-> "NONE", boot |-> TRUE, pilots |-> {}, recovery |-> FALSE,
            worker |-> None, server |-> None]

\* returncode of a process: None, 0 or another status.
ExitStatus == {"none", "ok", "failed"}

\* Arguments and locals: --recovery-pilot, batches > 0, the OwnedServer object,
\* child, completed_before, the worker and the guardian with their returncodes
\* (code, exit).  requested_pause is not kept
\* apart from the pause file the handler writes, nor --max-batches from a pause
\* requested between two batches.  abandoned is history: a failing step has left
\* the worker alive.
Memory == [pilot : BOOLEAN, ran : BOOLEAN, owner : BOOLEAN,
           child : Suites \cup {None}, before : Nat,
           worker : Workers \cup {None}, server : Servers \cup {None},
           code : ExitStatus, exit : ExitStatus, abandoned : BOOLEAN]

NoMemory == [pilot |-> FALSE, ran |-> FALSE, owner |-> FALSE, child |-> None,
             before |-> 0, worker |-> None, server |-> None, code |-> "none",
             exit |-> "none", abandoned |-> FALSE]

\* The checkpoint's length, the report, the suite state (owes stands for its
\* recovery_required or an old boot) and the suite's resource-stop latch.
SuiteFiles == [done : Nat, report : BOOLEAN, owes : BOOLEAN,
               latch : BOOLEAN,
               phase : {"NONE", "RUNNING", "PAUSED", "COMPLETE", "FAILED"}]

\* "New sequence requires unused prediction/report paths"
NoFiles == [done |-> 0, report |-> FALSE, owes |-> FALSE, latch |-> FALSE,
            phase |-> "NONE"]

\* A wrapper, and how far it has come with its one batch.
Worker == [stage : {"dead", "new", "infer", "answered", "cooling"},
           suite : Suites \cup {None}, pilot : BOOLEAN]
Gone   == [stage |-> "dead", suite |-> None, pilot |-> FALSE]

\* A guardian: its relay process in WSL, the native server it owns on the
\* Windows side, and the proxy in front of it.
Server == [relay : BOOLEAN, native : {"none", "starting", "serving"},
           proxy : BOOLEAN]
Closed == [relay |-> FALSE, native |-> "none", proxy |-> FALSE]

Init ==
    /\ pc = "off"
    /\ mem = NoMemory
    /\ st = NoState
    /\ disk = NoState
    /\ suite = [s \in Suites |-> NoFiles]
    /\ worker = [w \in Workers |-> Gone]
    /\ server = [g \in Servers |-> Closed]
    /\ latch = "none"
    /\ cleanup = FALSE
    /\ stop = FALSE
    /\ pause = FALSE
    /\ told = {}
    /\ faults = 0
    /\ dirty = FALSE
    /\ lost = {}
    /\ author = None

-----------------------------------------------------------------------------
(* Helpers *)

Live(w)    == w \in Workers /\ worker[w].stage # "dead"
Up(g)      == server[g].relay \/ server[g].proxy
Running(g) == Up(g) \/ server[g].native # "none"
Serving    == \E g \in Servers : server[g].native = "serving" /\ server[g].proxy

\* process_group_alive() of the pids in a state.
Recorded(state) == \/ Live(state.worker)
                   \/ state.server \in Servers /\ Up(state.server)

SuiteLatched == \E s \in Suites : suite[s].latch
Latched      == latch # "none" \/ cleanup \/ SuiteLatched

Pending == {s \in Suites : suite[s].done < Cases[s] \/ ~suite[s].report}

Goto(to) == pc' = to

\* save(): the in-memory state object becomes the state file.
Save(state) == st' = state /\ disk' = state

\* The process ends.
Leave == Goto("off") /\ mem' = NoMemory

\* A wrapper, or a relay, ends: its sequence can read the exit status.
Exits(w, status) ==
    /\ worker' = [worker EXCEPT ![w] = Gone]
    /\ mem' = IF w = mem.worker THEN [mem EXCEPT !.code = status] ELSE mem

RelayExit(g, status) ==
    mem' = IF g = mem.server /\ server[g].relay
           THEN [mem EXCEPT !.exit = status] ELSE mem

\* Processes of the sequence whose pid has not been saved yet, or could not be.
Unsaved ==
    {w \in {mem.worker} \ {None} :
              \/ pc = "spawned"
              \/ mem.abandoned /\ st.worker = w /\ disk.worker # w}
    \cup {g \in {mem.server} \ {None} :
              /\ pc \in {"guard", "owned", "except", "final", "closing"}
              /\ st.server = None}

\* Native servers whose relay is dead: only the sequence that saw it exit knows.
Unwatched == {g \in Servers : server[g].native # "none" /\ ~server[g].relay}

Fault == faults < MaxFaults /\ faults' = faults + 1

\* Process slots that nothing refers to any more.
Unused(id)  == id \notin {mem.worker, mem.server, st.worker, st.server,
                          disk.worker, disk.server}
FreeServers == {g \in Servers : ~Running(g) /\ Unused(g)}
FreeWorkers == {w \in Workers : ~Live(w) /\ Unused(w)}

-----------------------------------------------------------------------------
(* launch() and the beginning of execute() *)

\* launch() finds a dead pane, clears the pause requests and starts execute().
Launch ==
    /\ pc = "off"
    /\ ~Latched
    /\ Goto("launched")
    /\ \E pilot \in BOOLEAN : mem' = [NoMemory EXCEPT !.pilot = pilot]
    /\ pause' = FALSE
    /\ told' = {}
    /\ UNCHANGED <<st, disk, latch, cleanup, stop, suite, worker, server,
                   faults, history>>

\* Mutant: an interrupted recovery is forgotten.
UncleanByPhase == disk.phase # "NONE" /\
    (~disk.boot \/ disk.phase \in {"PREPARING", "PILOT", "RUNNING"})

\* A state left by a process that was cut short, or by another boot.
Unclean == /\ disk.phase # "NONE"
           /\ \/ disk.recovery
              \/ ~disk.boot
              \/ disk.phase \in {"PREPARING", "PILOT", "RUNNING"}

Refusal == \/ Latched
           \/ disk.boot /\ Recorded(disk)
           \/ Unclean /\ ~mem.pilot

Refuse ==
    /\ pc = "launched"
    /\ Refusal
    /\ Leave
    /\ UNCHANGED <<st, files, suite, worker, server, faults, history>>

\* PREPARING, under sequence.lock; the pilots passed so far are kept.
Prepare ==
    /\ pc = "launched"
    /\ ~Refusal
    /\ Goto("prepared")
    /\ Save([NoState EXCEPT !.phase = "PREPARING", !.pilots = disk.pilots,
                            !.recovery = Unclean])
    /\ mem' = [mem EXCEPT !.owner = TRUE]
    /\ UNCHANGED <<latch, cleanup, stop, pause, told, suite, worker,
                   server, faults, history>>

-----------------------------------------------------------------------------
(* OwnedServer *)

\* OwnedServer.start(): something answers on its ports.
PortTaken == \E g \in Servers : server[g].native = "serving" \/ server[g].proxy

\* The ports are taken, models are resident, or a probe finds no server: an
\* httpx.HTTPError passes the except branch by.
StartRefused ==
    /\ pc = "prepared"
    /\ \/ Goto("except") /\ UNCHANGED faults
       \/ Goto("final") /\ Fault
    /\ UNCHANGED <<mem, st, files, suite, worker, server, history>>

StartGuardian ==
    /\ pc = "prepared"
    /\ ~PortTaken
    /\ FreeServers # {}
    /\ LET g == CHOOSE g \in FreeServers : TRUE IN
         /\ server' = [server EXCEPT ![g] = [relay |-> TRUE,
                            native |-> "starting", proxy |-> FALSE]]
         /\ mem' = [mem EXCEPT !.server = g]
         /\ lost' = lost \ {g}
         /\ author' = IF author = g THEN None ELSE author
    /\ stop' = FALSE
    /\ Goto("guard")
    /\ UNCHANGED <<st, disk, latch, cleanup, pause, told, suite, worker,
                   faults, dirty>>

StartProxy ==
    /\ pc = "guard"
    /\ server' = [server EXCEPT ![mem.server].proxy = TRUE]
    /\ Goto("owned")
    /\ UNCHANGED <<mem, st, files, suite, worker, faults, history>>

\* Its Popen raises: start() does not return the guardian's pid.
StartProxyFails ==
    /\ pc = "guard"
    /\ Goto("except")
    /\ UNCHANGED <<mem, st, files, suite, worker, server, faults, history>>

\* start() returned: both pids are saved.
SaveServer ==
    /\ pc = "owned"
    /\ Save([st EXCEPT !.server = mem.server])
    /\ Goto("ready")
    /\ UNCHANGED <<mem, latch, cleanup, stop, pause, told, suite, worker,
                   server, faults, history>>

\* What OwnedServer.check() refuses: a latch, a dead guardian or proxy.
CheckFails == \/ Latched
              \/ mem.exit # "none"
              \/ ~server[mem.server].proxy

WaitReady ==
    /\ pc = "ready"
    /\ ~CheckFails
    /\ server[mem.server].native = "serving"
    /\ Goto("top")
    /\ UNCHANGED <<mem, st, files, suite, worker, server, faults, history>>

\* A failing check, or twenty seconds without an answer.
NotReady ==
    /\ pc = "ready"
    /\ Goto("except")
    /\ UNCHANGED <<mem, st, files, suite, worker, server, faults, history>>

-----------------------------------------------------------------------------
(* The batch loop *)

PauseDue == pause \/ (mem.pilot /\ mem.ran)

Pause ==
    /\ pc = "top"
    /\ Pending # {}
    /\ PauseDue
    /\ Save([st EXCEPT !.phase = "PAUSED"])
    /\ Goto("final")
    /\ UNCHANGED <<mem, latch, cleanup, stop, pause, told, suite, worker,
                   server, faults, history>>

\* A checkpoint or a report that does not validate, a changed .env or
\* interpreter (frozen_environment), a wrapper that cannot be spawned.
TopFails ==
    /\ pc = "top"
    /\ Goto("except")
    /\ UNCHANGED <<mem, st, files, suite, worker, server, faults, history>>

\* The first pending suite in plan order of a set.
InOrder(S) == IF First \in S THEN First ELSE CHOOSE s \in S : TRUE

\* First one independent case for each workload; then finish in order.
NextChild == LET unproved == Pending \ st.pilots
             IN  InOrder(IF unproved # {} THEN unproved ELSE Pending)

\* wrapper_command(): --recovery-pilot goes to the first batch only.
WrapperPilot == mem.pilot /\ ~mem.ran

\* Popen of the wrapper; nothing is saved yet.
StartBatch ==
    /\ pc = "top"
    /\ Pending # {}
    /\ ~PauseDue
    /\ FreeWorkers # {}
    /\ LET w == CHOOSE w \in FreeWorkers : TRUE IN
         /\ worker' = [worker EXCEPT ![w] = [stage |-> "new",
                            suite |-> NextChild, pilot |-> WrapperPilot]]
         /\ mem' = [mem EXCEPT !.child = NextChild, !.worker = w,
                               !.before = suite[NextChild].done]
         /\ lost' = lost \ {w}
    /\ st' = [st EXCEPT !.phase = IF NextChild \in st.pilots THEN "RUNNING"
                                                             ELSE "PILOT"]
    /\ Goto("spawned")
    /\ UNCHANGED <<files, suite, server, faults, dirty, author>>

\* Mutant: the worker's pid is not saved before the batch is over.
SaveNoWorker ==
    /\ pc = "spawned"
    /\ Goto("watch")
    /\ UNCHANGED <<mem, st, files, suite, worker, server, faults, history>>

SaveWorker ==
    /\ pc = "spawned"
    /\ Save([st EXCEPT !.worker = mem.worker])
    /\ Goto("watch")
    /\ UNCHANGED <<mem, latch, cleanup, stop, pause, told, suite, worker,
                   server, faults, history>>

\* The save, or the start of the reader thread, raises before the try that
\* waits for the worker: nobody interrupts it.
SaveWorkerFails ==
    /\ pc = "spawned"
    /\ Fault
    /\ st' = [st EXCEPT !.worker = mem.worker]
    /\ disk' \in {disk, st'}
    /\ mem' = [mem EXCEPT !.abandoned = TRUE]
    /\ Goto("except")
    /\ UNCHANGED <<latch, cleanup, stop, pause, told, suite, worker, server,
                   history>>

\* A pause request is forwarded to the suite.
ForwardPause ==
    /\ pc = "watch"
    /\ ~CheckFails
    /\ pause
    /\ mem.child \notin told
    /\ told' = told \cup {mem.child}
    /\ UNCHANGED <<pc, mem, st, disk, latch, cleanup, stop, pause, suite,
                   worker, server, faults, history>>

\* Mutant: the loop waits for a wrapper that ends well.
WorkerEndedWell ==
    /\ pc = "watch"
    /\ mem.code = "ok"
    /\ Goto("ended")
    /\ UNCHANGED <<mem, st, files, suite, worker, server, faults, history>>

WorkerExited ==
    /\ pc = "watch"
    /\ ~Live(mem.worker)
    /\ Goto(IF mem.code = "ok" THEN "ended" ELSE "except")
    /\ UNCHANGED <<mem, st, files, suite, worker, server, faults, history>>

\* server.check() raises, be it that the heartbeat cannot be written; the
\* wrapper gets SIGINT and pauses at its boundary.
CheckRaises ==
    /\ pc = "watch"
    /\ IF CheckFails THEN UNCHANGED faults ELSE Fault
    /\ Goto("reap")
    /\ told' = told \cup {mem.child}
    /\ UNCHANGED <<mem, st, disk, latch, cleanup, stop, pause, suite, worker,
                   server, history>>

\* Mutant: the worker's cleanup is not waited for.
ReapAtOnce ==
    /\ pc = "reap"
    /\ Goto("except")
    /\ UNCHANGED <<mem, st, files, suite, worker, server, faults, history>>

\* wait_worker_cleanup(): the heartbeat goes on until the wrapper is done.
Reap ==
    /\ pc = "reap"
    /\ ~Live(mem.worker)
    /\ Goto("except")
    /\ UNCHANGED <<mem, st, files, suite, worker, server, faults, history>>

\* ... or until its time is up and _stop() kills it.
ReapTimesOut ==
    /\ pc = "reap"
    /\ Live(mem.worker)
    /\ Exits(mem.worker, "failed")
    /\ Goto("except")
    /\ UNCHANGED <<st, files, suite, server, faults, history>>

\* ... or until heartbeat() or _stop() raises, and the wrapper lives on.
ReapFails ==
    /\ pc = "reap"
    /\ Live(mem.worker)
    /\ Fault
    /\ mem' = [mem EXCEPT !.abandoned = TRUE]
    /\ Goto("except")
    /\ UNCHANGED <<st, files, suite, worker, server, history>>

\* Mutant: a paused batch is empty only if its checkpoint is.
NothingYet == suite[mem.child].done = 0 /\ pause

\* The worker ended well: what its suite's files say of the batch.
Boundary    == suite[mem.child].phase \in {"PAUSED", "COMPLETE"}
NothingDone == /\ suite[mem.child].done = mem.before
               /\ pause
NeedsProof  == mem.child \notin st.pilots \/ WrapperPilot

PausedBeforeCase ==
    /\ pc = "ended"
    /\ Boundary /\ NothingDone
    /\ Save([st EXCEPT !.worker = None, !.phase = "PAUSED"])
    /\ Goto("final")
    /\ UNCHANGED <<mem, latch, cleanup, stop, pause, told, suite, worker,
                   server, faults, history>>

\* Not a boundary, or verify_pilot() is not satisfied by the pilot's evidence.
BatchRejected ==
    /\ pc = "ended"
    /\ ~Boundary \/ (~NothingDone /\ NeedsProof)
    /\ st' = [st EXCEPT !.worker = None]
    /\ Goto("except")
    /\ UNCHANGED <<mem, files, suite, worker, server, faults, history>>

BatchDone ==
    /\ pc = "ended"
    /\ Boundary /\ ~NothingDone
    /\ Save([st EXCEPT !.worker = None, !.recovery = FALSE,
                       !.pilots = @ \cup {mem.child}])
    /\ mem' = [mem EXCEPT !.ran = TRUE, !.child = None, !.worker = None,
                          !.before = 0, !.code = "none"]
    /\ dirty' = FALSE
    /\ Goto("top")
    /\ UNCHANGED <<latch, cleanup, stop, pause, told, suite, worker, server,
                   faults, lost, author>>

-----------------------------------------------------------------------------
(* The end: the except and finally branches, OwnedServer.close(), COMPLETE *)

\* The except branch: a worker that is alive stays recorded.
Failure == [st EXCEPT
    !.phase = IF SuiteLatched \/ latch # "none" THEN "RESOURCE_STOP" ELSE "FAILED",
    !.worker = IF Live(st.worker) THEN st.worker ELSE None]

RecordFailure ==
    /\ pc = "except"
    /\ Save(Failure)
    /\ Goto("final")
    /\ UNCHANGED <<mem, latch, cleanup, stop, pause, told, suite, worker,
                   server, faults, history>>

\* A checkpoint that does not validate raises again here, or the save fails.
RecordFails ==
    /\ pc = "except"
    /\ Fault
    /\ st' = Failure
    /\ Goto("final")
    /\ UNCHANGED <<mem, files, suite, worker, server, history>>

\* close() begins by touching the stop request, for COMPLETE ...
AllDone ==
    /\ pc = "top"
    /\ Pending = {}
    /\ stop' = TRUE
    /\ Goto("finishing")
    /\ UNCHANGED <<mem, st, disk, latch, cleanup, pause, told, suite, worker,
                   server, faults, history>>

\* ... or in the finally branch, whenever the OwnedServer is not closed yet.
AskToStop ==
    /\ pc = "final"
    /\ mem.owner
    /\ stop' = TRUE
    /\ Goto("closing")
    /\ UNCHANGED <<mem, st, disk, latch, cleanup, pause, told, suite, worker,
                   server, faults, history>>

\* Mutant: the guardian's exit is taken as enough.
VerifiedByExit == mem.server # None => mem.exit # "none"

\* A clean exit, or a stop whose latch says that the native processes are gone.
Verified == mem.server # None =>
                mem.exit = "ok" \/ (mem.exit = "failed" /\ latch = "verified")

\* Neither, or it has not ended after five seconds.
CloseGivesUp == mem.server # None /\
                (mem.exit = "none" \/ (mem.exit = "failed" /\ latch # "verified"))

\* What close() leaves in any case: no proxy, and no relay; a native server
\* whose relay had to be killed may live on.
Dismiss == server' = [g \in Servers |->
    IF g = mem.server THEN [Closed EXCEPT !.native = server[g].native]
                      ELSE server[g]]

\* _stop() of the relay or of the proxy raises ResourceGuardError: the one, or
\* both, live on.
StopRaises(g) ==
    /\ g \in Servers
    /\ Fault
    /\ \E relay, proxy \in BOOLEAN :
          /\ relay \/ proxy
          /\ relay => server[g].relay
          /\ proxy => server[g].proxy
          /\ server' = [server EXCEPT ![g] = [relay |-> relay, proxy |-> proxy,
                                              native |-> server[g].native]]

CloseToFinish ==
    /\ pc = "finishing"
    /\ Verified
    /\ Dismiss
    /\ mem' = [mem EXCEPT !.server = None, !.owner = FALSE, !.exit = "none"]
    /\ st' = [st EXCEPT !.server = None]
    /\ Goto("finished")
    /\ UNCHANGED <<files, suite, worker, faults, history>>

\* A close() that fails here is tried again by the finally branch.
CloseFailsToFinish ==
    /\ pc = "finishing"
    /\ CloseGivesUp
    /\ Dismiss
    /\ RelayExit(mem.server, "failed")
    /\ Goto("except")
    /\ UNCHANGED <<st, files, suite, worker, faults, history>>

StopRaisesToFinish ==
    /\ pc = "finishing"
    /\ StopRaises(mem.server)
    /\ IF server'[mem.server].relay THEN mem' = mem
                                    ELSE RelayExit(mem.server, "failed")
    /\ Goto("except")
    /\ UNCHANGED <<st, files, suite, worker, history>>

Complete ==
    /\ pc = "finished"
    /\ ~Latched
    /\ Save([st EXCEPT !.phase = "COMPLETE"])
    /\ Leave
    /\ UNCHANGED <<latch, cleanup, stop, pause, told, suite, worker, server,
                   faults, history>>

LatchedAtTheEnd ==
    /\ pc = "finished"
    /\ Latched
    /\ Goto("except")
    /\ UNCHANGED <<mem, st, files, suite, worker, server, faults, history>>

Close ==
    /\ pc = "closing"
    /\ Verified
    /\ Dismiss
    /\ Save([st EXCEPT !.server = None])
    /\ Leave
    /\ UNCHANGED <<latch, cleanup, stop, pause, told, suite, worker, faults,
                   history>>

\* A cleanup that nobody could verify latches the sequence.
CloseFails ==
    /\ pc = "closing"
    /\ CloseGivesUp
    /\ Dismiss
    /\ cleanup' = TRUE
    /\ Save([st EXCEPT !.phase = "RESOURCE_STOP"])
    /\ Leave
    /\ UNCHANGED <<latch, stop, pause, told, suite, worker, faults, history>>

\* The finally branch does not catch a ResourceGuardError: the process ends with
\* neither a latch nor a saved state.
CloseRaises ==
    /\ pc = "closing"
    /\ StopRaises(mem.server)
    /\ Leave
    /\ st' = disk
    /\ lost' = lost \cup Unwatched' \cup Unsaved
    /\ UNCHANGED <<files, suite, worker, dirty, author>>

NothingToClose ==
    /\ pc = "final"
    /\ ~mem.owner
    /\ Leave
    /\ st' = disk
    /\ UNCHANGED <<files, suite, worker, server, faults, history>>

-----------------------------------------------------------------------------
(* The guardian (scripts/windows_ollama_guard.ps1) and the proxy *)

\* The sequence process is where its heartbeat cannot be ten seconds old.
Beating == pc \notin {"off", "launched", "prepared"}

GuardianServes(g) ==
    /\ server[g].native = "starting"
    /\ latch = "none"
    /\ \A h \in Servers : server[h].native # "serving"
    /\ server' = [server EXCEPT ![g].native = "serving"]
    /\ UNCHANGED <<pc, mem, st, files, suite, worker, faults, history>>

GuardianEnds(g, status) ==
    /\ server[g].native # "none"
    /\ server' = [server EXCEPT ![g] = [@ EXCEPT !.native = "none", !.relay = FALSE]]
    /\ RelayExit(g, status)

\* The stop request is seen: job and runners are closed.
GuardianStops(g) ==
    /\ stop
    /\ GuardianEnds(g, "ok")
    /\ UNCHANGED <<pc, st, files, suite, worker, faults, history>>

\* The guardian closes its job and latches; an older latch is kept.
GuardianLatches(g) ==
    /\ GuardianEnds(g, "failed")
    /\ latch' \in IF latch = "none" THEN {"verified", "unverified"} ELSE {latch}
    /\ author' = IF latch = "none" THEN g ELSE author
    /\ UNCHANGED <<pc, st, disk, cleanup, stop, pause, told, suite,
                   worker, faults, dirty, lost>>

\* A limit is breached, a sensor fails, or Ollama exits.
GuardianBreach(g) == GuardianLatches(g)

\* Mutant: only a missing heartbeat file ends a guardian, not a stale one.
HeartbeatMissing(g) == cleanup /\ GuardianLatches(g)

\* "Harness heartbeat stale; stop orphaned native runners"
HeartbeatStale(g) == ~Beating /\ GuardianLatches(g)

\* "Owned native Ollama exited": another server has the port already.
PortConflict(g) == /\ server[g].native = "starting"
                   /\ \E h \in Servers : server[h].native = "serving"
                   /\ GuardianLatches(g)

\* A proxy has no heartbeat: left behind, it waits for an operator.
StopOrphanedProxy(g) ==
    /\ pc = "off"
    /\ server[g].proxy
    /\ server' = [server EXCEPT ![g].proxy = FALSE]
    /\ UNCHANGED <<pc, mem, st, files, suite, worker, faults, history>>

-----------------------------------------------------------------------------
(* A wrapper, as module GuardedSuite describes one batch of it *)

WorkerUnchanged == UNCHANGED <<pc, st, files, server, faults>>

Becomes(w, stage) == worker' = [worker EXCEPT ![w].stage = stage] /\ mem' = mem

\* The suite's own refusals: its lock, its latch, a batch that was cut short.
WrapperRefuses(w) ==
    LET s == worker[w].suite
    IN  \/ suite[s].latch
        \/ \E v \in Workers \ {w} : Live(v) /\ worker[v].suite = s
        \/ /\ suite[s].owes \/ suite[s].phase = "RUNNING"
           /\ suite[s].done < Cases[s] /\ ~worker[w].pilot

WorkerRefuses(w) ==
    /\ worker[w].stage = "new"
    /\ WrapperRefuses(w)
    /\ Exits(w, "failed")
    /\ WorkerUnchanged /\ UNCHANGED <<suite, history>>

\* READY, then RUNNING, or PAUSED when a request is there already.
WorkerStarts(w) ==
    LET s == worker[w].suite
        owes == suite[s].owes \/ suite[s].phase = "RUNNING"
        phase == IF s \in told THEN "PAUSED" ELSE "RUNNING"
    IN  /\ worker[w].stage = "new"
        /\ ~WrapperRefuses(w)
        /\ suite' = [suite EXCEPT ![s] = [@ EXCEPT !.phase = phase, !.owes = owes]]
        /\ IF s \in told THEN Exits(w, "ok") ELSE Becomes(w, "infer")
        /\ WorkerUnchanged /\ UNCHANGED history

\* Model calls are answered by the owned server only; a batch over a complete
\* checkpoint makes none.
Infer(w) ==
    /\ worker[w].stage = "infer"
    /\ Serving \/ suite[worker[w].suite].done = Cases[worker[w].suite]
    /\ Becomes(w, "answered")
    /\ WorkerUnchanged /\ UNCHANGED <<suite, history>>

\* Mutant: the report is left to the next batch, which finds no case open.
CheckpointReportsLater(w) ==
    LET s == worker[w].suite
        done == IF suite[s].done < Cases[s] THEN suite[s].done + 1 ELSE Cases[s]
    IN  /\ worker[w].stage = "answered"
        /\ suite' = [suite EXCEPT ![s] =
               [@ EXCEPT !.done = done,
                         !.report = suite[s].report \/ suite[s].done = Cases[s]]]
        /\ Becomes(w, "cooling")
        /\ WorkerUnchanged /\ UNCHANGED history

\* The case is checkpointed; with the last one, the report is written.
CheckpointCase(w) ==
    LET s == worker[w].suite
        done == IF suite[s].done < Cases[s] THEN suite[s].done + 1 ELSE Cases[s]
    IN  /\ worker[w].stage = "answered"
        /\ suite' = [suite EXCEPT ![s] =
               [@ EXCEPT !.done = done,
                         !.report = suite[s].report \/ done = Cases[s]]]
        /\ Becomes(w, "cooling")
        /\ WorkerUnchanged /\ UNCHANGED history

\* The cooldown is over: COMPLETE, or PAUSED after the one batch.
WorkerEnds(w) ==
    LET s == worker[w].suite
        phase == IF suite[s].done = Cases[s] THEN "COMPLETE" ELSE "PAUSED"
    IN  /\ worker[w].stage = "cooling"
        /\ suite' = [suite EXCEPT ![s] = [@ EXCEPT !.phase = phase, !.owes = FALSE]]
        /\ Exits(w, "ok")
        /\ WorkerUnchanged /\ UNCHANGED history

\* A failing case, or a resource stop of the suite's own guard.
WorkerFails(w) ==
    LET s == worker[w].suite
    IN  /\ worker[w].stage \in {"infer", "answered", "cooling"}
        /\ \E stopped \in BOOLEAN :
               suite' = [suite EXCEPT ![s] =
                   [@ EXCEPT !.phase = "FAILED",
                             !.latch = suite[s].latch \/ stopped]]
        /\ Exits(w, "failed")
        /\ WorkerUnchanged /\ UNCHANGED history

-----------------------------------------------------------------------------
(* Operators, kills and reboots *)

\* `pause`, SIGINT or SIGTERM.  What is written while no sequence runs is
\* removed by the next launch.
RequestPause ==
    /\ pc # "off"
    /\ ~pause
    /\ pause' = TRUE
    /\ UNCHANGED <<pc, mem, st, disk, latch, cleanup, stop, told, suite,
                   worker, server, faults, history>>

\* The sequence is killed; its processes, in sessions of their own, live on.
Kill ==
    /\ pc # "off"
    /\ Fault
    /\ Leave
    /\ st' = disk
    /\ dirty' = (dirty \/ pc \in {"spawned", "watch", "reap"})
    /\ lost' = lost \cup Unwatched \cup Unsaved
    /\ UNCHANGED <<files, suite, worker, server, author>>

KillWorker(w) ==
    /\ Live(w)
    /\ Fault
    /\ Exits(w, "failed")
    /\ UNCHANGED <<pc, st, files, suite, server, history>>

KillRelay(g) ==
    /\ server[g].relay
    /\ Fault
    /\ server' = [server EXCEPT ![g].relay = FALSE]
    /\ RelayExit(g, "failed")
    /\ lost' = IF g = mem.server THEN lost ELSE lost \cup {g}
    /\ UNCHANGED <<pc, st, files, suite, worker, dirty, author>>

KillProxy(g) ==
    /\ server[g].proxy
    /\ Fault
    /\ server' = [server EXCEPT ![g].proxy = FALSE]
    /\ UNCHANGED <<pc, mem, st, files, suite, worker, history>>

\* WSL restarts, with or without Windows: native servers live on or do not.
Reboot ==
    /\ Fault
    /\ Leave
    /\ disk' = [disk EXCEPT !.boot = FALSE]
    /\ st' = disk'
    /\ suite' = [s \in Suites |->
           [suite[s] EXCEPT !.owes = @ \/ suite[s].phase # "NONE"]]
    /\ worker' = [w \in Workers |-> Gone]
    /\ \E windows \in BOOLEAN :
           /\ server' = [g \in Servers |->
               [Closed EXCEPT !.native = IF windows THEN "none" ELSE server[g].native]]
           /\ lost' = lost \cup {g \in Servers : server'[g].native # "none"}
    /\ dirty' = (dirty \/ disk.phase # "NONE")
    /\ UNCHANGED <<latch, cleanup, stop, pause, told, author>>

-----------------------------------------------------------------------------
(* The status window (scripts/benchmark_monitor.py): render() reads the state  *)
(* file, the latches and whether the recorded guardian lives, and no more.     *)

Shown ==
    IF Latched THEN "RESOURCE_STOP"
    ELSE CASE disk.phase \in {"PREPARING", "PILOT", "RUNNING"} /\ ~disk.boot -> "RECOVERY_REQUIRED"
           [] disk.phase \in {"PILOT", "RUNNING"} /\ disk.boot
                /\ ~(disk.server \in Servers /\ server[disk.server].relay) -> "UNKNOWN"
           [] disk.phase = "PAUSED" /\ Recorded(disk) -> "PAUSING"
           [] OTHER -> disk.phase

-----------------------------------------------------------------------------
(* The specification *)

Execute ==
    \/ Refuse \/ Prepare
    \/ StartRefused \/ StartGuardian \/ StartProxy \/ StartProxyFails \/ SaveServer
    \/ WaitReady \/ NotReady
    \/ Pause \/ TopFails \/ StartBatch \/ SaveWorker \/ SaveWorkerFails
    \/ ForwardPause \/ WorkerExited \/ CheckRaises \/ Reap \/ ReapTimesOut \/ ReapFails
    \/ PausedBeforeCase \/ BatchRejected \/ BatchDone
    \/ RecordFailure \/ RecordFails \/ AllDone \/ AskToStop
    \/ CloseToFinish \/ CloseFailsToFinish \/ StopRaisesToFinish
    \/ Complete \/ LatchedAtTheEnd
    \/ Close \/ CloseFails \/ CloseRaises \/ NothingToClose

Guard(g) == \/ GuardianServes(g) \/ GuardianStops(g)
            \/ HeartbeatStale(g) \/ PortConflict(g)

Work(w) == \/ WorkerRefuses(w) \/ WorkerStarts(w) \/ Infer(w)
           \/ CheckpointCase(w) \/ WorkerEnds(w) \/ WorkerFails(w)

Next ==
    \/ Launch \/ Execute \/ RequestPause \/ Kill \/ Reboot
    \/ \E g \in Servers : Guard(g) \/ GuardianBreach(g) \/ StopOrphanedProxy(g)
                          \/ KillRelay(g) \/ KillProxy(g)
    \/ \E w \in Workers : Work(w) \/ KillWorker(w)

Spec == Init /\ [][Next]_vars

\* A live sequence and a live wrapper get on (module GuardedSuite shows the
\* latter), and a guardian polls.  Nobody has to launch, pause or clean up.
FairSpec == /\ Spec
            /\ WF_vars(Execute)
            /\ \A g \in Servers : WF_vars(Guard(g))
            /\ \A w \in Workers : WF_vars(Work(w))

-----------------------------------------------------------------------------
(* Properties *)

TypeOK ==
    /\ pc \in Pc
    /\ mem \in Memory
    /\ st \in SequenceState
    /\ disk \in SequenceState
    /\ suite \in [Suites -> SuiteFiles]
    /\ worker \in [Workers -> Worker]
    /\ server \in [Servers -> Server]
    /\ latch \in {"none", "verified", "unverified"}
    /\ cleanup \in BOOLEAN
    /\ stop \in BOOLEAN
    /\ pause \in BOOLEAN
    /\ told \in SUBSET Suites
    /\ faults \in 0..MaxFaults
    /\ dirty \in BOOLEAN
    /\ lost \in SUBSET (Servers \cup Workers)
    /\ author \in Servers \cup {None}

\* "Keep the native owner alive while a wrapper finishes cleanup": a sequence
\* whose worker is alive stays in the loop that watches and reaps it, and does
\* not ask its server to stop.  It leaves a live worker behind only when it
\* could not save the worker's pid or start its reader, write the heartbeat
\* while it waited, or kill it; then the worker stays in its state.
ServerOutlivesWorker ==
    Live(mem.worker) => \/ pc \in {"spawned", "watch", "reap"}
                        \/ mem.abandoned /\ st.worker = mem.worker

\* "Wait for PAUSED and null owned worker/server/proxy PIDs before shutdown":
\* when the state file says so, nothing of the sequence is running, natively
\* either, and when the status window shows PAUSED and no longer PAUSING, nothing
\* in WSL is.  Excepted are processes whose sequence died before it could record
\* them, and a native server of which another guardian's latch tells.
ShutdownIsSafe ==
    /\ disk.phase \in {"PAUSED", "COMPLETE"} /\ disk.worker = None /\ disk.server = None
         => \A g \in Servers : Running(g) => g \in lost \/ (latch = "verified" /\ author # g)
    /\ Shown = "PAUSED" => \A g \in Servers : Up(g) => g \in lost
    /\ \/ disk.phase \in {"PAUSED", "COMPLETE"} /\ disk.worker = None
       \/ Shown = "PAUSED"
         => \A w \in Workers : Live(w) => w \in lost

\* "Stale sequence worker/server is still alive": whatever a dead sequence left
\* running is named by its state file, where the next start looks for it, with
\* the same exception.
OrphansAreFound ==
    /\ \A w \in Workers : Live(w) => w \in {mem.worker, disk.worker} \cup lost
    /\ \A g \in Servers : Up(g) => g \in {mem.server, disk.server} \cup lost

\* After a sequence was cut short in a batch, or the machine rebooted, the next
\* batch is a recovery pilot, through any refused, paused or failed starts.
RecoveryFirst ==
    [][\A w \in Workers : ~Live(w) /\ Live(w)' /\ dirty => worker'[w].pilot]_vars

\* What a wrapper does to its suite's files here is what GuardedSuite shows of
\* them: the same register, in which nobody is astray.
Register == INSTANCE SuiteRegister WITH
    done    <- [s \in Suites |-> suite[s].done],
    report  <- [s \in Suites |-> suite[s].report],
    phase   <- [s \in Suites |-> suite[s].phase],
    latched <- [s \in Suites |-> suite[s].latch],
    astray  <- {}

\* Wrappers of several sequences, some of them dead, leave each suite's files a
\* SuiteRegister.
FilesAreARegister == Register!Spec

\* The control points of execute(), in program order.
Position == [launched |-> 1, prepared |-> 2, guard |-> 3, owned |-> 4, ready |-> 5,
             top |-> 6, spawned |-> 7, watch |-> 8, reap |-> 9, ended |-> 10,
             finishing |-> 11, finished |-> 12, except |-> 13, final |-> 14,
             closing |-> 15, off |-> 16]

\* The batch has added a case, or the report to a checkpoint that was complete.
GotOn == \/ suite[mem.child].done > mem.before
         \/ mem.before = Cases[mem.child] /\ suite[mem.child].report

\* A sequence runs a bounded number of batches: the only way back is to the head of
\* the loop, and a batch that was paused before its case does not take it.
SequenceAdvances ==
    [][pc # "off" /\ pc' # pc =>
           \/ Position[pc'] > Position[pc]
           \/ pc = "ended" /\ pc' = "top" /\ GotOn]_vars

\* A sequence ends by itself, whatever breaches, fails, hangs or is killed.
EveryRunEnds == pc # "off" ~> pc = "off"

\* No native server outlives its sequence for ever.
NativesEnd == \A g \in Servers :
    server[g].native # "none" ~> server[g].native = "none"
=============================================================================
