----------------------- MODULE BenchmarkSequence_proofs -----------------------
(***************************************************************************)
(* Theorems about BenchmarkSequence, for every number of suites, cases,    *)
(* servers, wrappers and faults: who may outlive whom, what a restart      *)
(* finds, when the machine may be switched off, that an interrupted batch  *)
(* is followed by a recovery pilot, that the suites' files are those of    *)
(* SuiteRegister, and that a run goes through a bounded number of batches. *)
(***************************************************************************)
EXTENDS BenchmarkSequence, TLAPS

-----------------------------------------------------------------------------
(* The inductive invariant *)

\* A sequence that has taken over the state file.
InRun == pc \notin {"off", "launched"}

\* Whom the sequence works with, at each point.
Engaged ==
    /\ ~InRun => /\ mem.worker = None /\ mem.server = None
                 /\ mem.exit = "none" /\ ~mem.ran
    /\ pc = "prepared" => /\ mem.worker = None /\ mem.server = None
                          /\ mem.exit = "none" /\ mem.owner
    /\ pc \in {"guard", "owned", "ready", "top", "spawned", "watch", "reap",
               "ended", "finishing"} => mem.server \in Servers
    /\ pc \in {"spawned", "watch", "reap", "ended"} =>
           mem.child \in Suites /\ mem.worker \in Workers
    /\ pc = "finished" => mem.server = None
    /\ InRun /\ ~mem.owner => mem.server = None
    /\ \A w \in Workers : Live(w) => worker[w].suite \in Suites

Typed == TypeOK /\ Engaged

\* Phases of a run that has not come to its end.
Underway == {"PREPARING", "PILOT", "RUNNING"}

\* What the state file says of the run.
Recording ==
    /\ InRun /\ pc \notin {"final", "closing"} =>
           st.phase \in Underway /\ disk.phase \in Underway
    /\ pc \in {"watch", "reap"} => st.worker = mem.worker /\ disk.worker = mem.worker
    /\ pc \in {"prepared", "guard", "owned"} => st.server = None
    /\ pc \in {"ready", "top", "spawned", "watch", "reap", "ended", "finishing"} =>
           st.server = mem.server /\ disk.server = mem.server
    /\ pc \in {"except", "final", "closing"} /\ mem.server # None =>
           \/ st.server = None /\ disk.phase \notin {"PAUSED", "COMPLETE"}
           \/ st.server = mem.server /\ disk.server = mem.server
    /\ cleanup => pc = "off" /\ disk.phase = "RESOURCE_STOP"
    /\ InRun => st.boot
    /\ ~disk.boot => /\ ~InRun
                     /\ \A w \in Workers : ~Live(w)
                     /\ \A g \in Servers : ~Up(g)

\* A worker that a failing step has left alive: nothing says that the run paused.
LeftAlive == /\ pc \in {"except", "final", "closing"}
             /\ mem.owner /\ mem.abandoned
             /\ st.worker = mem.worker
             /\ disk.phase \notin {"PAUSED", "COMPLETE"}

\* Whom the sequence, or else its state file, still knows.
Known ==
    /\ Live(mem.worker) => pc \in {"spawned", "watch", "reap"} \/ LeftAlive
    /\ \A w \in Workers : Live(w) =>
           w \in lost \cup {IF InRun THEN mem.worker ELSE disk.worker}
    /\ \A g \in Servers : Up(g) =>
           g \in lost \cup {IF InRun THEN mem.server ELSE disk.server}

\* A native server that somebody else has vouched for.
Excused(g) == g \in lost \/ (latch = "verified" /\ author # g)

\* Native servers, with the WSL side of theirs alive or not.
Natives ==
    /\ InRun /\ mem.exit = "ok" => \A g \in Servers : g = mem.server => server[g].native = "none"
    /\ \A g \in Servers : latch # "none" /\ author = g => server[g].native = "none"
    /\ \A g \in Servers : server[g].native # "none" =>
           \/ Excused(g)
           \/ InRun /\ g = mem.server
           \/ ~InRun /\ server[g].relay
           \/ cleanup

\* That a batch was cut short is recorded, or its recovery is under way.
Recovering ==
    dirty => IF InRun THEN /\ mem.pilot /\ ~mem.ran
                           /\ st.recovery /\ disk.recovery
                           /\ st.phase # "NONE" /\ disk.phase # "NONE"
                      ELSE Unclean

SequenceInv == Typed /\ Recording /\ Known /\ Natives /\ Recovering

-----------------------------------------------------------------------------
(* Types *)

LEMMA MemoryTyped == Typed /\ [Next]_vars => mem' \in Memory
<1> SUFFICES ASSUME Typed, [Next]_vars PROVE mem' \in Memory
  OBVIOUS
<1> USE SequenceConstants DEF Typed, TypeOK, ExitStatus
<1>0. NoMemory \in Memory
  BY DEF NoMemory, Memory
<1>1. CASE Launch
  BY <1>0, <1>1 DEF Launch, Memory
<1>2. CASE \/ Refuse \/ Complete \/ Close \/ CloseFails \/ CloseRaises \/ NothingToClose
          \/ Kill \/ Reboot
  BY <1>0, <1>2 DEF Refuse, Complete, Close, CloseFails, CloseRaises, NothingToClose, Kill,
                    Reboot, Leave
<1>3. CASE Prepare
  BY <1>3 DEF Prepare, Memory
<1>12. CASE CloseToFinish
  BY <1>12 DEF CloseToFinish, Memory
<1>4. CASE StartGuardian
  BY <1>4 DEF StartGuardian, FreeServers, Memory
<1>5. CASE StartBatch
  <2>1. NextChild \in Suites
    BY <1>5 DEF StartBatch, NextChild, InOrder, Pending
  <2>2. suite[NextChild].done \in Nat
    BY <2>1 DEF SuiteFiles
  <2>3. PICK w \in Workers :
           mem' = [mem EXCEPT !.child = NextChild, !.worker = w, !.before = suite[NextChild].done]
    BY <1>5 DEF StartBatch, FreeWorkers
  <2> HIDE DEF NextChild
  <2> QED
    BY <2>1, <2>2, <2>3 DEF Memory
<1>6. CASE BatchDone
  BY <1>6 DEF BatchDone, Memory
<1>7. ASSUME NEW w \in Workers,
             \/ WorkerRefuses(w) \/ WorkerEnds(w) \/ WorkerFails(w) \/ KillWorker(w)
             \/ WorkerStarts(w)
      PROVE  mem' \in Memory
  <2>1. mem' = mem \/ \E code \in ExitStatus : mem' = [mem EXCEPT !.code = code]
    BY <1>7 DEF WorkerRefuses, WorkerEnds, WorkerFails, KillWorker, WorkerStarts, Exits, Becomes
  <2> QED
    BY <2>1 DEF Memory
<1>8. CASE ReapTimesOut
  BY <1>8 DEF ReapTimesOut, Exits, Memory
<1>9. ASSUME NEW g \in Servers, GuardianStops(g) \/ GuardianLatches(g) \/ KillRelay(g)
      PROVE  mem' \in Memory
  <2>1. mem' = mem \/ \E exit \in ExitStatus : mem' = [mem EXCEPT !.exit = exit]
    BY <1>9 DEF GuardianStops, GuardianLatches, GuardianEnds, KillRelay, RelayExit
  <2> QED
    BY <2>1 DEF Memory
<1>10. CASE CloseFailsToFinish \/ StopRaisesToFinish
  <2>1. mem' = mem \/ mem' = [mem EXCEPT !.exit = "failed"]
    BY <1>10 DEF CloseFailsToFinish, StopRaisesToFinish, RelayExit
  <2> QED
    BY <2>1 DEF Memory
<1>13. CASE SaveWorkerFails \/ ReapFails
  BY <1>13 DEF SaveWorkerFails, ReapFails, Memory
<1>11. CASE mem' = mem
  BY <1>11
<1> QED
  BY <1>1, <1>2, <1>3, <1>4, <1>5, <1>6, <1>7, <1>8, <1>9, <1>10, <1>11, <1>12, <1>13
     DEF Next, Execute, Guard, Work, GuardianBreach, HeartbeatStale, PortConflict, vars,
         StartRefused, StartProxy, StartProxyFails, SaveServer, WaitReady, NotReady, Pause, TopFails,
         SaveWorker, ForwardPause, WorkerExited, CheckRaises, Reap, PausedBeforeCase,
         BatchRejected, RecordFailure, RecordFails, AllDone, AskToStop, LatchedAtTheEnd,
         RequestPause, GuardianServes, StopOrphanedProxy, KillProxy, Infer,
         CheckpointCase, Becomes

LEMMA StatesTyped ==
    Typed /\ [Next]_vars => st' \in SequenceState /\ disk' \in SequenceState
<1> SUFFICES ASSUME Typed, [Next]_vars
             PROVE  st' \in SequenceState /\ disk' \in SequenceState
  OBVIOUS
<1> USE SequenceConstants DEF Typed, TypeOK, Phase, Save
<1>1. CASE Prepare
  BY <1>1 DEF Prepare, NoState, SequenceState, Unclean
<1>2. CASE SaveServer \/ Pause
  BY <1>2 DEF SaveServer, Pause, SequenceState, Memory
<1>11. CASE SaveWorker \/ SaveWorkerFails
  BY <1>11 DEF SaveWorker, SaveWorkerFails, SequenceState, Memory
<1>12. CASE PausedBeforeCase
  BY <1>12 DEF PausedBeforeCase, SequenceState
<1>3. CASE StartBatch
  BY <1>3 DEF StartBatch, files, SequenceState
<1>4. CASE BatchRejected \/ CloseToFinish
  BY <1>4 DEF BatchRejected, CloseToFinish, files, SequenceState
<1>5. CASE BatchDone
  <2>1. mem.child \in Suites
    BY <1>5 DEF BatchDone, Engaged
  <2> QED
    BY <1>5, <2>1 DEF BatchDone, SequenceState
<1>6. CASE RecordFailure \/ RecordFails
  <2>1. Failure \in SequenceState
    BY DEF Failure, SequenceState
  <2>2. st' = Failure /\ disk' \in {disk, Failure}
    BY <1>6 DEF RecordFailure, RecordFails, files
  <2> QED
    BY <2>1, <2>2
<1>7. CASE Complete \/ Close \/ CloseFails
  BY <1>7 DEF Complete, Close, CloseFails, SequenceState
<1>8. CASE Kill \/ CloseRaises \/ NothingToClose
  BY <1>8 DEF Kill, CloseRaises, NothingToClose, files
<1>9. CASE Reboot
  BY <1>9 DEF Reboot, SequenceState
<1>10. CASE st' = st /\ disk' = disk
  BY <1>10
<1> QED
  BY <1>1, <1>2, <1>3, <1>4, <1>5, <1>6, <1>7, <1>8, <1>9, <1>10, <1>11, <1>12
     DEF Next, Execute, Guard, Work, GuardianBreach, HeartbeatStale, PortConflict, vars, files,
         Launch, Refuse, StartGuardian, CloseFailsToFinish, StopRaisesToFinish,
         StartRefused, StartProxy, StartProxyFails, WaitReady, NotReady, TopFails,
         ForwardPause, WorkerExited, CheckRaises, Reap, ReapTimesOut, ReapFails, AllDone, AskToStop, LatchedAtTheEnd,
         RequestPause, GuardianServes, GuardianStops, GuardianLatches, StopOrphanedProxy,
         KillRelay, KillProxy, KillWorker, Infer, WorkerRefuses, WorkerStarts, WorkerEnds,
         WorkerFails, CheckpointCase, WorkerUnchanged

LEMMA SuiteUpdate ==
    ASSUME NEW f \in SuiteFiles, NEW done \in Nat, NEW flag \in BOOLEAN, NEW owes \in BOOLEAN,
           NEW phase \in {"NONE", "RUNNING", "PAUSED", "COMPLETE", "FAILED"}
    PROVE  /\ [f EXCEPT !.phase = phase, !.owes = owes] \in SuiteFiles
           /\ [f EXCEPT !.done = done, !.report = flag] \in SuiteFiles
           /\ [f EXCEPT !.phase = phase, !.latch = flag] \in SuiteFiles
  BY DEF SuiteFiles

LEMMA OwesUpdate ==
    ASSUME NEW f \in SuiteFiles, NEW owes \in BOOLEAN
    PROVE  [f EXCEPT !.owes = owes] \in SuiteFiles
  BY DEF SuiteFiles

LEMMA SuitesTyped == Typed /\ [Next]_vars => suite' \in [Suites -> SuiteFiles]
<1> SUFFICES ASSUME Typed, [Next]_vars PROVE suite' \in [Suites -> SuiteFiles]
  OBVIOUS
<1> USE SequenceConstants DEF Typed, TypeOK
<1>1. ASSUME NEW w \in Workers,
             WorkerStarts(w) \/ CheckpointCase(w) \/ WorkerEnds(w) \/ WorkerFails(w)
      PROVE  suite' \in [Suites -> SuiteFiles]
  <2>1. PICK s \in Suites : s = worker[w].suite
    BY <1>1 DEF WorkerStarts, CheckpointCase, WorkerEnds, WorkerFails, Engaged, Live
  <2>2. CASE WorkerStarts(w)
    <3>1. PICK phase \in {"RUNNING", "PAUSED"}, owes \in BOOLEAN :
             suite' = [suite EXCEPT ![s] = [@ EXCEPT !.phase = phase, !.owes = owes]]
      BY <2>1, <2>2 DEF WorkerStarts
    <3> QED
      BY <2>1, <3>1, SuiteUpdate
  <2>3. CASE CheckpointCase(w)
    <3>1. suite[s].done \in Nat /\ Cases[s] \in Nat /\ suite[s].report \in BOOLEAN
      BY <2>1 DEF SuiteFiles
    <3> DEFINE done == IF suite[s].done < Cases[s] THEN suite[s].done + 1 ELSE Cases[s]
    <3>2. /\ suite' = [suite EXCEPT ![s] =
                [@ EXCEPT !.done = done, !.report = suite[s].report \/ done = Cases[s]]]
          /\ done \in Nat /\ (suite[s].report \/ done = Cases[s]) \in BOOLEAN
      BY <2>1, <2>3, <3>1 DEF CheckpointCase
    <3> QED
      BY <2>1, <3>2, SuiteUpdate
  <2>4. CASE WorkerEnds(w)
    <3>1. PICK phase \in {"COMPLETE", "PAUSED"} :
             suite' = [suite EXCEPT ![s] = [@ EXCEPT !.phase = phase, !.owes = FALSE]]
      BY <2>1, <2>4 DEF WorkerEnds
    <3> QED
      BY <2>1, <3>1, SuiteUpdate
  <2>5. CASE WorkerFails(w)
    <3>1. PICK latched \in BOOLEAN :
             suite' = [suite EXCEPT ![s] = [@ EXCEPT !.phase = "FAILED", !.latch = latched]]
      BY <2>1, <2>5 DEF WorkerFails
    <3> QED
      BY <2>1, <3>1, SuiteUpdate
  <2> QED
    BY <1>1, <2>2, <2>3, <2>4, <2>5
<1>2. CASE Reboot
  <2>1. \A s \in Suites : \E owes \in BOOLEAN : suite'[s] = [suite[s] EXCEPT !.owes = owes]
    BY <1>2 DEF Reboot
  <2>2. ASSUME NEW s \in Suites PROVE suite'[s] \in SuiteFiles
    <3>1. PICK owes \in BOOLEAN : suite'[s] = [suite[s] EXCEPT !.owes = owes]
      BY <2>1
    <3> QED
      BY <3>1, OwesUpdate
  <2>3. suite' = [s \in Suites |-> suite'[s]]
    BY <1>2 DEF Reboot
  <2> QED
    BY <2>2, <2>3
<1>3. CASE suite' = suite
  BY <1>3
<1> QED
  BY <1>1, <1>2, <1>3
     DEF Next, Execute, Guard, Work, GuardianBreach, HeartbeatStale, PortConflict, vars,
         StartProxyFails, SaveWorkerFails, ReapFails, RecordFails, StopRaisesToFinish, CloseRaises,
         Launch, Refuse, Prepare, StartGuardian, StartRefused, StartProxy, SaveServer, WaitReady, NotReady, Pause,
         TopFails, StartBatch, SaveWorker, ForwardPause, WorkerExited, CheckRaises, Reap, ReapTimesOut,
         PausedBeforeCase, BatchRejected, BatchDone, RecordFailure, AllDone, AskToStop,
         CloseToFinish, CloseFailsToFinish, Complete, LatchedAtTheEnd, Close, CloseFails, NothingToClose,
         RequestPause, Kill, GuardianServes, GuardianStops, GuardianLatches, StopOrphanedProxy,
         KillRelay, KillProxy, KillWorker, Infer, WorkerRefuses, WorkerUnchanged

LEMMA WorkersTyped == Typed /\ [Next]_vars => worker' \in [Workers -> Worker]
<1> SUFFICES ASSUME Typed, [Next]_vars PROVE worker' \in [Workers -> Worker]
  OBVIOUS
<1> USE SequenceConstants DEF Typed, TypeOK
<1>0. Gone \in Worker
  BY DEF Gone, Worker
<1>1. CASE StartBatch
  <2>1. NextChild \in Suites
    BY <1>1 DEF StartBatch, NextChild, InOrder, Pending
  <2>2. WrapperPilot \in BOOLEAN
    BY DEF WrapperPilot, Memory
  <2>3. [stage |-> "new", suite |-> NextChild, pilot |-> WrapperPilot] \in Worker
    BY <2>1, <2>2 DEF Worker
  <2>4. PICK w \in Workers : worker' = [worker EXCEPT ![w] =
                    [stage |-> "new", suite |-> NextChild, pilot |-> WrapperPilot]]
    BY <1>1 DEF StartBatch, FreeWorkers
  <2> QED
    BY <2>3, <2>4
<1>2. ASSUME NEW w \in Workers,
             \/ WorkerRefuses(w) \/ WorkerEnds(w) \/ WorkerFails(w) \/ KillWorker(w)
      PROVE  worker' \in [Workers -> Worker]
  BY <1>0, <1>2 DEF WorkerRefuses, WorkerEnds, WorkerFails, KillWorker, Exits
<1>3. ASSUME NEW w \in Workers, WorkerStarts(w) \/ Infer(w) \/ CheckpointCase(w)
      PROVE  worker' \in [Workers -> Worker]
  BY <1>0, <1>3 DEF WorkerStarts, Infer, CheckpointCase, Exits, Becomes, Worker
<1>4. CASE ReapTimesOut
  BY <1>0, <1>4 DEF ReapTimesOut, Exits
<1>5. CASE Reboot
  BY <1>0, <1>5 DEF Reboot
<1>6. CASE worker' = worker
  BY <1>6
<1> QED
  BY <1>1, <1>2, <1>3, <1>4, <1>5, <1>6
     DEF Next, Execute, Guard, Work, GuardianBreach, HeartbeatStale, PortConflict, vars,
         StartProxyFails, SaveWorkerFails, ReapFails, RecordFails, StopRaisesToFinish, CloseRaises,
         Launch, Refuse, Prepare, StartGuardian, StartRefused, StartProxy, SaveServer, WaitReady, NotReady, Pause,
         TopFails, SaveWorker, ForwardPause, WorkerExited, CheckRaises, Reap,
         PausedBeforeCase, BatchRejected, BatchDone, RecordFailure, AllDone, AskToStop,
         CloseToFinish, CloseFailsToFinish, Complete, LatchedAtTheEnd, Close, CloseFails, NothingToClose,
         RequestPause, Kill, GuardianServes, GuardianStops, GuardianLatches, StopOrphanedProxy,
         KillRelay, KillProxy

LEMMA ServersTyped == Typed /\ [Next]_vars => server' \in [Servers -> Server]
<1> SUFFICES ASSUME Typed, [Next]_vars PROVE server' \in [Servers -> Server]
  OBVIOUS
<1> USE DEF Typed, TypeOK
<1>1. CASE StartGuardian
  BY <1>1 DEF StartGuardian, Server
<1>2. CASE StartProxy
  BY <1>2 DEF StartProxy, Server
<1>3. CASE CloseToFinish \/ CloseFailsToFinish \/ Close \/ CloseFails
  <2>1. server' = [g \in Servers |-> IF g = mem.server
                      THEN [Closed EXCEPT !.native = server[g].native] ELSE server[g]]
    BY <1>3 DEF CloseToFinish, CloseFailsToFinish, Close, CloseFails, Dismiss
  <2>2. \A g \in Servers : [Closed EXCEPT !.native = server[g].native] \in Server
    BY DEF Closed, Server
  <2> QED
    BY <2>1, <2>2
<1>4. ASSUME NEW g \in Servers,
             \/ GuardianServes(g) \/ GuardianStops(g) \/ GuardianLatches(g)
             \/ StopOrphanedProxy(g) \/ KillRelay(g) \/ KillProxy(g)
      PROVE  server' \in [Servers -> Server]
  <2>1. CASE GuardianStops(g) \/ GuardianLatches(g)
    BY <2>1 DEF GuardianStops, GuardianLatches, GuardianEnds, Server
  <2>2. CASE GuardianServes(g)
    BY <2>2 DEF GuardianServes, Server
  <2>3. CASE StopOrphanedProxy(g) \/ KillProxy(g)
    BY <2>3 DEF StopOrphanedProxy, KillProxy, Server
  <2>4. CASE KillRelay(g)
    BY <2>4 DEF KillRelay, Server
  <2> QED
    BY <1>4, <2>1, <2>2, <2>3, <2>4
<1>5. CASE Reboot
  <2>1. PICK windows \in BOOLEAN : server' = [g \in Servers |->
           [Closed EXCEPT !.native = IF windows THEN "none" ELSE server[g].native]]
    BY <1>5 DEF Reboot
  <2>2. \A g \in Servers : server[g].native \in {"none", "starting", "serving"}
    BY DEF Server
  <2>3. \A g \in Servers :
           [Closed EXCEPT !.native = IF windows THEN "none" ELSE server[g].native] \in Server
    BY <2>2 DEF Closed, Server
  <2> QED
    BY <2>1, <2>3
<1>7. CASE StopRaisesToFinish \/ CloseRaises
  <2>1. mem.server \in Servers /\ \E relay, proxy \in BOOLEAN :
           server' = [server EXCEPT ![mem.server] =
               [relay |-> relay, proxy |-> proxy, native |-> server[mem.server].native]]
    BY <1>7 DEF StopRaisesToFinish, CloseRaises, StopRaises
  <2> QED
    BY <2>1 DEF Server
<1>6. CASE server' = server
  BY <1>6
<1> QED
  BY <1>1, <1>2, <1>3, <1>4, <1>5, <1>6, <1>7
     DEF Next, Execute, Guard, Work, GuardianBreach, HeartbeatStale, PortConflict, vars,
         StartProxyFails, SaveWorkerFails, ReapFails, RecordFails,
         Launch, Refuse, Prepare, StartRefused, SaveServer, WaitReady, NotReady, Pause,
         TopFails, StartBatch, SaveWorker, ForwardPause, WorkerExited, CheckRaises, Reap, ReapTimesOut,
         PausedBeforeCase, BatchRejected, BatchDone, RecordFailure, AllDone, AskToStop,
         Complete, LatchedAtTheEnd, NothingToClose,
         RequestPause, Kill, KillWorker, Infer, WorkerRefuses, WorkerStarts, CheckpointCase,
         WorkerEnds, WorkerFails, WorkerUnchanged

\* The variables that are no records.
PlainTyped ==
    /\ pc \in Pc
    /\ latch \in {"none", "verified", "unverified"}
    /\ cleanup \in BOOLEAN /\ stop \in BOOLEAN /\ pause \in BOOLEAN
    /\ told \in SUBSET Suites
    /\ faults \in 0..MaxFaults
    /\ dirty \in BOOLEAN
    /\ lost \in SUBSET (Servers \cup Workers)
    /\ author \in Servers \cup {None}

LEMMA UnsavedTyped == mem \in Memory => Unsaved \subseteq Servers \cup Workers
  BY DEF Memory, Unsaved

LEMMA PlainStep == PlainTyped /\ Engaged /\ mem \in Memory /\ [Next]_vars => PlainTyped'
<1> SUFFICES ASSUME PlainTyped /\ Engaged, mem \in Memory, [Next]_vars PROVE PlainTyped'
  OBVIOUS
<1> USE SequenceConstants DEF PlainTyped, Engaged, Pc, Goto, Leave, Fault, files, history, InRun
<1>1. CASE Launch
  BY <1>1 DEF Launch
<1>2. CASE Refuse
  BY <1>2 DEF Refuse, Refusal
<1>3. CASE Prepare
  BY <1>3 DEF Prepare, Refusal
<1>4. CASE StartRefused
  BY <1>4 DEF StartRefused
<1>5. CASE StartGuardian
  BY <1>5 DEF StartGuardian, FreeServers
<1>6. CASE StartProxy
  BY <1>6 DEF StartProxy
<1>7. CASE SaveServer
  BY <1>7 DEF SaveServer
<1>8. CASE WaitReady
  BY <1>8 DEF WaitReady
<1>9. CASE NotReady
  BY <1>9 DEF NotReady
<1>10. CASE Pause
  BY <1>10 DEF Pause
<1>11. CASE TopFails
  BY <1>11 DEF TopFails
<1>12. CASE StartBatch
  BY <1>12 DEF StartBatch, FreeWorkers
<1>13. CASE SaveWorker
  BY <1>13 DEF SaveWorker
<1>14. CASE ForwardPause
  BY <1>14 DEF ForwardPause
<1>15. CASE WorkerExited
  BY <1>15 DEF WorkerExited
<1>16. CASE CheckRaises
  BY <1>16 DEF CheckRaises
<1>17. CASE Reap
  BY <1>17 DEF Reap
<1>18. CASE ReapTimesOut
  BY <1>18 DEF ReapTimesOut, Exits
<1>19. CASE PausedBeforeCase
  BY <1>19 DEF PausedBeforeCase
<1>20. CASE BatchRejected
  BY <1>20 DEF BatchRejected
<1>21. CASE BatchDone
  BY <1>21 DEF BatchDone
<1>22. CASE RecordFailure
  BY <1>22 DEF RecordFailure, Failure
<1>23. CASE AllDone
  BY <1>23 DEF AllDone
<1>24. CASE AskToStop
  BY <1>24 DEF AskToStop
<1>25. CASE CloseToFinish
  BY <1>25 DEF CloseToFinish, Dismiss
<1>26. CASE CloseFailsToFinish
  BY <1>26 DEF CloseFailsToFinish, Dismiss, RelayExit, CloseGivesUp
<1>27. CASE Complete
  BY <1>27 DEF Complete
<1>28. CASE LatchedAtTheEnd
  BY <1>28 DEF LatchedAtTheEnd
<1>29. CASE Close
  BY <1>29 DEF Close, Dismiss, Verified
<1>30. CASE CloseFails
  BY <1>30 DEF CloseFails, Dismiss, CloseGivesUp
<1>31. CASE NothingToClose
  BY <1>31 DEF NothingToClose
<1>32. CASE RequestPause
  BY <1>32 DEF RequestPause
<1>33. CASE Kill
  BY <1>33, UnsavedTyped DEF Kill, Unwatched
<1>34. CASE Reboot
  BY <1>34 DEF Reboot
<1>35. ASSUME NEW g \in Servers, GuardianServes(g) PROVE PlainTyped'
  BY <1>35 DEF GuardianServes
<1>36. ASSUME NEW g \in Servers, GuardianStops(g) PROVE PlainTyped'
  BY <1>36 DEF GuardianStops, GuardianEnds, RelayExit
<1>37. ASSUME NEW g \in Servers, GuardianLatches(g) PROVE PlainTyped'
  BY <1>37 DEF GuardianLatches, GuardianEnds, RelayExit
<1>38. ASSUME NEW g \in Servers, StopOrphanedProxy(g) PROVE PlainTyped'
  BY <1>38 DEF StopOrphanedProxy
<1>39. ASSUME NEW g \in Servers, KillRelay(g) PROVE PlainTyped'
  BY <1>39 DEF KillRelay, RelayExit
<1>40. ASSUME NEW g \in Servers, KillProxy(g) PROVE PlainTyped'
  BY <1>40 DEF KillProxy
<1>41. ASSUME NEW w \in Workers, WorkerRefuses(w) PROVE PlainTyped'
  BY <1>41 DEF WorkerRefuses, Exits, WorkerUnchanged
<1>42. ASSUME NEW w \in Workers, WorkerStarts(w) PROVE PlainTyped'
  BY <1>42 DEF WorkerStarts, Exits, WorkerUnchanged, Becomes
<1>43. ASSUME NEW w \in Workers, Infer(w) PROVE PlainTyped'
  BY <1>43 DEF Infer, WorkerUnchanged, Becomes
<1>44. ASSUME NEW w \in Workers, CheckpointCase(w) PROVE PlainTyped'
  BY <1>44 DEF CheckpointCase, WorkerUnchanged, Becomes
<1>45. ASSUME NEW w \in Workers, WorkerEnds(w) PROVE PlainTyped'
  BY <1>45 DEF WorkerEnds, Exits, WorkerUnchanged
<1>46. ASSUME NEW w \in Workers, WorkerFails(w) PROVE PlainTyped'
  BY <1>46 DEF WorkerFails, Exits, WorkerUnchanged
<1>47. ASSUME NEW w \in Workers, KillWorker(w) PROVE PlainTyped'
  BY <1>47 DEF KillWorker, Exits
<1>48. CASE StartProxyFails
  BY <1>48 DEF StartProxyFails
<1>49. CASE SaveWorkerFails
  BY <1>49 DEF SaveWorkerFails
<1>50. CASE ReapFails
  BY <1>50 DEF ReapFails
<1>51. CASE RecordFails
  BY <1>51 DEF RecordFails, Failure
<1>52. CASE StopRaisesToFinish
  BY <1>52 DEF StopRaisesToFinish, StopRaises, RelayExit
<1>53. CASE CloseRaises
  BY <1>53, UnsavedTyped DEF CloseRaises, StopRaises, Unwatched
<1>54. CASE UNCHANGED vars
  BY <1>54 DEF vars
<1> QED
  BY <1>1, <1>2, <1>3, <1>4, <1>5, <1>6, <1>7, <1>8, <1>9, <1>10, <1>11, <1>12,
     <1>13, <1>14, <1>15, <1>16, <1>17, <1>18, <1>19, <1>20, <1>21, <1>22,
     <1>23, <1>24, <1>25, <1>26, <1>27, <1>28, <1>29, <1>30, <1>31, <1>32,
     <1>33, <1>34, <1>35, <1>36, <1>37, <1>38, <1>39, <1>40, <1>41, <1>42,
     <1>43, <1>44, <1>45, <1>46, <1>47, <1>48, <1>49, <1>50, <1>51, <1>52,
     <1>53, <1>54
     DEF Next, Execute, Guard, Work, GuardianBreach, HeartbeatStale, PortConflict

LEMMA TypeStep == Typed /\ [Next]_vars => TypeOK'
<1> SUFFICES ASSUME Typed, [Next]_vars PROVE TypeOK'
  OBVIOUS
<1>1. PlainTyped /\ Engaged /\ mem \in Memory
  BY DEF Typed, TypeOK, PlainTyped
<1> QED
  BY <1>1, MemoryTyped, StatesTyped, SuitesTyped, WorkersTyped, ServersTyped, PlainStep
     DEF TypeOK, PlainTyped

LEMMA EngagedStep == Typed /\ [Next]_vars => Engaged'
<1> SUFFICES ASSUME Typed, [Next]_vars PROVE Engaged'
  OBVIOUS
<1> USE SequenceConstants DEF Typed, TypeOK, Engaged, InRun, Live, Memory, Worker, NoMemory, Gone, Goto, Save, Leave, Fault, files, history
<1>1. CASE Launch
  BY <1>1 DEF Launch
<1>2. CASE Refuse
  BY <1>2 DEF Refuse, Refusal
<1>3. CASE Prepare
  BY <1>3 DEF Prepare, Refusal
<1>4. CASE StartRefused
  BY <1>4 DEF StartRefused
<1>5. CASE StartGuardian
  <2>1. PICK g \in Servers : mem' = [mem EXCEPT !.server = g] /\ pc' = "guard"
           /\ pc = "prepared" /\ worker' = worker
    BY <1>5 DEF StartGuardian, FreeServers
  <2> QED
    BY <2>1
<1>6. CASE StartProxy
  BY <1>6 DEF StartProxy
<1>7. CASE SaveServer
  BY <1>7 DEF SaveServer
<1>8. CASE WaitReady
  BY <1>8 DEF WaitReady
<1>9. CASE NotReady
  BY <1>9 DEF NotReady
<1>10. CASE Pause
  BY <1>10 DEF Pause
<1>11. CASE TopFails
  BY <1>11 DEF TopFails
<1>12. CASE StartBatch
  <2>1. PICK w \in Workers :
           /\ mem' = [mem EXCEPT !.child = NextChild, !.worker = w, !.before = suite[NextChild].done]
           /\ worker' = [worker EXCEPT ![w] = [stage |-> "new", suite |-> NextChild,
                                               pilot |-> WrapperPilot]]
           /\ pc' = "spawned" /\ pc = "top"
    BY <1>12 DEF StartBatch, FreeWorkers
  <2>2. NextChild \in Suites
    BY <1>12 DEF StartBatch, NextChild, InOrder, Pending
  <2> HIDE DEF NextChild
  <2> QED
    BY <2>1, <2>2
<1>13. CASE SaveWorker
  BY <1>13 DEF SaveWorker
<1>14. CASE ForwardPause
  BY <1>14 DEF ForwardPause
<1>15. CASE WorkerExited
  BY <1>15 DEF WorkerExited
<1>16. CASE CheckRaises
  BY <1>16 DEF CheckRaises
<1>17. CASE Reap
  BY <1>17 DEF Reap
<1>18. CASE ReapTimesOut
  BY <1>18 DEF ReapTimesOut, Exits
<1>19. CASE PausedBeforeCase
  BY <1>19 DEF PausedBeforeCase
<1>20. CASE BatchRejected
  BY <1>20 DEF BatchRejected
<1>21. CASE BatchDone
  BY <1>21 DEF BatchDone
<1>22. CASE RecordFailure
  BY <1>22 DEF RecordFailure, Failure
<1>23. CASE AllDone
  BY <1>23 DEF AllDone
<1>24. CASE AskToStop
  BY <1>24 DEF AskToStop
<1>25. CASE CloseToFinish
  BY <1>25 DEF CloseToFinish, Dismiss
<1>26. CASE CloseFailsToFinish
  BY <1>26 DEF CloseFailsToFinish, Dismiss, RelayExit, CloseGivesUp
<1>27. CASE Complete
  BY <1>27 DEF Complete
<1>28. CASE LatchedAtTheEnd
  BY <1>28 DEF LatchedAtTheEnd
<1>29. CASE Close
  BY <1>29 DEF Close, Dismiss, Verified
<1>30. CASE CloseFails
  BY <1>30 DEF CloseFails, Dismiss, CloseGivesUp
<1>31. CASE NothingToClose
  BY <1>31 DEF NothingToClose
<1>32. CASE RequestPause
  BY <1>32 DEF RequestPause
<1>33. CASE Kill
  BY <1>33 DEF Kill, Unwatched, Unsaved
<1>34. CASE Reboot
  BY <1>34 DEF Reboot
<1>35. ASSUME NEW g \in Servers, GuardianServes(g) PROVE Engaged'
  BY <1>35 DEF GuardianServes
<1>36. ASSUME NEW g \in Servers, GuardianStops(g) PROVE Engaged'
  BY <1>36 DEF GuardianStops, GuardianEnds, RelayExit
<1>37. ASSUME NEW g \in Servers, GuardianLatches(g) PROVE Engaged'
  BY <1>37 DEF GuardianLatches, GuardianEnds, RelayExit
<1>38. ASSUME NEW g \in Servers, StopOrphanedProxy(g) PROVE Engaged'
  BY <1>38 DEF StopOrphanedProxy
<1>39. ASSUME NEW g \in Servers, KillRelay(g) PROVE Engaged'
  BY <1>39 DEF KillRelay, RelayExit
<1>40. ASSUME NEW g \in Servers, KillProxy(g) PROVE Engaged'
  BY <1>40 DEF KillProxy
<1>41. ASSUME NEW w \in Workers, WorkerRefuses(w) PROVE Engaged'
  BY <1>41 DEF WorkerRefuses, Exits, WorkerUnchanged
<1>42. ASSUME NEW w \in Workers, WorkerStarts(w) PROVE Engaged'
  BY <1>42 DEF WorkerStarts, Exits, WorkerUnchanged, Becomes
<1>43. ASSUME NEW w \in Workers, Infer(w) PROVE Engaged'
  BY <1>43 DEF Infer, WorkerUnchanged, Becomes
<1>44. ASSUME NEW w \in Workers, CheckpointCase(w) PROVE Engaged'
  BY <1>44 DEF CheckpointCase, WorkerUnchanged, Becomes
<1>45. ASSUME NEW w \in Workers, WorkerEnds(w) PROVE Engaged'
  BY <1>45 DEF WorkerEnds, Exits, WorkerUnchanged
<1>46. ASSUME NEW w \in Workers, WorkerFails(w) PROVE Engaged'
  BY <1>46 DEF WorkerFails, Exits, WorkerUnchanged
<1>47. ASSUME NEW w \in Workers, KillWorker(w) PROVE Engaged'
  BY <1>47 DEF KillWorker, Exits
<1>48. CASE StartProxyFails
  BY <1>48 DEF StartProxyFails
<1>49. CASE SaveWorkerFails
  BY <1>49 DEF SaveWorkerFails
<1>50. CASE ReapFails
  BY <1>50 DEF ReapFails
<1>51. CASE RecordFails
  BY <1>51 DEF RecordFails, Failure
<1>52. CASE StopRaisesToFinish
  BY <1>52 DEF StopRaisesToFinish, StopRaises, RelayExit
<1>53. CASE CloseRaises
  BY <1>53 DEF CloseRaises, StopRaises, Unsaved, Unwatched
<1>54. CASE UNCHANGED vars
  BY <1>54 DEF vars
<1> QED
  BY <1>1, <1>2, <1>3, <1>4, <1>5, <1>6, <1>7, <1>8, <1>9, <1>10, <1>11, <1>12,
     <1>13, <1>14, <1>15, <1>16, <1>17, <1>18, <1>19, <1>20, <1>21, <1>22,
     <1>23, <1>24, <1>25, <1>26, <1>27, <1>28, <1>29, <1>30, <1>31, <1>32,
     <1>33, <1>34, <1>35, <1>36, <1>37, <1>38, <1>39, <1>40, <1>41, <1>42,
     <1>43, <1>44, <1>45, <1>46, <1>47, <1>48, <1>49, <1>50, <1>51, <1>52,
     <1>53, <1>54
     DEF Next, Execute, Guard, Work, GuardianBreach, HeartbeatStale, PortConflict

LEMMA RecordingStep == Typed /\ Recording /\ [Next]_vars => Recording'
<1> SUFFICES ASSUME Typed /\ Recording, [Next]_vars PROVE Recording'
  OBVIOUS
<1> USE SequenceConstants DEF Typed, TypeOK, Engaged, InRun, Live, Up, Memory, SequenceState, Worker, Server, NoMemory, NoState, Gone, Closed, Goto, Save, Leave, Fault, files, history, Recording, Underway
<1>1. CASE Launch
  BY <1>1 DEF Launch, Latched
<1>2. CASE Refuse
  BY <1>2 DEF Refuse
<1>3. CASE Prepare
  BY <1>3 DEF Prepare, Refusal, Latched
<1>4. CASE StartRefused
  BY <1>4 DEF StartRefused
<1>5. CASE StartGuardian
  BY <1>5 DEF StartGuardian, FreeServers
<1>6. CASE StartProxy
  BY <1>6 DEF StartProxy
<1>7. CASE SaveServer
  BY <1>7 DEF SaveServer
<1>8. CASE WaitReady
  BY <1>8 DEF WaitReady
<1>9. CASE NotReady
  BY <1>9 DEF NotReady
<1>10. CASE Pause
  BY <1>10 DEF Pause
<1>11. CASE TopFails
  BY <1>11 DEF TopFails
<1>12. CASE StartBatch
  BY <1>12 DEF StartBatch, FreeWorkers
<1>13. CASE SaveWorker
  BY <1>13 DEF SaveWorker
<1>14. CASE ForwardPause
  BY <1>14 DEF ForwardPause
<1>15. CASE WorkerExited
  BY <1>15 DEF WorkerExited
<1>16. CASE CheckRaises
  BY <1>16 DEF CheckRaises
<1>17. CASE Reap
  BY <1>17 DEF Reap
<1>18. CASE ReapTimesOut
  BY <1>18 DEF ReapTimesOut, Exits
<1>19. CASE PausedBeforeCase
  BY <1>19 DEF PausedBeforeCase
<1>20. CASE BatchRejected
  BY <1>20 DEF BatchRejected
<1>21. CASE BatchDone
  BY <1>21 DEF BatchDone
<1>22. CASE RecordFailure
  BY <1>22 DEF RecordFailure, Failure
<1>23. CASE AllDone
  BY <1>23 DEF AllDone
<1>24. CASE AskToStop
  BY <1>24 DEF AskToStop
<1>25. CASE CloseToFinish
  BY <1>25 DEF CloseToFinish, Dismiss
<1>26. CASE CloseFailsToFinish
  BY <1>26 DEF CloseFailsToFinish, Dismiss, RelayExit, CloseGivesUp
<1>27. CASE Complete
  BY <1>27 DEF Complete
<1>28. CASE LatchedAtTheEnd
  BY <1>28 DEF LatchedAtTheEnd
<1>29. CASE Close
  BY <1>29 DEF Close, Dismiss, Verified
<1>30. CASE CloseFails
  BY <1>30 DEF CloseFails, Dismiss, CloseGivesUp
<1>31. CASE NothingToClose
  BY <1>31 DEF NothingToClose
<1>32. CASE RequestPause
  BY <1>32 DEF RequestPause
<1>33. CASE Kill
  BY <1>33 DEF Kill, Unwatched, Unsaved
<1>34. CASE Reboot
  <2>1. \A w \in Workers : ~Live(w)'
    BY <1>34 DEF Reboot
  <2>2. \A g \in Servers : ~Up(g)'
    <3>1. PICK windows \in BOOLEAN : server' = [g \in Servers |->
             [Closed EXCEPT !.native = IF windows THEN "none" ELSE server[g].native]]
      BY <1>34 DEF Reboot
    <3> QED
      BY <3>1
  <2>3. pc' = "off" /\ cleanup' = cleanup /\ mem' = NoMemory /\ disk'.phase = disk.phase
    BY <1>34 DEF Reboot
  <2> QED
    BY <2>1, <2>2, <2>3
<1>35. ASSUME NEW g \in Servers, GuardianServes(g) PROVE Recording'
  BY <1>35 DEF GuardianServes
<1>36. ASSUME NEW g \in Servers, GuardianStops(g) PROVE Recording'
  BY <1>36 DEF GuardianStops, GuardianEnds, RelayExit
<1>37. ASSUME NEW g \in Servers, GuardianLatches(g) PROVE Recording'
  BY <1>37 DEF GuardianLatches, GuardianEnds, RelayExit
<1>38. ASSUME NEW g \in Servers, StopOrphanedProxy(g) PROVE Recording'
  BY <1>38 DEF StopOrphanedProxy
<1>39. ASSUME NEW g \in Servers, KillRelay(g) PROVE Recording'
  BY <1>39 DEF KillRelay, RelayExit
<1>40. ASSUME NEW g \in Servers, KillProxy(g) PROVE Recording'
  BY <1>40 DEF KillProxy
<1>41. ASSUME NEW w \in Workers, WorkerRefuses(w) PROVE Recording'
  BY <1>41 DEF WorkerRefuses, Exits, WorkerUnchanged
<1>42. ASSUME NEW w \in Workers, WorkerStarts(w) PROVE Recording'
  BY <1>42 DEF WorkerStarts, Exits, WorkerUnchanged, Becomes
<1>43. ASSUME NEW w \in Workers, Infer(w) PROVE Recording'
  BY <1>43 DEF Infer, WorkerUnchanged, Becomes
<1>44. ASSUME NEW w \in Workers, CheckpointCase(w) PROVE Recording'
  BY <1>44 DEF CheckpointCase, WorkerUnchanged, Becomes
<1>45. ASSUME NEW w \in Workers, WorkerEnds(w) PROVE Recording'
  BY <1>45 DEF WorkerEnds, Exits, WorkerUnchanged
<1>46. ASSUME NEW w \in Workers, WorkerFails(w) PROVE Recording'
  BY <1>46 DEF WorkerFails, Exits, WorkerUnchanged
<1>47. ASSUME NEW w \in Workers, KillWorker(w) PROVE Recording'
  BY <1>47 DEF KillWorker, Exits
<1>48. CASE StartProxyFails
  BY <1>48 DEF StartProxyFails
<1>49. CASE SaveWorkerFails
  BY <1>49 DEF SaveWorkerFails
<1>50. CASE ReapFails
  BY <1>50 DEF ReapFails
<1>51. CASE RecordFails
  BY <1>51 DEF RecordFails, Failure
<1>52. CASE StopRaisesToFinish
  BY <1>52 DEF StopRaisesToFinish, StopRaises, RelayExit
<1>53. CASE CloseRaises
  BY <1>53 DEF CloseRaises, StopRaises, Unsaved, Unwatched
<1>54. CASE UNCHANGED vars
  BY <1>54 DEF vars
<1> QED
  BY <1>1, <1>2, <1>3, <1>4, <1>5, <1>6, <1>7, <1>8, <1>9, <1>10, <1>11, <1>12,
     <1>13, <1>14, <1>15, <1>16, <1>17, <1>18, <1>19, <1>20, <1>21, <1>22,
     <1>23, <1>24, <1>25, <1>26, <1>27, <1>28, <1>29, <1>30, <1>31, <1>32,
     <1>33, <1>34, <1>35, <1>36, <1>37, <1>38, <1>39, <1>40, <1>41, <1>42,
     <1>43, <1>44, <1>45, <1>46, <1>47, <1>48, <1>49, <1>50, <1>51, <1>52,
     <1>53, <1>54
     DEF Next, Execute, Guard, Work, GuardianBreach, HeartbeatStale, PortConflict

LEMMA KnownStep == Typed /\ Recording /\ Known /\ [Next]_vars => Known'
<1> SUFFICES ASSUME Typed /\ Recording /\ Known, [Next]_vars PROVE Known'
  OBVIOUS
<1> USE SequenceConstants DEF Typed, TypeOK, Engaged, InRun, Live, Up, Memory, SequenceState, Worker, Server, NoMemory, NoState, Gone, Closed, Goto, Save, Leave, Fault, files, history, Recording, Underway, Known, LeftAlive
<1>1. CASE Launch
  BY <1>1 DEF Launch
<1>2. CASE Refuse
  BY <1>2 DEF Refuse
<1>3. CASE Prepare
  BY <1>3 DEF Prepare, Refusal, Recorded
<1>4. CASE StartRefused
  BY <1>4 DEF StartRefused
<1>5. CASE StartGuardian
  <2>1. PICK g \in Servers :
           /\ server' = [server EXCEPT ![g] = [relay |-> TRUE, native |-> "starting",
                                               proxy |-> FALSE]]
           /\ mem' = [mem EXCEPT !.server = g] /\ lost' = lost \ {g}
    BY <1>5 DEF StartGuardian, FreeServers
  <2>2. pc = "prepared" /\ pc' = "guard" /\ worker' = worker
    BY <1>5 DEF StartGuardian
  <2>3. mem'.server = g /\ mem'.worker = mem.worker
    BY <2>1
  <2>4. \A h \in Servers : Up(h)' => h = g \/ Up(h)
    BY <2>1
  <2>5. lost \subseteq lost' \cup {g} /\ g \notin Workers /\ g # None
    BY <2>1
  <2> QED
    BY <2>2, <2>3, <2>4, <2>5
<1>6. CASE StartProxy
  BY <1>6 DEF StartProxy
<1>7. CASE SaveServer
  BY <1>7 DEF SaveServer
<1>8. CASE WaitReady
  BY <1>8 DEF WaitReady
<1>9. CASE NotReady
  BY <1>9 DEF NotReady
<1>10. CASE Pause
  BY <1>10 DEF Pause
<1>11. CASE TopFails
  BY <1>11 DEF TopFails
<1>12. CASE StartBatch
  <2>1. PICK w \in Workers :
           /\ worker' = [worker EXCEPT ![w] = [stage |-> "new", suite |-> NextChild,
                                               pilot |-> WrapperPilot]]
           /\ mem' = [mem EXCEPT !.child = NextChild, !.worker = w, !.before = suite[NextChild].done]
           /\ lost' = lost \ {w}
    BY <1>12 DEF StartBatch, FreeWorkers
  <2>2. pc = "top" /\ pc' = "spawned" /\ server' = server
    BY <1>12 DEF StartBatch
  <2>3. mem'.worker = w /\ mem'.server = mem.server
    BY <2>1
  <2>4. \A v \in Workers : Live(v)' => v = w \/ Live(v)
    BY <2>1
  <2>5. lost \subseteq lost' \cup {w} /\ w \notin Servers
    BY <2>1
  <2> QED
    BY <2>2, <2>3, <2>4, <2>5
<1>13. CASE SaveWorker
  BY <1>13 DEF SaveWorker
<1>14. CASE ForwardPause
  BY <1>14 DEF ForwardPause
<1>15. CASE WorkerExited
  BY <1>15 DEF WorkerExited
<1>16. CASE CheckRaises
  BY <1>16 DEF CheckRaises
<1>17. CASE Reap
  BY <1>17 DEF Reap
<1>18. CASE ReapTimesOut
  BY <1>18 DEF ReapTimesOut, Exits
<1>19. CASE PausedBeforeCase
  BY <1>19 DEF PausedBeforeCase
<1>20. CASE BatchRejected
  BY <1>20 DEF BatchRejected
<1>21. CASE BatchDone
  BY <1>21 DEF BatchDone
<1>22. CASE RecordFailure
  BY <1>22 DEF RecordFailure, Failure
<1>23. CASE AllDone
  BY <1>23 DEF AllDone
<1>24. CASE AskToStop
  BY <1>24 DEF AskToStop
<1>25. CASE CloseToFinish
  BY <1>25 DEF CloseToFinish, Dismiss
<1>26. CASE CloseFailsToFinish
  BY <1>26 DEF CloseFailsToFinish, Dismiss, RelayExit, CloseGivesUp
<1>27. CASE Complete
  BY <1>27 DEF Complete
<1>28. CASE LatchedAtTheEnd
  BY <1>28 DEF LatchedAtTheEnd
<1>29. CASE Close
  BY <1>29 DEF Close, Dismiss, Verified
<1>30. CASE CloseFails
  BY <1>30 DEF CloseFails, Dismiss, CloseGivesUp
<1>31. CASE NothingToClose
  BY <1>31 DEF NothingToClose
<1>32. CASE RequestPause
  BY <1>32 DEF RequestPause
<1>33. CASE Kill
  <2>1. /\ InRun \/ pc = "launched"
        /\ pc' = "off" /\ worker' = worker /\ server' = server /\ disk' = disk
        /\ mem'.worker = None /\ lost \cup Unsaved \subseteq lost'
    BY <1>33 DEF Kill
  <2>2. \A w \in Workers : Live(w) => w \in lost' \cup {disk.worker}
    BY <2>1 DEF Unsaved
  <2>3. \A g \in Servers : Up(g) => g \in lost' \cup {disk.server}
    BY <2>1 DEF Pc, Unsaved
  <2> QED
    BY <2>1, <2>2, <2>3
<1>34. CASE Reboot
  <2>1. PICK windows \in BOOLEAN :
           server' = [g \in Servers |->
               [Closed EXCEPT !.native = IF windows THEN "none" ELSE server[g].native]]
    BY <1>34 DEF Reboot
  <2>2. \A g \in Servers : ~Up(g)'
    BY <2>1
  <2>3. \A w \in Workers : ~Live(w)'
    BY <1>34 DEF Reboot
  <2>4. pc' = "off" /\ cleanup' = cleanup /\ mem' = NoMemory /\ disk'.phase = disk.phase
    BY <1>34 DEF Reboot
  <2> QED
    BY <2>2, <2>3, <2>4
<1>35. ASSUME NEW g \in Servers, GuardianServes(g) PROVE Known'
  BY <1>35 DEF GuardianServes
<1>36. ASSUME NEW g \in Servers, GuardianStops(g) PROVE Known'
  BY <1>36 DEF GuardianStops, GuardianEnds, RelayExit
<1>37. ASSUME NEW g \in Servers, GuardianLatches(g) PROVE Known'
  BY <1>37 DEF GuardianLatches, GuardianEnds, RelayExit
<1>38. ASSUME NEW g \in Servers, StopOrphanedProxy(g) PROVE Known'
  BY <1>38 DEF StopOrphanedProxy
<1>39. ASSUME NEW g \in Servers, KillRelay(g) PROVE Known'
  BY <1>39 DEF KillRelay, RelayExit
<1>40. ASSUME NEW g \in Servers, KillProxy(g) PROVE Known'
  BY <1>40 DEF KillProxy
<1>41. ASSUME NEW w \in Workers, WorkerRefuses(w) PROVE Known'
  BY <1>41 DEF WorkerRefuses, Exits, WorkerUnchanged
<1>42. ASSUME NEW w \in Workers, WorkerStarts(w) PROVE Known'
  <2>0. \A v \in Workers : v # w => worker'[v] = worker[v]
    BY <1>42 DEF WorkerStarts, Exits, Becomes
  <2>1. \A v \in Workers : Live(v)' => Live(v)
    BY <1>42, <2>0 DEF WorkerStarts
  <2>2. /\ mem'.worker = mem.worker /\ mem'.server = mem.server /\ lost' = lost
        /\ mem'.owner = mem.owner /\ mem'.abandoned = mem.abandoned
    BY <1>42 DEF WorkerStarts, Exits, Becomes
  <2>3. pc' = pc /\ st' = st /\ disk' = disk /\ server' = server
    BY <1>42 DEF WorkerStarts, WorkerUnchanged
  <2> QED
    BY <2>1, <2>2, <2>3
<1>43. ASSUME NEW w \in Workers, Infer(w) PROVE Known'
  BY <1>43 DEF Infer, WorkerUnchanged, Becomes
<1>44. ASSUME NEW w \in Workers, CheckpointCase(w) PROVE Known'
  BY <1>44 DEF CheckpointCase, WorkerUnchanged, Becomes
<1>45. ASSUME NEW w \in Workers, WorkerEnds(w) PROVE Known'
  BY <1>45 DEF WorkerEnds, Exits, WorkerUnchanged
<1>46. ASSUME NEW w \in Workers, WorkerFails(w) PROVE Known'
  BY <1>46 DEF WorkerFails, Exits, WorkerUnchanged
<1>47. ASSUME NEW w \in Workers, KillWorker(w) PROVE Known'
  BY <1>47 DEF KillWorker, Exits
<1>48. CASE StartProxyFails
  BY <1>48 DEF StartProxyFails
<1>49. CASE SaveWorkerFails
  BY <1>49 DEF SaveWorkerFails
<1>50. CASE ReapFails
  BY <1>50 DEF ReapFails
<1>51. CASE RecordFails
  BY <1>51 DEF RecordFails, Failure
<1>52. CASE StopRaisesToFinish
  BY <1>52 DEF StopRaisesToFinish, StopRaises, RelayExit
<1>53. CASE CloseRaises
  <2>1. /\ pc = "closing" /\ pc' = "off" /\ worker' = worker /\ disk' = disk
        /\ mem'.worker = None /\ lost \cup Unsaved \subseteq lost'
    BY <1>53 DEF CloseRaises
  <2>2. \A g \in Servers : Up(g)' => Up(g)
    BY <1>53 DEF CloseRaises, StopRaises
  <2>3. \A w \in Workers : Live(w) => w \in lost' \cup {disk.worker}
    BY <2>1 DEF Unsaved
  <2>4. \A g \in Servers : Up(g) => g \in lost' \cup {disk.server}
    BY <2>1 DEF Unsaved
  <2> QED
    BY <2>1, <2>2, <2>3, <2>4
<1>54. CASE UNCHANGED vars
  BY <1>54 DEF vars
<1> QED
  BY <1>1, <1>2, <1>3, <1>4, <1>5, <1>6, <1>7, <1>8, <1>9, <1>10, <1>11, <1>12,
     <1>13, <1>14, <1>15, <1>16, <1>17, <1>18, <1>19, <1>20, <1>21, <1>22,
     <1>23, <1>24, <1>25, <1>26, <1>27, <1>28, <1>29, <1>30, <1>31, <1>32,
     <1>33, <1>34, <1>35, <1>36, <1>37, <1>38, <1>39, <1>40, <1>41, <1>42,
     <1>43, <1>44, <1>45, <1>46, <1>47, <1>48, <1>49, <1>50, <1>51, <1>52,
     <1>53, <1>54
     DEF Next, Execute, Guard, Work, GuardianBreach, HeartbeatStale, PortConflict

LEMMA RecoveringStep == Typed /\ Recording /\ Recovering /\ [Next]_vars => Recovering'
<1> SUFFICES ASSUME Typed /\ Recording /\ Recovering, [Next]_vars PROVE Recovering'
  OBVIOUS
<1> USE SequenceConstants DEF Typed, TypeOK, Engaged, InRun, Memory, SequenceState, NoMemory, NoState, Goto, Save, Leave, Fault, files, history, Recording, Underway, Recovering, Unclean
<1>1. CASE Launch
  BY <1>1 DEF Launch
<1>2. CASE Refuse
  BY <1>2 DEF Refuse
<1>3. CASE Prepare
  BY <1>3 DEF Prepare, Refusal
<1>4. CASE StartRefused
  BY <1>4 DEF StartRefused
<1>5. CASE StartGuardian
  BY <1>5 DEF StartGuardian, FreeServers
<1>6. CASE StartProxy
  BY <1>6 DEF StartProxy
<1>7. CASE SaveServer
  BY <1>7 DEF SaveServer
<1>8. CASE WaitReady
  BY <1>8 DEF WaitReady
<1>9. CASE NotReady
  BY <1>9 DEF NotReady
<1>10. CASE Pause
  BY <1>10 DEF Pause
<1>11. CASE TopFails
  BY <1>11 DEF TopFails
<1>12. CASE StartBatch
  BY <1>12 DEF StartBatch, FreeWorkers
<1>13. CASE SaveWorker
  BY <1>13 DEF SaveWorker
<1>14. CASE ForwardPause
  BY <1>14 DEF ForwardPause
<1>15. CASE WorkerExited
  BY <1>15 DEF WorkerExited
<1>16. CASE CheckRaises
  BY <1>16 DEF CheckRaises
<1>17. CASE Reap
  BY <1>17 DEF Reap
<1>18. CASE ReapTimesOut
  BY <1>18 DEF ReapTimesOut, Exits
<1>19. CASE PausedBeforeCase
  BY <1>19 DEF PausedBeforeCase
<1>20. CASE BatchRejected
  BY <1>20 DEF BatchRejected
<1>21. CASE BatchDone
  BY <1>21 DEF BatchDone
<1>22. CASE RecordFailure
  BY <1>22 DEF RecordFailure, Failure
<1>23. CASE AllDone
  BY <1>23 DEF AllDone
<1>24. CASE AskToStop
  BY <1>24 DEF AskToStop
<1>25. CASE CloseToFinish
  BY <1>25 DEF CloseToFinish, Dismiss
<1>26. CASE CloseFailsToFinish
  BY <1>26 DEF CloseFailsToFinish, Dismiss, RelayExit, CloseGivesUp
<1>27. CASE Complete
  BY <1>27 DEF Complete
<1>28. CASE LatchedAtTheEnd
  BY <1>28 DEF LatchedAtTheEnd
<1>29. CASE Close
  BY <1>29 DEF Close
<1>30. CASE CloseFails
  BY <1>30 DEF CloseFails
<1>31. CASE NothingToClose
  BY <1>31 DEF NothingToClose
<1>32. CASE RequestPause
  BY <1>32 DEF RequestPause
<1>33. CASE Kill
  BY <1>33 DEF Kill, Unwatched, Unsaved
<1>34. CASE Reboot
  BY <1>34 DEF Reboot
<1>35. ASSUME NEW g \in Servers, GuardianServes(g) PROVE Recovering'
  BY <1>35 DEF GuardianServes
<1>36. ASSUME NEW g \in Servers, GuardianStops(g) PROVE Recovering'
  BY <1>36 DEF GuardianStops, GuardianEnds, RelayExit
<1>37. ASSUME NEW g \in Servers, GuardianLatches(g) PROVE Recovering'
  BY <1>37 DEF GuardianLatches, GuardianEnds, RelayExit
<1>38. ASSUME NEW g \in Servers, StopOrphanedProxy(g) PROVE Recovering'
  BY <1>38 DEF StopOrphanedProxy
<1>39. ASSUME NEW g \in Servers, KillRelay(g) PROVE Recovering'
  BY <1>39 DEF KillRelay, RelayExit
<1>40. ASSUME NEW g \in Servers, KillProxy(g) PROVE Recovering'
  BY <1>40 DEF KillProxy
<1>41. ASSUME NEW w \in Workers, WorkerRefuses(w) PROVE Recovering'
  BY <1>41 DEF WorkerRefuses, Exits, WorkerUnchanged
<1>42. ASSUME NEW w \in Workers, WorkerStarts(w) PROVE Recovering'
  BY <1>42 DEF WorkerStarts, Exits, WorkerUnchanged, Becomes
<1>43. ASSUME NEW w \in Workers, Infer(w) PROVE Recovering'
  BY <1>43 DEF Infer, WorkerUnchanged, Becomes
<1>44. ASSUME NEW w \in Workers, CheckpointCase(w) PROVE Recovering'
  BY <1>44 DEF CheckpointCase, WorkerUnchanged, Becomes
<1>45. ASSUME NEW w \in Workers, WorkerEnds(w) PROVE Recovering'
  BY <1>45 DEF WorkerEnds, Exits, WorkerUnchanged
<1>46. ASSUME NEW w \in Workers, WorkerFails(w) PROVE Recovering'
  BY <1>46 DEF WorkerFails, Exits, WorkerUnchanged
<1>47. ASSUME NEW w \in Workers, KillWorker(w) PROVE Recovering'
  BY <1>47 DEF KillWorker, Exits
<1>48. CASE StartProxyFails
  BY <1>48 DEF StartProxyFails
<1>49. CASE SaveWorkerFails
  BY <1>49 DEF SaveWorkerFails
<1>50. CASE ReapFails
  BY <1>50 DEF ReapFails
<1>51. CASE RecordFails
  BY <1>51 DEF RecordFails, Failure
<1>52. CASE StopRaisesToFinish
  BY <1>52 DEF StopRaisesToFinish, StopRaises, RelayExit
<1>53. CASE CloseRaises
  BY <1>53 DEF CloseRaises, StopRaises, Unsaved, Unwatched
<1>54. CASE UNCHANGED vars
  BY <1>54 DEF vars
<1> QED
  BY <1>1, <1>2, <1>3, <1>4, <1>5, <1>6, <1>7, <1>8, <1>9, <1>10, <1>11, <1>12,
     <1>13, <1>14, <1>15, <1>16, <1>17, <1>18, <1>19, <1>20, <1>21, <1>22,
     <1>23, <1>24, <1>25, <1>26, <1>27, <1>28, <1>29, <1>30, <1>31, <1>32,
     <1>33, <1>34, <1>35, <1>36, <1>37, <1>38, <1>39, <1>40, <1>41, <1>42,
     <1>43, <1>44, <1>45, <1>46, <1>47, <1>48, <1>49, <1>50, <1>51, <1>52,
     <1>53, <1>54
     DEF Next, Execute, Guard, Work, GuardianBreach, HeartbeatStale, PortConflict

LEMMA NativesStep == Typed /\ Recording /\ Known /\ Natives /\ [Next]_vars => Natives'
<1> SUFFICES ASSUME Typed /\ Recording /\ Known /\ Natives, [Next]_vars PROVE Natives'
  OBVIOUS
<1> USE SequenceConstants DEF Typed, TypeOK, Engaged, InRun, Live, Up, Memory, SequenceState, Worker, Server, NoMemory, NoState, Gone, Closed, Goto, Save, Leave, Fault, files, history, Recording, Known, Natives, Excused
<1>1. CASE Launch
  BY <1>1 DEF Launch, Latched
<1>2. CASE Refuse
  BY <1>2 DEF Refuse
<1>3. CASE Prepare
  BY <1>3 DEF Prepare, Refusal, Recorded, Latched
<1>4. CASE StartRefused
  BY <1>4 DEF StartRefused
<1>5. CASE StartGuardian
  BY <1>5 DEF StartGuardian, FreeServers
<1>6. CASE StartProxy
  BY <1>6 DEF StartProxy
<1>7. CASE SaveServer
  BY <1>7 DEF SaveServer
<1>8. CASE WaitReady
  BY <1>8 DEF WaitReady
<1>9. CASE NotReady
  BY <1>9 DEF NotReady
<1>10. CASE Pause
  BY <1>10 DEF Pause
<1>11. CASE TopFails
  BY <1>11 DEF TopFails
<1>12. CASE StartBatch
  <2>1. PICK w \in Workers :
           /\ mem' = [mem EXCEPT !.child = NextChild, !.worker = w, !.before = suite[NextChild].done]
           /\ lost' = lost \ {w}
    BY <1>12 DEF StartBatch, FreeWorkers
  <2>2. /\ pc = "top" /\ pc' = "spawned" /\ server' = server
        /\ latch' = latch /\ author' = author /\ cleanup' = cleanup
    BY <1>12 DEF StartBatch
  <2>3. mem'.server = mem.server /\ mem'.exit = mem.exit
    BY <2>1
  <2>4. \A g \in Servers : g \in lost <=> g \in lost'
    BY <2>1
  <2> QED
    BY <2>2, <2>3, <2>4
<1>13. CASE SaveWorker
  BY <1>13 DEF SaveWorker
<1>14. CASE ForwardPause
  BY <1>14 DEF ForwardPause
<1>15. CASE WorkerExited
  BY <1>15 DEF WorkerExited
<1>16. CASE CheckRaises
  BY <1>16 DEF CheckRaises
<1>17. CASE Reap
  BY <1>17 DEF Reap
<1>18. CASE ReapTimesOut
  BY <1>18 DEF ReapTimesOut, Exits
<1>19. CASE PausedBeforeCase
  BY <1>19 DEF PausedBeforeCase
<1>20. CASE BatchRejected
  BY <1>20 DEF BatchRejected
<1>21. CASE BatchDone
  BY <1>21 DEF BatchDone
<1>22. CASE RecordFailure
  BY <1>22 DEF RecordFailure, Failure
<1>23. CASE AllDone
  BY <1>23 DEF AllDone
<1>24. CASE AskToStop
  BY <1>24 DEF AskToStop
<1>25. CASE CloseToFinish
  <2>1. /\ pc = "finishing" /\ pc' = "finished" /\ Verified /\ Dismiss
        /\ mem' = [mem EXCEPT !.server = None, !.owner = FALSE, !.exit = "none"]
        /\ latch' = latch /\ author' = author /\ lost' = lost /\ cleanup' = cleanup
    BY <1>25 DEF CloseToFinish
  <2>2. mem'.server = None /\ mem'.exit = "none"
    BY <2>1
  <2>3. \A g \in Servers : server'[g].native = server[g].native
    BY <2>1 DEF Dismiss
  <2>4. ASSUME NEW g \in Servers, g = mem.server, server[g].native # "none"
        PROVE  Excused(g)
    BY <2>1, <2>4 DEF Verified
  <2> QED
    BY <2>1, <2>2, <2>3, <2>4
<1>26. CASE CloseFailsToFinish
  BY <1>26 DEF CloseFailsToFinish, Dismiss, RelayExit, CloseGivesUp
<1>27. CASE Complete
  BY <1>27 DEF Complete
<1>28. CASE LatchedAtTheEnd
  BY <1>28 DEF LatchedAtTheEnd
<1>29. CASE Close
  BY <1>29 DEF Close, Dismiss, Verified
<1>30. CASE CloseFails
  BY <1>30 DEF CloseFails, Dismiss, CloseGivesUp
<1>31. CASE NothingToClose
  BY <1>31 DEF NothingToClose
<1>32. CASE RequestPause
  BY <1>32 DEF RequestPause
<1>33. CASE Kill
  BY <1>33 DEF Kill, Unwatched, Unsaved
<1>34. CASE Reboot
  BY <1>34 DEF Reboot
<1>35. ASSUME NEW g \in Servers, GuardianServes(g) PROVE Natives'
  BY <1>35 DEF GuardianServes
<1>36. ASSUME NEW g \in Servers, GuardianStops(g) PROVE Natives'
  BY <1>36 DEF GuardianStops, GuardianEnds, RelayExit
<1>37. ASSUME NEW g \in Servers, GuardianLatches(g) PROVE Natives'
  BY <1>37 DEF GuardianLatches, GuardianEnds, RelayExit
<1>38. ASSUME NEW g \in Servers, StopOrphanedProxy(g) PROVE Natives'
  BY <1>38 DEF StopOrphanedProxy
<1>39. ASSUME NEW g \in Servers, KillRelay(g) PROVE Natives'
  BY <1>39 DEF KillRelay, RelayExit
<1>40. ASSUME NEW g \in Servers, KillProxy(g) PROVE Natives'
  BY <1>40 DEF KillProxy
<1>41. ASSUME NEW w \in Workers, WorkerRefuses(w) PROVE Natives'
  BY <1>41 DEF WorkerRefuses, Exits, WorkerUnchanged
<1>42. ASSUME NEW w \in Workers, WorkerStarts(w) PROVE Natives'
  BY <1>42 DEF WorkerStarts, Exits, WorkerUnchanged, Becomes
<1>43. ASSUME NEW w \in Workers, Infer(w) PROVE Natives'
  BY <1>43 DEF Infer, WorkerUnchanged, Becomes
<1>44. ASSUME NEW w \in Workers, CheckpointCase(w) PROVE Natives'
  BY <1>44 DEF CheckpointCase, WorkerUnchanged, Becomes
<1>45. ASSUME NEW w \in Workers, WorkerEnds(w) PROVE Natives'
  BY <1>45 DEF WorkerEnds, Exits, WorkerUnchanged
<1>46. ASSUME NEW w \in Workers, WorkerFails(w) PROVE Natives'
  BY <1>46 DEF WorkerFails, Exits, WorkerUnchanged
<1>47. ASSUME NEW w \in Workers, KillWorker(w) PROVE Natives'
  BY <1>47 DEF KillWorker, Exits
<1>48. CASE StartProxyFails
  BY <1>48 DEF StartProxyFails
<1>49. CASE SaveWorkerFails
  BY <1>49 DEF SaveWorkerFails
<1>50. CASE ReapFails
  BY <1>50 DEF ReapFails
<1>51. CASE RecordFails
  BY <1>51 DEF RecordFails, Failure
<1>52. CASE StopRaisesToFinish
  BY <1>52 DEF StopRaisesToFinish, StopRaises, RelayExit
<1>53. CASE CloseRaises
  BY <1>53 DEF CloseRaises, StopRaises, Unsaved, Unwatched
<1>54. CASE UNCHANGED vars
  BY <1>54 DEF vars
<1> QED
  BY <1>1, <1>2, <1>3, <1>4, <1>5, <1>6, <1>7, <1>8, <1>9, <1>10, <1>11, <1>12,
     <1>13, <1>14, <1>15, <1>16, <1>17, <1>18, <1>19, <1>20, <1>21, <1>22,
     <1>23, <1>24, <1>25, <1>26, <1>27, <1>28, <1>29, <1>30, <1>31, <1>32,
     <1>33, <1>34, <1>35, <1>36, <1>37, <1>38, <1>39, <1>40, <1>41, <1>42,
     <1>43, <1>44, <1>45, <1>46, <1>47, <1>48, <1>49, <1>50, <1>51, <1>52,
     <1>53, <1>54
     DEF Next, Execute, Guard, Work, GuardianBreach, HeartbeatStale, PortConflict

-----------------------------------------------------------------------------
(* The invariant *)

LEMMA Initially == Init => SequenceInv
<1> SUFFICES ASSUME Init PROVE SequenceInv
  OBVIOUS
<1> USE SequenceConstants DEF Init, NoState, NoMemory
<1>1. TypeOK
  <2>1. mem \in Memory /\ pc \in Pc
    BY DEF Memory, Pc, ExitStatus
  <2>2. st \in SequenceState /\ disk \in SequenceState
    BY DEF SequenceState, Phase
  <2>3. suite \in [Suites -> SuiteFiles]
    BY DEF SuiteFiles, NoFiles
  <2>4. worker \in [Workers -> Worker] /\ server \in [Servers -> Server]
    BY DEF Worker, Gone, Server, Closed
  <2>5. PlainTyped
    <3>1. MaxFaults \in Nat /\ faults = 0
      OBVIOUS
    <3>2. faults \in 0..MaxFaults
      BY <3>1
    <3>3. lost \in SUBSET (Servers \cup Workers) /\ told \in SUBSET Suites
      OBVIOUS
    <3> QED
      BY <3>2, <3>3 DEF PlainTyped, Pc
  <2> QED
    BY <2>1, <2>2, <2>3, <2>4, <2>5 DEF TypeOK, PlainTyped
<1>2. Engaged
  BY DEF Engaged, InRun, Live, Gone
<1>3. Recording
  BY DEF Recording, InRun
<1>4. Known
  BY DEF Known, InRun, Live, Up, Gone, Closed
<1>5. Natives
  BY DEF Natives, InRun, Closed
<1>6. Recovering
  BY DEF Recovering
<1> QED
  BY <1>1, <1>2, <1>3, <1>4, <1>5, <1>6 DEF SequenceInv, Typed

LEMMA Inductive == SequenceInv /\ [Next]_vars => SequenceInv'
<1> SUFFICES ASSUME SequenceInv, [Next]_vars PROVE SequenceInv'
  OBVIOUS
<1>1. Typed'
  BY TypeStep, EngagedStep DEF SequenceInv, Typed
<1>2. Recording' /\ Known'
  BY RecordingStep, KnownStep DEF SequenceInv
<1>3. Natives' /\ Recovering'
  BY NativesStep, RecoveringStep DEF SequenceInv
<1> QED
  BY <1>1, <1>2, <1>3 DEF SequenceInv

LEMMA Always == Spec => []SequenceInv
  BY Initially, Inductive, PTL DEF Spec

-----------------------------------------------------------------------------
(* The theorems *)

\* The processes, files and histories of a sequence keep their types.
THEOREM TypeCorrect == Spec => []TypeOK
<1>1. SequenceInv => TypeOK
  BY DEF SequenceInv, Typed
<1> QED
  BY <1>1, Always, PTL

\* execute() asks its guardian to stop only after its wrapper has exited, unless a
\* failing write, a failing reader or an unkillable wrapper took it there; the
\* wrapper is then still in its state.
THEOREM ServerOutlives == Spec => []ServerOutlivesWorker
<1>1. SequenceInv => ServerOutlivesWorker
  BY DEF SequenceInv, Known, LeftAlive, ServerOutlivesWorker
<1> QED
  BY <1>1, Always, PTL

\* A start that reads the state file finds whatever was recorded and is alive.
THEOREM OrphansFound == Spec => []OrphansAreFound
<1>1. SequenceInv => OrphansAreFound
  BY DEF SequenceInv, Known, OrphansAreFound
<1> QED
  BY <1>1, Always, PTL

LEMMA ShownPaused == Shown = "PAUSED" => disk.phase = "PAUSED" /\ ~Recorded(disk)
<1> SUFFICES ASSUME Shown = "PAUSED" PROVE disk.phase = "PAUSED" /\ ~Recorded(disk)
  OBVIOUS
<1> DEFINE rebooted == disk.phase \in {"PREPARING", "PILOT", "RUNNING"} /\ ~disk.boot
           dead     == /\ disk.phase \in {"PILOT", "RUNNING"} /\ disk.boot
                       /\ ~(disk.server \in Servers /\ server[disk.server].relay)
           pausing  == disk.phase = "PAUSED" /\ Recorded(disk)
<1>1. "PAUSED" = CASE rebooted -> "RECOVERY_REQUIRED"
                   [] dead -> "UNKNOWN"
                   [] pausing -> "PAUSING"
                   [] OTHER -> disk.phase
  BY DEF Shown
<1>2. ~rebooted
  BY <1>1
<1>3. ~dead
  BY <1>1, <1>2
<1>4. ~pausing
  BY <1>1, <1>2, <1>3
<1> QED
  BY <1>1, <1>2, <1>3, <1>4

\* When the state file, or the status window, says that a sequence is paused,
\* the machine may be switched off.
THEOREM ShutdownSafe == Spec => []ShutdownIsSafe
<1>1. SequenceInv => ShutdownIsSafe
  <2> SUFFICES ASSUME SequenceInv PROVE ShutdownIsSafe
    OBVIOUS
  <2> USE SequenceConstants
  <2>1. ASSUME disk.phase \in {"PAUSED", "COMPLETE"}
        PROVE  /\ ~cleanup
               /\ InRun => ~Live(mem.worker)
               /\ InRun /\ mem.server # None => disk.server = mem.server
    <3>1. InRun => pc \in {"final", "closing"}
      BY <2>1 DEF SequenceInv, Recording, Underway
    <3> QED
      BY <2>1, <3>1 DEF SequenceInv, Recording, Known, LeftAlive
  <2>2. ASSUME disk.phase \in {"PAUSED", "COMPLETE"}
        PROVE  /\ \A g \in Servers : Up(g) => g \in lost \/ g = disk.server
               /\ \A w \in Workers : Live(w) => w \in lost \/ w = disk.worker
    BY <2>1, <2>2 DEF SequenceInv, Known
  <2>3. ASSUME disk.phase \in {"PAUSED", "COMPLETE"}, disk.server = None,
               NEW g \in Servers, Running(g)
        PROVE  g \in lost \/ (latch = "verified" /\ author # g)
    <3>1. CASE Up(g)
      BY <2>2, <2>3, <3>1
    <3>2. CASE server[g].native # "none"
      BY <2>1, <2>2, <2>3, <3>2 DEF SequenceInv, Natives, Excused, Up
    <3> QED
      BY <2>3, <3>1, <3>2 DEF Running
  <2>4. disk.phase \in {"PAUSED", "COMPLETE"} /\ disk.worker = None
          => \A w \in Workers : Live(w) => w \in lost
    BY <2>2
  <2>5. Shown = "PAUSED" => /\ \A g \in Servers : Up(g) => g \in lost
                            /\ \A w \in Workers : Live(w) => w \in lost
    BY <2>2, ShownPaused DEF Recorded
  <2> QED
    BY <2>3, <2>4, <2>5 DEF ShutdownIsSafe
<1> QED
  BY <1>1, Always, PTL

LEMMA OnlyStartBatchSpawns ==
    ASSUME Typed, Next, NEW w \in Workers, ~Live(w), Live(w)'
    PROVE  StartBatch
<1> USE DEF Typed, TypeOK, Live, Gone
<1>1. CASE ReapTimesOut \/ Reboot
  BY <1>1 DEF ReapTimesOut, Exits, Reboot
<1>2. ASSUME NEW v \in Workers,
             WorkerRefuses(v) \/ WorkerEnds(v) \/ WorkerFails(v) \/ KillWorker(v)
      PROVE  FALSE
  BY <1>2 DEF WorkerRefuses, WorkerEnds, WorkerFails, KillWorker, Exits
<1>3. ASSUME NEW v \in Workers, WorkerStarts(v) \/ Infer(v) \/ CheckpointCase(v)
      PROVE  FALSE
  BY <1>3 DEF WorkerStarts, Infer, CheckpointCase, Exits, Becomes, Worker
<1>4. CASE worker' = worker
  BY <1>4
<1> QED
  BY <1>1, <1>2, <1>3, <1>4
     DEF Next, Execute, Guard, Work, GuardianBreach, HeartbeatStale, PortConflict,
         StartProxyFails, SaveWorkerFails, ReapFails, RecordFails, StopRaisesToFinish, CloseRaises,
         Launch, Refuse, Prepare, StartGuardian, StartRefused, StartProxy, SaveServer,
         WaitReady, NotReady, Pause, TopFails, SaveWorker, ForwardPause, WorkerExited,
         CheckRaises, Reap, PausedBeforeCase, BatchRejected, BatchDone, RecordFailure,
         AllDone, AskToStop, CloseToFinish, CloseFailsToFinish, Complete, LatchedAtTheEnd,
         Close, CloseFails, NothingToClose, RequestPause, Kill, GuardianServes,
         GuardianStops, GuardianLatches, StopOrphanedProxy, KillRelay, KillProxy

\* wrapper_command() gives --recovery-pilot to the first batch after one that
\* was cut short.
THEOREM RecoveryIsFirst == Spec => RecoveryFirst
<1> DEFINE Step == \A w \in Workers : ~Live(w) /\ Live(w)' /\ dirty => worker'[w].pilot
<1>1. SequenceInv /\ [Next]_vars => [Step]_vars
  <2> SUFFICES ASSUME SequenceInv, Next, NEW w \in Workers, ~Live(w), Live(w)', dirty
               PROVE  worker'[w].pilot
    OBVIOUS
  <2>1. StartBatch
    BY OnlyStartBatchSpawns DEF SequenceInv
  <2>2. mem.pilot /\ ~mem.ran
    BY <2>1 DEF SequenceInv, Recovering, StartBatch, InRun
  <2>3. PICK v \in Workers : worker' = [worker EXCEPT ![v] =
                 [stage |-> "new", suite |-> NextChild, pilot |-> WrapperPilot]]
    BY <2>1 DEF StartBatch, FreeWorkers
  <2>4. v = w
    BY <2>3 DEF SequenceInv, Typed, TypeOK, Live
  <2> QED
    BY <2>2, <2>3, <2>4 DEF SequenceInv, Typed, TypeOK, WrapperPilot
<1> QED
  BY <1>1, Always, PTL DEF Spec, RecoveryFirst
-----------------------------------------------------------------------------
(* The files are a register *)

\* A wrapper past its suite's refusals.
AtWork(w) == worker[w].stage \in {"infer", "answered", "cooling"}

\* A wrapper at work has its suite to itself: the suite says that it runs, and
\* is not latched.
Undisturbed(w) ==
    LET s == worker[w].suite
    IN  /\ suite[s].phase = "RUNNING" /\ ~suite[s].latch
        /\ worker[w].stage = "cooling" /\ suite[s].done = Cases[s] => suite[s].report
        /\ \A v \in Workers \ {w} : AtWork(v) => worker[v].suite # s

FilesInv ==
    /\ \A s \in Suites : suite[s].done <= Cases[s]
    /\ \A w \in Workers : AtWork(w) => Undisturbed(w)

\* A step of wrapper w of suite s touches nobody else.
Touches(w, s) ==
    /\ worker[w].suite = s
    /\ \A t \in Suites \ {s} : suite'[t] = suite[t]
    /\ \A v \in Workers \ {w} : worker'[v] = worker[v]

\* What each of its steps does.
LEMMA StartsEffect ==
    ASSUME Typed, NEW w \in Workers, WorkerStarts(w)
    PROVE  \E s \in Suites :
             /\ Touches(w, s)
             /\ ~suite[s].latch
             /\ \A v \in Workers \ {w} : Live(v) => worker[v].suite # s
             /\ suite'[s].done = suite[s].done /\ suite'[s].report = suite[s].report
             /\ suite'[s].latch = suite[s].latch
             /\ suite'[s].phase \in {"RUNNING", "PAUSED"}
             /\ ~AtWork(w)' \/ /\ suite'[s].phase = "RUNNING"
                               /\ worker'[w].suite = s /\ worker'[w].stage = "infer"
<1> DEFINE s == worker[w].suite
<1>1. s \in Suites /\ worker[w] \in Worker /\ suite[s] \in SuiteFiles
  BY DEF WorkerStarts, Typed, TypeOK, Engaged, Live
<1>2. PICK owes : suite' = [suite EXCEPT ![s] =
          [@ EXCEPT !.phase = IF s \in told THEN "PAUSED" ELSE "RUNNING", !.owes = owes]]
  BY DEF WorkerStarts
<1>3. /\ suite'[s].done = suite[s].done /\ suite'[s].report = suite[s].report
      /\ suite'[s].latch = suite[s].latch
      /\ suite'[s].phase = IF s \in told THEN "PAUSED" ELSE "RUNNING"
      /\ \A t \in Suites \ {s} : suite'[t] = suite[t]
  BY <1>1, <1>2 DEF Typed, TypeOK, SuiteFiles
<1>4. ~suite[s].latch /\ \A v \in Workers \ {w} : Live(v) => worker[v].suite # s
  BY DEF WorkerStarts, WrapperRefuses
<1>5. /\ \A v \in Workers \ {w} : worker'[v] = worker[v]
      /\ s \in told => worker'[w].stage = "dead"
      /\ s \notin told => worker'[w].suite = s /\ worker'[w].stage = "infer"
  BY <1>1 DEF WorkerStarts, Exits, Becomes, Gone, Worker, Typed, TypeOK
<1> QED
  BY <1>1, <1>3, <1>4, <1>5 DEF Touches, AtWork

LEMMA CheckpointEffect ==
    ASSUME Typed, FilesInv, NEW w \in Workers, CheckpointCase(w)
    PROVE  \E s \in Suites :
             /\ Touches(w, s)
             /\ AtWork(w)
             /\ worker'[w].suite = s /\ worker'[w].stage = "cooling"
             /\ suite'[s].phase = suite[s].phase /\ suite'[s].latch = suite[s].latch
             /\ suite'[s].done = IF suite[s].done < Cases[s] THEN suite[s].done + 1
                                                             ELSE suite[s].done
             /\ suite'[s].report = (suite[s].report \/ suite'[s].done = Cases[s])
<1> DEFINE s == worker[w].suite
           done == IF suite[s].done < Cases[s] THEN suite[s].done + 1 ELSE Cases[s]
<1>1. s \in Suites /\ worker[w] \in Worker /\ suite[s] \in SuiteFiles
  BY DEF CheckpointCase, Typed, TypeOK, Engaged, Live
<1>2. suite' = [suite EXCEPT ![s] =
           [@ EXCEPT !.done = done, !.report = suite[s].report \/ done = Cases[s]]]
  BY DEF CheckpointCase
<1>3. suite[s].done \in Nat /\ Cases[s] \in Nat /\ suite[s].done <= Cases[s]
  BY <1>1, SequenceConstants DEF SuiteFiles, FilesInv
<1>4. done = IF suite[s].done < Cases[s] THEN suite[s].done + 1 ELSE suite[s].done
  BY <1>3
<1> HIDE DEF done
<1>5. /\ suite'[s].phase = suite[s].phase /\ suite'[s].latch = suite[s].latch
      /\ suite'[s].done = done /\ suite'[s].report = (suite[s].report \/ done = Cases[s])
      /\ \A t \in Suites \ {s} : suite'[t] = suite[t]
  BY <1>1, <1>2 DEF Typed, TypeOK, SuiteFiles
<1>6. /\ \A v \in Workers \ {w} : worker'[v] = worker[v]
      /\ worker'[w].suite = s /\ worker'[w].stage = "cooling" /\ AtWork(w)
  BY <1>1 DEF CheckpointCase, Becomes, Worker, AtWork, Typed, TypeOK
<1> QED
  BY <1>1, <1>4, <1>5, <1>6 DEF Touches

LEMMA EndsEffect ==
    ASSUME Typed, NEW w \in Workers, WorkerEnds(w) \/ WorkerFails(w)
    PROVE  \E s \in Suites :
             /\ Touches(w, s)
             /\ AtWork(w) /\ ~AtWork(w)'
             /\ suite'[s].done = suite[s].done /\ suite'[s].report = suite[s].report
             /\ \/ /\ worker[w].stage = "cooling"
                   /\ suite'[s].latch = suite[s].latch
                   /\ suite'[s].phase =
                         IF suite[s].done = Cases[s] THEN "COMPLETE" ELSE "PAUSED"
                \/ /\ suite'[s].phase = "FAILED"
                   /\ suite'[s].latch \in {suite[s].latch, TRUE}
<1> DEFINE s == worker[w].suite
<1>1. s \in Suites /\ suite[s] \in SuiteFiles
  BY DEF WorkerEnds, WorkerFails, Typed, TypeOK, Engaged, Live
<1>2. /\ worker' = [worker EXCEPT ![w] = Gone]
      /\ worker[w].stage \in {"infer", "answered", "cooling"}
  BY DEF WorkerEnds, WorkerFails, Exits
<1>5. /\ \A v \in Workers \ {w} : worker'[v] = worker[v]
      /\ AtWork(w) /\ ~AtWork(w)'
  BY <1>2 DEF Gone, AtWork, Typed, TypeOK
<1>3. CASE WorkerEnds(w)
  <2>1. /\ worker[w].stage = "cooling"
        /\ suite' = [suite EXCEPT ![s] = [@ EXCEPT
               !.phase = IF suite[s].done = Cases[s] THEN "COMPLETE" ELSE "PAUSED",
               !.owes = FALSE]]
    BY <1>3 DEF WorkerEnds
  <2> QED
    BY <1>1, <1>5, <2>1 DEF Touches, Typed, TypeOK, SuiteFiles
<1>4. CASE WorkerFails(w)
  <2>1. PICK stopped \in BOOLEAN :
           suite' = [suite EXCEPT ![s] =
                       [@ EXCEPT !.phase = "FAILED", !.latch = suite[s].latch \/ stopped]]
    BY <1>4 DEF WorkerFails
  <2>2. (suite[s].latch \/ stopped) \in {suite[s].latch, TRUE}
    BY <1>1 DEF SuiteFiles
  <2> QED
    BY <1>1, <1>5, <2>1, <2>2 DEF Touches, Typed, TypeOK, SuiteFiles
<1> QED
  BY <1>3, <1>4

\* Every other step leaves the files alone but for what they owe, and no wrapper
\* begins its work in it.
LEMMA ElseEffect ==
    ASSUME Typed, [Next]_vars,
           \A w \in Workers : ~(\/ WorkerStarts(w) \/ CheckpointCase(w)
                                \/ WorkerEnds(w) \/ WorkerFails(w))
    PROVE  /\ \A s \in Suites : /\ suite'[s].done = suite[s].done
                                /\ suite'[s].report = suite[s].report
                                /\ suite'[s].phase = suite[s].phase
                                /\ suite'[s].latch = suite[s].latch
           /\ \A w \in Workers : AtWork(w)' =>
                  /\ AtWork(w) /\ worker'[w].suite = worker[w].suite
                  /\ worker'[w].stage = "cooling" => worker[w].stage = "cooling"
<1> USE DEF Typed, TypeOK, AtWork, Gone
<1>1. CASE Reboot
  <2>1. \A s \in Suites : suite[s] \in SuiteFiles
    OBVIOUS
  <2> QED
    BY <1>1, <2>1 DEF Reboot, SuiteFiles
<1>2. CASE suite' = suite
  <2>1. CASE StartBatch
    BY <1>2, <2>1 DEF StartBatch, FreeWorkers
  <2>2. CASE ReapTimesOut
    BY <1>2, <2>2 DEF ReapTimesOut, Exits
  <2>3. ASSUME NEW v \in Workers, WorkerRefuses(v) \/ KillWorker(v)
        PROVE  \A w \in Workers : worker'[w] = worker[w] \/ worker'[w] = Gone
    BY <2>3 DEF WorkerRefuses, KillWorker, Exits
  <2>4. ASSUME NEW v \in Workers, Infer(v)
        PROVE  \A w \in Workers : AtWork(w)' =>
                  /\ AtWork(w) /\ worker'[w].suite = worker[w].suite
                  /\ worker'[w].stage = "cooling" => worker[w].stage = "cooling"
    BY <2>4 DEF Infer, Becomes, Worker
  <2>5. CASE worker' = worker
    BY <1>2, <2>5
  <2> QED
    BY <1>2, <2>1, <2>2, <2>3, <2>4, <2>5
       DEF Next, Execute, Guard, Work, GuardianBreach, HeartbeatStale, PortConflict, vars,
         StartProxyFails, SaveWorkerFails, ReapFails, RecordFails, StopRaisesToFinish, CloseRaises,
         Launch, Refuse, Prepare, StartGuardian, StartRefused, StartProxy, SaveServer,
         WaitReady, NotReady, Pause, TopFails, SaveWorker, ForwardPause, WorkerExited,
         CheckRaises, Reap, PausedBeforeCase, BatchRejected, BatchDone, RecordFailure,
         AllDone, AskToStop, CloseToFinish, CloseFailsToFinish, Complete, LatchedAtTheEnd,
         Close, CloseFails, NothingToClose, RequestPause, Kill, GuardianServes,
         GuardianStops, GuardianLatches, StopOrphanedProxy, KillRelay, KillProxy, Reboot
<1>3. Reboot \/ suite' = suite
  BY DEF Next, Execute, Guard, Work, GuardianBreach, HeartbeatStale, PortConflict, vars,
         StartProxyFails, SaveWorkerFails, ReapFails, RecordFails, StopRaisesToFinish, CloseRaises,
         Launch, Refuse, Prepare, StartGuardian, StartRefused, StartProxy, SaveServer,
         WaitReady, NotReady, Pause, TopFails, StartBatch, SaveWorker, ForwardPause,
         WorkerExited, CheckRaises, Reap, ReapTimesOut, PausedBeforeCase, BatchRejected,
         BatchDone, RecordFailure, AllDone, AskToStop, CloseToFinish, CloseFailsToFinish,
         Complete, LatchedAtTheEnd, Close, CloseFails, NothingToClose, RequestPause, Kill,
         GuardianServes, GuardianStops, GuardianLatches, StopOrphanedProxy, KillRelay,
         KillProxy, KillWorker, Infer, WorkerRefuses, WorkerUnchanged
<1> QED
  BY <1>1, <1>2, <1>3
\* A wrapper's step disturbs no wrapper of another suite.
LEMMA OthersStay ==
    ASSUME Typed, FilesInv, NEW w \in Workers, NEW s \in Suites, Touches(w, s),
           AtWork(w)' => worker'[w].suite = s,
           \A v \in Workers \ {w} : AtWork(v) => worker[v].suite # s,
           NEW v \in Workers \ {w}, AtWork(v)'
    PROVE  Undisturbed(v)'
<1>1. \A u \in Workers : AtWork(u) => worker[u].suite \in Suites
  BY DEF Typed, Engaged, Live, AtWork
<1>2. AtWork(v) /\ Undisturbed(v) /\ worker'[v] = worker[v]
  BY DEF Touches, AtWork, FilesInv
<1>3. suite'[worker'[v].suite] = suite[worker[v].suite]
  BY <1>1, <1>2 DEF Touches
<1>4. \A u \in Workers \ {v} : AtWork(u)' => worker'[u].suite # worker'[v].suite
  BY <1>2 DEF Touches, AtWork, Undisturbed
<1> QED
  BY <1>2, <1>3, <1>4 DEF Undisturbed

LEMMA FilesStep == Typed /\ FilesInv /\ [Next]_vars => FilesInv'
<1> SUFFICES ASSUME Typed, FilesInv, [Next]_vars PROVE FilesInv'
  OBVIOUS
<1>typ. \A s \in Suites : suite[s].done \in Nat /\ Cases[s] \in Nat
                          /\ suite[s].latch \in BOOLEAN /\ suite[s].done <= Cases[s]
  BY SequenceConstants DEF Typed, TypeOK, SuiteFiles, FilesInv
<1>1. ASSUME NEW w \in Workers, NEW s \in Suites, Touches(w, s),
             AtWork(w)' => worker'[w].suite = s /\ Undisturbed(w)',
             \A v \in Workers \ {w} : AtWork(v) => worker[v].suite # s,
             suite'[s].done <= Cases[s]
      PROVE  FilesInv'
  <2>1. \A t \in Suites : suite'[t].done <= Cases[t]
    BY <1>1, <1>typ DEF Touches
  <2>2. \A v \in Workers \ {w} : AtWork(v)' => Undisturbed(v)'
    BY <1>1, OthersStay
  <2> QED
    BY <1>1, <2>1, <2>2 DEF FilesInv
<1>2. ASSUME NEW w \in Workers, WorkerStarts(w) PROVE FilesInv'
  <2>1. PICK s \in Suites :
           /\ Touches(w, s)
           /\ ~suite[s].latch
           /\ \A v \in Workers \ {w} : Live(v) => worker[v].suite # s
           /\ suite'[s].done = suite[s].done /\ suite'[s].latch = suite[s].latch
           /\ ~AtWork(w)' \/ /\ suite'[s].phase = "RUNNING"
                             /\ worker'[w].suite = s /\ worker'[w].stage = "infer"
    BY <1>2, StartsEffect
  <2>2. \A v \in Workers \ {w} : AtWork(v) => worker[v].suite # s
    BY <2>1 DEF AtWork, Live
  <2>3. \A v \in Workers \ {w} : AtWork(v)' => worker'[v].suite # s
    BY <2>1, <2>2 DEF Touches, AtWork
  <2>4. AtWork(w)' => Undisturbed(w)'
    BY <2>1, <2>3 DEF Undisturbed
  <2> QED
    BY <1>1, <1>typ, <2>1, <2>2, <2>4
<1>3. ASSUME NEW w \in Workers, CheckpointCase(w) PROVE FilesInv'
  <2>1. PICK s \in Suites :
           /\ Touches(w, s)
           /\ AtWork(w)
           /\ worker'[w].suite = s /\ worker'[w].stage = "cooling"
           /\ suite'[s].phase = suite[s].phase /\ suite'[s].latch = suite[s].latch
           /\ suite'[s].done = IF suite[s].done < Cases[s] THEN suite[s].done + 1
                                                           ELSE suite[s].done
           /\ suite'[s].report = (suite[s].report \/ suite'[s].done = Cases[s])
    BY <1>3, CheckpointEffect
  <2>2. Undisturbed(w) /\ worker[w].suite = s
    BY <2>1 DEF FilesInv, Touches
  <2>3. \A v \in Workers \ {w} : AtWork(v)' => worker'[v].suite # s
    BY <2>1, <2>2 DEF Touches, AtWork, Undisturbed
  <2>4. Undisturbed(w)'
    BY <2>1, <2>2, <2>3 DEF Undisturbed
  <2>5. suite'[s].done <= Cases[s]
    BY <1>typ, <2>1
  <2> QED
    BY <1>1, <2>1, <2>2, <2>4, <2>5 DEF Undisturbed
<1>4. ASSUME NEW w \in Workers, WorkerEnds(w) \/ WorkerFails(w) PROVE FilesInv'
  <2>1. PICK s \in Suites :
           /\ Touches(w, s)
           /\ AtWork(w) /\ ~AtWork(w)'
           /\ suite'[s].done = suite[s].done
    BY <1>4, EndsEffect
  <2>2. Undisturbed(w) /\ worker[w].suite = s
    BY <2>1 DEF FilesInv, Touches
  <2> QED
    BY <1>1, <1>typ, <2>1, <2>2 DEF Undisturbed
<1>5. CASE \A w \in Workers : ~(\/ WorkerStarts(w) \/ CheckpointCase(w)
                                \/ WorkerEnds(w) \/ WorkerFails(w))
  <2>1. /\ \A s \in Suites : /\ suite'[s].done = suite[s].done
                             /\ suite'[s].report = suite[s].report
                             /\ suite'[s].phase = suite[s].phase
                             /\ suite'[s].latch = suite[s].latch
        /\ \A w \in Workers : AtWork(w)' =>
               /\ AtWork(w) /\ worker'[w].suite = worker[w].suite
               /\ worker'[w].stage = "cooling" => worker[w].stage = "cooling"
    BY <1>5, ElseEffect
  <2>2. ASSUME NEW w \in Workers, AtWork(w)' PROVE Undisturbed(w)'
    <3>1. AtWork(w) /\ worker[w].suite \in Suites /\ Undisturbed(w)
      BY <2>1, <2>2 DEF Typed, Engaged, Live, AtWork, FilesInv
    <3>2. \A v \in Workers \ {w} : AtWork(v)' => worker'[v].suite # worker'[w].suite
      BY <2>1, <2>2, <3>1 DEF Undisturbed
    <3> QED
      BY <2>1, <2>2, <3>1, <3>2 DEF Undisturbed
  <2> QED
    BY <2>1, <2>2, <1>typ DEF FilesInv
<1> QED
  BY <1>2, <1>3, <1>4, <1>5

LEMMA FilesAlways == Spec => [](Typed /\ FilesInv)
<1>1. Init => FilesInv
  <2> SUFFICES ASSUME Init PROVE FilesInv
    OBVIOUS
  <2>1. \A s \in Suites : suite[s].done = 0 /\ Cases[s] \in Nat
    BY SequenceConstants DEF Init, NoFiles
  <2>2. \A w \in Workers : ~AtWork(w)
    BY DEF Init, AtWork, Gone
  <2> QED
    BY <2>1, <2>2 DEF FilesInv
<1>2. SequenceInv => Typed
  BY DEF SequenceInv
<1> QED
  BY <1>1, <1>2, FilesStep, Always, PTL DEF Spec

\* A wrapper's step is a change of each field at its suite.
LEMMA RegisterMove ==
    ASSUME NEW w \in Workers, NEW s \in Suites, Touches(w, s)
    PROVE  /\ [t \in Suites |-> suite[t].done]' =
                 [[t \in Suites |-> suite[t].done] EXCEPT ![s] = suite'[s].done]
           /\ [t \in Suites |-> suite[t].report]' =
                 [[t \in Suites |-> suite[t].report] EXCEPT ![s] = suite'[s].report]
           /\ [t \in Suites |-> suite[t].phase]' =
                 [[t \in Suites |-> suite[t].phase] EXCEPT ![s] = suite'[s].phase]
           /\ [t \in Suites |-> suite[t].latch]' =
                 [[t \in Suites |-> suite[t].latch] EXCEPT ![s] = suite'[s].latch]
  BY DEF Touches

\* The wrappers of all sequences together, alive or left behind, do to a suite's
\* files what a register allows: the assumption the sequence makes when it reads
\* checkpoint, report, state and latch one after the other.
THEOREM FilesRegister == Spec => FilesAreARegister
<1> DEFINE Done    == [s \in Suites |-> suite[s].done]
           Report  == [s \in Suites |-> suite[s].report]
           Phases  == [s \in Suites |-> suite[s].phase]
           Latches == [s \in Suites |-> suite[s].latch]
<1>1. Init => Register!Init
  BY DEF Init, Register!Init, NoFiles
<1>2. Typed /\ FilesInv /\ [Next]_vars
        => [Register!Next]_<<Done, Report, Phases, Latches, {}>>
  <2> SUFFICES ASSUME Typed, FilesInv, [Next]_vars
               PROVE  Register!Next \/ UNCHANGED <<Done, Report, Phases, Latches, {}>>
    OBVIOUS
  <2>typ. \A s \in Suites : /\ suite[s] \in SuiteFiles /\ suite[s].done \in Nat
                            /\ suite[s].report \in BOOLEAN /\ suite[s].latch \in BOOLEAN
                            /\ Cases[s] \in Nat /\ suite[s].done <= Cases[s]
    BY SequenceConstants DEF Typed, TypeOK, SuiteFiles, FilesInv
  <2>1. ASSUME NEW w \in Workers, WorkerStarts(w) PROVE Register!Next
    <3>1. PICK s \in Suites :
             /\ Touches(w, s) /\ ~suite[s].latch
             /\ suite'[s].done = suite[s].done /\ suite'[s].report = suite[s].report
             /\ suite'[s].latch = suite[s].latch
             /\ suite'[s].phase \in {"RUNNING", "PAUSED"}
      BY <2>1, StartsEffect
    <3>2. UNCHANGED <<Done, Report, Latches>>
      BY <3>1 DEF Touches
    <3>3. Phases' = [Phases EXCEPT ![s] = suite'[s].phase]
      BY <3>1, RegisterMove
    <3>4. Register!Enter(s, "RUNNING") \/ Register!Enter(s, "PAUSED")
      BY <3>1, <3>3 DEF Register!Enter
    <3>5. Register!Begin(s)
      BY <3>1, <3>2, <3>4 DEF Register!Begin
    <3> QED
      BY <3>5 DEF Register!Next
  <2>2. ASSUME NEW w \in Workers, CheckpointCase(w) PROVE Register!Next
    <3>1. PICK s \in Suites :
             /\ Touches(w, s) /\ AtWork(w)
             /\ suite'[s].phase = suite[s].phase /\ suite'[s].latch = suite[s].latch
             /\ suite'[s].done = IF suite[s].done < Cases[s] THEN suite[s].done + 1
                                                             ELSE suite[s].done
             /\ suite'[s].report = (suite[s].report \/ suite'[s].done = Cases[s])
      BY <2>2, CheckpointEffect
    <3>2. UNCHANGED <<Phases, Latches>>
      BY <3>1 DEF Touches
    <3>3. Phases[s] = "RUNNING"
      BY <3>1 DEF FilesInv, Undisturbed, Touches
    <3>4. CASE suite[s].done < Cases[s]
      <4>1. Done' = [Done EXCEPT ![s] = @ + 1] /\ Done'[s] = Done[s] + 1
        BY <3>1, <3>4, RegisterMove
      <4>2. UNCHANGED Report \/ (Done'[s] = Cases[s] /\ Report' = [Report EXCEPT ![s] = TRUE])
        <5>1. Report' = [Report EXCEPT ![s] = suite'[s].report]
          BY <3>1, RegisterMove
        <5>2. CASE suite'[s].done = Cases[s]
          BY <3>1, <4>1, <5>1, <5>2
        <5>3. CASE suite'[s].done # Cases[s]
          <6>1. suite'[s].report = suite[s].report
            BY <2>typ, <3>1, <5>3
          <6> QED
            BY <3>1, <6>1 DEF Touches
        <5> QED
          BY <5>2, <5>3
      <4>3. Register!Checkpoint(s)
        BY <3>2, <3>3, <3>4, <4>1, <4>2 DEF Register!Checkpoint, Register!Runs
      <4> QED
        BY <4>3 DEF Register!Next
    <3>5. CASE suite[s].done = Cases[s]
      <4>1. UNCHANGED Done
        BY <2>typ, <3>1, <3>5 DEF Touches
      <4>2. Report' = [Report EXCEPT ![s] = TRUE]
        <5>1. suite'[s].report = TRUE
          <6>1. suite'[s].done = Cases[s]
            BY <2>typ, <3>1, <3>5
          <6> QED
            BY <3>1, <6>1
        <5>2. Report' = [Report EXCEPT ![s] = suite'[s].report]
          BY <3>1, RegisterMove
        <5> QED
          BY <5>1, <5>2
      <4>3. Register!Conclude(s)
        BY <3>2, <3>3, <3>5, <4>1, <4>2 DEF Register!Conclude, Register!Runs
      <4> QED
        BY <4>3 DEF Register!Next
    <3> QED
      BY <2>typ, <3>4, <3>5
  <2>3. ASSUME NEW w \in Workers, WorkerEnds(w) \/ WorkerFails(w) PROVE Register!Next
    <3>1. PICK s \in Suites :
             /\ Touches(w, s) /\ AtWork(w)
             /\ suite'[s].done = suite[s].done /\ suite'[s].report = suite[s].report
             /\ \/ /\ worker[w].stage = "cooling"
                   /\ suite'[s].latch = suite[s].latch
                   /\ suite'[s].phase =
                         IF suite[s].done = Cases[s] THEN "COMPLETE" ELSE "PAUSED"
                \/ /\ suite'[s].phase = "FAILED"
                   /\ suite'[s].latch \in {suite[s].latch, TRUE}
      BY <2>3, EndsEffect
    <3>2. UNCHANGED <<Done, Report>>
      BY <3>1 DEF Touches
    <3>3. /\ Phases[s] = "RUNNING" /\ ~Latches[s]
          /\ worker[w].stage = "cooling" /\ Done[s] = Cases[s] => Report[s]
      BY <3>1 DEF FilesInv, Undisturbed, Touches
    <3>4. CASE suite'[s].phase = "FAILED"
      <4>1. UNCHANGED Latches \/ Latches' = [Latches EXCEPT ![s] = TRUE]
        BY <3>1, <3>4, RegisterMove DEF Touches
      <4>2. Register!Fail(s)
        BY <3>1, <3>2, <3>3, <3>4, <4>1, RegisterMove
           DEF Register!Fail, Register!Runs, Register!Enter
      <4> QED
        BY <4>2 DEF Register!Next
    <3>5. CASE suite'[s].phase # "FAILED"
      <4>1. UNCHANGED Latches
        BY <3>1, <3>5 DEF Touches
      <4>2. Phases' = [Phases EXCEPT ![s] = suite'[s].phase]
        BY <3>1, RegisterMove
      <4>3. IF Done[s] = Cases[s] THEN Register!Enter(s, "COMPLETE")
                                  ELSE Register!Enter(s, "PAUSED")
        BY <3>1, <3>5, <4>2 DEF Register!Enter
      <4>4. Register!Settle(s)
        BY <3>1, <3>2, <3>3, <3>5, <4>1, <4>3 DEF Register!Settle, Register!Runs
      <4> QED
        BY <4>4 DEF Register!Next
    <3> QED
      BY <3>4, <3>5
  <2>4. CASE \A w \in Workers : ~(\/ WorkerStarts(w) \/ CheckpointCase(w)
                                  \/ WorkerEnds(w) \/ WorkerFails(w))
    <3>1. \A s \in Suites : /\ suite'[s].done = suite[s].done
                            /\ suite'[s].report = suite[s].report
                            /\ suite'[s].phase = suite[s].phase
                            /\ suite'[s].latch = suite[s].latch
      BY <2>4, ElseEffect
    <3> QED
      BY <3>1
  <2> QED
    BY <2>1, <2>2, <2>3, <2>4
<1> QED
  BY <1>1, <1>2, FilesAlways, PTL DEF Spec, FilesAreARegister, Register!Spec

-----------------------------------------------------------------------------
(* A sequence runs a bounded number of batches *)

InBatch == pc \in {"spawned", "watch", "ended"}

\* What is known of the batch under way: its wrapper works on its suite, and has
\* ended well only with something done, or because a pause was requested.
BatchGetsOn ==
    LET c == mem.child
    IN  /\ mem.before <= suite[c].done /\ mem.before <= Cases[c]
        /\ Live(mem.worker) => /\ worker[mem.worker].suite = c
                               /\ worker[mem.worker].stage = "cooling" => GotOn
        /\ pc = "ended" => mem.code = "ok"
        /\ mem.code = "ok" => GotOn \/ pause

\* A suite is told to pause only when the sequence is, until a check fails.
ToldIsPaused ==
    pc \in {"launched", "prepared", "guard", "owned", "ready", "top"} \/ InBatch =>
        told = {} \/ pause

\* The exit status of one batch does not reach the next.
CodeIsFresh ==
    pc \in {"launched", "prepared", "guard", "owned", "ready", "top"} => mem.code = "none"

BatchInv == ToldIsPaused /\ CodeIsFresh /\ (InBatch => BatchGetsOn)

\* Where the batch is known from, and what ends a wrapper or a relay.
BatchKept == /\ mem'.child = mem.child /\ mem'.before = mem.before
             /\ mem'.worker = mem.worker

LEMMA ExitsKeep ==
    ASSUME Typed, NEW w \in Workers, NEW status \in ExitStatus, Exits(w, status)
    PROVE  /\ BatchKept
           /\ mem'.code = IF w = mem.worker THEN status ELSE mem.code
           /\ worker'[w] = Gone /\ \A v \in Workers \ {w} : worker'[v] = worker[v]
BY DEF Exits, BatchKept, Typed, TypeOK, Memory

LEMMA RelayKeeps ==
    ASSUME Typed, NEW g, NEW status, RelayExit(g, status)
    PROVE  BatchKept /\ mem'.code = mem.code
BY DEF RelayExit, BatchKept, Typed, TypeOK, Memory

\* Checkpoints and reports only grow.
LEMMA SuitesGrow ==
    ASSUME Typed, FilesInv, [Next]_vars, NEW s \in Suites
    PROVE  suite'[s].done >= suite[s].done /\ (suite[s].report => suite'[s].report)
<1>1. suite[s].done \in Nat /\ Cases[s] \in Nat
  BY SequenceConstants DEF Typed, TypeOK, SuiteFiles
<1>2. ASSUME NEW w \in Workers, WorkerStarts(w)
      PROVE  suite'[s].done = suite[s].done /\ suite'[s].report = suite[s].report
  BY <1>2, StartsEffect DEF Touches
<1>3. ASSUME NEW w \in Workers, CheckpointCase(w)
      PROVE  /\ suite'[s].done \in {suite[s].done, suite[s].done + 1}
             /\ suite[s].report => suite'[s].report
  BY <1>3, CheckpointEffect DEF Touches
<1>4. ASSUME NEW w \in Workers, WorkerEnds(w) \/ WorkerFails(w)
      PROVE  suite'[s].done = suite[s].done /\ suite'[s].report = suite[s].report
  BY <1>4, EndsEffect DEF Touches
<1>5. CASE \A w \in Workers : ~(\/ WorkerStarts(w) \/ CheckpointCase(w)
                                \/ WorkerEnds(w) \/ WorkerFails(w))
  BY <1>1, <1>5, ElseEffect
<1> QED
  BY <1>1, <1>2, <1>3, <1>4, <1>5

LEMMA ToldStep == ToldIsPaused /\ [Next]_vars => ToldIsPaused'
<1> SUFFICES ASSUME ToldIsPaused, [Next]_vars PROVE ToldIsPaused'
  OBVIOUS
<1> USE DEF ToldIsPaused, InBatch
<1>1. CASE Launch \/ ForwardPause \/ CheckRaises \/ RequestPause
  BY <1>1 DEF Launch, ForwardPause, CheckRaises, RequestPause, Goto
<1>2. CASE pause' = pause /\ told' = told
  BY <1>2
     DEF Next, Execute, Guard, Work, GuardianBreach, HeartbeatStale, PortConflict, vars, files,
         StartProxyFails, SaveWorkerFails, ReapFails, RecordFails, StopRaisesToFinish, CloseRaises,
         Launch, Refuse, Prepare, StartGuardian, StartRefused, StartProxy, SaveServer,
         WaitReady, NotReady, Pause, TopFails, StartBatch, SaveWorker, ForwardPause,
         WorkerExited, CheckRaises, Reap, ReapTimesOut, PausedBeforeCase, BatchRejected,
         BatchDone, RecordFailure, AllDone, AskToStop, CloseToFinish, CloseFailsToFinish,
         Complete, LatchedAtTheEnd, Close, CloseFails, NothingToClose, RequestPause, Kill,
         GuardianServes, GuardianStops, GuardianLatches, StopOrphanedProxy, KillRelay,
         KillProxy, KillWorker, Infer, WorkerRefuses, WorkerStarts, CheckpointCase,
         WorkerEnds, WorkerFails, WorkerUnchanged, Reboot, Leave, Goto
<1> QED
  BY <1>1, <1>2
     DEF Next, Execute, Guard, Work, GuardianBreach, HeartbeatStale, PortConflict, vars, files,
         StartProxyFails, SaveWorkerFails, ReapFails, RecordFails, StopRaisesToFinish, CloseRaises,
         Refuse, Prepare, StartGuardian, StartRefused, StartProxy, SaveServer,
         WaitReady, NotReady, Pause, TopFails, StartBatch, SaveWorker,
         WorkerExited, Reap, ReapTimesOut, PausedBeforeCase, BatchRejected,
         BatchDone, RecordFailure, AllDone, AskToStop, CloseToFinish, CloseFailsToFinish,
         Complete, LatchedAtTheEnd, Close, CloseFails, NothingToClose, Kill,
         GuardianServes, GuardianStops, GuardianLatches, StopOrphanedProxy, KillRelay,
         KillProxy, KillWorker, Infer, WorkerRefuses, WorkerStarts, CheckpointCase,
         WorkerEnds, WorkerFails, WorkerUnchanged, Reboot

\* The steps of a wrapper, and those after which one is dead.
WrapperMoves(w) == Work(w) \/ KillWorker(w)

\* Beside them, and beside its own steps, nothing changes what the sequence knows of
\* its batch.
LEMMA MemoryKept ==
    ASSUME Typed, [Next]_vars, ~Launch, ~StartBatch, ~BatchDone, pc' # "off",
           ~ReapTimesOut, \A w \in Workers : ~WrapperMoves(w)
    PROVE  BatchKept /\ mem'.code = mem.code /\ worker' = worker
<1> USE DEF Typed, TypeOK
<1>1. CASE Prepare
  BY <1>1 DEF Prepare, BatchKept, Memory
<1>2. CASE StartGuardian
  BY <1>2 DEF StartGuardian, BatchKept, Memory
<1>3. CASE CloseToFinish
  BY <1>3 DEF CloseToFinish, BatchKept, Memory
<1>4. CASE CloseFailsToFinish \/ StopRaisesToFinish
  BY <1>4, RelayKeeps DEF CloseFailsToFinish, StopRaisesToFinish, BatchKept
<1>7. CASE SaveWorkerFails \/ ReapFails
  BY <1>7 DEF SaveWorkerFails, ReapFails, BatchKept, Memory
<1>5. ASSUME NEW g \in Servers, GuardianStops(g) \/ GuardianLatches(g) \/ KillRelay(g)
      PROVE  BatchKept /\ mem'.code = mem.code /\ worker' = worker
  BY <1>5, RelayKeeps DEF GuardianStops, GuardianLatches, GuardianEnds, KillRelay
<1>6. CASE mem' = mem /\ worker' = worker
  BY <1>6 DEF BatchKept
<1> QED
  BY <1>1, <1>2, <1>3, <1>4, <1>5, <1>6, <1>7
     DEF Next, Execute, Guard, GuardianBreach, HeartbeatStale, PortConflict, vars,
         WrapperMoves, Refuse, StartRefused, StartProxy, StartProxyFails, SaveServer,
         WaitReady, NotReady, Pause, TopFails, SaveWorker, ForwardPause,
         WorkerExited, CheckRaises, Reap, PausedBeforeCase, BatchRejected,
         RecordFailure, RecordFails, CloseRaises, AllDone, AskToStop, Complete, LatchedAtTheEnd, Close, CloseFails,
         NothingToClose, RequestPause, Kill, GuardianServes, StopOrphanedProxy,
         KillProxy, Reboot, Leave, Goto

LEMMA CodeStep ==
    Typed /\ Known /\ CodeIsFresh /\ [Next]_vars => CodeIsFresh'
<1> SUFFICES ASSUME Typed, Known, CodeIsFresh, [Next]_vars,
                    pc' \in {"launched", "prepared", "guard", "owned", "ready", "top"}
             PROVE  mem'.code = "none"
  BY DEF CodeIsFresh
<1>1. CASE Launch
  BY <1>1 DEF Launch, NoMemory
<1>2. CASE BatchDone
  BY <1>2 DEF BatchDone, Typed, TypeOK, Memory
<1>3. CASE ~Launch /\ ~BatchDone
  <2>1. pc \in {"launched", "prepared", "guard", "owned", "ready", "top"}
    BY <1>3 DEF Next, Execute, Guard, Work, GuardianBreach, HeartbeatStale, PortConflict, vars,
         StartProxyFails, SaveWorkerFails, ReapFails, RecordFails, StopRaisesToFinish, CloseRaises,
         Refuse, Prepare, StartGuardian, StartRefused, StartProxy, SaveServer,
         WaitReady, NotReady, Pause, TopFails, StartBatch, SaveWorker, ForwardPause,
         WorkerExited, CheckRaises, Reap, ReapTimesOut, PausedBeforeCase, BatchRejected,
         RecordFailure, AllDone, AskToStop, CloseToFinish, CloseFailsToFinish,
         Complete, LatchedAtTheEnd, Close, CloseFails, NothingToClose, RequestPause, Kill,
         GuardianServes, GuardianStops, GuardianLatches, StopOrphanedProxy, KillRelay,
         KillProxy, KillWorker, Infer, WorkerRefuses, WorkerStarts, CheckpointCase,
         WorkerEnds, WorkerFails, WorkerUnchanged, Reboot, Leave, Goto
  <2>2. mem.code = "none" /\ ~Live(mem.worker)
    BY <2>1 DEF CodeIsFresh, Known, LeftAlive
  <2>3. ASSUME NEW w \in Workers, WrapperMoves(w) PROVE mem'.code = mem.code
    <3>1. Live(w)
      BY <2>3 DEF WrapperMoves, Work, WorkerRefuses, WorkerStarts, Infer, CheckpointCase,
                  WorkerEnds, WorkerFails, KillWorker, Live
    <3>2. mem' = mem \/ \E status \in ExitStatus : Exits(w, status)
      BY <2>3 DEF WrapperMoves, Work, WorkerRefuses, WorkerStarts, Infer, CheckpointCase,
                  WorkerEnds, WorkerFails, KillWorker, Becomes, ExitStatus
    <3> QED
      BY <2>2, <3>1, <3>2, ExitsKeep
  <2>4. ~StartBatch /\ ~ReapTimesOut /\ pc' # "off"
    BY <2>1 DEF StartBatch, ReapTimesOut, Goto
  <2> QED
    BY <1>3, <2>2, <2>3, <2>4, MemoryKept
<1> QED
  BY <1>1, <1>2, <1>3

\* What a step of any wrapper leaves of the batch under way.
LEMMA WrapperStep ==
    ASSUME Typed, Known, FilesInv, ToldIsPaused, InBatch, BatchGetsOn, [Next]_vars,
           NEW w \in Workers, WrapperMoves(w)
    PROVE  InBatch' /\ BatchGetsOn'
<1>1. /\ pc' = pc /\ pause' = pause /\ told' = told
      /\ Live(w) /\ worker[w].suite \in Suites /\ mem.child \in Suites
  BY DEF WrapperMoves, Work, WorkerRefuses, WorkerStarts, Infer, CheckpointCase,
         WorkerEnds, WorkerFails, KillWorker, WorkerUnchanged, files, Live, Typed,
         Engaged, InBatch
<1>2. \/ mem' = mem /\ \E stage : worker' = [worker EXCEPT ![w].stage = stage]
      \/ \E status \in ExitStatus : Exits(w, status)
  BY DEF WrapperMoves, Work, WorkerRefuses, WorkerStarts, Infer, CheckpointCase,
         WorkerEnds, WorkerFails, KillWorker, Becomes, ExitStatus
<1>3. /\ BatchKept
      /\ \A v \in Workers \ {w} : worker'[v] = worker[v]
      /\ w # mem.worker => mem'.code = mem.code
  BY <1>2, ExitsKeep DEF BatchKept, Typed, TypeOK
<1>4. /\ mem.before \in Nat /\ suite[mem.child].done \in Nat
      /\ suite'[mem.child].done >= suite[mem.child].done
      /\ suite'[mem.child].done \in Nat
      /\ suite[mem.child].report => suite'[mem.child].report
  BY <1>1, SuitesGrow, SuitesTyped DEF Typed, TypeOK, Memory, SuiteFiles
<1>5. GotOn => GotOn'
  BY <1>3, <1>4 DEF GotOn, BatchKept
<1>6. mem'.before <= suite'[mem'.child].done /\ mem'.before <= Cases[mem'.child]
  BY <1>3, <1>4 DEF BatchGetsOn, BatchKept
<1>7. CASE w # mem.worker
  <2>1. Live(mem.worker)' <=> Live(mem.worker)
    BY <1>3, <1>7 DEF Live, BatchKept
  <2>2. Live(mem.worker) => worker'[mem.worker] = worker[mem.worker]
    BY <1>3, <1>7 DEF Live
  <2> QED
    BY <1>1, <1>3, <1>5, <1>6, <1>7, <2>1, <2>2 DEF BatchGetsOn, BatchKept, InBatch
<1>8. CASE w = mem.worker
  <2> SUFFICES BatchGetsOn'
    BY <1>1 DEF InBatch
  <2>1. pc # "ended"
    BY <1>1, <1>8 DEF Known, LeftAlive
  <2>2. ASSUME NEW status \in ExitStatus, Exits(w, status), status = "ok" => (GotOn \/ pause)
        PROVE  BatchGetsOn'
    <3>1. ~Live(mem.worker)' /\ mem'.code = status
      BY <1>8, <2>2, ExitsKeep DEF Live, BatchKept, Gone
    <3> QED
      BY <1>1, <1>5, <1>6, <2>1, <2>2, <3>1 DEF BatchGetsOn
  <2>3. ASSUME NEW stage, worker' = [worker EXCEPT ![w].stage = stage], mem' = mem,
               stage = "cooling" => GotOn'
        PROVE  BatchGetsOn'
    <3>1. worker'[w].suite = worker[w].suite /\ worker'[w].stage = stage
      BY <1>1, <2>3 DEF Live, Typed, TypeOK, Worker
    <3> QED
      BY <1>1, <1>5, <1>6, <1>8, <2>1, <2>3, <3>1 DEF BatchGetsOn
  <2>4. CASE WorkerRefuses(w) \/ WorkerFails(w) \/ KillWorker(w)
    <3>1. Exits(w, "failed") /\ "failed" \in ExitStatus /\ "failed" # "ok"
      BY <2>4 DEF WorkerRefuses, WorkerFails, KillWorker, ExitStatus
    <3> QED
      BY <2>2, <3>1
  <2>5. CASE WorkerStarts(w)
    <3>1. worker[w].suite = mem.child
      BY <1>1, <1>8 DEF BatchGetsOn
    <3>2. told # {} => pause
      BY DEF ToldIsPaused
    <3>3. CASE worker[w].suite \in told
      <4>1. Exits(w, "ok") /\ "ok" \in ExitStatus /\ pause
        BY <2>5, <3>2, <3>3 DEF WorkerStarts, ExitStatus
      <4> QED
        BY <2>2, <4>1
    <3>4. CASE worker[w].suite \notin told
      <4>1. worker' = [worker EXCEPT ![w].stage = "infer"] /\ mem' = mem
        BY <2>5, <3>4 DEF WorkerStarts, Becomes
      <4>2. "infer" # "cooling"
        OBVIOUS
      <4> QED
        BY <2>3, <4>1, <4>2
    <3> QED
      BY <3>3, <3>4
  <2>6. CASE Infer(w)
    <3>1. worker' = [worker EXCEPT ![w].stage = "answered"] /\ mem' = mem
      BY <2>6 DEF Infer, Becomes
    <3>2. "answered" # "cooling"
      OBVIOUS
    <3> QED
      BY <2>3, <3>1, <3>2
  <2>7. CASE CheckpointCase(w)
    <3>1. PICK s \in Suites :
             /\ Touches(w, s)
             /\ suite'[s].done = IF suite[s].done < Cases[s] THEN suite[s].done + 1
                                                             ELSE suite[s].done
             /\ suite'[s].report = (suite[s].report \/ suite'[s].done = Cases[s])
      BY <2>7, CheckpointEffect
    <3>2. s = mem.child
      BY <1>1, <1>8, <3>1 DEF BatchGetsOn, Touches
    <3>3. Cases[s] \in Nat /\ suite[s].done <= Cases[s] /\ mem.before <= suite[s].done
      BY <3>2, SequenceConstants DEF FilesInv, BatchGetsOn
    <3>4. suite'[s].done > mem.before \/ (mem.before = Cases[s] /\ suite'[s].report)
      <4>1. suite[s].done \in Nat /\ mem.before \in Nat
        BY <1>4, <3>2
      <4>2. CASE suite[s].done < Cases[s]
        BY <3>1, <3>3, <4>1, <4>2
      <4>3. CASE suite[s].done = Cases[s]
        <5>1. suite'[s].done = Cases[s]
          BY <3>1, <3>3, <4>3
        <5>2. suite'[s].report
          BY <3>1, <5>1
        <5> QED
          BY <3>3, <4>1, <4>3, <5>1, <5>2
      <4> QED
        BY <3>3, <4>1, <4>2, <4>3
    <3>5. GotOn'
      BY <1>3, <3>2, <3>4 DEF GotOn, BatchKept
    <3> QED
      <4>1. worker' = [worker EXCEPT ![w].stage = "cooling"] /\ mem' = mem
        BY <2>7 DEF CheckpointCase, Becomes
      <4> QED
        BY <2>3, <3>5, <4>1
  <2>8. CASE WorkerEnds(w)
    <3>1. GotOn
      BY <1>1, <1>8, <2>8 DEF WorkerEnds, BatchGetsOn
    <3> QED
      <4>1. Exits(w, "ok") /\ "ok" \in ExitStatus
        BY <2>8 DEF WorkerEnds, ExitStatus
      <4> QED
        BY <2>2, <3>1, <4>1
  <2> QED
    BY <2>4, <2>5, <2>6, <2>7, <2>8, <1>1 DEF WrapperMoves, Work
<1> QED
  BY <1>7, <1>8

LEMMA BatchStep ==
    ASSUME Typed, Known, FilesInv, BatchInv, [Next]_vars, InBatch'
    PROVE  BatchGetsOn'
<1> USE DEF BatchInv
<1>1. mem \in Memory /\ \A s \in Suites : suite[s].done \in Nat /\ suite'[s].done \in Nat
                                         /\ suite[s].done <= Cases[s] /\ Cases[s] \in Nat
  BY SuitesTyped, SequenceConstants DEF Typed, TypeOK, SuiteFiles, FilesInv
<1>2. CASE StartBatch
  <2>1. NextChild \in Suites /\ mem.code = "none"
    BY <1>2 DEF StartBatch, NextChild, InOrder, Pending, CodeIsFresh
  <2>2. PICK w \in Workers :
           /\ worker' = [worker EXCEPT ![w] = [stage |-> "new",
                             suite |-> NextChild, pilot |-> WrapperPilot]]
           /\ mem' = [mem EXCEPT !.child = NextChild, !.worker = w,
                                 !.before = suite[NextChild].done]
    BY <1>2 DEF StartBatch, FreeWorkers
  <2>3. suite' = suite /\ pc' = "spawned"
    BY <1>2 DEF StartBatch, Goto
  <2> HIDE DEF NextChild
  <2>4. /\ mem'.child = NextChild /\ mem'.worker = w /\ mem'.code = mem.code
        /\ mem'.before = suite[NextChild].done
    BY <1>1, <2>2 DEF Memory
  <2>5. worker'[w].suite = NextChild /\ worker'[w].stage = "new"
    BY <2>2 DEF Typed, TypeOK
  <2> QED
    BY <1>1, <2>1, <2>3, <2>4, <2>5 DEF BatchGetsOn
<1>3. CASE \E w \in Workers : WrapperMoves(w)
  <2>1. pc' = pc
    BY <1>3 DEF WrapperMoves, Work, WorkerRefuses, WorkerStarts, Infer, CheckpointCase,
                WorkerEnds, WorkerFails, KillWorker, WorkerUnchanged
  <2>2. InBatch
    BY <2>1 DEF InBatch
  <2> QED
    BY <1>3, <2>2, WrapperStep
<1>4. CASE ~StartBatch /\ \A w \in Workers : ~WrapperMoves(w)
  <2>1. /\ InBatch
        /\ pc' = "ended" => pc = "ended" \/ mem.code = "ok"
        /\ pause => pause'
        /\ ~Launch /\ ~BatchDone /\ ~ReapTimesOut /\ pc' # "off"
    BY <1>4 DEF InBatch, Next, Execute, Guard, GuardianBreach, HeartbeatStale, PortConflict,
         vars, files, WrapperMoves, Launch,
         StartProxyFails, SaveWorkerFails, ReapFails, RecordFails, StopRaisesToFinish, CloseRaises,
         Refuse, Prepare, StartGuardian, StartRefused, StartProxy, SaveServer,
         WaitReady, NotReady, Pause, TopFails, SaveWorker, ForwardPause,
         WorkerExited, CheckRaises, Reap, ReapTimesOut, PausedBeforeCase, BatchRejected,
         BatchDone, RecordFailure, AllDone, AskToStop, CloseToFinish, CloseFailsToFinish,
         Complete, LatchedAtTheEnd, Close, CloseFails, NothingToClose, RequestPause, Kill,
         GuardianServes, GuardianStops, GuardianLatches, StopOrphanedProxy, KillRelay,
         KillProxy, Reboot, Leave, Goto
  <2>2. BatchKept /\ mem'.code = mem.code /\ worker' = worker
    BY <1>4, <2>1, MemoryKept
  <2>3. /\ mem.child \in Suites /\ mem.before \in Nat
        /\ suite'[mem.child].done >= suite[mem.child].done
        /\ suite[mem.child].report => suite'[mem.child].report
    BY <1>1, <2>1, SuitesGrow DEF Typed, Engaged, InBatch, Memory
  <2>4. GotOn => GotOn'
    BY <1>1, <2>2, <2>3 DEF GotOn, BatchKept
  <2>5. mem'.before <= suite'[mem'.child].done /\ mem'.before <= Cases[mem'.child]
    BY <1>1, <2>1, <2>2, <2>3 DEF BatchGetsOn, BatchKept
  <2>6. Live(mem.worker)' <=> Live(mem.worker)
    BY <2>2 DEF Live, BatchKept
  <2> QED
    BY <2>1, <2>2, <2>4, <2>5, <2>6 DEF BatchGetsOn, BatchKept
<1> QED
  BY <1>2, <1>3, <1>4

LEMMA BatchAlways == Spec => [](Typed /\ BatchInv)
<1>1. Init => BatchInv
  BY DEF Init, BatchInv, ToldIsPaused, CodeIsFresh, InBatch
<1>2. Typed /\ Known /\ FilesInv /\ BatchInv /\ [Next]_vars => BatchInv'
  BY ToldStep, CodeStep, BatchStep DEF BatchInv
<1>3. SequenceInv => Typed /\ Known
  BY DEF SequenceInv
<1> QED
  BY <1>1, <1>2, <1>3, Always, FilesAlways, PTL DEF Spec

\* Back to the head of the loop goes BatchDone alone; its check that the batch was
\* paused before a case leaves only batches that got on.
THEOREM AlwaysAdvances == Spec => SequenceAdvances
<1>1. ASSUME Typed, BatchInv, [Next]_vars, pc # "off", pc' # pc
      PROVE  \/ Position[pc'] > Position[pc]
             \/ pc = "ended" /\ pc' = "top" /\ GotOn
  <2>1. CASE BatchDone
    <3>1. /\ pc = "ended" /\ pc' = "top"
          /\ suite[mem.child].done # mem.before \/ ~pause
      BY <2>1 DEF BatchDone, NothingDone, Goto
    <3>2. mem.before <= suite[mem.child].done /\ (GotOn \/ pause)
      BY <1>1, <3>1 DEF BatchInv, InBatch, BatchGetsOn
    <3>3. mem.before \in Nat /\ suite[mem.child].done \in Nat
      BY <1>1, <3>1 DEF Typed, TypeOK, Engaged, Memory, SuiteFiles
    <3> QED
      BY <3>1, <3>2, <3>3 DEF GotOn
  <2>2. CASE ~BatchDone
    <3>1. \/ pc' = "off"
          \/ pc = "launched" /\ pc' = "prepared"
          \/ pc = "prepared" /\ pc' \in {"guard", "except", "final"}
          \/ pc = "guard" /\ pc' \in {"owned", "except"}
          \/ pc = "owned" /\ pc' = "ready"
          \/ pc = "ready" /\ pc' \in {"top", "except"}
          \/ pc = "top" /\ pc' \in {"spawned", "finishing", "except", "final"}
          \/ pc = "spawned" /\ pc' \in {"watch", "except"}
          \/ pc = "watch" /\ pc' \in {"reap", "ended", "except"}
          \/ pc = "reap" /\ pc' = "except"
          \/ pc = "ended" /\ pc' \in {"except", "final"}
          \/ pc = "finishing" /\ pc' \in {"finished", "except"}
          \/ pc = "finished" /\ pc' = "except"
          \/ pc = "except" /\ pc' = "final"
          \/ pc = "final" /\ pc' = "closing"
      <4>1. ASSUME \/ Refuse \/ Prepare \/ StartRefused \/ StartGuardian \/ StartProxy
                   \/ SaveServer \/ WaitReady \/ NotReady \/ Pause \/ TopFails
                   \/ StartBatch \/ SaveWorker \/ StartProxyFails \/ SaveWorkerFails
            PROVE  \/ pc' = "off"
                   \/ pc = "launched" /\ pc' = "prepared"
                   \/ pc = "prepared" /\ pc' \in {"guard", "except", "final"}
                   \/ pc = "guard" /\ pc' \in {"owned", "except"}
                   \/ pc = "owned" /\ pc' = "ready"
                   \/ pc = "ready" /\ pc' \in {"top", "except"}
                   \/ pc = "top" /\ pc' \in {"spawned", "except", "final"}
                   \/ pc = "spawned" /\ pc' \in {"watch", "except"}
        BY <4>1 DEF Refuse, Prepare, StartGuardian, StartRefused, StartProxy, SaveServer,
             WaitReady, NotReady, Pause, TopFails, StartBatch, SaveWorker,
             StartProxyFails, SaveWorkerFails, Leave, Goto
      <4>2. ASSUME \/ ForwardPause \/ WorkerExited \/ CheckRaises \/ Reap \/ ReapTimesOut
                   \/ ReapFails \/ PausedBeforeCase \/ BatchRejected
            PROVE  \/ pc = "watch" /\ pc' \in {"reap", "ended", "except"}
                   \/ pc = "reap" /\ pc' = "except"
                   \/ pc = "ended" /\ pc' \in {"except", "final"}
        BY <1>1, <4>2 DEF ForwardPause, WorkerExited, CheckRaises, Reap, ReapTimesOut,
             ReapFails, PausedBeforeCase, BatchRejected, Goto
      <4>3. ASSUME \/ RecordFailure \/ AllDone \/ AskToStop \/ CloseToFinish
                   \/ CloseFailsToFinish \/ Complete \/ LatchedAtTheEnd
                   \/ Close \/ CloseFails \/ NothingToClose
                   \/ RecordFails \/ StopRaisesToFinish \/ CloseRaises
            PROVE  \/ pc' = "off"
                   \/ pc = "top" /\ pc' = "finishing"
                   \/ pc = "finishing" /\ pc' \in {"finished", "except"}
                   \/ pc = "finished" /\ pc' = "except"
                   \/ pc = "except" /\ pc' = "final"
                   \/ pc = "final" /\ pc' = "closing"
        BY <4>3 DEF RecordFailure, AllDone, AskToStop, CloseToFinish, CloseFailsToFinish,
             Complete, LatchedAtTheEnd, Close, CloseFails, NothingToClose,
             RecordFails, StopRaisesToFinish, CloseRaises, Leave, Goto
      <4>4. Execute \/ pc' = "off"
        BY <1>1 DEF Next, Guard, Work, GuardianBreach, HeartbeatStale, PortConflict, vars,
             Launch, RequestPause, Kill, GuardianServes, GuardianStops, GuardianLatches,
             StopOrphanedProxy, KillRelay, KillProxy, KillWorker, Infer, WorkerRefuses,
             WorkerStarts, CheckpointCase, WorkerEnds, WorkerFails, WorkerUnchanged,
             Reboot, Leave, Goto
      <4> QED
        BY <2>2, <4>1, <4>2, <4>3, <4>4 DEF Execute
    <3>2. pc \in Pc /\ pc # "off"
      BY <1>1 DEF Typed, TypeOK
    <3>3. /\ Position["launched"] = 1 /\ Position["prepared"] = 2
          /\ Position["guard"] = 3 /\ Position["owned"] = 4
          /\ Position["ready"] = 5 /\ Position["top"] = 6
          /\ Position["spawned"] = 7 /\ Position["watch"] = 8
          /\ Position["reap"] = 9 /\ Position["ended"] = 10
          /\ Position["finishing"] = 11 /\ Position["finished"] = 12
          /\ Position["except"] = 13 /\ Position["final"] = 14
          /\ Position["closing"] = 15 /\ Position["off"] = 16
      BY DEF Position
    <3> QED
      BY <3>1, <3>2, <3>3 DEF Pc
  <2> QED
    BY <2>1, <2>2
<1>2. Typed /\ BatchInv /\ [Next]_vars =>
        [pc # "off" /\ pc' # pc =>
           \/ Position[pc'] > Position[pc]
           \/ pc = "ended" /\ pc' = "top" /\ GotOn]_vars
  BY <1>1
<1> QED
  BY <1>2, BatchAlways, PTL DEF Spec, SequenceAdvances
=============================================================================
