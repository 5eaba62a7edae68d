--------------------------- MODULE ResourceWatch ---------------------------
(***************************************************************************)
(* One workload under observation: the GPU sensor stream and its reader    *)
(* thread (gpu_monitor.py), the memory RPC to the Windows host             *)
(* (windows_monitor.py), and the loop that judges their samples and stops  *)
(* the workload, of a batch (resource_guard.py, _guarded_process) or of a  *)
(* local model server (scripts/serve_ollama_guarded.py).                   *)
(*                                                                         *)
(* Time passes in ticks.  Sensors may be late, silent, malformed or dead;  *)
(* the host's helper may send an old frame again.                          *)
(***************************************************************************)
EXTENDS Naturals

CONSTANTS Fresh,     \* FRESH_SECONDS, in ticks
          Response,  \* RESPONSE_TIMEOUT_SECONDS
          Startup,   \* STARTUP_SECONDS, STARTUP_TIMEOUT_SECONDS
          Nothing    \* a value that is not there

ASSUME WatchConstants ==
    /\ Fresh \in Nat \ {0}
    /\ Response \in Nat \ {0}
    /\ Startup \in Nat \ {0}
    /\ Nothing \notin {"safe", "unsafe"} \cup Nat

VARIABLES
    gpu,       \* the sensor process and its reader thread
    host,      \* the helper process and its reader thread
    guard,     \* the loop that watches
    workload,  \* "none", "up", "leaderless" (its first process exited) or "gone"
    latch,     \* the resource-stop file
    history    \* what has been measured so far; no step reads it

vars == <<gpu, host, guard, workload, latch, history>>

-----------------------------------------------------------------------------
(* State *)

Level == {"safe", "unsafe"}

Worse(a, b) == IF "unsafe" \in {a, b} THEN "unsafe" ELSE "safe"

\* A frame in the reader's hands: its value, how old its timestamp is, and how
\* far that was after the timestamp of the frame before.
InHand == [value : Level, age : 0..(Fresh + 1), gap : 0..(Fresh + 1)]

Kind == {"batch", "server"}

Gpu == [process : {"off", "up", "dead"}, reading : BOOLEAN,
        hand : InHand \cup {Nothing}, age : 0..(Fresh + 1) \cup {Nothing},
        pending : Level \cup {Nothing}, error : BOOLEAN]

\* A reply carries the id of the request it answers, the current or an old one.
Reply == [id : {"own", "old"}, value : Level]

ASSUME NothingIsNoFrame == Nothing \notin InHand \cup Reply

Host == [process : {"absent", "off", "up", "dead"}, ready : BOOLEAN,
         asked : BOOLEAN, last : Reply \cup {Nothing}, pending : BOOLEAN,
         latest : Level \cup {Nothing}, error : BOOLEAN]

Init ==
    /\ gpu = [process |-> "off", reading |-> FALSE, hand |-> Nothing, age |-> Nothing,
              pending |-> Nothing, error |-> FALSE]
    /\ host \in [process : {"absent", "off"}, ready : {FALSE}, asked : {FALSE},
                 last : {Nothing}, pending : {FALSE}, latest : {Nothing},
                 error : {FALSE}]
    /\ guard \in [kind : Kind, at : {"startHost"}, phase : {"preflight"},
                  waited : {0}, sample : {"safe"}, breach : {FALSE},
                  cleanup : {FALSE}, status : {"none"}]
    /\ workload = "none"
    /\ latch = FALSE
    /\ history = [unsafe |-> FALSE, silent |-> FALSE]

-----------------------------------------------------------------------------
(* The GPU stream *)

At(where) == guard.at = where

\* Up to the last time the guard takes what the stream has.
Watching == guard.phase # "over" /\ (guard.phase = "final" => At("gpu"))

SensorDies ==
    /\ gpu.process = "up"
    /\ gpu' = [gpu EXCEPT !.process = "dead"]
    /\ UNCHANGED <<host, guard, workload, latch, history>>

ReaderFails == gpu' = [gpu EXCEPT !.hand = Nothing, !.reading = FALSE, !.error = TRUE]

\* The next line of the pipe, parsed, and the time: nvidia-smi writes one every
\* 200 ms, in principle.  Nobody looks at those of a watch that is over.
ReadFrame ==
    /\ gpu.reading
    /\ gpu.hand = Nothing
    /\ guard.phase # "over"
    /\ \E value \in Level : gpu' = [gpu EXCEPT !.hand =
           [value |-> value, age |-> 0, gap |-> IF gpu.age = Nothing THEN 0 ELSE gpu.age]]
    /\ UNCHANGED <<host, guard, workload, latch, history>>

\* "GPU sensor malformed", or the stream's end.
ReadFails ==
    /\ gpu.reading
    /\ gpu.hand = Nothing
    /\ ReaderFails
    /\ UNCHANGED <<host, guard, workload, latch, history>>

\* Mutant: the latest frame replaces what the guard has not taken yet.
Latest(pending, value) == value

\* "A safe later frame must not erase an intermediate unsafe observation."
Merged(pending, value) == IF pending = Nothing THEN value ELSE Worse(pending, value)

\* Mutant: frames that come too late are taken like all others.
GapAllowed(gap) == TRUE

InTime(gap) == gap <= Fresh

AcceptFrame ==
    /\ gpu.hand # Nothing
    /\ InTime(gpu.hand.gap)
    /\ gpu' = [gpu EXCEPT !.hand = Nothing, !.age = gpu.hand.age,
                          !.pending = Merged(@, gpu.hand.value)]
    /\ history' = [history EXCEPT !.unsafe =
           @ \/ (Watching /\ gpu.hand.value = "unsafe")]
    /\ UNCHANGED <<host, guard, workload, latch>>

\* "GPU stream sampling gap exceeded 0.5 seconds"
GapFails ==
    /\ gpu.hand # Nothing
    /\ ~InTime(gpu.hand.gap)
    /\ ReaderFails
    /\ UNCHANGED <<host, guard, workload, latch, history>>

-----------------------------------------------------------------------------
(* The memory RPC *)

HostReady ==
    /\ host.process = "up"
    /\ ~host.ready
    /\ host' = [host EXCEPT !.ready = TRUE]
    /\ UNCHANGED <<gpu, guard, workload, latch, history>>

\* "Unsolicited, replayed or mismatched Windows sample", "response is stale"
Expected(reply) == host.pending /\ reply.id = "own" /\ guard.waited <= Response

Accepted(reply) == IF Expected(reply)
                   THEN [host EXCEPT !.pending = FALSE, !.latest = reply.value]
                   ELSE [host EXCEPT !.error = TRUE]

\* The helper measures and replies to the request it reads.
Answer ==
    /\ host.process = "up"
    /\ ~host.error
    /\ host.asked
    /\ \E value \in Level : LET reply == [id |-> "own", value |-> value] IN
         /\ host' = [Accepted(reply) EXCEPT !.asked = FALSE, !.last = reply]
         /\ history' = [history EXCEPT !.unsafe =
                @ \/ (At("ram") /\ gpu.process # "off" /\ value = "unsafe")]
    /\ UNCHANGED <<gpu, guard, workload, latch>>

\* A frame is delivered twice.
Replay ==
    /\ host.process = "up"
    /\ ~host.error
    /\ guard.phase # "over"
    /\ host.last # Nothing
    /\ host' = Accepted(host.last)
    /\ UNCHANGED <<gpu, guard, workload, latch, history>>

HelperDies ==
    /\ host.process = "up"
    /\ host' = [host EXCEPT !.process = "dead"]
    /\ UNCHANGED <<gpu, guard, workload, latch, history>>

\* stdout closes, or a frame of another protocol.
HostStreamEnds ==
    /\ host.process \in {"up", "dead"}
    /\ ~host.error
    /\ host' = [host EXCEPT !.error = TRUE]
    /\ UNCHANGED <<gpu, guard, workload, latch, history>>

-----------------------------------------------------------------------------
(* The guard *)

Go(where)   == guard' = [guard EXCEPT !.at = where, !.waited = 0]
MonitorFails == guard' = [guard EXCEPT !.at = "stop", !.phase = "over", !.breach = TRUE]

HostAlive == host.process = "up" /\ ~host.error
GpuAlive  == gpu.process = "up" /\ ~gpu.error

\* WindowsHostMonitor.__enter__(), which may fail to start its process.
StartHost ==
    /\ At("startHost")
    /\ \/ host.process = "absent" /\ Go("startGpu") /\ UNCHANGED host
       \/ /\ host.process = "off"
          /\ host' = [host EXCEPT !.process = "up"]
          /\ Go("awaitHost")
       \/ host.process = "off" /\ MonitorFails /\ UNCHANGED host
    /\ UNCHANGED <<gpu, workload, latch, history>>

AwaitHost ==
    /\ At("awaitHost")
    /\ \/ host.ready /\ Go("ask")
       \/ ~HostAlive /\ MonitorFails
       \/ guard.waited >= Startup /\ MonitorFails
    /\ UNCHANGED <<gpu, host, workload, latch, history>>

\* GpuMonitor.__enter__()
StartGpu ==
    /\ At("startGpu")
    /\ \/ /\ gpu' = [gpu EXCEPT !.process = "up", !.reading = TRUE]
          /\ Go("awaitGpu")
       \/ MonitorFails /\ UNCHANGED gpu
    /\ UNCHANGED <<host, workload, latch, history>>

AwaitGpu ==
    /\ At("awaitGpu")
    /\ \/ GpuAlive /\ gpu.pending # Nothing /\ Go("gpu")
       \/ ~GpuAlive /\ MonitorFails
       \/ guard.waited >= Startup /\ MonitorFails
    /\ UNCHANGED <<gpu, host, workload, latch, history>>

\* GpuMonitor.sample(): a stale, dead, failed or silent stream is a failure.
GpuStale == gpu.age # Nothing /\ gpu.age > Fresh

\* With what /proc/meminfo says.
TakeGpu ==
    /\ At("gpu")
    /\ GpuAlive /\ ~GpuStale /\ gpu.pending # Nothing
    /\ gpu' = [gpu EXCEPT !.pending = Nothing]
    /\ \E local \in Level : guard' =
           [guard EXCEPT !.sample = Worse(local, gpu.pending), !.waited = 0,
                         !.at = IF host.process = "absent" THEN "judge" ELSE "ask"]
    /\ UNCHANGED <<host, workload, latch, history>>

GpuFails ==
    /\ At("gpu")
    /\ ~GpuAlive \/ GpuStale \/ (gpu.pending = Nothing /\ guard.waited >= Fresh)
    /\ gpu' = [gpu EXCEPT !.error = TRUE]
    /\ MonitorFails
    /\ UNCHANGED <<host, workload, latch, history>>

\* WindowsHostMonitor.sample(): a new id, so all replies so far are old.
Old(reply) == [reply EXCEPT !.id = "old"]

Ask ==
    /\ At("ask")
    /\ HostAlive /\ host.ready
    /\ host' = [host EXCEPT !.asked = TRUE, !.pending = TRUE, !.latest = Nothing,
                            !.last = IF @ = Nothing THEN @ ELSE Old(@)]
    /\ Go("ram")
    /\ UNCHANGED <<gpu, workload, latch, history>>

AskFails ==
    /\ At("ask")
    /\ ~HostAlive \/ ~host.ready
    /\ MonitorFails
    /\ UNCHANGED <<gpu, host, workload, latch, history>>

\* The first answer only shows that the helper works.
TakeRam ==
    /\ At("ram")
    /\ HostAlive /\ host.latest # Nothing /\ guard.waited <= Response
    /\ guard' = [guard EXCEPT !.waited = 0,
                              !.at = IF gpu.process = "off" THEN "startGpu" ELSE "judge",
                              !.sample = IF gpu.process = "off" THEN @
                                         ELSE Worse(@, host.latest)]
    /\ UNCHANGED <<gpu, host, workload, latch, history>>

\* Mutant: the sample waits for its answer however long it takes.
RamFailsWhenDead ==
    /\ At("ram")
    /\ ~HostAlive
    /\ host' = [host EXCEPT !.error = TRUE]
    /\ MonitorFails
    /\ UNCHANGED <<gpu, workload, latch, history>>

\* A dead stream, an answer delivered late, or none in time.
RamFails ==
    /\ At("ram")
    /\ \/ ~HostAlive
       \/ host.latest # Nothing /\ guard.waited > Response
       \/ host.latest = Nothing /\ guard.waited >= Response
    /\ host' = [host EXCEPT !.error = TRUE]
    /\ MonitorFails
    /\ UNCHANGED <<gpu, workload, latch, history>>

\* unsafe_reason(), of whichever phase.
Judge ==
    /\ At("judge")
    /\ IF guard.sample = "unsafe" THEN MonitorFails
       ELSE CASE guard.phase = "preflight" -> Go("spawn")
              [] guard.phase = "running"   -> Go("poll")
              [] guard.phase = "final"     ->
                   guard' = [guard EXCEPT !.at = "stop", !.phase = "over"]
    /\ UNCHANGED <<gpu, host, workload, latch, history>>

Spawn ==
    /\ At("spawn")
    /\ workload' = "up"
    /\ guard' = [guard EXCEPT !.at = "poll", !.phase = "running"]
    /\ UNCHANGED <<gpu, host, latch, history>>

\* The loop's head.  A batch is observed once more after its first process has
\* exited; a server is not.
Poll ==
    /\ At("poll")
    /\ IF workload = "up" THEN Go("gpu")
       ELSE guard' = [guard EXCEPT !.waited = 0,
                !.phase = IF guard.kind = "batch" THEN "final" ELSE "over",
                !.at = IF guard.kind = "batch" THEN "gpu" ELSE "stop"]
    /\ UNCHANGED <<gpu, host, workload, latch, history>>

\* Ctrl-C stops a server.
Interrupt ==
    /\ guard.kind = "server"
    /\ guard.phase = "running"
    /\ guard' = [guard EXCEPT !.at = "stop", !.phase = "over"]
    /\ UNCHANGED <<gpu, host, workload, latch, history>>

-----------------------------------------------------------------------------
(* Cleanup *)

\* A batch's whole process group is stopped and the models are unloaded.  Of a
\* server whose first process has exited, nothing is stopped.
Stopped == IF guard.kind = "server" /\ workload = "leaderless" THEN workload
           ELSE IF workload = "none" THEN workload ELSE "gone"

Fails == guard' = [guard EXCEPT !.cleanup = TRUE,
                      !.at = IF guard.kind = "batch" THEN "closeHost" ELSE "record"]

StopWorkload ==
    /\ At("stop")
    /\ \/ /\ workload' = Stopped
          /\ Go(IF guard.kind = "batch" THEN "closeHost" ELSE "record")
       \/ /\ guard.kind = "batch" \/ workload = "up"
          /\ workload' \in {workload, Stopped}
          /\ Fails
    /\ UNCHANGED <<gpu, host, latch, history>>

\* A helper that will not die is a cleanup error; a server's is not recorded.
CloseHost ==
    /\ At("closeHost")
    /\ LET next == IF guard.kind = "batch" THEN "closeGpu" ELSE "done" IN
       \/ /\ host' = [host EXCEPT !.process = IF @ = "up" THEN "dead" ELSE @]
          /\ Go(next)
       \/ /\ host.process = "up"
          /\ guard' = [guard EXCEPT !.at = next, !.cleanup = TRUE,
                                    !.status = "failed"]
          /\ UNCHANGED host
    /\ UNCHANGED <<gpu, workload, latch, history>>

CloseGpu ==
    /\ At("closeGpu")
    /\ LET next == IF guard.kind = "batch" THEN "record" ELSE "closeHost" IN
       \/ /\ gpu' = [gpu EXCEPT !.process = IF @ = "up" THEN "dead" ELSE @,
                                !.reading = FALSE, !.hand = Nothing]
          /\ Go(next)
       \/ /\ gpu.process # "off"
          /\ gpu' \in {gpu, [gpu EXCEPT !.process = "dead"]}
          /\ guard' = [guard EXCEPT !.at = next, !.cleanup = TRUE,
                                    !.status = "failed"]
    /\ UNCHANGED <<host, workload, latch, history>>

\* Mutant: what fails while cleaning up is reported and forgotten.
LatchesBreach == guard.breach

\* A breach or a failing cleanup latches.  A server that was refused its start
\* does not.
Latches == IF guard.kind = "batch" THEN guard.breach \/ guard.cleanup
           ELSE workload # "none" /\ (guard.breach \/ guard.cleanup)

Record ==
    /\ At("record")
    /\ latch' = Latches
    /\ \E exit \in {"ok", "failed"} :
         guard' = [guard EXCEPT
             !.status = IF guard.breach \/ guard.cleanup THEN "failed" ELSE exit,
             !.at = IF guard.kind = "batch" THEN "done" ELSE "closeGpu"]
    /\ UNCHANGED <<gpu, host, workload, history>>

-----------------------------------------------------------------------------
(* The specification *)

\* The workload's first process exits, or with it the whole of it.
WorkloadExits ==
    /\ workload = "up"
    /\ workload' \in {"leaderless", "gone"}
    /\ UNCHANGED <<gpu, host, guard, latch, history>>

Later(age) == IF age = Nothing THEN age ELSE IF age > Fresh THEN age ELSE age + 1

Older(hand) == IF hand = Nothing THEN hand ELSE [hand EXCEPT !.age = Later(@)]

\* How long ago the last frame was stamped, accepted or not.
Silence == IF gpu.hand # Nothing THEN gpu.hand.age ELSE gpu.age

Waiting == guard.at \in {"awaitHost", "awaitGpu", "gpu", "ram"}

Tick ==
    /\ guard.phase # "over"
    /\ gpu' = [gpu EXCEPT !.age = Later(@), !.hand = Older(@)]
    /\ guard' = [guard EXCEPT !.waited =
                   IF ~Waiting \/ (@ > Response /\ @ > Startup) THEN @ ELSE @ + 1]
    /\ history' = [history EXCEPT !.silent = @ \/
           (Watching /\ Silence # Nothing /\ Later(Silence) > Fresh)]
    /\ UNCHANGED <<host, workload, latch>>

Stream == SensorDies \/ ReadFrame \/ ReadFails \/ AcceptFrame \/ GapFails

Rpc == HostReady \/ Answer \/ Replay \/ HelperDies \/ HostStreamEnds

Guard ==
    \/ StartHost \/ AwaitHost \/ StartGpu \/ AwaitGpu \/ TakeGpu \/ GpuFails
    \/ Ask \/ AskFails \/ TakeRam \/ RamFails \/ Judge \/ Spawn \/ Poll
    \/ StopWorkload \/ CloseHost \/ CloseGpu \/ Record

Next == Stream \/ Rpc \/ Guard \/ Interrupt \/ WorkloadExits \/ Tick

Spec == Init /\ [][Next]_vars

\* The guard's process is scheduled, time passes and a workload ends (its own
\* deadline); nothing is assumed of the sensors and of their reader threads.
FairSpec == Spec /\ WF_vars(Guard) /\ WF_vars(Tick) /\ WF_vars(WorkloadExits)

-----------------------------------------------------------------------------
(* Properties *)

TypeOK ==
    /\ gpu \in Gpu
    /\ host \in Host
    /\ guard.at \in {"startHost", "awaitHost", "startGpu", "awaitGpu", "gpu",
                     "ask", "ram", "judge", "spawn", "poll", "stop",
                     "closeHost", "closeGpu", "record", "done"}
    /\ guard.phase \in {"preflight", "running", "final", "over"}
    /\ workload \in {"none", "up", "leaderless", "gone"}

BatchSucceeded == guard.kind = "batch" /\ At("done") /\ guard.status = "ok"

\* "Retain every observed peak until the guard consumes it": a batch is not
\* successful when an unsafe GPU frame was received before the guard took the
\* last one, or the host measured unsafe memory for one of its requests,
\* whatever came in between, late, twice or out of turn.
BreachesAreJudged == BatchSucceeded => ~history.unsafe

\* Nor when the stream was silent for longer than FRESH_SECONDS meanwhile, even
\* when the guard was waiting for something else and frames came again.
SilenceIsNoticed == BatchSucceeded => ~history.silent

\* When a guard has ended, a breach or failing monitor under which a workload ran
\* is latched, and nothing a batch started is left running unless it is latched.
NothingIsLeft ==
    At("done") =>
        /\ guard.breach /\ workload # "none" => latch
        /\ guard.kind = "batch" /\ ~latch =>
             /\ workload \in {"none", "gone"}
             /\ gpu.process # "up"
             /\ host.process # "up"

\* The guard always ends, also when a sensor hangs, its reader thread is stuck
\* or the helper never answers.
EveryWatchEnds == <>At("done")
=============================================================================
