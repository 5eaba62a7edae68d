------------------------- MODULE ResourceWatch_proofs -------------------------
(***************************************************************************)
(* Theorems about ResourceWatch, for every value of the deadlines: what a  *)
(* guard may not have missed when its batch is successful, and what is     *)
(* left when it has ended.                                                 *)
(***************************************************************************)
EXTENDS ResourceWatch, TLAPS

-----------------------------------------------------------------------------
(* The inductive invariant *)

\* Where the guard observes, and where it cleans up.
Stages == {"stop", "closeHost", "closeGpu", "record", "done"}
Places == {"startHost", "awaitHost", "startGpu", "awaitGpu", "gpu", "ask", "ram",
           "judge", "spawn", "poll"} \cup Stages

GuardState == [kind : Kind, at : Places,
               phase : {"preflight", "running", "final", "over"}, waited : Nat,
               sample : Level, breach : BOOLEAN, cleanup : BOOLEAN,
               status : {"none", "ok", "failed"}]

Typed ==
    /\ gpu \in Gpu
    /\ host \in Host
    /\ guard \in GuardState
    /\ workload \in {"none", "up", "leaderless", "gone"}
    /\ latch \in BOOLEAN
    /\ history \in [unsafe : BOOLEAN, silent : BOOLEAN]

\* The order of a watch: what has been started where, and in which phase.
Ordered ==
    /\ guard.phase = "over" <=> guard.at \in Stages
    /\ guard.phase = "final" => guard.at \in {"gpu", "ask", "ram", "judge"}
    /\ guard.at \in {"startHost", "awaitHost", "startGpu"} => gpu.process = "off"
    /\ guard.at \in {"gpu", "judge", "spawn", "poll"} => gpu.process # "off"
    /\ gpu.process = "off" =>
           /\ guard.phase \in {"preflight", "over"}
           /\ ~gpu.reading
           /\ gpu.hand = Nothing /\ gpu.age = Nothing /\ gpu.pending = Nothing
           /\ ~history.unsafe /\ ~history.silent

\* A frame in hand is younger than the one before it, and was read after the
\* gap it has been given.
Framed ==
    /\ gpu.age = Nothing => gpu.pending = Nothing
    /\ gpu.hand # Nothing =>
           /\ gpu.age # Nothing => gpu.hand.age <= gpu.age
           /\ gpu.hand.gap > Fresh => gpu.age # Nothing /\ gpu.age > Fresh
    /\ host.pending => host.latest = Nothing

\* The stream has failed, or will be found stale or too late.
Overdue ==
    \/ gpu.error
    \/ gpu.hand = Nothing /\ gpu.age # Nothing /\ gpu.age > Fresh
    \/ gpu.hand # Nothing /\ (gpu.hand.age > Fresh \/ gpu.hand.gap > Fresh)

\* A silence that a batch's guard has not acted on is one it will yet find.
SilenceKept ==
    guard.kind = "batch" /\ history.silent =>
        guard.breach \/ (Watching /\ Overdue)

\* So is an unsafe value, wherever it is on its way to unsafe_reason().
UnsafeKept ==
    guard.kind = "batch" /\ history.unsafe =>
        \/ guard.breach
        \/ Watching /\ gpu.pending = "unsafe"
        \/ guard.at \in {"ask", "ram", "judge"} /\ guard.sample = "unsafe"
        \/ At("ram") /\ (host.latest = "unsafe" \/ host.error)

\* What each stage of the cleanup has achieved.
CleanedUp ==
    /\ guard.kind = "batch" /\ ~guard.cleanup =>
           /\ guard.at \in Stages \ {"stop"} => workload \in {"none", "gone"}
           /\ guard.at \in Stages \ {"stop", "closeHost"} => host.process # "up"
           /\ guard.at \in {"record", "done"} => gpu.process # "up"
    /\ guard.kind = "batch" /\ At("done") =>
           /\ guard.breach \/ guard.cleanup => latch
           /\ guard.status = "ok" => ~guard.breach
    /\ guard.kind = "server" /\ guard.at \in {"closeGpu", "closeHost", "done"} =>
           (guard.breach /\ workload # "none" => latch)

WatchInv == Typed /\ Ordered /\ Framed /\ SilenceKept /\ UnsafeKept /\ CleanedUp

-----------------------------------------------------------------------------
(* What the guard's steps do to it *)

\* The guard is at another place, in a phase, and has a breach or not.
Moved(where, phase, breach) ==
    /\ guard' \in GuardState
    /\ guard'.at = where /\ guard'.phase = phase /\ guard'.breach = breach
    /\ guard'.kind = guard.kind /\ guard'.sample = guard.sample
    /\ guard'.cleanup = guard.cleanup /\ guard'.status = guard.status

Moves(where) == Moved(where, guard.phase, guard.breach)

\* One of its cleanups has failed, and a status is set.
Faltered(where, status) ==
    /\ guard' \in GuardState
    /\ guard'.at = where /\ guard'.cleanup = TRUE /\ guard'.status = status
    /\ guard'.phase = guard.phase /\ guard'.breach = guard.breach
    /\ guard'.kind = guard.kind /\ guard'.sample = guard.sample

LEMMA GoMoves ==
    ASSUME Typed, NEW where \in Places, Go(where)
    PROVE  Moves(where)
  BY DEF Typed, GuardState, Go, Moves, Moved

LEMMA MonitorMoves ==
    ASSUME Typed, MonitorFails
    PROVE  Moved("stop", "over", TRUE)
  BY DEF Typed, GuardState, MonitorFails, Moved, Places, Stages

LEMMA Falters ==
    ASSUME Typed, NEW where \in Places, NEW status \in {"none", "ok", "failed"},
           guard' = [guard EXCEPT !.at = where, !.cleanup = TRUE, !.status = status]
    PROVE  Faltered(where, status)
  BY DEF Typed, GuardState, Faltered

LEMMA StartHostEffect ==
    ASSUME Typed, StartHost
    PROVE  /\ At("startHost")
           /\ gpu' = gpu /\ workload' = workload /\ latch' = latch /\ history' = history
           /\ \/ Moves("startGpu") /\ host' = host
              \/ Moves("awaitHost") /\ host' = [host EXCEPT !.process = "up"]
              \/ Moved("stop", "over", TRUE) /\ host' = host
  BY GoMoves, MonitorMoves DEF StartHost, Places

LEMMA AwaitHostEffect ==
    ASSUME Typed, AwaitHost
    PROVE  /\ At("awaitHost")
           /\ UNCHANGED <<gpu, host, workload, latch, history>>
           /\ Moves("ask") \/ Moved("stop", "over", TRUE)
  BY GoMoves, MonitorMoves DEF AwaitHost, Places

\* What the reader thread and its sample deal with stays.
SameFrames == /\ gpu'.hand = gpu.hand /\ gpu'.age = gpu.age
              /\ gpu'.pending = gpu.pending /\ gpu'.error = gpu.error

LEMMA SensorStarted ==
    ASSUME Typed, gpu' = [gpu EXCEPT !.process = "up", !.reading = TRUE]
    PROVE  gpu' \in Gpu /\ gpu'.process = "up" /\ SameFrames
  BY DEF Typed, Gpu, SameFrames

LEMMA StartGpuEffect ==
    ASSUME Typed, StartGpu
    PROVE  /\ At("startGpu")
           /\ UNCHANGED <<host, workload, latch, history>>
           /\ \/ Moves("awaitGpu") /\ gpu' \in Gpu /\ gpu'.process = "up" /\ SameFrames
              \/ Moved("stop", "over", TRUE) /\ gpu' = gpu
  BY GoMoves, MonitorMoves, SensorStarted DEF StartGpu, Places

LEMMA AwaitGpuEffect ==
    ASSUME Typed, AwaitGpu
    PROVE  /\ At("awaitGpu")
           /\ UNCHANGED <<gpu, host, workload, latch, history>>
           /\ \/ Moves("gpu") /\ gpu.process = "up"
              \/ Moved("stop", "over", TRUE)
  BY GoMoves, MonitorMoves DEF AwaitGpu, GpuAlive, Places

LEMMA JudgeEffect ==
    ASSUME Typed, Ordered, Judge
    PROVE  /\ At("judge")
           /\ UNCHANGED <<gpu, host, workload, latch, history>>
           /\ \/ Moved("stop", "over", TRUE)
              \/ /\ guard.sample = "safe"
                 /\ \/ guard.phase = "preflight" /\ Moves("spawn")
                    \/ guard.phase = "running" /\ Moves("poll")
                    \/ guard.phase = "final" /\ Moved("stop", "over", guard.breach)
<1> USE DEF Typed, GuardState, Level
<1>1. CASE guard.sample = "unsafe"
  BY <1>1, MonitorMoves DEF Judge
<1>2. CASE guard.sample = "safe" /\ guard.phase = "preflight"
  BY <1>2, GoMoves DEF Judge, Places
<1>3. CASE guard.sample = "safe" /\ guard.phase = "running"
  BY <1>3, GoMoves DEF Judge, Places
<1>4. CASE guard.sample = "safe" /\ guard.phase = "final"
  <2>1. guard' = [guard EXCEPT !.at = "stop", !.phase = "over"]
    BY <1>4 DEF Judge
  <2> QED
    BY <1>4, <2>1 DEF Judge, Moved, Places, Stages
<1>5. guard.phase # "over"
  BY DEF Judge, Ordered, At, Stages
<1> QED
  BY <1>1, <1>2, <1>3, <1>4, <1>5

LEMMA PollEffect ==
    ASSUME Typed, Poll
    PROVE  /\ At("poll")
           /\ UNCHANGED <<gpu, host, workload, latch, history>>
           /\ \/ Moves("gpu")
              \/ guard.kind = "batch" /\ Moved("gpu", "final", guard.breach)
              \/ guard.kind = "server" /\ Moved("stop", "over", guard.breach)
<1> USE DEF Typed, GuardState, Kind, Places, Stages
<1>1. CASE workload = "up"
  BY <1>1, GoMoves DEF Poll
<1>2. CASE workload # "up" /\ guard.kind = "batch"
  <2>1. guard' = [guard EXCEPT !.waited = 0, !.phase = "final", !.at = "gpu"]
    BY <1>2 DEF Poll
  <2> QED
    BY <1>2, <2>1 DEF Poll, Moved
<1>3. CASE workload # "up" /\ guard.kind = "server"
  <2>1. guard' = [guard EXCEPT !.waited = 0, !.phase = "over", !.at = "stop"]
    BY <1>3 DEF Poll
  <2> QED
    BY <1>3, <2>1 DEF Poll, Moved
<1> QED
  BY <1>1, <1>2, <1>3

LEMMA StopEffect ==
    ASSUME Typed, StopWorkload
    PROVE  /\ At("stop")
           /\ UNCHANGED <<gpu, host, latch, history>>
           /\ workload' \in {"none", "up", "leaderless", "gone"}
           /\ \/ /\ guard.kind = "batch" /\ Moves("closeHost")
                 /\ workload' \in {"none", "gone"}
              \/ guard.kind = "server" /\ Moves("record")
              \/ guard.kind = "batch" /\ Faltered("closeHost", guard.status)
              \/ guard.kind = "server" /\ Faltered("record", guard.status)
<1> USE DEF Typed, GuardState, Kind, Places, Stages
<1>1. /\ At("stop") /\ UNCHANGED <<gpu, host, latch, history>>
      /\ workload' \in {"none", "up", "leaderless", "gone"}
  BY DEF StopWorkload, Stopped
<1>2. CASE workload' = Stopped /\ Go(IF guard.kind = "batch" THEN "closeHost" ELSE "record")
  <2>1. CASE guard.kind = "batch"
    <3>1. Go("closeHost")
      BY <1>2, <2>1
    <3> QED
      BY <1>1, <1>2, <2>1, <3>1, GoMoves DEF Stopped
  <2>2. CASE guard.kind = "server"
    <3>1. Go("record")
      BY <1>2, <2>2
    <3> QED
      BY <1>1, <2>2, <3>1, GoMoves
  <2> QED
    BY <2>1, <2>2
<1>3. CASE Fails
  <2>1. CASE guard.kind = "batch"
    BY <1>1, <1>3, <2>1 DEF Fails, Faltered
  <2>2. CASE guard.kind = "server"
    BY <1>1, <1>3, <2>2 DEF Fails, Faltered
  <2> QED
    BY <2>1, <2>2
<1> QED
  BY <1>2, <1>3 DEF StopWorkload

\* The helper is not running.
HelperClosed ==
    /\ host' \in Host /\ host'.process # "up"
    /\ host'.latest = host.latest /\ host'.error = host.error
    /\ host'.pending = host.pending

LEMMA CloseHostEffect ==
    ASSUME Typed, CloseHost
    PROVE  /\ At("closeHost")
           /\ UNCHANGED <<gpu, workload, latch, history>>
           /\ \E next \in {"closeGpu", "done"} :
                 /\ next = "closeGpu" <=> guard.kind = "batch"
                 /\ \/ Moves(next) /\ HelperClosed
                    \/ Faltered(next, "failed") /\ host' = host
<1> DEFINE next == IF guard.kind = "batch" THEN "closeGpu" ELSE "done"
<1>1. /\ next \in {"closeGpu", "done"} /\ next \in Places
      /\ next = "closeGpu" <=> guard.kind = "batch"
  BY DEF Places, Stages
<1>2. CASE host' = [host EXCEPT !.process = IF @ = "up" THEN "dead" ELSE @] /\ Go(next)
  <2>1. Moves(next)
    BY <1>1, <1>2, GoMoves
  <2>2. PICK process \in {"absent", "off", "dead"} : host' = [host EXCEPT !.process = process]
    BY <1>2 DEF Typed, Host
  <2>3. HelperClosed
    BY <2>2 DEF Typed, Host, HelperClosed
  <2> QED
    BY <1>1, <2>1, <2>3 DEF CloseHost
<1>3. CASE /\ guard' = [guard EXCEPT !.at = next, !.cleanup = TRUE, !.status = "failed"]
           /\ UNCHANGED host
  <2>1. Faltered(next, "failed")
    BY <1>1, <1>3, Falters
  <2> QED
    BY <1>1, <1>3, <2>1 DEF CloseHost
<1> QED
  BY <1>2, <1>3 DEF CloseHost

\* The sensor is not running, and its thread is joined.
SensorClosed ==
    /\ gpu'.process \in {"off", "dead"}
    /\ gpu'.process = "off" <=> gpu.process = "off"
    /\ ~gpu'.reading /\ gpu'.hand = Nothing
    /\ gpu'.age = gpu.age /\ gpu'.pending = gpu.pending /\ gpu'.error = gpu.error

LEMMA SensorStopped ==
    ASSUME Typed, gpu' = [gpu EXCEPT !.process = IF @ = "up" THEN "dead" ELSE @,
                                     !.reading = FALSE, !.hand = Nothing]
    PROVE  gpu' \in Gpu /\ SensorClosed
<1>1. gpu' \in Gpu
  BY DEF Typed, Gpu
<1>2. gpu.process \in {"off", "up", "dead"}
  BY DEF Typed, Gpu
<1>3. /\ gpu'.process = IF gpu.process = "up" THEN "dead" ELSE gpu.process
      /\ gpu'.reading = FALSE /\ gpu'.hand = Nothing
      /\ gpu'.age = gpu.age /\ gpu'.pending = gpu.pending /\ gpu'.error = gpu.error
  BY DEF Typed, Gpu
<1> QED
  BY <1>1, <1>2, <1>3 DEF SensorClosed

LEMMA SensorLeft ==
    ASSUME Typed, gpu.process # "off", gpu' \in {gpu, [gpu EXCEPT !.process = "dead"]}
    PROVE  gpu' \in Gpu /\ gpu'.process # "off" /\ SameFrames
  BY DEF Typed, Gpu, SameFrames

LEMMA CloseGpuEffect ==
    ASSUME Typed, CloseGpu
    PROVE  /\ At("closeGpu")
           /\ UNCHANGED <<host, workload, latch, history>>
           /\ \E next \in {"record", "closeHost"} :
                 /\ next = "record" <=> guard.kind = "batch"
                 /\ \/ Moves(next) /\ gpu' \in Gpu /\ SensorClosed
                    \/ /\ Faltered(next, "failed")
                       /\ gpu.process # "off"
                       /\ gpu' \in Gpu /\ gpu'.process # "off" /\ SameFrames
<1> DEFINE next == IF guard.kind = "batch" THEN "record" ELSE "closeHost"
<1>1. /\ next \in {"record", "closeHost"} /\ next \in Places
      /\ next = "record" <=> guard.kind = "batch"
  BY DEF Places, Stages
<1>2. CASE /\ gpu' = [gpu EXCEPT !.process = IF @ = "up" THEN "dead" ELSE @,
                                !.reading = FALSE, !.hand = Nothing]
           /\ Go(next)
  <2>1. Moves(next)
    BY <1>1, <1>2, GoMoves
  <2>2. gpu' \in Gpu /\ SensorClosed
    BY <1>2, SensorStopped
  <2> QED
    BY <1>1, <2>1, <2>2 DEF CloseGpu
<1>3. CASE /\ gpu.process # "off"
           /\ gpu' \in {gpu, [gpu EXCEPT !.process = "dead"]}
           /\ guard' = [guard EXCEPT !.at = next, !.cleanup = TRUE, !.status = "failed"]
  <2>1. Faltered(next, "failed")
    BY <1>1, <1>3, Falters
  <2>2. gpu' \in Gpu /\ gpu'.process # "off" /\ SameFrames
    BY <1>3, SensorLeft
  <2> QED
    BY <1>1, <1>3, <2>1, <2>2 DEF CloseGpu
<1> QED
  BY <1>2, <1>3 DEF CloseGpu

\* An age, a tick later.
LEMMA LaterIsLonger ==
    ASSUME NEW age \in 0..(Fresh + 1) \cup {Nothing}
    PROVE  /\ Later(age) \in 0..(Fresh + 1) \cup {Nothing}
           /\ age = Nothing <=> Later(age) = Nothing
           /\ age # Nothing => /\ Later(age) \in 0..(Fresh + 1) /\ age <= Later(age)
                               /\ age > Fresh => Later(age) > Fresh
  BY WatchConstants DEF Later

\* A tick makes the frames older, and may add to the silence.
Aged ==
    /\ gpu' \in Gpu
    /\ gpu'.process = gpu.process /\ gpu'.reading = gpu.reading
    /\ gpu'.pending = gpu.pending /\ gpu'.error = gpu.error
    /\ gpu'.age = Later(gpu.age)
    /\ gpu'.hand = Nothing <=> gpu.hand = Nothing
    /\ gpu.hand # Nothing => /\ gpu'.hand.age = Later(gpu.hand.age)
                             /\ gpu'.hand.gap = gpu.hand.gap

LEMMA FramesAge ==
    ASSUME Typed, gpu' = [gpu EXCEPT !.age = Later(@), !.hand = Older(@)]
    PROVE  Aged
<1> USE WatchConstants
<1>1. Later(gpu.age) \in 0..(Fresh + 1) \cup {Nothing}
  BY LaterIsLonger DEF Typed, Gpu
<1>2. gpu.hand # Nothing =>
          /\ gpu.hand \in InHand /\ Later(gpu.hand.age) \in 0..(Fresh + 1)
          /\ Older(gpu.hand) = [gpu.hand EXCEPT !.age = Later(gpu.hand.age)]
  BY LaterIsLonger DEF Typed, Gpu, InHand, Older
<1>3. gpu.hand # Nothing =>
          /\ Older(gpu.hand) \in InHand
          /\ Older(gpu.hand).age = Later(gpu.hand.age)
          /\ Older(gpu.hand).gap = gpu.hand.gap
  BY <1>2 DEF InHand
<1>4. gpu.hand = Nothing => Older(gpu.hand) = Nothing
  BY DEF Older
<1>5. gpu.hand # Nothing => Older(gpu.hand) # Nothing
  BY <1>3, NothingIsNoFrame
<1>6. /\ gpu'.age = Later(gpu.age) /\ gpu'.hand = Older(gpu.hand)
      /\ gpu'.process = gpu.process /\ gpu'.reading = gpu.reading
      /\ gpu'.pending = gpu.pending /\ gpu'.error = gpu.error
  BY DEF Typed, Gpu
<1>7. Older(gpu.hand) \in InHand \cup {Nothing}
  BY <1>3, <1>4
<1>8. gpu' \in Gpu
  BY <1>1, <1>7 DEF Typed, Gpu
<1> QED
  BY <1>3, <1>4, <1>5, <1>6, <1>8 DEF Aged

LEMMA LaterIsMonotone ==
    ASSUME NEW a \in 0..(Fresh + 1), NEW b \in 0..(Fresh + 1), a <= b
    PROVE  Later(a) <= Later(b)
  BY WatchConstants DEF Later

LEMMA TickEffect ==
    ASSUME Typed, Tick
    PROVE  /\ guard.phase # "over"
           /\ Moves(guard.at)
           /\ UNCHANGED <<host, workload, latch>>
           /\ Aged
           /\ history'.unsafe = history.unsafe
           /\ history'.silent =
                (history.silent \/ (Watching /\ Silence # Nothing /\ Later(Silence) > Fresh))
<1>1. guard.waited \in Nat /\ guard.waited + 1 \in Nat
  BY DEF Typed, GuardState
<1>2. \/ guard' = [guard EXCEPT !.waited = guard.waited]
      \/ guard' = [guard EXCEPT !.waited = guard.waited + 1]
  BY DEF Tick
<1>3. Moves(guard.at)
  BY <1>1, <1>2 DEF Typed, GuardState, Moves, Moved
<1>4. Aged
  BY FramesAge DEF Tick
<1>5. /\ history'.unsafe = history.unsafe
      /\ history'.silent =
           (history.silent \/ (Watching /\ Silence # Nothing /\ Later(Silence) > Fresh))
  BY DEF Typed, Tick
<1> QED
  BY <1>3, <1>4, <1>5 DEF Tick

-----------------------------------------------------------------------------
(* Each step keeps it *)

LEMMA GpuTyped == Typed /\ Ordered /\ [Next]_vars => gpu' \in Gpu
<1> SUFFICES ASSUME Typed, Ordered, [Next]_vars PROVE gpu' \in Gpu
  OBVIOUS
<1> USE WatchConstants DEF Typed
<1>1. CASE ReadFails \/ GapFails
  BY <1>1 DEF ReadFails, GapFails, ReaderFails, Gpu
<1>9. CASE SensorDies
  BY <1>9 DEF SensorDies, Gpu
<1>10. CASE GpuFails
  BY <1>10 DEF GpuFails, Gpu
<1>2. CASE ReadFrame
  <2>1. PICK value \in Level : gpu' = [gpu EXCEPT !.hand =
             [value |-> value, age |-> 0, gap |-> IF gpu.age = Nothing THEN 0 ELSE gpu.age]]
    BY <1>2 DEF ReadFrame
  <2>2. (IF gpu.age = Nothing THEN 0 ELSE gpu.age) \in 0..(Fresh + 1)
    BY DEF Gpu
  <2>3. [value |-> value, age |-> 0, gap |-> IF gpu.age = Nothing THEN 0 ELSE gpu.age]
            \in InHand
    BY <2>2 DEF InHand
  <2> QED
    BY <2>1, <2>3 DEF Gpu
<1>3. CASE AcceptFrame
  <2>1. gpu.hand \in InHand /\ gpu.hand.age \in 0..(Fresh + 1) /\ gpu.hand.value \in Level
    BY <1>3 DEF AcceptFrame, Gpu, InHand
  <2>2. Merged(gpu.pending, gpu.hand.value) \in Level
    BY <2>1 DEF Merged, Worse, Level
  <2>3. gpu' = [gpu EXCEPT !.hand = Nothing, !.age = gpu.hand.age,
                           !.pending = Merged(gpu.pending, gpu.hand.value)]
    BY <1>3 DEF AcceptFrame
  <2> QED
    BY <2>1, <2>2, <2>3 DEF Gpu
<1>4. CASE StartGpu
  BY <1>4, StartGpuEffect
<1>5. CASE TakeGpu
  BY <1>5 DEF TakeGpu, Gpu
<1>6. CASE CloseGpu
  BY <1>6, CloseGpuEffect
<1>7. CASE Tick
  BY <1>7, TickEffect DEF Aged
<1>8. CASE gpu' = gpu
  BY <1>8
<1> QED
  BY <1>1, <1>2, <1>3, <1>4, <1>5, <1>6, <1>7, <1>8, <1>9, <1>10, StartHostEffect
     DEF Next, Stream, Rpc, Guard, vars, HostReady, Answer, Replay, HelperDies, HostStreamEnds,
         AwaitHost, AwaitGpu, Ask, AskFails, TakeRam, RamFails, Judge, Spawn, Poll,
         StopWorkload, CloseHost, Record, Interrupt, WorkloadExits

LEMMA HostUpdate ==
    ASSUME Typed, NEW reply \in Reply
    PROVE  /\ Accepted(reply) \in Host
           /\ [Accepted(reply) EXCEPT !.asked = FALSE, !.last = reply] \in Host
  BY DEF Typed, Accepted, Host, Reply

LEMMA HostTyped == Typed /\ [Next]_vars => host' \in Host
<1> SUFFICES ASSUME Typed, [Next]_vars PROVE host' \in Host
  OBVIOUS
<1> USE WatchConstants DEF Typed
<1>1. CASE HostReady
  BY <1>1 DEF HostReady, Host
<1>8. CASE HelperDies
  BY <1>8 DEF HelperDies, Host
<1>9. CASE HostStreamEnds \/ RamFails
  BY <1>9 DEF HostStreamEnds, RamFails, Host
<1>2. CASE Answer
  <2>1. PICK value \in Level :
           host' = [Accepted([id |-> "own", value |-> value]) EXCEPT
                       !.asked = FALSE, !.last = [id |-> "own", value |-> value]]
    BY <1>2 DEF Answer
  <2>2. [id |-> "own", value |-> value] \in Reply
    BY DEF Reply
  <2> QED
    BY <2>1, <2>2, HostUpdate
<1>3. CASE Replay
  BY <1>3, HostUpdate DEF Replay, Host
<1>4. CASE StartHost
  BY <1>4, StartHostEffect DEF Host
<1>5. CASE Ask
  <2>1. (IF host.last = Nothing THEN host.last ELSE Old(host.last)) \in Reply \cup {Nothing}
    BY DEF Host, Old, Reply
  <2>2. host' = [host EXCEPT !.asked = TRUE, !.pending = TRUE, !.latest = Nothing,
                     !.last = IF host.last = Nothing THEN host.last ELSE Old(host.last)]
    BY <1>5 DEF Ask
  <2> QED
    BY <2>1, <2>2 DEF Host
<1>6. CASE CloseHost
  BY <1>6, CloseHostEffect DEF HelperClosed
<1>7. CASE host' = host
  BY <1>7
<1> QED
  BY <1>1, <1>2, <1>3, <1>4, <1>5, <1>6, <1>7, <1>8, <1>9
     DEF Next, Stream, Rpc, Guard, vars, SensorDies, ReadFrame, ReadFails, AcceptFrame,
         GapFails, AwaitHost, StartGpu, AwaitGpu, TakeGpu, GpuFails, AskFails, TakeRam,
         Judge, Spawn, Poll, StopWorkload, CloseGpu, Record, Interrupt, WorkloadExits, Tick

LEMMA GuardTyped == Typed /\ Ordered /\ [Next]_vars => guard' \in GuardState
<1> SUFFICES ASSUME Typed, Ordered, [Next]_vars PROVE guard' \in GuardState
  OBVIOUS
<1> USE WatchConstants
<1>1. CASE GpuFails \/ AskFails \/ RamFails
  BY <1>1, MonitorMoves DEF GpuFails, AskFails, RamFails, Moved
<1>2. CASE StartHost
  BY <1>2, StartHostEffect DEF Moves, Moved
<1>3. CASE AwaitHost
  BY <1>3, AwaitHostEffect DEF Moves, Moved
<1>4. CASE StartGpu
  BY <1>4, StartGpuEffect DEF Moves, Moved
<1>5. CASE AwaitGpu
  BY <1>5, AwaitGpuEffect DEF Moves, Moved
<1>6. CASE TakeGpu
  <2>1. PICK local \in Level, where \in {"judge", "ask"} :
           guard' = [guard EXCEPT !.sample = Worse(local, gpu.pending), !.waited = 0,
                                  !.at = where]
    BY <1>6 DEF TakeGpu
  <2>2. Worse(local, gpu.pending) \in Level
    BY DEF Worse, Level
  <2> QED
    BY <2>1, <2>2 DEF Typed, GuardState, Places
<1>7. CASE Ask
  BY <1>7, GoMoves DEF Ask, Moves, Moved, Places
<1>8. CASE TakeRam
  <2>1. PICK sample \in {guard.sample, Worse(guard.sample, host.latest)},
             where \in {"startGpu", "judge"} :
           guard' = [guard EXCEPT !.waited = 0, !.at = where, !.sample = sample]
    BY <1>8 DEF TakeRam
  <2>2. sample \in Level
    BY DEF Worse, Level, Typed, GuardState
  <2> QED
    BY <2>1, <2>2 DEF Typed, GuardState, Places
<1>9. CASE Judge
  BY <1>9, JudgeEffect DEF Moves, Moved
<1>10. CASE Poll
  BY <1>10, PollEffect DEF Moves, Moved
<1>11. CASE StopWorkload
  BY <1>11, StopEffect DEF Moves, Moved, Faltered
<1>12. CASE CloseHost
  BY <1>12, CloseHostEffect DEF Moves, Moved, Faltered
<1>13. CASE CloseGpu
  BY <1>13, CloseGpuEffect DEF Moves, Moved, Faltered
<1>14. CASE Record
  <2>1. PICK status \in {"ok", "failed"}, where \in {"done", "closeGpu"} :
           guard' = [guard EXCEPT !.status = status, !.at = where]
    BY <1>14 DEF Record
  <2> QED
    BY <2>1 DEF Typed, GuardState, Places, Stages
<1>15. CASE Spawn
  BY <1>15 DEF Spawn, Typed, GuardState, Places
<1>18. CASE Interrupt
  BY <1>18 DEF Interrupt, Typed, GuardState, Places, Stages
<1>16. CASE Tick
  BY <1>16, TickEffect DEF Moves, Moved
<1>17. CASE guard' = guard
  BY <1>17 DEF Typed
<1> QED
  BY <1>1, <1>2, <1>3, <1>4, <1>5, <1>6, <1>7, <1>8, <1>9, <1>10, <1>11, <1>12,
     <1>13, <1>14, <1>15, <1>16, <1>17, <1>18
     DEF Next, Stream, Rpc, Guard, vars, SensorDies, ReadFrame, ReadFails, AcceptFrame,
         GapFails, HostReady, Answer, Replay, HelperDies, HostStreamEnds, WorkloadExits

LEMMA RestTyped ==
    Typed /\ [Next]_vars => /\ workload' \in {"none", "up", "leaderless", "gone"}
                            /\ latch' \in BOOLEAN
                            /\ history' \in [unsafe : BOOLEAN, silent : BOOLEAN]
<1> SUFFICES ASSUME Typed, [Next]_vars
             PROVE  /\ workload' \in {"none", "up", "leaderless", "gone"}
                    /\ latch' \in BOOLEAN
                    /\ history' \in [unsafe : BOOLEAN, silent : BOOLEAN]
  OBVIOUS
<1>1. CASE AcceptFrame
  BY <1>1 DEF AcceptFrame, Typed
<1>2. CASE Answer
  BY <1>2 DEF Answer, Typed
<1>3. CASE Tick
  BY <1>3 DEF Tick, Typed
<1>4. CASE StopWorkload
  BY <1>4, StopEffect DEF Typed
<1>5. CASE Record
  <2>1. Latches \in BOOLEAN
    BY DEF Latches, Typed, GuardState
  <2> QED
    BY <1>5, <2>1 DEF Record, Typed
<1>6. CASE Spawn \/ WorkloadExits
  BY <1>6 DEF Spawn, WorkloadExits, Typed
<1>7. CASE UNCHANGED <<workload, latch, history>>
  BY <1>7 DEF Typed
<1> QED
  BY <1>1, <1>2, <1>3, <1>4, <1>5, <1>6, <1>7
     DEF Next, Stream, Rpc, Guard, vars, SensorDies, ReadFrame, ReadFails, GapFails, HostReady,
         Replay, HelperDies, HostStreamEnds, StartHost, AwaitHost, StartGpu, AwaitGpu, TakeGpu,
         GpuFails, Ask, AskFails, TakeRam, RamFails, Judge, Poll, CloseHost, CloseGpu, Interrupt

LEMMA TypeStep == Typed /\ Ordered /\ [Next]_vars => Typed'
  BY GpuTyped, HostTyped, GuardTyped, RestTyped DEF Typed


LEMMA OrderStep == Typed /\ Ordered /\ [Next]_vars => Ordered'
<1> SUFFICES ASSUME Typed /\ Ordered, [Next]_vars PROVE Ordered'
  OBVIOUS
<1> USE WatchConstants DEF Typed, Ordered, Gpu, Host, GuardState, Kind, Places, Stages, Level, InHand, Reply, At, Go, MonitorFails
<1>1. CASE SensorDies
  BY <1>1 DEF SensorDies
<1>2. CASE ReadFrame
  BY <1>2 DEF ReadFrame
<1>3. CASE ReadFails
  BY <1>3 DEF ReadFails, ReaderFails
<1>4. CASE AcceptFrame
  BY <1>4 DEF AcceptFrame, InTime, Merged, Worse
<1>5. CASE GapFails
  BY <1>5 DEF GapFails, ReaderFails, InTime
<1>6. CASE HostReady
  BY <1>6 DEF HostReady
<1>7. CASE Answer
  BY <1>7 DEF Answer, Accepted, Expected
<1>8. CASE Replay
  BY <1>8 DEF Replay, Accepted, Expected
<1>9. CASE HelperDies
  BY <1>9 DEF HelperDies
<1>10. CASE HostStreamEnds
  BY <1>10 DEF HostStreamEnds
<1>11. CASE StartHost
  BY <1>11, StartHostEffect DEF Moves, Moved, Faltered
<1>12. CASE AwaitHost
  BY <1>12, AwaitHostEffect DEF Moves, Moved, Faltered
<1>13. CASE StartGpu
  BY <1>13, StartGpuEffect DEF Moves, Moved, Faltered, SameFrames
<1>14. CASE AwaitGpu
  BY <1>14, AwaitGpuEffect DEF Moves, Moved, Faltered
<1>15. CASE TakeGpu
  BY <1>15 DEF TakeGpu, GpuAlive, GpuStale, Worse
<1>16. CASE GpuFails
  BY <1>16 DEF GpuFails, GpuAlive, GpuStale
<1>17. CASE Ask
  BY <1>17 DEF Ask, HostAlive, Old
<1>18. CASE AskFails
  BY <1>18 DEF AskFails, HostAlive
<1>19. CASE TakeRam
  <2>1. CASE gpu.process = "off"
    BY <1>19, <2>1 DEF TakeRam
  <2>2. CASE gpu.process # "off"
    BY <1>19, <2>2 DEF TakeRam
  <2> QED
    BY <2>1, <2>2
<1>20. CASE RamFails
  BY <1>20 DEF RamFails, HostAlive
<1>21. CASE Judge
  BY <1>21, JudgeEffect DEF Moves, Moved, Faltered
<1>22. CASE Spawn
  BY <1>22 DEF Spawn
<1>23. CASE Poll
  BY <1>23, PollEffect DEF Moves, Moved, Faltered
<1>24. CASE StopWorkload
  BY <1>24, StopEffect DEF Moves, Moved, Faltered
<1>25. CASE CloseHost
  <2>1. PICK next \in {"closeGpu", "done"} :
           /\ next = "closeGpu" <=> guard.kind = "batch"
           /\ \/ Moves(next) /\ HelperClosed
              \/ Faltered(next, "failed") /\ host' = host
    BY <1>25, CloseHostEffect
  <2>2. At("closeHost") /\ UNCHANGED <<gpu, workload, latch, history>>
    BY <1>25, CloseHostEffect
  <2>3. CASE Moves(next) /\ HelperClosed
    BY <2>1, <2>2, <2>3 DEF Moves, Moved, HelperClosed
  <2>4. CASE Faltered(next, "failed") /\ host' = host
    BY <2>1, <2>2, <2>4 DEF Faltered
  <2> QED
    BY <2>1, <2>3, <2>4
<1>26. CASE CloseGpu
  <2>1. PICK next \in {"record", "closeHost"} :
           /\ next = "record" <=> guard.kind = "batch"
           /\ \/ Moves(next) /\ gpu' \in Gpu /\ SensorClosed
              \/ Faltered(next, "failed") /\ gpu.process # "off" /\ gpu'.process # "off" /\ SameFrames
    BY <1>26, CloseGpuEffect
  <2>2. At("closeGpu") /\ UNCHANGED <<host, workload, latch, history>>
    BY <1>26, CloseGpuEffect
  <2>3. CASE Moves(next) /\ gpu' \in Gpu /\ SensorClosed
    BY <2>1, <2>2, <2>3 DEF Moves, Moved, SensorClosed
  <2>4. CASE Faltered(next, "failed") /\ gpu.process # "off" /\ gpu'.process # "off" /\ SameFrames
    BY <2>1, <2>2, <2>4 DEF Faltered, SameFrames
  <2> QED
    BY <2>1, <2>3, <2>4
<1>27. CASE Record
  BY <1>27 DEF Record, Latches
<1>28. CASE Interrupt
  BY <1>28 DEF Interrupt
<1>29. CASE WorkloadExits
  BY <1>29 DEF WorkloadExits
<1>30. CASE Tick
  <2>1. gpu.age = Nothing => Later(gpu.age) = Nothing
    BY DEF Later
  <2>2. gpu.process = "off" => history'.silent = history.silent
    BY <1>30, TickEffect DEF Silence
  <2>3. /\ Aged /\ history'.unsafe = history.unsafe
        /\ guard'.at = guard.at /\ guard'.phase = guard.phase
    BY <1>30, TickEffect DEF Moves, Moved
  <2> QED
    BY <2>1, <2>2, <2>3 DEF Aged
<1>31. CASE UNCHANGED vars
  BY <1>31 DEF vars
<1> QED
  BY <1>1, <1>2, <1>3, <1>4, <1>5, <1>6, <1>7, <1>8, <1>9, <1>10, <1>11, <1>12,
     <1>13, <1>14, <1>15, <1>16, <1>17, <1>18, <1>19, <1>20, <1>21, <1>22,
     <1>23, <1>24, <1>25, <1>26, <1>27, <1>28, <1>29, <1>30, <1>31
     DEF Next, Stream, Rpc, Guard

LEMMA FrameStep == Typed /\ Ordered /\ Framed /\ [Next]_vars => Framed'
<1> SUFFICES ASSUME Typed /\ Ordered /\ Framed, [Next]_vars PROVE Framed'
  OBVIOUS
<1> USE WatchConstants DEF Typed, Ordered, Framed, Gpu, Host, GuardState, Kind, Places, Stages, Level, InHand, Reply, At, Go, MonitorFails
<1>1. CASE SensorDies
  BY <1>1 DEF SensorDies
<1>2. CASE ReadFrame
  BY <1>2 DEF ReadFrame
<1>3. CASE ReadFails
  BY <1>3 DEF ReadFails, ReaderFails
<1>4. CASE AcceptFrame
  BY <1>4 DEF AcceptFrame, InTime, Merged, Worse
<1>5. CASE GapFails
  BY <1>5 DEF GapFails, ReaderFails, InTime
<1>6. CASE HostReady
  BY <1>6 DEF HostReady
<1>7. CASE Answer
  BY <1>7 DEF Answer, Accepted, Expected
<1>8. CASE Replay
  BY <1>8 DEF Replay, Accepted, Expected
<1>9. CASE HelperDies
  BY <1>9 DEF HelperDies
<1>10. CASE HostStreamEnds
  BY <1>10 DEF HostStreamEnds
<1>11. CASE StartHost
  BY <1>11, StartHostEffect DEF Moves, Moved, Faltered
<1>12. CASE AwaitHost
  BY <1>12, AwaitHostEffect DEF Moves, Moved, Faltered
<1>13. CASE StartGpu
  <2>1. host' = host /\ (SameFrames \/ gpu' = gpu)
    BY <1>13, StartGpuEffect
  <2> QED
    BY <2>1 DEF SameFrames
<1>14. CASE AwaitGpu
  BY <1>14, AwaitGpuEffect DEF Moves, Moved, Faltered
<1>15. CASE TakeGpu
  BY <1>15 DEF TakeGpu, GpuAlive, GpuStale, Worse
<1>16. CASE GpuFails
  BY <1>16 DEF GpuFails, GpuAlive, GpuStale
<1>17. CASE Ask
  BY <1>17 DEF Ask, HostAlive, Old
<1>18. CASE AskFails
  BY <1>18 DEF AskFails, HostAlive
<1>19. CASE TakeRam
  BY <1>19 DEF TakeRam, HostAlive, Worse
<1>20. CASE RamFails
  BY <1>20 DEF RamFails, HostAlive
<1>21. CASE Judge
  <2>1. gpu' = gpu /\ host' = host
    BY <1>21, JudgeEffect
  <2> QED
    BY <2>1
<1>22. CASE Spawn
  BY <1>22 DEF Spawn
<1>23. CASE Poll
  BY <1>23, PollEffect DEF Moves, Moved, Faltered
<1>24. CASE StopWorkload
  BY <1>24, StopEffect DEF Moves, Moved, Faltered
<1>25. CASE CloseHost
  <2>1. PICK next \in {"closeGpu", "done"} :
           /\ next = "closeGpu" <=> guard.kind = "batch"
           /\ \/ Moves(next) /\ HelperClosed
              \/ Faltered(next, "failed") /\ host' = host
    BY <1>25, CloseHostEffect
  <2>2. At("closeHost") /\ UNCHANGED <<gpu, workload, latch, history>>
    BY <1>25, CloseHostEffect
  <2>3. CASE Moves(next) /\ HelperClosed
    BY <2>1, <2>2, <2>3 DEF Moves, Moved, HelperClosed
  <2>4. CASE Faltered(next, "failed") /\ host' = host
    BY <2>1, <2>2, <2>4 DEF Faltered
  <2> QED
    BY <2>1, <2>3, <2>4
<1>26. CASE CloseGpu
  <2>1. PICK next \in {"record", "closeHost"} :
           /\ next = "record" <=> guard.kind = "batch"
           /\ \/ Moves(next) /\ gpu' \in Gpu /\ SensorClosed
              \/ Faltered(next, "failed") /\ gpu.process # "off" /\ gpu'.process # "off" /\ SameFrames
    BY <1>26, CloseGpuEffect
  <2>2. At("closeGpu") /\ UNCHANGED <<host, workload, latch, history>>
    BY <1>26, CloseGpuEffect
  <2>3. CASE Moves(next) /\ gpu' \in Gpu /\ SensorClosed
    BY <2>1, <2>2, <2>3 DEF Moves, Moved, SensorClosed
  <2>4. CASE Faltered(next, "failed") /\ gpu.process # "off" /\ gpu'.process # "off" /\ SameFrames
    BY <2>1, <2>2, <2>4 DEF Faltered, SameFrames
  <2> QED
    BY <2>1, <2>3, <2>4
<1>27. CASE Record
  BY <1>27 DEF Record, Latches
<1>28. CASE Interrupt
  BY <1>28 DEF Interrupt
<1>29. CASE WorkloadExits
  BY <1>29 DEF WorkloadExits
<1>30. CASE Tick
  <2>1. Aged /\ host' = host
    BY <1>30, TickEffect
  <2>2. gpu.age \in 0..(Fresh + 1) \cup {Nothing}
    OBVIOUS
  <2>3. gpu.hand # Nothing => gpu.hand.age \in 0..(Fresh + 1)
    OBVIOUS
  <2>4. gpu.hand # Nothing /\ gpu.age # Nothing => Later(gpu.hand.age) <= Later(gpu.age)
    BY <2>2, <2>3, LaterIsMonotone
  <2>5. /\ gpu.age = Nothing <=> Later(gpu.age) = Nothing
        /\ gpu.age # Nothing /\ gpu.age > Fresh => Later(gpu.age) > Fresh
    BY <2>2, LaterIsLonger
  <2> HIDE DEF Typed
  <2> QED
    BY <2>1, <2>4, <2>5 DEF Aged
<1>31. CASE UNCHANGED vars
  BY <1>31 DEF vars
<1> QED
  BY <1>1, <1>2, <1>3, <1>4, <1>5, <1>6, <1>7, <1>8, <1>9, <1>10, <1>11, <1>12,
     <1>13, <1>14, <1>15, <1>16, <1>17, <1>18, <1>19, <1>20, <1>21, <1>22,
     <1>23, <1>24, <1>25, <1>26, <1>27, <1>28, <1>29, <1>30, <1>31
     DEF Next, Stream, Rpc, Guard

LEMMA SilenceStep == Typed /\ Ordered /\ Framed /\ SilenceKept /\ [Next]_vars => SilenceKept'
<1> SUFFICES ASSUME Typed /\ Ordered /\ Framed /\ SilenceKept, [Next]_vars PROVE SilenceKept'
  OBVIOUS
<1> USE WatchConstants DEF Typed, Ordered, Framed, SilenceKept, Overdue, Watching, Gpu, Host, GuardState, Kind, Places, Stages, Level, InHand, Reply, At, Go, MonitorFails
<1>1. CASE SensorDies
  BY <1>1 DEF SensorDies
<1>2. CASE ReadFrame
  BY <1>2 DEF ReadFrame
<1>3. CASE ReadFails
  BY <1>3 DEF ReadFails, ReaderFails
<1>4. CASE AcceptFrame
  BY <1>4 DEF AcceptFrame, InTime, Merged, Worse
<1>5. CASE GapFails
  BY <1>5 DEF GapFails, ReaderFails, InTime
<1>6. CASE HostReady
  BY <1>6 DEF HostReady
<1>7. CASE Answer
  BY <1>7 DEF Answer, Accepted, Expected
<1>8. CASE Replay
  BY <1>8 DEF Replay, Accepted, Expected
<1>9. CASE HelperDies
  BY <1>9 DEF HelperDies
<1>10. CASE HostStreamEnds
  BY <1>10 DEF HostStreamEnds
<1>11. CASE StartHost
  BY <1>11, StartHostEffect DEF Moves, Moved, Faltered
<1>12. CASE AwaitHost
  BY <1>12, AwaitHostEffect DEF Moves, Moved, Faltered
<1>13. CASE StartGpu
  BY <1>13, StartGpuEffect DEF Moves, Moved, Faltered, SameFrames
<1>14. CASE AwaitGpu
  BY <1>14, AwaitGpuEffect DEF Moves, Moved, Faltered
<1>15. CASE TakeGpu
  BY <1>15 DEF TakeGpu, GpuAlive, GpuStale, Worse
<1>16. CASE GpuFails
  BY <1>16 DEF GpuFails, GpuAlive, GpuStale
<1>17. CASE Ask
  BY <1>17 DEF Ask, HostAlive, Old
<1>18. CASE AskFails
  BY <1>18 DEF AskFails, HostAlive
<1>19. CASE TakeRam
  BY <1>19 DEF TakeRam, HostAlive, Worse
<1>20. CASE RamFails
  BY <1>20 DEF RamFails, HostAlive
<1>21. CASE Judge
  BY <1>21, JudgeEffect DEF Moves, Moved, Faltered
<1>22. CASE Spawn
  BY <1>22 DEF Spawn
<1>23. CASE Poll
  BY <1>23, PollEffect DEF Moves, Moved, Faltered
<1>24. CASE StopWorkload
  BY <1>24, StopEffect DEF Moves, Moved, Faltered
<1>25. CASE CloseHost
  BY <1>25, CloseHostEffect DEF Moves, Moved, Faltered, HelperClosed
<1>26. CASE CloseGpu
  BY <1>26, CloseGpuEffect DEF Moves, Moved, Faltered, SameFrames, SensorClosed
<1>27. CASE Record
  BY <1>27 DEF Record, Latches
<1>28. CASE Interrupt
  BY <1>28 DEF Interrupt
<1>29. CASE WorkloadExits
  BY <1>29 DEF WorkloadExits
<1>30. CASE Tick
  <2>1. /\ Aged
        /\ guard'.at = guard.at /\ guard'.phase = guard.phase
        /\ guard'.kind = guard.kind /\ guard'.breach = guard.breach
    BY <1>30, TickEffect DEF Moves, Moved
  <2>2. history'.silent =>
            history.silent \/ (Watching /\ Silence # Nothing /\ Later(Silence) > Fresh)
    BY <1>30, TickEffect
  <2>3. /\ gpu.age \in 0..(Fresh + 1) \cup {Nothing}
        /\ gpu.hand # Nothing => gpu.hand.age \in 0..(Fresh + 1)
    OBVIOUS
  <2>4. /\ gpu.age = Nothing <=> Later(gpu.age) = Nothing
        /\ gpu.age # Nothing /\ gpu.age > Fresh => Later(gpu.age) > Fresh
    BY <2>3, LaterIsLonger
  <2>7. gpu.hand # Nothing /\ gpu.hand.age > Fresh => Later(gpu.hand.age) > Fresh
    <3>1. CASE gpu.hand # Nothing
      BY <2>3, <3>1, LaterIsLonger
    <3> QED
      BY <3>1
  <2> HIDE DEF Typed
  <2>5. Overdue => Overdue'
    BY <2>1, <2>4, <2>7 DEF Aged
  <2>6. Silence # Nothing /\ Later(Silence) > Fresh => Overdue'
    BY <2>1, <2>4, <2>7 DEF Aged, Silence
  <2> QED
    BY <2>1, <2>2, <2>5, <2>6
<1>31. CASE UNCHANGED vars
  BY <1>31 DEF vars
<1> QED
  BY <1>1, <1>2, <1>3, <1>4, <1>5, <1>6, <1>7, <1>8, <1>9, <1>10, <1>11, <1>12,
     <1>13, <1>14, <1>15, <1>16, <1>17, <1>18, <1>19, <1>20, <1>21, <1>22,
     <1>23, <1>24, <1>25, <1>26, <1>27, <1>28, <1>29, <1>30, <1>31
     DEF Next, Stream, Rpc, Guard

LEMMA UnsafeStep == Typed /\ Ordered /\ Framed /\ UnsafeKept /\ [Next]_vars => UnsafeKept'
<1> SUFFICES ASSUME Typed /\ Ordered /\ Framed /\ UnsafeKept, [Next]_vars PROVE UnsafeKept'
  OBVIOUS
<1> USE WatchConstants DEF Typed, Ordered, Framed, UnsafeKept, Watching, Gpu, Host, GuardState, Kind, Places, Stages, Level, InHand, Reply, At, Go, MonitorFails
<1>1. CASE SensorDies
  BY <1>1 DEF SensorDies
<1>2. CASE ReadFrame
  BY <1>2 DEF ReadFrame
<1>3. CASE ReadFails
  BY <1>3 DEF ReadFails, ReaderFails
<1>4. CASE AcceptFrame
  BY <1>4 DEF AcceptFrame, InTime, Merged, Worse
<1>5. CASE GapFails
  BY <1>5 DEF GapFails, ReaderFails, InTime
<1>6. CASE HostReady
  BY <1>6 DEF HostReady
<1>7. CASE Answer
  BY <1>7 DEF Answer, Accepted, Expected
<1>8. CASE Replay
  BY <1>8 DEF Replay, Accepted, Expected
<1>9. CASE HelperDies
  BY <1>9 DEF HelperDies
<1>10. CASE HostStreamEnds
  BY <1>10 DEF HostStreamEnds
<1>11. CASE StartHost
  BY <1>11, StartHostEffect DEF Moves, Moved, Faltered
<1>12. CASE AwaitHost
  BY <1>12, AwaitHostEffect DEF Moves, Moved, Faltered
<1>13. CASE StartGpu
  BY <1>13, StartGpuEffect DEF Moves, Moved, Faltered, SameFrames
<1>14. CASE AwaitGpu
  BY <1>14, AwaitGpuEffect DEF Moves, Moved, Faltered
<1>15. CASE TakeGpu
  BY <1>15 DEF TakeGpu, GpuAlive, GpuStale, Worse
<1>16. CASE GpuFails
  BY <1>16 DEF GpuFails, GpuAlive, GpuStale
<1>17. CASE Ask
  BY <1>17 DEF Ask, HostAlive, Old
<1>18. CASE AskFails
  BY <1>18 DEF AskFails, HostAlive
<1>19. CASE TakeRam
  BY <1>19 DEF TakeRam, HostAlive, Worse
<1>20. CASE RamFails
  BY <1>20 DEF RamFails, HostAlive
<1>21. CASE Judge
  BY <1>21, JudgeEffect DEF Moves, Moved, Faltered
<1>22. CASE Spawn
  BY <1>22 DEF Spawn
<1>23. CASE Poll
  BY <1>23, PollEffect DEF Moves, Moved, Faltered
<1>24. CASE StopWorkload
  BY <1>24, StopEffect DEF Moves, Moved, Faltered
<1>25. CASE CloseHost
  BY <1>25, CloseHostEffect DEF Moves, Moved, Faltered, HelperClosed
<1>26. CASE CloseGpu
  BY <1>26, CloseGpuEffect DEF Moves, Moved, Faltered, SameFrames, SensorClosed
<1>27. CASE Record
  BY <1>27 DEF Record, Latches
<1>28. CASE Interrupt
  BY <1>28 DEF Interrupt
<1>29. CASE WorkloadExits
  BY <1>29 DEF WorkloadExits
<1>30. CASE Tick
  BY <1>30, TickEffect, LaterIsLonger DEF Moves, Moved, Faltered, Aged, Silence
<1>31. CASE UNCHANGED vars
  BY <1>31 DEF vars
<1> QED
  BY <1>1, <1>2, <1>3, <1>4, <1>5, <1>6, <1>7, <1>8, <1>9, <1>10, <1>11, <1>12,
     <1>13, <1>14, <1>15, <1>16, <1>17, <1>18, <1>19, <1>20, <1>21, <1>22,
     <1>23, <1>24, <1>25, <1>26, <1>27, <1>28, <1>29, <1>30, <1>31
     DEF Next, Stream, Rpc, Guard

LEMMA CleanStep == Typed /\ Ordered /\ CleanedUp /\ [Next]_vars => CleanedUp'
<1> SUFFICES ASSUME Typed /\ Ordered /\ CleanedUp, [Next]_vars PROVE CleanedUp'
  OBVIOUS
<1> USE WatchConstants DEF Typed, Ordered, CleanedUp, Gpu, Host, GuardState, Kind, Places, Stages, Level, InHand, Reply, At, Go, MonitorFails
<1>1. CASE SensorDies
  BY <1>1 DEF SensorDies
<1>2. CASE ReadFrame
  BY <1>2 DEF ReadFrame
<1>3. CASE ReadFails
  BY <1>3 DEF ReadFails, ReaderFails
<1>4. CASE AcceptFrame
  BY <1>4 DEF AcceptFrame, InTime, Merged, Worse
<1>5. CASE GapFails
  BY <1>5 DEF GapFails, ReaderFails, InTime
<1>6. CASE HostReady
  BY <1>6 DEF HostReady
<1>7. CASE Answer
  BY <1>7 DEF Answer, Accepted, Expected
<1>8. CASE Replay
  BY <1>8 DEF Replay, Accepted, Expected
<1>9. CASE HelperDies
  BY <1>9 DEF HelperDies
<1>10. CASE HostStreamEnds
  BY <1>10 DEF HostStreamEnds
<1>11. CASE StartHost
  BY <1>11, StartHostEffect DEF Moves, Moved, Faltered
<1>12. CASE AwaitHost
  BY <1>12, AwaitHostEffect DEF Moves, Moved, Faltered
<1>13. CASE StartGpu
  BY <1>13, StartGpuEffect DEF Moves, Moved, Faltered, SameFrames
<1>14. CASE AwaitGpu
  BY <1>14, AwaitGpuEffect DEF Moves, Moved, Faltered
<1>15. CASE TakeGpu
  BY <1>15 DEF TakeGpu, GpuAlive, GpuStale, Worse
<1>16. CASE GpuFails
  BY <1>16 DEF GpuFails, GpuAlive, GpuStale
<1>17. CASE Ask
  BY <1>17 DEF Ask, HostAlive, Old
<1>18. CASE AskFails
  BY <1>18 DEF AskFails, HostAlive
<1>19. CASE TakeRam
  BY <1>19 DEF TakeRam, HostAlive, Worse
<1>20. CASE RamFails
  BY <1>20 DEF RamFails, HostAlive
<1>21. CASE Judge
  BY <1>21, JudgeEffect DEF Moves, Moved, Faltered
<1>22. CASE Spawn
  BY <1>22 DEF Spawn
<1>23. CASE Poll
  BY <1>23, PollEffect DEF Moves, Moved, Faltered
<1>24. CASE StopWorkload
  BY <1>24, StopEffect DEF Moves, Moved, Faltered
<1>25. CASE CloseHost
  <2>1. PICK next \in {"closeGpu", "done"} :
           /\ next = "closeGpu" <=> guard.kind = "batch"
           /\ \/ Moves(next) /\ HelperClosed
              \/ Faltered(next, "failed") /\ host' = host
    BY <1>25, CloseHostEffect
  <2>2. At("closeHost") /\ UNCHANGED <<gpu, workload, latch, history>>
    BY <1>25, CloseHostEffect
  <2>3. CASE Moves(next) /\ HelperClosed
    BY <2>1, <2>2, <2>3 DEF Moves, Moved, HelperClosed
  <2>4. CASE Faltered(next, "failed") /\ host' = host
    BY <2>1, <2>2, <2>4 DEF Faltered
  <2> QED
    BY <2>1, <2>3, <2>4
<1>26. CASE CloseGpu
  <2>1. PICK next \in {"record", "closeHost"} :
           /\ next = "record" <=> guard.kind = "batch"
           /\ \/ Moves(next) /\ gpu' \in Gpu /\ SensorClosed
              \/ Faltered(next, "failed") /\ gpu.process # "off" /\ gpu'.process # "off" /\ SameFrames
    BY <1>26, CloseGpuEffect
  <2>2. At("closeGpu") /\ UNCHANGED <<host, workload, latch, history>>
    BY <1>26, CloseGpuEffect
  <2>3. CASE Moves(next) /\ gpu' \in Gpu /\ SensorClosed
    BY <2>1, <2>2, <2>3 DEF Moves, Moved, SensorClosed
  <2>4. CASE Faltered(next, "failed") /\ gpu.process # "off" /\ gpu'.process # "off" /\ SameFrames
    BY <2>1, <2>2, <2>4 DEF Faltered, SameFrames
  <2> QED
    BY <2>1, <2>3, <2>4
<1>27. CASE Record
  BY <1>27 DEF Record, Latches
<1>28. CASE Interrupt
  BY <1>28 DEF Interrupt
<1>29. CASE WorkloadExits
  BY <1>29 DEF WorkloadExits
<1>30. CASE Tick
  BY <1>30, TickEffect, LaterIsLonger DEF Moves, Moved, Faltered, Aged, Silence
<1>31. CASE UNCHANGED vars
  BY <1>31 DEF vars
<1> QED
  BY <1>1, <1>2, <1>3, <1>4, <1>5, <1>6, <1>7, <1>8, <1>9, <1>10, <1>11, <1>12,
     <1>13, <1>14, <1>15, <1>16, <1>17, <1>18, <1>19, <1>20, <1>21, <1>22,
     <1>23, <1>24, <1>25, <1>26, <1>27, <1>28, <1>29, <1>30, <1>31
     DEF Next, Stream, Rpc, Guard

-----------------------------------------------------------------------------
(* The invariant *)

LEMMA Initially == Init => WatchInv
<1> SUFFICES ASSUME Init PROVE WatchInv
  OBVIOUS
<1> USE WatchConstants DEF Init
<1>1. gpu \in Gpu
  BY DEF Gpu
<1>2. host \in Host /\ host.pending = FALSE
  BY DEF Host
<1>3. guard \in GuardState /\ guard.at = "startHost" /\ guard.phase = "preflight"
  <2>1. PICK kind \in Kind : guard =
            [kind |-> kind, at |-> "startHost", phase |-> "preflight", waited |-> 0,
             sample |-> "safe", breach |-> FALSE, cleanup |-> FALSE, status |-> "none"]
    OBVIOUS
  <2>2. guard \in GuardState
    BY <2>1 DEF GuardState, Places, Level
  <2> QED
    BY <2>1, <2>2
<1>4. Typed
  BY <1>1, <1>2, <1>3 DEF Typed
<1> QED
  BY <1>2, <1>3, <1>4 DEF WatchInv, Ordered, Framed, SilenceKept, UnsafeKept, CleanedUp, At,
                          Stages

LEMMA Inductive == WatchInv /\ [Next]_vars => WatchInv'
<1> SUFFICES ASSUME WatchInv, [Next]_vars PROVE WatchInv'
  OBVIOUS
<1>1. Typed' /\ Ordered'
  BY TypeStep, OrderStep DEF WatchInv
<1>2. Framed' /\ SilenceKept' /\ UnsafeKept'
  BY FrameStep, SilenceStep, UnsafeStep DEF WatchInv
<1>3. CleanedUp'
  BY CleanStep DEF WatchInv
<1> QED
  BY <1>1, <1>2, <1>3 DEF WatchInv

LEMMA Always == Spec => []WatchInv
  BY Initially, Inductive, PTL DEF Spec

-----------------------------------------------------------------------------
(* The theorems *)

\* Sensors, guard and workload keep their types, whatever the sensors send.
THEOREM TypeCorrect == Spec => []TypeOK
<1>1. WatchInv => TypeOK
  BY DEF WatchInv, Typed, TypeOK, GuardState, Places, Stages
<1> QED
  BY <1>1, Always, PTL

\* unsafe_reason() has seen every unsafe value that reached a batch's guard.
THEOREM BreachesJudged == Spec => []BreachesAreJudged
<1>1. WatchInv => BreachesAreJudged
  BY DEF WatchInv, Ordered, UnsafeKept, CleanedUp, Stages, BreachesAreJudged, BatchSucceeded,
         At, Watching
<1> QED
  BY <1>1, Always, PTL

\* A stream that was silent for longer than FRESH_SECONDS fails a batch.
THEOREM SilenceNoticed == Spec => []SilenceIsNoticed
<1>1. WatchInv => SilenceIsNoticed
  BY DEF WatchInv, Ordered, SilenceKept, CleanedUp, Stages, SilenceIsNoticed, BatchSucceeded,
         At, Watching
<1> QED
  BY <1>1, Always, PTL

\* A guard that has ended left a latch, or nothing.
THEOREM NothingLeft == Spec => []NothingIsLeft
<1>1. WatchInv => NothingIsLeft
  BY DEF WatchInv, Typed, GuardState, Kind, CleanedUp, Stages, NothingIsLeft, At
<1> QED
  BY <1>1, Always, PTL
=============================================================================
