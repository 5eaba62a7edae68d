----------------------------- MODULE QueryRuns -----------------------------
(***************************************************************************)
(* The life of a query run in application.sqlite: the run store            *)
(* (layer6_application/run_store.py), the service that executes a run      *)
(* (service.py), the API container with its single executor thread         *)
(* (interfaces/api/dependencies.py) and the CLI command `ask`.             *)
(*                                                                         *)
(* Every process of the application opens the same database.  A server     *)
(* first fails the runs an earlier process left open, then accepts         *)
(* queries; its shutdown cancels the queue and lets the running query      *)
(* drain.  Nothing keeps a second server, or `ask`, from using the         *)
(* database meanwhile.                                                     *)
(*                                                                         *)
(* A thread follows a script of steps.  Appending an event is two steps,   *)
(* because append_event reads MAX(sequence) outside the transaction that   *)
(* inserts, and (run_id, sequence) is the primary key.                     *)
(***************************************************************************)
EXTENDS Naturals, Sequences, FiniteSets

CONSTANTS Procs,       \* application processes
          Runs,        \* run ids
          LayerEvents, \* layer events of a result before PRESENTED (five)
          MaxFaults,   \* bound on killed processes and failed store calls
          NoRun        \* None for a run id

ASSUME QueryConstants ==
    /\ LayerEvents \in Nat
    /\ MaxFaults \in Nat
    /\ NoRun \notin Runs

VARIABLES
    status,    \* runs.status; "NONE" before the row exists
    result,    \* runs.result_json: none, an answer, or a restart notice
    events,    \* trace_events of a run, in order of sequence
    phase,     \* phase[p]: the life of process p
    backlog,   \* backlog[p]: runs recover_incomplete() has still to fail
    accepted,  \* accepted[p]: rows created whose submit() is still to come
    queue,     \* queue[p]: the executor's queue
    thread,    \* thread[p]: what the executor (or main) thread is doing
    faults,    \* killed processes and failed store calls so far
    recovered, \* history: runs some recovery found open
    raised     \* history: runs an exception ended since a recovery last saw them

db    == <<status, result, events>>
procs == <<phase, backlog, accepted, queue, thread>>
vars  == <<db, procs, faults, recovered, raised>>

-----------------------------------------------------------------------------
(* State *)

Status == {"NONE", "QUEUED", "RUNNING", "COMPLETED", "FAILED"}
Event  == {"RUN_STARTED", "LAYER", "PRESENTED", "FAILED", "APPLICATION_RESTARTED"}
Phase  == {"down", "starting", "up", "closing", "asking"}

Open(r)    == status[r] \in {"QUEUED", "RUNNING"}
Decided(r) == status[r] \in {"COMPLETED", "FAILED"}

\* Script steps: append an event, set a status, or what "do" names.
Trace(e) == [op |-> "append", arg |-> e]
Put(s)     == [op |-> "put", arg |-> s]
Do(what)   == [op |-> what, arg |-> ""]

Step == [op : {"append"}, arg : Event]
          \cup [op : {"put"}, arg : {"RUNNING", "COMPLETED", "FAILED"}]
          \cup [op : {"resolve", "call", "reraise"}, arg : {""}]

\* seq is the sequence number append_event computed, 0 when it has not yet.
Idle == [run |-> NoRun, todo |-> <<>>, seq |-> 0]

\* execute(): resolve and the start are outside the try block.
Job(r) == [run |-> r, seq |-> 0,
           todo |-> <<Do("resolve"), Put("RUNNING"), Trace("RUN_STARTED"),
                      Do("call")>>]

\* Mutants: COMPLETED is set before the last event, or not at all.
AnsweredEarly ==
    [i \in 1..LayerEvents |-> Trace("LAYER")]
      \o <<Put("COMPLETED"), Trace("PRESENTED")>>
AnsweredUnrecorded ==
    [i \in 1..LayerEvents |-> Trace("LAYER")] \o <<Trace("PRESENTED")>>

\* _persist_layer_events and COMPLETED; or the except branch.
Answered == [i \in 1..LayerEvents |-> Trace("LAYER")]
              \o <<Trace("PRESENTED"), Put("COMPLETED")>>
Failing  == <<Trace("FAILED"), Put("FAILED"), Do("reraise")>>

\* recover_incomplete() for one run.
Recovery(r) == [run |-> r, seq |-> 0,
                todo |-> <<Trace("APPLICATION_RESTARTED"), Put("FAILED")>>]

Init ==
    /\ status = [r \in Runs |-> "NONE"]
    /\ result = [r \in Runs |-> "none"]
    /\ events = [r \in Runs |-> <<>>]
    /\ phase = [p \in Procs |-> "down"]
    /\ backlog = [p \in Procs |-> {}]
    /\ accepted = [p \in Procs |-> {}]
    /\ queue = [p \in Procs |-> <<>>]
    /\ thread = [p \in Procs |-> Idle]
    /\ faults = 0
    /\ recovered = {}
    /\ raised = {}

-----------------------------------------------------------------------------
(* Helpers *)

Busy(p)      == thread[p].run # NoRun
Pending(p, op) == thread[p].todo # <<>> /\ Head(thread[p].todo).op = op
Arg(p)       == Head(thread[p].todo).arg

Enter(p, to)      == phase' = [phase EXCEPT ![p] = to]
Perform(p, job)   == thread' = [thread EXCEPT ![p] = job]
Advance(p)        == Perform(p, [thread[p] EXCEPT !.todo = Tail(@), !.seq = 0])
ContinueWith(p, script) == Perform(p, [thread[p] EXCEPT !.todo = script])

QueuedAt(p) == {queue[p][i] : i \in DOMAIN queue[p]}

\* A run some process is still bound to decide.
Owned(r) == \E p \in Procs : \/ thread[p].run = r
                             \/ r \in accepted[p] \cup QueuedAt(p) \cup backlog[p]

\* The process is gone, with its memory.
Vanish(p) ==
    /\ Enter(p, "down")
    /\ Perform(p, Idle)
    /\ backlog' = [backlog EXCEPT ![p] = {}]
    /\ accepted' = [accepted EXCEPT ![p] = {}]
    /\ queue' = [queue EXCEPT ![p] = <<>>]

\* An exception leaves the script.  In the executor it ends the future; in a
\* server that is still starting, or in `ask`, it ends the process.
Raise(p) ==
    IF phase[p] = "starting"
    THEN Vanish(p) /\ UNCHANGED raised
    ELSE /\ raised' = raised \cup {thread[p].run}
         /\ Perform(p, Idle)
         /\ IF phase[p] = "asking" THEN Enter(p, "down") ELSE UNCHANGED phase
         /\ UNCHANGED <<backlog, accepted, queue>>

-----------------------------------------------------------------------------
(* A server's life *)

\* Mutants: the recovery forgets the queued runs, or takes every run.
StartForgetsQueued(p) ==
    /\ phase[p] = "down"
    /\ Enter(p, "starting")
    /\ backlog' = [backlog EXCEPT ![p] = {r \in Runs : status[r] = "RUNNING"}]
    /\ recovered' = recovered \cup backlog'[p]
    /\ raised' = raised \ backlog'[p]
    /\ UNCHANGED <<db, accepted, queue, thread, faults>>

StartTakesAll(p) ==
    /\ phase[p] = "down"
    /\ Enter(p, "starting")
    /\ backlog' = [backlog EXCEPT ![p] = {r \in Runs : status[r] # "NONE"}]
    /\ recovered' = recovered \cup {r \in Runs : Open(r)}
    /\ raised' = raised \ backlog'[p]
    /\ UNCHANGED <<db, accepted, queue, thread, faults>>

\* ApplicationContainer(): recover_incomplete() lists the open runs first.
StartServer(p) ==
    /\ phase[p] = "down"
    /\ Enter(p, "starting")
    /\ backlog' = [backlog EXCEPT ![p] = {r \in Runs : Open(r)}]
    /\ recovered' = recovered \cup backlog'[p]
    /\ raised' = raised \ backlog'[p]
    /\ UNCHANGED <<db, accepted, queue, thread, faults>>

\* The next run of the list (the code goes by rowid; any order is allowed).
Recover(p, r) ==
    /\ phase[p] = "starting"
    /\ ~Busy(p)
    /\ r \in backlog[p]
    /\ Perform(p, Recovery(r))
    /\ backlog' = [backlog EXCEPT ![p] = @ \ {r}]
    /\ UNCHANGED <<db, phase, accepted, queue, faults, recovered, raised>>

\* uvicorn binds its port once the container exists.
Serve(p) ==
    /\ phase[p] = "starting"
    /\ ~Busy(p)
    /\ backlog[p] = {}
    /\ Enter(p, "up")
    /\ UNCHANGED <<db, backlog, accepted, queue, thread, faults, recovered, raised>>

\* The port is taken: the process ends, after its recovery.
PortTaken(p) ==
    /\ phase[p] = "starting"
    /\ ~Busy(p)
    /\ backlog[p] = {}
    /\ \E q \in Procs : q # p /\ phase[q] = "up"
    /\ Enter(p, "down")
    /\ UNCHANGED <<db, backlog, accepted, queue, thread, faults, recovered, raised>>

\* create(): one INSERT.
Create(r) == status[r] = "NONE" /\ status' = [status EXCEPT ![r] = "QUEUED"]

\* submit(): prepare() creates the row of a question it accepts ...
Prepare(p, r) ==
    /\ phase[p] = "up"
    /\ Create(r)
    /\ accepted' = [accepted EXCEPT ![p] = @ \cup {r}]
    /\ UNCHANGED <<result, events, phase, backlog, queue, thread, faults,
                   recovered, raised>>

\* ... and the executor gets the job.
Enqueue(p, r) ==
    /\ r \in accepted[p]
    /\ queue' = [queue EXCEPT ![p] = Append(@, r)]
    /\ accepted' = [accepted EXCEPT ![p] = @ \ {r}]
    /\ UNCHANGED <<db, phase, backlog, thread, faults, recovered, raised>>

\* The executor thread is single: max_workers=1.
Take(p) ==
    /\ ~Busy(p)
    /\ queue[p] # <<>>
    /\ Perform(p, Job(Head(queue[p])))
    /\ queue' = [queue EXCEPT ![p] = Tail(@)]
    /\ UNCHANGED <<db, phase, backlog, accepted, faults, recovered, raised>>

\* shutdown(wait=False, cancel_futures=True), when no request is in flight.
Close(p) ==
    /\ phase[p] = "up"
    /\ accepted[p] = {}
    /\ Enter(p, "closing")
    /\ queue' = [queue EXCEPT ![p] = <<>>]
    /\ UNCHANGED <<db, backlog, accepted, thread, faults, recovered, raised>>

\* The interpreter joins the executor thread before it exits.
Exit(p) ==
    /\ phase[p] = "closing"
    /\ ~Busy(p)
    /\ Enter(p, "down")
    /\ UNCHANGED <<db, backlog, accepted, queue, thread, faults, recovered, raised>>

\* CLI: `ask` prepares a run and executes it itself, without any recovery.
Ask(p, r) ==
    /\ phase[p] = "down"
    /\ Enter(p, "asking")
    /\ Create(r)
    /\ Perform(p, Job(r))
    /\ UNCHANGED <<result, events, backlog, accepted, queue, faults, recovered,
                   raised>>

-----------------------------------------------------------------------------
(* The steps of a script *)

Resolve(p) ==
    /\ Pending(p, "resolve")
    /\ Advance(p)
    /\ UNCHANGED <<db, phase, backlog, accepted, queue, faults, recovered, raised>>

\* The registered database file is gone.
ResolveFails(p) ==
    /\ Pending(p, "resolve")
    /\ Raise(p)
    /\ UNCHANGED <<db, faults, recovered>>

\* set_status: any status may overwrite any other; result_json is kept unless
\* a result is given.
SetStatus(p) ==
    /\ Pending(p, "put")
    /\ LET r == thread[p].run
       IN  /\ status' = [status EXCEPT ![r] = Arg(p)]
           /\ result' = [result EXCEPT ![r] =
                           IF Arg(p) = "COMPLETED" THEN "answer"
                           ELSE IF phase[p] = "starting" THEN "restarted"
                           ELSE @]
    /\ Advance(p)
    /\ UNCHANGED <<events, phase, backlog, accepted, queue, faults, recovered,
                   raised>>

\* append_event, first half: SELECT COALESCE(MAX(sequence), 0) + 1.
ReadMax(p) ==
    /\ Pending(p, "append")
    /\ thread[p].seq = 0
    /\ Perform(p, [thread[p] EXCEPT !.seq = Len(events[thread[p].run]) + 1])
    /\ UNCHANGED <<db, phase, backlog, accepted, queue, faults, recovered, raised>>

\* Second half: INSERT, when the sequence is still free.
Insert(p) ==
    /\ Pending(p, "append")
    /\ thread[p].seq > Len(events[thread[p].run])
    /\ events' = [events EXCEPT ![thread[p].run] = Append(@, Arg(p))]
    /\ Advance(p)
    /\ UNCHANGED <<status, result, phase, backlog, accepted, queue, faults,
                   recovered, raised>>

\* IntegrityError: another process inserted that sequence in between.
InsertConflict(p) ==
    /\ Pending(p, "append")
    /\ thread[p].seq \in 1..Len(events[thread[p].run])
    /\ Raise(p)
    /\ UNCHANGED <<db, faults, recovered>>

\* The runtime answers, within its deadline.
CallReturns(p) ==
    /\ Pending(p, "call")
    /\ ContinueWith(p, Answered)
    /\ UNCHANGED <<db, phase, backlog, accepted, queue, faults, recovered, raised>>

\* The runtime, its construction or update_config() raises.
CallRaises(p) ==
    /\ Pending(p, "call")
    /\ ContinueWith(p, Failing)
    /\ UNCHANGED <<db, phase, backlog, accepted, queue, faults, recovered, raised>>

Reraise(p) ==
    /\ Pending(p, "reraise")
    /\ Raise(p)
    /\ UNCHANGED <<db, faults, recovered>>

\* _finish(): the future is done; `ask` prints and exits.
JobDone(p) ==
    /\ Busy(p)
    /\ thread[p].todo = <<>>
    /\ Perform(p, Idle)
    /\ IF phase[p] = "asking" THEN Enter(p, "down") ELSE UNCHANGED phase
    /\ UNCHANGED <<db, backlog, accepted, queue, faults, recovered, raised>>

-----------------------------------------------------------------------------
(* Faults *)

\* A store call fails: the database stays locked for 30 s, the disk is full.
StoreFails(p) ==
    /\ faults < MaxFaults
    /\ faults' = faults + 1
    /\ Pending(p, "append") \/ Pending(p, "put")
    /\ Raise(p)
    /\ UNCHANGED <<db, recovered>>

Kill(p) ==
    /\ faults < MaxFaults
    /\ faults' = faults + 1
    /\ phase[p] # "down"
    /\ Vanish(p)
    /\ UNCHANGED <<db, recovered, raised>>

-----------------------------------------------------------------------------
(* Specification *)

\* What a process does of itself once started.
Progress(p) ==
    \/ Serve(p) \/ Take(p) \/ Exit(p) \/ JobDone(p)
    \/ \E r \in Runs : Recover(p, r) \/ Enqueue(p, r)
    \/ Resolve(p) \/ ResolveFails(p) \/ SetStatus(p)
    \/ ReadMax(p) \/ Insert(p) \/ InsertConflict(p)
    \/ CallReturns(p) \/ CallRaises(p) \/ Reraise(p)

Command(p) ==
    \/ StartServer(p) \/ PortTaken(p) \/ Close(p)
    \/ \E r \in Runs : Prepare(p, r) \/ Ask(p, r)

Next ==
    \/ \E p \in Procs : Progress(p)
    \/ \E p \in Procs : Command(p)
    \/ \E p \in Procs : StoreFails(p)
    \/ \E p \in Procs : Kill(p)

Spec == Init /\ [][Next]_vars

\* A live process keeps executing its script: a model call ends by itself, at
\* its deadline at the latest.  No one has to start, use or stop anything.
Fairness == \A p \in Procs : WF_vars(Progress(p))

FairSpec == Spec /\ Fairness

-----------------------------------------------------------------------------
(* Invariants *)

TypeOK ==
    /\ status \in [Runs -> Status]
    /\ result \in [Runs -> {"none", "answer", "restarted"}]
    /\ events \in [Runs -> Seq(Event)]
    /\ phase \in [Procs -> Phase]
    /\ backlog \in [Procs -> SUBSET Runs]
    /\ accepted \in [Procs -> SUBSET Runs]
    /\ queue \in [Procs -> Seq(Runs)]
    /\ thread \in [Procs -> [run : Runs \cup {NoRun}, todo : Seq(Step), seq : Nat]]
    /\ faults \in 0..MaxFaults
    /\ recovered \in SUBSET Runs
    /\ raised \in SUBSET Runs
    /\ \A p \in Procs : phase[p] = "down" => thread[p] = Idle

Recorded(r, e) == \E i \in DOMAIN events[r] : events[r][i] = e

\* Whoever decided a run, the trace and the result in the database tell the
\* same story: a COMPLETED run has its answer and all its layer events, a
\* FAILED one the event that says why.
TerminalHasTrace ==
    \A r \in Runs :
        /\ status[r] = "COMPLETED" => /\ result[r] = "answer"
                                      /\ Recorded(r, "PRESENTED")
        /\ status[r] = "FAILED" => \/ Recorded(r, "FAILED")
                                   \/ Recorded(r, "APPLICATION_RESTARTED")

\* An exception left execute() and nobody had persisted FAILED: the run stays
\* open, and no process has it any more.
Abandoned(r) == Open(r) /\ r \in raised

\* While the only server is up, each open run is somebody's: it is in the
\* executor, in its queue or on the way there.  Only a run this server's own
\* executor has abandoned is forgotten; whatever an earlier process left open,
\* abandoned runs too, its recovery has decided.
OpenRunsAreOwned ==
    \A p \in Procs : phase[p] = "up" =>
        \A r \in Runs : Open(r) => Owned(r) \/ Abandoned(r)

-----------------------------------------------------------------------------
(* Action properties *)

\* A decided run is decided anew, or its result or trace changed, only when a
\* starting server had found it open: its executor and the recovery of another
\* process disagree, and the last writer wins.
OnlyRecoveryIsOverruled ==
    [][\A r \in Runs :
           Decided(r) /\ (\/ status'[r] # status[r]
                         \/ result'[r] # result[r]
                         \/ events'[r] # events[r]) => r \in recovered]_vars

\* A run's life, as its clients may rely on it: see RunLifecycle.
Lifecycle == INSTANCE RunLifecycle WITH life <- status

\* With one process at a time, kills and restarts included, the status column
\* goes through the states of RunLifecycle and no others.
StatusFollowsLifecycle == Lifecycle!Spec

-----------------------------------------------------------------------------
(* Liveness *)

\* Every run a live process took is decided, unless it is abandoned open (an
\* exception before the try block, or a store call that fails) or a process
\* went down.
RunsAreDecided ==
    \A r \in Runs :
        Open(r) ~> \/ Decided(r)
                   \/ Abandoned(r)
                   \/ \E p \in Procs : phase[p] \in {"closing", "down"}
=============================================================================
