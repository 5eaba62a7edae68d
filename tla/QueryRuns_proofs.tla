-------------------------- MODULE QueryRuns_proofs --------------------------
(***************************************************************************)
(* Theorems about QueryRuns, for every number of processes, runs, layer     *)
(* events and faults.  Two of them are about one process at a time, and say *)
(* so in their statement.                                                   *)
(***************************************************************************)
EXTENDS QueryRuns, SequenceTheorems, TLAPS

-----------------------------------------------------------------------------
(* The invariant: the scripts *)

Puts(t, i, s)    == t[i].op = "put" /\ t[i].arg = s
Appends(t, i, e) == t[i].op = "append" /\ t[i].arg = e
Decides(t, i)    == Puts(t, i, "COMPLETED") \/ Puts(t, i, "FAILED")
Calls(t, i)      == t[i].op = "call"

\* What is left of a script announces a decision before it writes it, and
\* writes nothing after it.
Announced(t, r) ==
    \A i \in DOMAIN t :
        /\ Puts(t, i, "COMPLETED") =>
              \/ Recorded(r, "PRESENTED")
              \/ \E j \in DOMAIN t : j < i /\ Appends(t, j, "PRESENTED")
        /\ Puts(t, i, "FAILED") =>
              \/ Recorded(r, "FAILED")
              \/ Recorded(r, "APPLICATION_RESTARTED")
              \/ \E j \in DOMAIN t :
                    /\ j < i
                    /\ \/ Appends(t, j, "FAILED")
                       \/ Appends(t, j, "APPLICATION_RESTARTED")

DecidesLast(t) ==
    \A i, j \in DOMAIN t :
        Decides(t, i) /\ i < j => t[j].op \notin {"append", "put"} /\ ~Calls(t, j)

\* An idle thread has no script.
IdleIsIdle == \A p \in Procs : ~Busy(p) => thread[p] = Idle

\* Requests and queues are those of a server that is up.
OnlyServersQueue ==
    \A p \in Procs : phase[p] # "up" => queue[p] = <<>> /\ accepted[p] = {}

Typed == TypeOK /\ IdleIsIdle /\ OnlyServersQueue

ScriptInv ==
    \A p \in Procs : /\ Announced(thread[p].todo, thread[p].run)
                     /\ DecidesLast(thread[p].todo)

TraceInv == Typed /\ ScriptInv /\ TerminalHasTrace

-----------------------------------------------------------------------------
(* The invariant: who is to write a run *)

\* A run no recovery has found open is in one place: the acceptance of a
\* request, a queue, or a thread; a run that has no row is nowhere.
Waits(p, r) == r \in accepted[p] \/ r \in QueuedAt(p)
Executes(p, r) == thread[p].run = r
Held(p, r)  == Waits(p, r) \/ Executes(p, r)

OnePlace(r) ==
    /\ \A p, q \in Procs : Held(p, r) /\ Held(q, r) => p = q
    /\ \A p \in Procs :
          /\ ~(r \in accepted[p] /\ r \in QueuedAt(p))
          /\ ~(Waits(p, r) /\ Executes(p, r))
          /\ \A i, j \in DOMAIN queue[p] :
                queue[p][i] = r /\ queue[p][j] = r => i = j

\* A thread that will still write.
WillWrite(t) == \E i \in DOMAIN t : t[i].op \in {"append", "put"} \/ Calls(t, i)

Settled(r) ==
    Decided(r) => \A p \in Procs : /\ ~Waits(p, r)
                                   /\ Executes(p, r) => ~WillWrite(thread[p].todo)

Placed(r) ==
    /\ OnePlace(r)
    /\ Settled(r)
    /\ status[r] = "NONE" => \A p \in Procs : ~Held(p, r)

BacklogIsRecovered == \A p \in Procs : backlog[p] \subseteq recovered

PlaceInv ==
    BacklogIsRecovered /\ \A r \in Runs \ recovered : Placed(r)

-----------------------------------------------------------------------------
(* The invariant: one process at a time *)

OneProcess == \A p, q \in Procs : p = q

\* What is left of a script says which status its run has.
Fits(t, s) ==
    /\ \A i \in DOMAIN t :
          /\ Puts(t, i, "RUNNING") =>
                /\ s = "QUEUED"
                /\ \E j \in DOMAIN t : i < j /\ Calls(t, j)
                /\ \A j \in DOMAIN t : i < j => ~Puts(t, j, "RUNNING")
          /\ Puts(t, i, "COMPLETED") => s = "RUNNING"
          /\ Puts(t, i, "FAILED") => s \in {"QUEUED", "RUNNING"}
          /\ Calls(t, i) => \/ s = "RUNNING"
                            \/ \E j \in DOMAIN t : j < i /\ Puts(t, j, "RUNNING")
    /\ s \in {"QUEUED", "RUNNING"} => \E i \in DOMAIN t : Decides(t, i) \/ Calls(t, i)

StatusFits(p) ==
    /\ \A r \in Runs : Waits(p, r) => status[r] = "QUEUED"
    /\ \A r \in backlog[p] : Open(r)
    /\ Busy(p) => Fits(thread[p].todo, status[thread[p].run])

\* A run that a recovery has found open is never in a queue again, and the one
\* it is failing is not in its list.
RecoveryIsApart(p) ==
    /\ \A r \in recovered : ~Waits(p, r) /\ status[r] # "NONE"
    /\ thread[p].run \notin backlog[p]
    /\ backlog[p] # {} => phase[p] = "starting"

\* Every open run is about to be decided by the process, once it is serving.
OwnedBy(p, r) == thread[p].run = r \/ Waits(p, r) \/ r \in backlog[p]

NobodyForgotten(p) ==
    phase[p] \in {"starting", "up"} =>
        \A r \in Runs : Open(r) => OwnedBy(p, r) \/ r \in raised

AloneInv ==
    /\ OneProcess
    /\ \A p \in Procs : StatusFits(p) /\ RecoveryIsApart(p) /\ NobodyForgotten(p)

-----------------------------------------------------------------------------
(* Scripts as sequences *)

\* Taking the first step off a sequence shifts the others.
LEMMA TailShifts ==
    ASSUME NEW S, NEW t \in Seq(S), t # <<>>
    PROVE  /\ Tail(t) \in Seq(S)
           /\ Head(t) \in S
           /\ Head(t) = t[1]
           /\ 1 \in DOMAIN t
           /\ DOMAIN Tail(t) = 1..(Len(t) - 1)
           /\ DOMAIN t = 1..Len(t)
           /\ Len(t) \in Nat
           /\ \A i \in DOMAIN Tail(t) : Tail(t)[i] = t[i + 1]
    BY EmptySeq, HeadTailProperties, SMT

\* The scripts of the code are scripts.
LEMMA ScriptsAreTyped ==
    /\ \A r \in Runs : /\ Job(r) \in [run : Runs \cup {NoRun}, todo : Seq(Step), seq : Nat]
                       /\ Recovery(r) \in [run : Runs \cup {NoRun}, todo : Seq(Step),
                                           seq : Nat]
    /\ Idle \in [run : Runs \cup {NoRun}, todo : Seq(Step), seq : Nat]
    /\ Failing \in Seq(Step)
  <1>1. /\ Do("resolve") \in Step /\ Do("call") \in Step /\ Do("reraise") \in Step
        /\ \A s \in {"RUNNING", "COMPLETED", "FAILED"} : Put(s) \in Step
        /\ \A e \in Event : Trace(e) \in Step
    BY DEF Step, Do, Put, Trace
  <1>2. /\ Put("RUNNING") \in Step /\ Put("FAILED") \in Step
        /\ Trace("RUN_STARTED") \in Step /\ Trace("FAILED") \in Step
        /\ Trace("APPLICATION_RESTARTED") \in Step
    BY <1>1 DEF Event
  <1>3. <<Do("resolve"), Put("RUNNING"), Trace("RUN_STARTED"), Do("call")>> \in Seq(Step)
    BY <1>1, <1>2
  <1>4. <<Trace("APPLICATION_RESTARTED"), Put("FAILED")>> \in Seq(Step)
    BY <1>2
  <1>5. <<Trace("FAILED"), Put("FAILED"), Do("reraise")>> \in Seq(Step)
    BY <1>1, <1>2
  <1>6. <<>> \in Seq(Step)
    OBVIOUS
  <1> QED
    BY <1>3, <1>4, <1>5, <1>6 DEF Job, Recovery, Idle, Failing

\* Two elements put at the end of a sequence.
LEMMA TwoMore ==
    ASSUME NEW S, NEW s \in Seq(S), NEW e \in Seq(S), Len(e) = 2
    PROVE  /\ s \o e \in Seq(S)
           /\ DOMAIN (s \o e) = 1..(Len(s) + 2)
           /\ \A i \in 1..Len(s) : (s \o e)[i] = s[i]
           /\ (s \o e)[Len(s) + 1] = e[1]
           /\ (s \o e)[Len(s) + 2] = e[2]
  <1>1. Len(s) \in Nat
    OBVIOUS
  <1>2. /\ s \o e \in Seq(S)
        /\ Len(s \o e) = Len(s) + 2
        /\ \A i \in 1..(Len(s) + 2) :
              (s \o e)[i] = IF i <= Len(s) THEN s[i] ELSE e[i - Len(s)]
    <2>1. /\ s \o e \in Seq(S)
          /\ Len(s \o e) = Len(s) + Len(e)
          /\ \A i \in 1..(Len(s) + Len(e)) :
                (s \o e)[i] = IF i <= Len(s) THEN s[i] ELSE e[i - Len(s)]
      BY ConcatProperties, Zenon
    <2> QED
      BY <2>1, Zenon
  <1>3. DOMAIN (s \o e) = 1..(Len(s) + 2)
    BY <1>2
  <1>4. \A i \in 1..Len(s) : (s \o e)[i] = s[i]
    BY <1>1, <1>2
  <1>5. (s \o e)[Len(s) + 1] = e[(Len(s) + 1) - Len(s)]
    BY <1>1, <1>2
  <1>6. (s \o e)[Len(s) + 2] = e[(Len(s) + 2) - Len(s)]
    BY <1>1, <1>2
  <1>7. (Len(s) + 1) - Len(s) = 1 /\ (Len(s) + 2) - Len(s) = 2
    BY <1>1
  <1> QED
    BY <1>2, <1>3, <1>4, <1>5, <1>6, <1>7

\* An answer's script: the layer events, PRESENTED, COMPLETED.
LEMMA AnsweredIs ==
    /\ Answered \in Seq(Step)
    /\ DOMAIN Answered = 1..(LayerEvents + 2)
    /\ \A i \in 1..LayerEvents : Answered[i] = Trace("LAYER")
    /\ Answered[LayerEvents + 1] = Trace("PRESENTED")
    /\ Answered[LayerEvents + 2] = Put("COMPLETED")
  <1> DEFINE L == [i \in 1..LayerEvents |-> Trace("LAYER")]
             E == <<Trace("PRESENTED"), Put("COMPLETED")>>
  <1>1. LayerEvents \in Nat
    BY QueryConstants
  <1>2. /\ Trace("LAYER") \in Step /\ Trace("PRESENTED") \in Step
        /\ Put("COMPLETED") \in Step
    BY DEF Step, Put, Trace, Event
  <1>3. /\ L \in Seq(Step) /\ Len(L) = LayerEvents
        /\ \A i \in 1..LayerEvents : L[i] = Trace("LAYER")
    BY <1>1, <1>2
  <1>4. /\ E \in Seq(Step) /\ Len(E) = 2
        /\ E[1] = Trace("PRESENTED") /\ E[2] = Put("COMPLETED")
    BY <1>2
  <1>5. Answered = L \o E
    BY DEF Answered
  <1> HIDE DEF L, E
  <1> QED
    BY <1>3, <1>4, <1>5, TwoMore

-----------------------------------------------------------------------------
(* What the helpers of the actions do *)

Threads == [run : Runs \cup {NoRun}, todo : Seq(Step), seq : Nat]

LEMMA Performs ==
    ASSUME TypeOK, NEW p \in Procs, NEW job \in Threads, Perform(p, job)
    PROVE  /\ thread' \in [Procs -> Threads]
           /\ thread'[p] = job
           /\ \A q \in Procs \ {p} : thread'[q] = thread[q]
    BY DEF TypeOK, Perform, Threads

LEMMA Advances ==
    ASSUME TypeOK, NEW p \in Procs, thread[p].todo # <<>>, Advance(p)
    PROVE  /\ thread' \in [Procs -> Threads]
           /\ thread'[p].run = thread[p].run
           /\ thread'[p].todo = Tail(thread[p].todo)
           /\ \A q \in Procs \ {p} : thread'[q] = thread[q]
  <1> DEFINE job == [thread[p] EXCEPT !.todo = Tail(@), !.seq = 0]
  <1>1. thread[p] \in Threads
    BY DEF TypeOK, Threads
  <1>2. Tail(thread[p].todo) \in Seq(Step)
    BY <1>1, TailShifts DEF Threads
  <1>3. /\ job \in Threads
        /\ job.run = thread[p].run
        /\ job.todo = Tail(thread[p].todo)
    BY <1>1, <1>2 DEF Threads
  <1>4. Perform(p, job)
    BY DEF Advance
  <1> HIDE DEF job
  <1> QED
    BY <1>3, <1>4, Performs

LEMMA Vanishes ==
    ASSUME TypeOK, NEW p \in Procs, Vanish(p)
    PROVE  /\ thread' \in [Procs -> Threads]
           /\ thread'[p] = Idle
           /\ \A q \in Procs \ {p} : thread'[q] = thread[q]
           /\ phase' \in [Procs -> Phase]
           /\ phase'[p] = "down"
           /\ \A q \in Procs \ {p} : phase'[q] = phase[q]
           /\ backlog' \in [Procs -> SUBSET Runs]
           /\ accepted' \in [Procs -> SUBSET Runs]
           /\ queue' \in [Procs -> Seq(Runs)]
           /\ backlog'[p] = {} /\ accepted'[p] = {} /\ queue'[p] = <<>>
           /\ \A q \in Procs \ {p} : /\ backlog'[q] = backlog[q]
                                     /\ accepted'[q] = accepted[q]
                                     /\ queue'[q] = queue[q]
  <1>1. Idle \in Threads
    BY ScriptsAreTyped DEF Threads
  <1>2. Perform(p, Idle)
    BY DEF Vanish
  <1>3. /\ phase' = [phase EXCEPT ![p] = "down"]
        /\ backlog' = [backlog EXCEPT ![p] = {}]
        /\ accepted' = [accepted EXCEPT ![p] = {}]
        /\ queue' = [queue EXCEPT ![p] = <<>>]
    BY DEF Vanish, Enter
  <1>4. <<>> \in Seq(Runs)
    OBVIOUS
  <1>5. /\ phase' \in [Procs -> Phase]
        /\ phase'[p] = "down"
        /\ \A q \in Procs \ {p} : phase'[q] = phase[q]
    BY <1>3 DEF TypeOK, Phase
  <1>6. /\ backlog' \in [Procs -> SUBSET Runs]
        /\ accepted' \in [Procs -> SUBSET Runs]
        /\ backlog'[p] = {} /\ accepted'[p] = {}
        /\ \A q \in Procs \ {p} : /\ backlog'[q] = backlog[q]
                                  /\ accepted'[q] = accepted[q]
    BY <1>3 DEF TypeOK
  <1>7. /\ queue' \in [Procs -> Seq(Runs)]
        /\ queue'[p] = <<>>
        /\ \A q \in Procs \ {p} : queue'[q] = queue[q]
    BY <1>3, <1>4 DEF TypeOK
  <1> QED
    BY <1>1, <1>2, <1>5, <1>6, <1>7, Performs

LEMMA Raises ==
    ASSUME TypeOK, NEW p \in Procs, Busy(p), Raise(p)
    PROVE  /\ thread' \in [Procs -> Threads]
           /\ thread'[p] = Idle
           /\ \A q \in Procs \ {p} : thread'[q] = thread[q]
           /\ phase' \in [Procs -> Phase]
           /\ \/ phase'[p] = "down"
              \/ /\ phase'[p] = phase[p]
                 /\ phase[p] # "starting"
                 /\ backlog' = backlog /\ accepted' = accepted /\ queue' = queue
           /\ \A q \in Procs \ {p} : phase'[q] = phase[q]
           /\ backlog' \in [Procs -> SUBSET Runs]
           /\ accepted' \in [Procs -> SUBSET Runs]
           /\ queue' \in [Procs -> Seq(Runs)]
           /\ \/ backlog'[p] = {} /\ accepted'[p] = {} /\ queue'[p] = <<>>
              \/ /\ backlog'[p] = backlog[p] /\ accepted'[p] = accepted[p]
                 /\ queue'[p] = queue[p]
           /\ \A q \in Procs \ {p} : /\ backlog'[q] = backlog[q]
                                     /\ accepted'[q] = accepted[q]
                                     /\ queue'[q] = queue[q]
           /\ raised' \in SUBSET Runs
           /\ raised \subseteq raised'
           /\ phase[p] # "starting" => thread[p].run \in raised'
  <1>1. thread[p].run \in Runs
    BY DEF TypeOK, Busy
  <1>2. CASE phase[p] = "starting"
    <2>1. Vanish(p) /\ raised' = raised
      BY <1>2 DEF Raise
    <2> QED
      BY <1>2, <2>1, Vanishes DEF TypeOK
  <1>3. CASE phase[p] # "starting"
    <2>1. /\ raised' = raised \cup {thread[p].run}
          /\ Perform(p, Idle)
          /\ backlog' = backlog /\ accepted' = accepted /\ queue' = queue
      BY <1>3 DEF Raise
    <2>2. Idle \in Threads
      BY ScriptsAreTyped DEF Threads
    <2>3. /\ phase' \in [Procs -> Phase]
          /\ phase'[p] = "down" \/ phase'[p] = phase[p]
          /\ \A q \in Procs \ {p} : phase'[q] = phase[q]
      <3>1. CASE phase[p] = "asking"
        <4>1. phase' = [phase EXCEPT ![p] = "down"]
          BY <1>3, <3>1 DEF Raise, Enter
        <4> QED
          BY <4>1 DEF TypeOK, Phase
      <3>2. CASE phase[p] # "asking"
        BY <1>3, <3>2 DEF Raise, TypeOK
      <3> QED
        BY <3>1, <3>2
    <2>4. /\ thread' \in [Procs -> Threads]
          /\ thread'[p] = Idle
          /\ \A q \in Procs \ {p} : thread'[q] = thread[q]
      BY <2>1, <2>2, Performs
    <2>5. /\ raised' \in SUBSET Runs
          /\ raised \subseteq raised'
          /\ thread[p].run \in raised'
      BY <1>1, <2>1 DEF TypeOK
    <2>6. /\ backlog' \in [Procs -> SUBSET Runs]
          /\ accepted' \in [Procs -> SUBSET Runs]
          /\ queue' \in [Procs -> Seq(Runs)]
      BY <2>1 DEF TypeOK
    <2> QED
      BY <1>3, <2>1, <2>3, <2>4, <2>5, <2>6, Zenon
  <1> QED
    BY <1>2, <1>3

\* A pending step belongs to a run and is a step of a script.
LEMMA Pends ==
    ASSUME TypeOK, IdleIsIdle, NEW p \in Procs, NEW o, Pending(p, o)
    PROVE  /\ Busy(p)
           /\ thread[p].run \in Runs
           /\ thread[p].todo \in Seq(Step)
           /\ thread[p].todo # <<>>
           /\ thread[p].todo[1] = Head(thread[p].todo)
           /\ thread[p].todo[1].op = o
           /\ Arg(p) = thread[p].todo[1].arg
           /\ o = "put" => Arg(p) \in {"RUNNING", "COMPLETED", "FAILED"}
           /\ o = "append" => Arg(p) \in Event
  <1>1. /\ thread[p] \in Threads
        /\ thread[p].todo # <<>> /\ Head(thread[p].todo).op = o
    BY DEF TypeOK, Threads, Pending
  <1>2. Busy(p)
    BY <1>1 DEF IdleIsIdle, Idle
  <1>3. thread[p].run \in Runs /\ thread[p].todo \in Seq(Step)
    BY <1>1, <1>2 DEF Threads, Busy
  <1>4. Head(thread[p].todo) \in Step /\ Head(thread[p].todo) = thread[p].todo[1]
    BY <1>1, <1>3, TailShifts
  <1>5. /\ o = "put" => Head(thread[p].todo).arg \in {"RUNNING", "COMPLETED", "FAILED"}
        /\ o = "append" => Head(thread[p].todo).arg \in Event
    BY <1>1, <1>4 DEF Step
  <1> QED
    BY <1>1, <1>2, <1>3, <1>4, <1>5 DEF Arg

-----------------------------------------------------------------------------
(* Type correctness *)

LEMMA TypedInitially == Init => Typed
  <1> SUFFICES ASSUME Init PROVE Typed
    OBVIOUS
  <1>1. /\ Idle \in [run : Runs \cup {NoRun}, todo : Seq(Step), seq : Nat]
        /\ thread = [p \in Procs |-> Idle]
    BY ScriptsAreTyped DEF Init
  <1>2. MaxFaults \in Nat
    BY QueryConstants
  <1>3. IdleIsIdle
    BY <1>1 DEF IdleIsIdle
  <1>4. /\ status \in [Runs -> Status]
        /\ result \in [Runs -> {"none", "answer", "restarted"}]
        /\ events \in [Runs -> Seq(Event)]
        /\ phase \in [Procs -> Phase]
        /\ backlog \in [Procs -> SUBSET Runs]
        /\ accepted \in [Procs -> SUBSET Runs]
        /\ queue \in [Procs -> Seq(Runs)]
        /\ recovered \in SUBSET Runs /\ raised \in SUBSET Runs
    BY DEF Init, Status, Phase
  <1>5. faults \in 0..MaxFaults
    BY <1>2 DEF Init
  <1>6. \A p \in Procs : thread[p] = Idle
    BY <1>1
  <1>7. thread \in [Procs -> [run : Runs \cup {NoRun}, todo : Seq(Step), seq : Nat]]
    BY <1>1
  <1>8. OnlyServersQueue
    BY DEF Init, OnlyServersQueue
  <1> QED
    BY <1>3, <1>4, <1>5, <1>6, <1>7, <1>8 DEF TypeOK, Typed

LEMMA TypedKept ==
    ASSUME Typed, [Next]_vars
    PROVE  Typed'
  <1> DEFINE Goal ==
        /\ status' \in [Runs -> Status]
        /\ result' \in [Runs -> {"none", "answer", "restarted"}]
        /\ events' \in [Runs -> Seq(Event)]
        /\ phase' \in [Procs -> Phase]
        /\ backlog' \in [Procs -> SUBSET Runs]
        /\ accepted' \in [Procs -> SUBSET Runs]
        /\ queue' \in [Procs -> Seq(Runs)]
        /\ thread' \in [Procs -> Threads]
        /\ faults' \in 0..MaxFaults
        /\ recovered' \in SUBSET Runs
        /\ raised' \in SUBSET Runs
        /\ \A q \in Procs : phase'[q] = "down" => thread'[q] = Idle
        /\ \A q \in Procs : thread'[q].run = NoRun => thread'[q] = Idle
        /\ \A q \in Procs : phase'[q] # "up" => queue'[q] = <<>> /\ accepted'[q] = {}
  <1>a. SUFFICES Goal
    BY DEF Typed, TypeOK, IdleIsIdle, OnlyServersQueue, Busy, Threads
  <1>o. TypeOK /\ IdleIsIdle
    BY DEF Typed
  <1>q. \A q \in Procs : phase[q] # "up" => queue[q] = <<>> /\ accepted[q] = {}
    BY DEF Typed, OnlyServersQueue
  <1>t. thread \in [Procs -> Threads]
    BY <1>o DEF TypeOK, Threads
  <1>i. \A q \in Procs : thread[q].run = NoRun => thread[q] = Idle
    BY <1>o DEF IdleIsIdle, Busy
  <1>d. \A q \in Procs : phase[q] = "down" => thread[q] = Idle
    BY <1>o DEF TypeOK
  <1>n. \A r \in Runs : r # NoRun
    BY QueryConstants
  <1>1. ASSUME NEW p \in Procs,
               StartServer(p) \/ Serve(p) \/ PortTaken(p) \/ Close(p) \/ Exit(p)
        PROVE  Goal
    <2>1. UNCHANGED <<db, accepted, thread, faults>> /\ raised' \subseteq raised
      BY <1>1 DEF StartServer, Serve, PortTaken, Close, Exit, db
    <2>2. /\ phase' \in [Procs -> Phase]
          /\ \A q \in Procs : phase'[q] = "down" => thread[q] = Idle
      BY <1>o, <1>1, <1>i, <1>d
         DEF StartServer, Serve, PortTaken, Close, Exit, Enter, Busy, TypeOK, Phase
    <2>3. /\ backlog' \in [Procs -> SUBSET Runs]
          /\ recovered' \in SUBSET Runs
      <3>1. CASE StartServer(p)
        <4>1. backlog' = [backlog EXCEPT ![p] = {r \in Runs : Open(r)}]
          BY <3>1 DEF StartServer
        <4>2. backlog' \in [Procs -> SUBSET Runs]
          BY <1>o, <4>1 DEF TypeOK
        <4>3. recovered' = recovered \cup backlog'[p]
          BY <3>1 DEF StartServer
        <4> QED
          BY <1>o, <4>2, <4>3 DEF TypeOK
      <3>2. CASE Serve(p) \/ PortTaken(p) \/ Close(p) \/ Exit(p)
        BY <1>o, <3>2 DEF Serve, PortTaken, Close, Exit, TypeOK
      <3> QED
        BY <1>1, <3>1, <3>2
    <2>4. queue' \in [Procs -> Seq(Runs)]
      <3>1. CASE Close(p)
        <4>1. queue' = [queue EXCEPT ![p] = <<>>] /\ <<>> \in Seq(Runs)
          BY <3>1 DEF Close
        <4> QED
          BY <1>o, <4>1 DEF TypeOK
      <3>2. CASE StartServer(p) \/ Serve(p) \/ PortTaken(p) \/ Exit(p)
        BY <1>o, <3>2 DEF StartServer, Serve, PortTaken, Exit, TypeOK
      <3> QED
        BY <1>1, <3>1, <3>2
    <2>5. \A q \in Procs : phase'[q] # "up" => queue'[q] = <<>> /\ accepted[q] = {}
      <3>1. CASE Close(p)
        BY <1>o, <1>q, <3>1 DEF Close, Enter, TypeOK
      <3>2. CASE StartServer(p) \/ Serve(p) \/ PortTaken(p) \/ Exit(p)
        BY <1>o, <1>q, <3>2 DEF StartServer, Serve, PortTaken, Exit, Enter, TypeOK
      <3> QED
        BY <1>1, <3>1, <3>2
    <2> QED
      BY <1>o, <1>t, <1>i, <2>1, <2>2, <2>3, <2>4, <2>5 DEF TypeOK, db
  <1>2. ASSUME NEW p \in Procs, NEW r \in Runs, Recover(p, r)
        PROVE  Goal
    <2>1. Recovery(r) \in Threads /\ Recovery(r).run = r
      BY ScriptsAreTyped DEF Threads, Recovery
    <2>2. /\ phase[p] = "starting"
          /\ Perform(p, Recovery(r))
          /\ backlog' = [backlog EXCEPT ![p] = backlog[p] \ {r}]
          /\ UNCHANGED <<db, phase, accepted, queue, faults, recovered, raised>>
      BY <1>2 DEF Recover
    <2>3. /\ thread' \in [Procs -> Threads]
          /\ thread'[p] = Recovery(r)
          /\ \A q \in Procs \ {p} : thread'[q] = thread[q]
      BY <2>1, <2>2, Performs, <1>o
    <2>4. backlog' \in [Procs -> SUBSET Runs]
      BY <1>o, <2>2 DEF TypeOK
    <2> QED
      BY <1>o, <1>q, <1>i, <1>d, <1>n, <2>1, <2>2, <2>3, <2>4 DEF TypeOK, db
  <1>3. ASSUME NEW p \in Procs, NEW r \in Runs, Prepare(p, r) \/ Enqueue(p, r)
        PROVE  Goal
    <2>1. UNCHANGED <<result, events, phase, backlog, thread, faults, recovered, raised>>
      BY <1>3 DEF Prepare, Enqueue, db
    <2>2. status' \in [Runs -> Status]
      BY <1>o, <1>3 DEF Prepare, Enqueue, Create, db, TypeOK, Status
    <2>3. accepted' \in [Procs -> SUBSET Runs]
      BY <1>o, <1>3 DEF Prepare, Enqueue, TypeOK
    <2>4. queue' \in [Procs -> Seq(Runs)]
      <3>1. CASE Enqueue(p, r)
        <4>1. Append(queue[p], r) \in Seq(Runs)
          BY <1>o DEF TypeOK
        <4>2. queue' = [queue EXCEPT ![p] = Append(queue[p], r)]
          BY <3>1 DEF Enqueue
        <4> QED
          BY <1>o, <4>1, <4>2 DEF TypeOK
      <3>2. CASE Prepare(p, r)
        BY <1>o, <3>2 DEF Prepare, TypeOK
      <3> QED
        BY <1>3, <3>1, <3>2
    <2>5. /\ phase[p] = "up"
          /\ \A q \in Procs \ {p} : queue'[q] = queue[q] /\ accepted'[q] = accepted[q]
      BY <1>o, <1>q, <1>3 DEF Prepare, Enqueue, TypeOK
    <2> QED
      BY <1>o, <1>q, <1>t, <1>i, <1>d, <2>1, <2>2, <2>3, <2>4, <2>5 DEF TypeOK
  <1>4. ASSUME NEW p \in Procs, Take(p)
        PROVE  Goal
    <2>1. /\ queue[p] # <<>>
          /\ Perform(p, Job(Head(queue[p])))
          /\ queue' = [queue EXCEPT ![p] = Tail(queue[p])]
          /\ UNCHANGED <<db, phase, backlog, accepted, faults, recovered, raised>>
      BY <1>4 DEF Take
    <2>2. Head(queue[p]) \in Runs /\ Tail(queue[p]) \in Seq(Runs)
      BY <1>o, <2>1, TailShifts DEF TypeOK
    <2>3. Job(Head(queue[p])) \in Threads /\ Job(Head(queue[p])).run = Head(queue[p])
      BY <2>2, ScriptsAreTyped DEF Threads, Job
    <2>4. /\ thread' \in [Procs -> Threads]
          /\ thread'[p] = Job(Head(queue[p]))
          /\ \A q \in Procs \ {p} : thread'[q] = thread[q]
      BY <2>1, <2>3, Performs, <1>o
    <2>5. queue' \in [Procs -> Seq(Runs)]
      BY <1>o, <2>1, <2>2 DEF TypeOK
    <2>6. phase[p] = "up"
      BY <2>1, <1>q
    <2>7. \A q \in Procs \ {p} : queue'[q] = queue[q]
      BY <1>o, <2>1 DEF TypeOK
    <2>8. thread'[p].run # NoRun
      BY <1>n, <2>2, <2>3, <2>4
    <2>9. UNCHANGED <<status, result, events, phase, backlog, accepted, faults, recovered,
                      raised>>
      BY <2>1 DEF db
    <2>10. \A q \in Procs : phase'[q] = "down" => thread'[q] = Idle
      BY <1>d, <2>4, <2>6, <2>9
    <2>11. \A q \in Procs : thread'[q].run = NoRun => thread'[q] = Idle
      BY <1>i, <2>4, <2>8
    <2>12. \A q \in Procs : phase'[q] # "up" => queue'[q] = <<>> /\ accepted'[q] = {}
      BY <1>q, <2>6, <2>7, <2>9
    <2> QED
      BY <1>o, <2>4, <2>5, <2>9, <2>10, <2>11, <2>12 DEF TypeOK
  <1>5. ASSUME NEW p \in Procs, NEW r \in Runs, Ask(p, r)
        PROVE  Goal
    <2>1. Job(r) \in Threads /\ Job(r).run = r
      BY ScriptsAreTyped DEF Threads, Job
    <2>2. /\ phase[p] = "down"
          /\ phase' = [phase EXCEPT ![p] = "asking"]
          /\ status' = [status EXCEPT ![r] = "QUEUED"]
          /\ Perform(p, Job(r))
          /\ UNCHANGED <<result, events, backlog, accepted, queue, faults, recovered,
                         raised>>
      BY <1>5 DEF Ask, Create, Enter
    <2>3. /\ thread' \in [Procs -> Threads]
          /\ thread'[p] = Job(r)
          /\ \A q \in Procs \ {p} : thread'[q] = thread[q]
      BY <1>o, <2>1, <2>2, Performs
    <2>4. /\ phase' \in [Procs -> Phase]
          /\ phase'[p] = "asking"
          /\ \A q \in Procs \ {p} : phase'[q] = phase[q]
          /\ status' \in [Runs -> Status]
      BY <1>o, <2>2 DEF TypeOK, Phase, Status
    <2>5. thread'[p].run # NoRun
      BY <1>n, <2>1, <2>3
    <2>6. \A q \in Procs : phase'[q] = "down" => thread'[q] = Idle
      BY <1>d, <2>3, <2>4
    <2>7. \A q \in Procs : thread'[q].run = NoRun => thread'[q] = Idle
      BY <1>i, <2>3, <2>5
    <2>8. \A q \in Procs : phase'[q] # "up" => queue'[q] = <<>> /\ accepted'[q] = {}
      BY <1>q, <2>2, <2>4
    <2> QED
      BY <1>o, <2>2, <2>3, <2>4, <2>6, <2>7, <2>8 DEF TypeOK
  <1>6. ASSUME NEW p \in Procs, Resolve(p) \/ SetStatus(p) \/ Insert(p)
        PROVE  Goal
    <2>1. /\ thread[p].todo # <<>> /\ thread[p].run \in Runs
          /\ SetStatus(p) => Arg(p) \in Status
          /\ Insert(p) => Arg(p) \in Event
      BY <1>o, <1>6, Pends DEF Resolve, SetStatus, Insert, Status
    <2>2. /\ Advance(p)
          /\ UNCHANGED <<phase, backlog, accepted, queue, faults, recovered, raised>>
      BY <1>6 DEF Resolve, SetStatus, Insert
    <2>3. /\ thread' \in [Procs -> Threads]
          /\ thread'[p].run = thread[p].run
          /\ \A q \in Procs \ {p} : thread'[q] = thread[q]
      BY <1>o, <2>1, <2>2, Advances
    <2>4. /\ status' \in [Runs -> Status]
          /\ result' \in [Runs -> {"none", "answer", "restarted"}]
          /\ events' \in [Runs -> Seq(Event)]
      <3>1. CASE Resolve(p)
        BY <1>o, <3>1 DEF Resolve, db, TypeOK
      <3>2. CASE SetStatus(p)
        <4>1. /\ status' = [status EXCEPT ![thread[p].run] = Arg(p)]
              /\ events' = events
              /\ result' = [result EXCEPT ![thread[p].run] =
                              IF Arg(p) = "COMPLETED" THEN "answer"
                              ELSE IF phase[p] = "starting" THEN "restarted"
                              ELSE result[thread[p].run]]
          BY <3>2 DEF SetStatus
        <4>2. status' \in [Runs -> Status]
          BY <1>o, <2>1, <3>2, <4>1 DEF TypeOK
        <4>3. result' \in [Runs -> {"none", "answer", "restarted"}]
          BY <1>o, <2>1, <4>1 DEF TypeOK
        <4> QED
          BY <1>o, <4>1, <4>2, <4>3 DEF TypeOK
      <3>3. CASE Insert(p)
        <4>1. /\ events' = [events EXCEPT ![thread[p].run] =
                              Append(events[thread[p].run], Arg(p))]
              /\ UNCHANGED <<status, result>>
          BY <3>3 DEF Insert
        <4>2. Append(events[thread[p].run], Arg(p)) \in Seq(Event)
          BY <1>o, <2>1, <3>3 DEF TypeOK
        <4> QED
          BY <1>o, <4>1, <4>2 DEF TypeOK
      <3> QED
        BY <1>6, <3>1, <3>2, <3>3
    <2>5. thread'[p].run # NoRun /\ phase[p] # "down"
      BY <1>d, <1>n, <2>1, <2>3 DEF Idle
    <2> QED
      BY <1>o, <1>q, <1>i, <1>d, <2>2, <2>3, <2>4, <2>5 DEF TypeOK
  <1>7. ASSUME NEW p \in Procs, ReadMax(p) \/ CallReturns(p) \/ CallRaises(p)
        PROVE  Goal
    <2>1. /\ thread[p].todo # <<>> /\ thread[p].run \in Runs
          /\ UNCHANGED <<db, phase, backlog, accepted, queue, faults, recovered, raised>>
      BY <1>o, <1>7, Pends DEF ReadMax, CallReturns, CallRaises
    <2>2. PICK job \in Threads : job.run = thread[p].run /\ Perform(p, job)
      <3>1. CASE ReadMax(p)
        <4>1. Perform(p, [thread[p] EXCEPT !.seq = Len(events[thread[p].run]) + 1])
          BY <3>1 DEF ReadMax
        <4>2. Len(events[thread[p].run]) \in Nat
          BY <1>o, <2>1 DEF TypeOK
        <4>3. [thread[p] EXCEPT !.seq = Len(events[thread[p].run]) + 1] \in Threads
          BY <1>t, <4>2 DEF Threads
        <4>4. [thread[p] EXCEPT !.seq = Len(events[thread[p].run]) + 1].run
                 = thread[p].run
          BY <1>t DEF Threads
        <4> QED
          BY <4>1, <4>3, <4>4
      <3>2. ASSUME NEW t \in Seq(Step), ContinueWith(p, t)
            PROVE  \E job \in Threads : job.run = thread[p].run /\ Perform(p, job)
        <4>1. [thread[p] EXCEPT !.todo = t] \in Threads
          BY <1>t DEF Threads
        <4>2. [thread[p] EXCEPT !.todo = t].run = thread[p].run
          BY <1>t DEF Threads
        <4> QED
          BY <3>2, <4>1, <4>2 DEF ContinueWith
      <3>3. Answered \in Seq(Step) /\ Failing \in Seq(Step)
        BY AnsweredIs, ScriptsAreTyped
      <3> QED
        BY <1>7, <3>1, <3>2, <3>3 DEF CallReturns, CallRaises
    <2>3. /\ thread' \in [Procs -> Threads]
          /\ thread'[p].run = thread[p].run
          /\ \A q \in Procs \ {p} : thread'[q] = thread[q]
      BY <1>o, <2>2, Performs
    <2>4. thread'[p].run # NoRun /\ phase[p] # "down"
      BY <1>d, <1>n, <2>1, <2>3 DEF Idle
    <2> QED
      BY <1>o, <1>q, <1>i, <1>d, <2>1, <2>3, <2>4 DEF TypeOK, db
  <1>8. ASSUME NEW p \in Procs,
               ResolveFails(p) \/ InsertConflict(p) \/ Reraise(p) \/ StoreFails(p)
        PROVE  Goal
    <2>1. /\ Busy(p)
          /\ Raise(p)
          /\ UNCHANGED <<db, recovered>>
      BY <1>o, <1>8, Pends DEF ResolveFails, InsertConflict, Reraise, StoreFails
    <2>2. faults' \in 0..MaxFaults
      BY <1>o, <1>8, QueryConstants
         DEF ResolveFails, InsertConflict, Reraise, StoreFails, TypeOK
    <2>3. Idle.run = NoRun
      BY DEF Idle
    <2>4. /\ thread' \in [Procs -> Threads]
          /\ thread'[p] = Idle
          /\ \A q \in Procs \ {p} : thread'[q] = thread[q]
          /\ phase' \in [Procs -> Phase]
          /\ \A q \in Procs \ {p} : phase'[q] = phase[q]
          /\ backlog' \in [Procs -> SUBSET Runs]
          /\ accepted' \in [Procs -> SUBSET Runs]
          /\ queue' \in [Procs -> Seq(Runs)]
          /\ \A q \in Procs \ {p} : /\ accepted'[q] = accepted[q]
                                    /\ queue'[q] = queue[q]
          /\ raised' \in SUBSET Runs
      BY <1>o, <2>1, Raises
    <2>5. phase'[p] # "up" => queue'[p] = <<>> /\ accepted'[p] = {}
      <3>1. CASE phase[p] = "starting"
        BY <1>o, <2>1, <3>1, Vanishes DEF Raise
      <3>2. CASE phase[p] = "asking"
        BY <1>q, <2>1, <3>2 DEF Raise
      <3>3. CASE phase[p] \notin {"starting", "asking"}
        BY <1>q, <2>1, <3>3 DEF Raise
      <3> QED
        BY <3>1, <3>2, <3>3
    <2> QED
      BY <1>o, <1>q, <1>i, <1>d, <2>1, <2>2, <2>4, <2>5 DEF TypeOK, db
  <1>9. ASSUME NEW p \in Procs, JobDone(p)
        PROVE  Goal
    <2>1. /\ Perform(p, Idle)
          /\ UNCHANGED <<db, backlog, accepted, queue, faults, recovered, raised>>
          /\ \/ phase[p] = "asking" /\ phase' = [phase EXCEPT ![p] = "down"]
             \/ phase[p] # "asking" /\ phase' = phase
      BY <1>9 DEF JobDone, Enter
    <2>2. Idle \in Threads
      BY ScriptsAreTyped DEF Threads
    <2>3. /\ thread' \in [Procs -> Threads]
          /\ thread'[p] = Idle
          /\ \A q \in Procs \ {p} : thread'[q] = thread[q]
      BY <1>o, <2>1, <2>2, Performs
    <2>4. /\ phase' \in [Procs -> Phase]
          /\ \A q \in Procs \ {p} : phase'[q] = phase[q]
          /\ phase'[p] # "up" => phase[p] # "up"
      BY <1>o, <2>1 DEF TypeOK, Phase
    <2> QED
      BY <1>o, <1>q, <1>i, <1>d, <2>1, <2>3, <2>4 DEF TypeOK, db
  <1>10. ASSUME NEW p \in Procs, Kill(p)
         PROVE  Goal
    <2>1. /\ Vanish(p)
          /\ UNCHANGED <<db, recovered, raised>>
          /\ faults' \in 0..MaxFaults
      BY <1>o, <1>10, QueryConstants DEF Kill, TypeOK
    <2>2. /\ thread' \in [Procs -> Threads]
          /\ thread'[p] = Idle
          /\ \A q \in Procs \ {p} : thread'[q] = thread[q]
          /\ phase' \in [Procs -> Phase]
          /\ \A q \in Procs \ {p} : phase'[q] = phase[q]
          /\ backlog' \in [Procs -> SUBSET Runs]
          /\ accepted' \in [Procs -> SUBSET Runs]
          /\ queue' \in [Procs -> Seq(Runs)]
          /\ accepted'[p] = {} /\ queue'[p] = <<>>
          /\ \A q \in Procs \ {p} : /\ accepted'[q] = accepted[q]
                                    /\ queue'[q] = queue[q]
      BY <1>o, <2>1, Vanishes
    <2> QED
      BY <1>o, <1>q, <1>i, <1>d, <2>1, <2>2 DEF TypeOK, db
  <1>11. ASSUME UNCHANGED vars
         PROVE  Goal
    BY <1>o, <1>q, <1>t, <1>i, <1>d, <1>11 DEF vars, db, procs, TypeOK
  <1> QED
    BY <1>1, <1>2, <1>3, <1>4, <1>5, <1>6, <1>7, <1>8, <1>9, <1>10, <1>11
       DEF Next, Progress, Command

\* Every value the model computes is of its type: the columns of the two
\* tables, the life of each process, its queue and the script of its thread;
\* a process that is down does nothing.
THEOREM TypeCorrect == Spec => []TypeOK
  <1>1. Init => Typed
    BY TypedInitially
  <1>2. Typed /\ [Next]_vars => Typed'
    BY TypedKept
  <1>3. Typed => TypeOK
    BY DEF Typed
  <1> QED
    BY <1>1, <1>2, <1>3, PTL DEF Spec

-----------------------------------------------------------------------------
(* The trace and the status *)

\* A script that announces its own decisions.
AnnouncesAll(t) ==
    \A i \in DOMAIN t :
        /\ Puts(t, i, "COMPLETED") =>
              \E j \in DOMAIN t : j < i /\ Appends(t, j, "PRESENTED")
        /\ Puts(t, i, "FAILED") =>
              \E j \in DOMAIN t :
                  /\ j < i
                  /\ \/ Appends(t, j, "FAILED")
                     \/ Appends(t, j, "APPLICATION_RESTARTED")

\* The scripts of the code do, and they write nothing after a decision.
LEMMA ScriptsAnnounce ==
    /\ \A r \in Runs : /\ AnnouncesAll(Job(r).todo) /\ DecidesLast(Job(r).todo)
                       /\ AnnouncesAll(Recovery(r).todo) /\ DecidesLast(Recovery(r).todo)
    /\ AnnouncesAll(Idle.todo) /\ DecidesLast(Idle.todo)
    /\ AnnouncesAll(Answered) /\ DecidesLast(Answered)
    /\ AnnouncesAll(Failing) /\ DecidesLast(Failing)
  <1>1. ASSUME NEW r \in Runs
        PROVE  AnnouncesAll(Job(r).todo) /\ DecidesLast(Job(r).todo)
    <2> DEFINE t == <<Do("resolve"), Put("RUNNING"), Trace("RUN_STARTED"), Do("call")>>
    <2>1. /\ DOMAIN t = 1..4
          /\ t[1].op = "resolve" /\ t[2].op = "put" /\ t[2].arg = "RUNNING"
          /\ t[3].op = "append" /\ t[4].op = "call"
      <3>1. /\ t[1] = Do("resolve") /\ t[2] = Put("RUNNING")
            /\ t[3] = Trace("RUN_STARTED") /\ t[4] = Do("call")
        OBVIOUS
      <3>2. DOMAIN t = 1..4
        OBVIOUS
      <3>3. /\ \A w : Do(w).op = w
            /\ \A w : Put(w).op = "put" /\ Put(w).arg = w
            /\ \A w : Trace(w).op = "append" /\ Trace(w).arg = w
        BY DEF Do, Put, Trace
      <3> HIDE DEF t
      <3> QED
        BY <3>1, <3>2, <3>3
    <2>2. Job(r).todo = t
      BY DEF Job
    <2> HIDE DEF t
    <2>3. \A i \in DOMAIN t : ~Decides(t, i)
      BY <2>1 DEF Decides, Puts
    <2> QED
      BY <2>2, <2>3 DEF AnnouncesAll, DecidesLast, Decides
  <1>2. ASSUME NEW r \in Runs
        PROVE  AnnouncesAll(Recovery(r).todo) /\ DecidesLast(Recovery(r).todo)
    <2> DEFINE t == <<Trace("APPLICATION_RESTARTED"), Put("FAILED")>>
    <2>1. /\ DOMAIN t = 1..2
          /\ t[1].op = "append" /\ t[1].arg = "APPLICATION_RESTARTED"
          /\ t[2].op = "put" /\ t[2].arg = "FAILED"
      BY DEF Put, Trace
    <2>2. Recovery(r).todo = t
      BY DEF Recovery
    <2> HIDE DEF t
    <2> QED
      BY <2>1, <2>2 DEF AnnouncesAll, DecidesLast, Decides, Puts, Appends
  <1>3. AnnouncesAll(Idle.todo) /\ DecidesLast(Idle.todo)
    <2>1. DOMAIN Idle.todo = {}
      BY DEF Idle
    <2> QED
      BY <2>1 DEF AnnouncesAll, DecidesLast
  <1>4. AnnouncesAll(Answered) /\ DecidesLast(Answered)
    <2>1. LayerEvents \in Nat
      BY QueryConstants
    <2>2. /\ \A i \in 1..LayerEvents : Answered[i].op = "append"
          /\ Answered[LayerEvents + 1].op = "append"
          /\ Answered[LayerEvents + 1].arg = "PRESENTED"
          /\ Answered[LayerEvents + 2].op = "put"
          /\ Answered[LayerEvents + 2].arg = "COMPLETED"
      BY AnsweredIs DEF Trace, Put
    <2>3. \A i \in DOMAIN Answered :
              i \in 1..LayerEvents \/ i = LayerEvents + 1 \/ i = LayerEvents + 2
      BY <2>1, AnsweredIs
    <2>4. LayerEvents + 1 \in DOMAIN Answered /\ LayerEvents + 1 < LayerEvents + 2
      BY <2>1, AnsweredIs
    <2>5. \A i \in DOMAIN Answered : Answered[i].op = "put" =>
              i = LayerEvents + 2 /\ Answered[i].arg = "COMPLETED"
      BY <2>2, <2>3
    <2>6. AnnouncesAll(Answered)
      BY <2>2, <2>4, <2>5 DEF AnnouncesAll, Puts, Appends
    <2>7. \A j \in DOMAIN Answered : ~(LayerEvents + 2 < j)
      BY <2>1, AnsweredIs
    <2> QED
      BY <2>5, <2>6, <2>7 DEF DecidesLast, Decides, Puts
  <1>5. AnnouncesAll(Failing) /\ DecidesLast(Failing)
    <2> DEFINE t == <<Trace("FAILED"), Put("FAILED"), Do("reraise")>>
    <2>1. /\ DOMAIN t = 1..3
          /\ t[1].op = "append" /\ t[1].arg = "FAILED"
          /\ t[2].op = "put" /\ t[2].arg = "FAILED"
          /\ t[3].op = "reraise"
      <3>1. t[1] = Trace("FAILED") /\ t[2] = Put("FAILED") /\ t[3] = Do("reraise")
        OBVIOUS
      <3>2. DOMAIN t = 1..3
        OBVIOUS
      <3>3. /\ \A w : Do(w).op = w
            /\ \A w : Put(w).op = "put" /\ Put(w).arg = w
            /\ \A w : Trace(w).op = "append" /\ Trace(w).arg = w
        BY DEF Do, Put, Trace
      <3> HIDE DEF t
      <3> QED
        BY <3>1, <3>2, <3>3
    <2>2. Failing = t
      BY DEF Failing
    <2> HIDE DEF t
    <2> QED
      BY <2>1, <2>2 DEF AnnouncesAll, DecidesLast, Decides, Puts, Appends, Calls
  <1> QED
    BY <1>1, <1>2, <1>3, <1>4, <1>5

\* The rest of a script is announced if its first step has been carried out.
LEMMA RestIsAnnounced ==
    ASSUME NEW t \in Seq(Step), t # <<>>, NEW r \in Runs,
           Announced(t, r), DecidesLast(t),
           \A e \in Event : Recorded(r, e) => Recorded(r, e)',
           t[1].op = "append" => Recorded(r, t[1].arg)'
    PROVE  /\ Announced(Tail(t), r)'
           /\ DecidesLast(Tail(t))
  <1> DEFINE u == Tail(t)
  <1>1. /\ Len(t) \in Nat /\ 1 \in DOMAIN t
        /\ DOMAIN u = 1..(Len(t) - 1) /\ DOMAIN t = 1..Len(t)
        /\ \A i \in DOMAIN u : u[i] = t[i + 1]
    BY TailShifts
  <1> HIDE DEF u
  <1>2. \A i \in DOMAIN u : i + 1 \in DOMAIN t /\ i \in Int
    BY <1>1
  <1>3. \A i, j \in DOMAIN u : i < j => i + 1 < j + 1
    BY <1>1
  <1>4. DecidesLast(u)
    BY <1>1, <1>2, <1>3 DEF DecidesLast, Decides, Puts, Calls
  <1>5. \A i \in DOMAIN t, j \in DOMAIN t :
            j < i => j = 1 \/ (j - 1 \in DOMAIN u /\ j - 1 < i - 1 /\ u[j - 1] = t[j])
    BY <1>1
  <1>6. {"PRESENTED", "FAILED", "APPLICATION_RESTARTED"} \subseteq Event
    BY DEF Event
  <1>7. ASSUME NEW i \in DOMAIN u, NEW e \in Event,
               \/ Recorded(r, e)
               \/ \E j \in DOMAIN t : j < i + 1 /\ Appends(t, j, e)
        PROVE  \/ Recorded(r, e)'
               \/ \E j \in DOMAIN u : j < i /\ Appends(u, j, e)
    <2>1. CASE Recorded(r, e)
      BY <2>1
    <2>2. ASSUME NEW j \in DOMAIN t, j < i + 1, Appends(t, j, e)
          PROVE  \/ Recorded(r, e)'
                 \/ \E k \in DOMAIN u : k < i /\ Appends(u, k, e)
      <3>1. CASE j = 1
        BY <2>2, <3>1 DEF Appends
      <3>2. CASE j - 1 \in DOMAIN u /\ j - 1 < (i + 1) - 1 /\ u[j - 1] = t[j]
        <4>1. (i + 1) - 1 = i
          BY <1>2
        <4>2. Appends(u, j - 1, e)
          BY <2>2, <3>2 DEF Appends
        <4> QED
          BY <3>2, <4>1, <4>2
      <3> QED
        BY <1>2, <1>5, <2>2, <3>1, <3>2
    <2> QED
      BY <1>7, <2>1, <2>2
  <1>8. ASSUME NEW i \in DOMAIN u
        PROVE  /\ Puts(u, i, "COMPLETED") =>
                    \/ Recorded(r, "PRESENTED")'
                    \/ \E j \in DOMAIN u : j < i /\ Appends(u, j, "PRESENTED")
               /\ Puts(u, i, "FAILED") =>
                    \/ Recorded(r, "FAILED")'
                    \/ Recorded(r, "APPLICATION_RESTARTED")'
                    \/ \E j \in DOMAIN u :
                          /\ j < i
                          /\ \/ Appends(u, j, "FAILED")
                             \/ Appends(u, j, "APPLICATION_RESTARTED")
    <2>1. i + 1 \in DOMAIN t /\ t[i + 1] = u[i]
      BY <1>1, <1>2
    <2>2. Puts(u, i, "COMPLETED") =>
              \/ Recorded(r, "PRESENTED")
              \/ \E j \in DOMAIN t : j < i + 1 /\ Appends(t, j, "PRESENTED")
      BY <2>1 DEF Announced, Puts
    <2>3. Puts(u, i, "FAILED") =>
              \/ Recorded(r, "FAILED")
              \/ Recorded(r, "APPLICATION_RESTARTED")
              \/ \E j \in DOMAIN t : j < i + 1 /\ Appends(t, j, "FAILED")
              \/ \E j \in DOMAIN t : j < i + 1 /\ Appends(t, j, "APPLICATION_RESTARTED")
      BY <2>1 DEF Announced, Puts
    <2> QED
      BY <1>6, <1>7, <2>2, <2>3
  <1>9. Announced(u, r)'
    BY <1>8 DEF Announced
  <1> QED
    BY <1>4, <1>9 DEF u

\* Events are only ever added.
LEMMA InsertAdds ==
    ASSUME Typed, NEW p \in Procs, Insert(p),
           NEW r \in Runs, NEW a \in Event, thread[p].run = r, Arg(p) = a
    PROVE  /\ Recorded(r, a)'
           /\ \A q \in Runs, e \in Event : Recorded(q, e) => Recorded(q, e)'
  <1> DEFINE s == events[r]
  <1>1. events' = [events EXCEPT ![r] = Append(s, a)]
    BY DEF Insert
  <1>2. /\ events'[r] = Append(s, a)
        /\ \A q \in Runs \ {r} : events'[q] = events[q]
        /\ s \in Seq(Event)
    BY <1>1 DEF Typed, TypeOK
  <1> HIDE DEF s
  <1>3. /\ Len(s) \in Nat
        /\ DOMAIN s = 1..Len(s)
        /\ DOMAIN Append(s, a) = 1..(Len(s) + 1)
        /\ \A i \in 1..Len(s) : Append(s, a)[i] = s[i]
        /\ Append(s, a)[Len(s) + 1] = a
    BY <1>2
  <1>4. Recorded(r, a)'
    <2>1. Len(s) + 1 \in DOMAIN events'[r] /\ events'[r][Len(s) + 1] = a
      BY <1>2, <1>3
    <2> QED
      BY <2>1 DEF Recorded
  <1>5. ASSUME NEW e \in Event, Recorded(r, e)
        PROVE  Recorded(r, e)'
    <2>1. PICK i \in DOMAIN events[r] : events[r][i] = e
      BY <1>5 DEF Recorded
    <2>2. i \in 1..Len(s) /\ s[i] = e
      BY <1>3, <2>1 DEF s
    <2>3. i \in DOMAIN events'[r] /\ events'[r][i] = e
      BY <1>2, <1>3, <2>2
    <2> QED
      BY <2>3 DEF Recorded
  <1>6. ASSUME NEW q \in Runs \ {r}, NEW e \in Event, Recorded(q, e)
        PROVE  Recorded(q, e)'
    BY <1>2, <1>6 DEF Recorded
  <1> QED
    BY <1>4, <1>5, <1>6

LEMMA EventsGrow ==
    ASSUME Typed, [Next]_vars
    PROVE  \A r \in Runs, e \in Event : Recorded(r, e) => Recorded(r, e)'
  <1>1. ASSUME NEW p \in Procs, Insert(p)
        PROVE  \A r \in Runs, e \in Event : Recorded(r, e) => Recorded(r, e)'
    <2>1. thread[p].run \in Runs /\ Arg(p) \in Event
      BY <1>1, Pends DEF Insert, Typed
    <2> QED
      BY <1>1, <2>1, InsertAdds
  <1>2. CASE events' = events
    BY <1>2 DEF Recorded
  <1>3. (\E p \in Procs : Insert(p)) \/ events' = events
    BY DEF Next, Progress, Command, vars, db, Serve, Take, Exit, JobDone, Recover,
           Enqueue, Resolve, ResolveFails, SetStatus, ReadMax, InsertConflict,
           CallReturns, CallRaises, Reraise, StartServer, PortTaken, Close, Prepare,
           Ask, StoreFails, Kill
  <1> QED
    BY <1>1, <1>2, <1>3

\* What a step does to a thread.
Starts(p)   == \E r \in Runs : thread'[p] \in {Job(r), Recovery(r)}
Stays(p)    == thread'[p].run = thread[p].run /\ thread'[p].todo = thread[p].todo
Extends(p) == /\ thread[p].todo # <<>> /\ Calls(thread[p].todo, 1)
               /\ thread'[p].run = thread[p].run
               /\ thread'[p].todo \in {Answered, Failing}
Moves(p)     == /\ thread[p].todo # <<>>
               /\ thread'[p].run = thread[p].run
               /\ thread'[p].todo = Tail(thread[p].todo)

LEMMA AdvancesMove ==
    ASSUME Typed, NEW q \in Procs, Resolve(q) \/ SetStatus(q) \/ Insert(q)
    PROVE  Moves(q) /\ \A p \in Procs \ {q} : thread'[p] = thread[p]
  <1>1. thread[q].todo # <<>> /\ Advance(q)
    BY Pends DEF Resolve, SetStatus, Insert, Typed
  <1> QED
    BY <1>1, Advances DEF Moves, Typed

LEMMA ReadsStay ==
    ASSUME Typed, NEW q \in Procs, ReadMax(q)
    PROVE  Stays(q) /\ \A p \in Procs \ {q} : thread'[p] = thread[p]
  <1> DEFINE job == [thread[q] EXCEPT !.seq = Len(events[thread[q].run]) + 1]
  <1>o. TypeOK /\ IdleIsIdle /\ thread \in [Procs -> Threads]
    BY DEF Typed, TypeOK, Threads
  <1>1. thread[q].run \in Runs
    BY <1>o, Pends DEF ReadMax
  <1>2. Len(events[thread[q].run]) \in Nat
    BY <1>o, <1>1 DEF TypeOK
  <1>3. ASSUME NEW n \in Nat
        PROVE  /\ [thread[q] EXCEPT !.seq = n] \in Threads
               /\ [thread[q] EXCEPT !.seq = n].run = thread[q].run
               /\ [thread[q] EXCEPT !.seq = n].todo = thread[q].todo
    BY <1>o DEF Threads
  <1>4. Len(events[thread[q].run]) + 1 \in Nat
    BY <1>2
  <1>5. job \in Threads /\ job.run = thread[q].run /\ job.todo = thread[q].todo
    BY <1>3, <1>4
  <1>6. Perform(q, job)
    BY DEF ReadMax
  <1> HIDE DEF job
  <1> QED
    BY <1>o, <1>5, <1>6, Performs DEF Stays

LEMMA CallsExtend ==
    ASSUME Typed, NEW q \in Procs, CallReturns(q) \/ CallRaises(q)
    PROVE  Extends(q) /\ \A p \in Procs \ {q} : thread'[p] = thread[p]
  <1>o. TypeOK /\ IdleIsIdle /\ thread \in [Procs -> Threads]
    BY DEF Typed, TypeOK, Threads
  <1>1. ASSUME NEW t \in {Answered, Failing}, ContinueWith(q, t)
        PROVE  Extends(q) /\ \A p \in Procs \ {q} : thread'[p] = thread[p]
    <2> DEFINE job == [thread[q] EXCEPT !.todo = t]
    <2>1. t \in Seq(Step)
      BY AnsweredIs, ScriptsAreTyped
    <2>2. job \in Threads /\ job.run = thread[q].run /\ job.todo = t
      BY <1>o, <2>1 DEF Threads
    <2>3. Perform(q, job)
      BY <1>1 DEF ContinueWith
    <2>4. thread[q].todo # <<>> /\ Calls(thread[q].todo, 1)
      BY <1>o, Pends DEF CallReturns, CallRaises, Calls
    <2> HIDE DEF job
    <2> QED
      BY <1>o, <1>1, <2>2, <2>3, <2>4, Performs DEF Extends
  <1> QED
    BY <1>1 DEF CallReturns, CallRaises

LEMMA ThreadsStep ==
    ASSUME Typed, [Next]_vars, NEW p \in Procs
    PROVE  \/ Starts(p)
           \/ Stays(p)
           \/ thread'[p] = Idle
           \/ Extends(p)
           \/ /\ Moves(p)
              /\ Resolve(p) \/ SetStatus(p) \/ Insert(p)
  <1>o. TypeOK /\ IdleIsIdle
    BY DEF Typed
  <1>t. thread \in [Procs -> Threads]
    BY <1>o DEF TypeOK, Threads
  <1>1. ASSUME thread'[p] = thread[p]
        PROVE  Stays(p)
    BY <1>1 DEF Stays
  <1>2. ASSUME NEW q \in Procs, NEW job \in Threads, Perform(q, job)
        PROVE  thread'[q] = job /\ (p # q => thread'[p] = thread[p])
    BY <1>o, <1>2, Performs
  <1>3. ASSUME NEW q \in Procs, NEW r \in Runs, Recover(q, r)
        PROVE  Starts(p) \/ Stays(p)
    <2>1. Recovery(r) \in Threads /\ Perform(q, Recovery(r))
      BY <1>3, ScriptsAreTyped DEF Threads, Recover
    <2> QED
      BY <1>1, <1>2, <2>1 DEF Starts
  <1>4. ASSUME NEW q \in Procs, NEW r \in Runs, Ask(q, r)
        PROVE  Starts(p) \/ Stays(p)
    <2>1. Job(r) \in Threads /\ Perform(q, Job(r))
      BY <1>4, ScriptsAreTyped DEF Threads, Ask
    <2> QED
      BY <1>1, <1>2, <2>1 DEF Starts
  <1>5. ASSUME NEW q \in Procs, Take(q)
        PROVE  Starts(p) \/ Stays(p)
    <2>1. Head(queue[q]) \in Runs
      BY <1>o, <1>5, TailShifts DEF Take, TypeOK
    <2>2. Job(Head(queue[q])) \in Threads /\ Perform(q, Job(Head(queue[q])))
      BY <1>5, <2>1, ScriptsAreTyped DEF Threads, Take
    <2> QED
      BY <1>1, <1>2, <2>1, <2>2 DEF Starts
  <1>6. ASSUME NEW q \in Procs, Resolve(q) \/ SetStatus(q) \/ Insert(q)
        PROVE  \/ Stays(p)
               \/ /\ Moves(p)
                  /\ Resolve(p) \/ SetStatus(p) \/ Insert(p)
    BY <1>1, <1>6, AdvancesMove
  <1>7. ASSUME NEW q \in Procs, ReadMax(q)
        PROVE  Stays(p)
    BY <1>1, <1>7, ReadsStay
  <1>8. ASSUME NEW q \in Procs, CallReturns(q) \/ CallRaises(q)
        PROVE  Stays(p) \/ Extends(p)
    BY <1>1, <1>8, CallsExtend
  <1>9. ASSUME NEW q \in Procs,
               ResolveFails(q) \/ InsertConflict(q) \/ Reraise(q) \/ StoreFails(q)
        PROVE  thread'[p] = Idle \/ Stays(p)
    <2>1. Busy(q) /\ Raise(q)
      BY <1>o, <1>9, Pends DEF ResolveFails, InsertConflict, Reraise, StoreFails
    <2> QED
      BY <1>o, <1>1, <2>1, Raises
  <1>10. ASSUME NEW q \in Procs, Kill(q)
         PROVE  thread'[p] = Idle \/ Stays(p)
    BY <1>o, <1>1, <1>10, Vanishes DEF Kill
  <1>11. ASSUME NEW q \in Procs, JobDone(q)
         PROVE  thread'[p] = Idle \/ Stays(p)
    <2>1. Idle \in Threads /\ Perform(q, Idle)
      BY <1>11, ScriptsAreTyped DEF Threads, JobDone
    <2> QED
      BY <1>1, <1>2, <2>1
  <1>12. ASSUME NEW q \in Procs,
                \/ StartServer(q) \/ Serve(q) \/ PortTaken(q) \/ Close(q) \/ Exit(q)
                \/ \E r \in Runs : Prepare(q, r) \/ Enqueue(q, r)
         PROVE  Stays(p)
    BY <1>1, <1>12
       DEF StartServer, Serve, PortTaken, Close, Exit, Prepare, Enqueue
  <1>13. CASE UNCHANGED vars
    BY <1>1, <1>13 DEF vars, procs
  <1> QED
    BY <1>3, <1>4, <1>5, <1>6, <1>7, <1>8, <1>9, <1>10, <1>11, <1>12, <1>13
       DEF Next, Progress, Command

LEMMA ScriptsKept ==
    ASSUME Typed, ScriptInv, [Next]_vars
    PROVE  ScriptInv'
  <1>o. TypeOK /\ IdleIsIdle
    BY DEF Typed
  <1>e. \A r \in Runs, e \in Event : Recorded(r, e) => Recorded(r, e)'
    BY EventsGrow
  <1>a. ASSUME NEW t, NEW r, AnnouncesAll(t)
        PROVE  Announced(t, r)'
    BY <1>a DEF Announced, AnnouncesAll
  <1> SUFFICES ASSUME NEW p \in Procs
               PROVE  /\ Announced(thread[p].todo, thread[p].run)'
                      /\ DecidesLast(thread[p].todo)'
    BY DEF ScriptInv
  <1> DEFINE Goal == /\ Announced(thread[p].todo, thread[p].run)'
                     /\ DecidesLast(thread[p].todo)'
  <1>p. Announced(thread[p].todo, thread[p].run) /\ DecidesLast(thread[p].todo)
    BY DEF ScriptInv
  <1>g. ASSUME NEW t, NEW r, Announced(t, r)', DecidesLast(t),
               thread'[p].todo = t, thread'[p].run = r
        PROVE  Goal
    <2>1. Announced(thread[p].todo, thread[p].run)'
      BY <1>g DEF Announced, Recorded, Puts, Appends
    <2>2. DecidesLast(thread[p].todo)'
      BY <1>g DEF DecidesLast, Decides, Puts, Calls
    <2> QED
      BY <2>1, <2>2
  <1>s. ASSUME NEW t, AnnouncesAll(t), DecidesLast(t), thread'[p].todo = t
        PROVE  Goal
    BY <1>a, <1>g, <1>s
  <1> HIDE DEF Goal
  <1>n. ASSUME thread[p].run = NoRun, Stays(p)
        PROVE  Goal
    BY <1>o, <1>n, <1>s, ScriptsAnnounce DEF IdleIsIdle, Busy, Stays
  <1>1. ASSUME Starts(p)
        PROVE  Goal
    BY <1>1, <1>s, ScriptsAnnounce DEF Starts
  <1>2. ASSUME Stays(p)
        PROVE  Goal
    <2>1. CASE thread[p].run = NoRun
      BY <1>2, <1>n, <2>1
    <2>2. CASE thread[p].run # NoRun
      <3>1. thread[p].run \in Runs
        BY <1>o, <2>2 DEF TypeOK
      <3>2. {"PRESENTED", "FAILED", "APPLICATION_RESTARTED"} \subseteq Event
        BY DEF Event
      <3>3. ASSUME NEW t, NEW r \in Runs, Announced(t, r)
            PROVE  Announced(t, r)'
        BY <1>e, <3>2, <3>3 DEF Announced
      <3> QED
        BY <1>2, <1>p, <1>g, <3>1, <3>3 DEF Stays
    <2> QED
      BY <2>1, <2>2
  <1>3. ASSUME thread'[p] = Idle
        PROVE  Goal
    BY <1>3, <1>s, ScriptsAnnounce
  <1>4. ASSUME Extends(p)
        PROVE  Goal
    BY <1>4, <1>s, ScriptsAnnounce DEF Extends
  <1>5. ASSUME Moves(p), Resolve(p) \/ SetStatus(p) \/ Insert(p)
        PROVE  Goal
    <2>1. /\ thread[p].run \in Runs
          /\ thread[p].todo \in Seq(Step) /\ thread[p].todo # <<>>
          /\ Insert(p) => /\ Arg(p) = thread[p].todo[1].arg
                          /\ Arg(p) \in Event
          /\ ~Insert(p) => thread[p].todo[1].op # "append"
      BY <1>o, <1>5, Pends DEF Resolve, SetStatus, Insert
    <2>2. ASSUME NEW t \in Seq(Step), NEW r \in Runs, t # <<>>,
                 thread[p].todo = t, thread[p].run = r
          PROVE  Announced(Tail(t), r)' /\ DecidesLast(Tail(t))
      <3>1. t[1].op = "append" => Recorded(r, t[1].arg)'
        <4>1. SUFFICES ASSUME t[1].op = "append", NEW a \in Event, t[1].arg = a, Insert(p)
                       PROVE  Recorded(r, a)'
          BY <2>1, <2>2
        <4> QED
          BY <2>1, <2>2, <4>1, InsertAdds
      <3>2. Announced(t, r) /\ DecidesLast(t)
        BY <1>p, <2>2
      <3> QED
        BY <1>e, <2>2, <3>1, <3>2, RestIsAnnounced
    <2> QED
      BY <1>5, <1>g, <2>1, <2>2 DEF Moves
  <1> QED
    BY <1>1, <1>2, <1>3, <1>4, <1>5, ThreadsStep DEF Goal

LEMMA TerminalKept ==
    ASSUME TraceInv, [Next]_vars
    PROVE  TerminalHasTrace'
  <1>o. /\ Typed /\ TypeOK /\ IdleIsIdle /\ ScriptInv /\ TerminalHasTrace
    BY DEF TraceInv, Typed
  <1>e. \A r \in Runs, e \in Event : Recorded(r, e) => Recorded(r, e)'
    BY <1>o, EventsGrow
  <1>n. {"PRESENTED", "FAILED", "APPLICATION_RESTARTED"} \subseteq Event
    BY DEF Event
  <1> DEFINE Says(r) ==
        /\ status'[r] = "COMPLETED" => /\ result'[r] = "answer"
                                       /\ Recorded(r, "PRESENTED")'
        /\ status'[r] = "FAILED" => \/ Recorded(r, "FAILED")'
                                    \/ Recorded(r, "APPLICATION_RESTARTED")'
  <1> SUFFICES ASSUME NEW r \in Runs
               PROVE  Says(r)
    BY DEF TerminalHasTrace
  <1>1. ASSUME status'[r] = status[r], result'[r] = result[r]
        PROVE  Says(r)
    BY <1>o, <1>e, <1>n, <1>1 DEF TerminalHasTrace
  <1>2. ASSUME status'[r] = "QUEUED"
        PROVE  Says(r)
    BY <1>2
  <1> HIDE DEF Says
  <1>3. ASSUME NEW p \in Procs, SetStatus(p)
        PROVE  Says(r)
    <2>1. /\ thread[p].run \in Runs /\ thread[p].todo # <<>>
          /\ thread[p].todo \in Seq(Step)
          /\ Arg(p) = thread[p].todo[1].arg
          /\ thread[p].todo[1].op = "put"
      BY <1>o, <1>3, Pends DEF SetStatus
    <2>2. CASE thread[p].run # r
      <3>1. status'[r] = status[r] /\ result'[r] = result[r]
        BY <1>o, <1>3, <2>2 DEF SetStatus, TypeOK
      <3> QED
        BY <1>1, <3>1
    <2>3. CASE thread[p].run = r
      <3>1. /\ status'[r] = Arg(p)
            /\ Arg(p) = "COMPLETED" => result'[r] = "answer"
        BY <1>o, <1>3, <2>3 DEF SetStatus, TypeOK
      <3>2. Announced(thread[p].todo, r)
        BY <1>o, <2>3 DEF ScriptInv
      <3>3. 1 \in DOMAIN thread[p].todo /\ \A j \in DOMAIN thread[p].todo : ~(j < 1)
        BY <2>1, TailShifts
      <3>4. /\ Arg(p) = "COMPLETED" => Recorded(r, "PRESENTED")
            /\ Arg(p) = "FAILED" => \/ Recorded(r, "FAILED")
                                    \/ Recorded(r, "APPLICATION_RESTARTED")
        BY <2>1, <3>2, <3>3 DEF Announced, Puts
      <3> QED
        BY <1>e, <1>n, <3>1, <3>4 DEF Says
    <2> QED
      BY <2>2, <2>3
  <1>4. ASSUME NEW p \in Procs, NEW q \in Runs, Prepare(p, q) \/ Ask(p, q)
        PROVE  Says(r)
    <2>1. /\ status' = [status EXCEPT ![q] = "QUEUED"]
          /\ result' = result
      BY <1>4 DEF Prepare, Ask, Create
    <2>2. status'[r] = "QUEUED" \/ status'[r] = status[r]
      BY <1>o, <2>1 DEF TypeOK
    <2> QED
      BY <1>1, <1>2, <2>1, <2>2
  <1>5. \/ \E p \in Procs : SetStatus(p)
        \/ \E p \in Procs, q \in Runs : Prepare(p, q) \/ Ask(p, q)
        \/ UNCHANGED <<status, result>>
    BY DEF Next, Progress, Command, vars, db, Serve, Take, Exit, JobDone, Recover,
           Enqueue, Resolve, ResolveFails, ReadMax, Insert, InsertConflict,
           CallReturns, CallRaises, Reraise, StartServer, PortTaken, Close,
           StoreFails, Kill
  <1> QED
    BY <1>1, <1>3, <1>4, <1>5

LEMMA TraceInvariant == Spec => []TraceInv
  <1>1. Init => TraceInv
    <2> SUFFICES ASSUME Init PROVE TraceInv
      OBVIOUS
    <2>1. Typed
      BY TypedInitially
    <2>2. ScriptInv
      BY ScriptsAnnounce DEF Init, ScriptInv, Announced, AnnouncesAll
    <2>3. TerminalHasTrace
      BY DEF Init, TerminalHasTrace
    <2> QED
      BY <2>1, <2>2, <2>3 DEF TraceInv
  <1>2. TraceInv /\ [Next]_vars => TraceInv'
    <2> SUFFICES ASSUME TraceInv, [Next]_vars PROVE TraceInv'
      OBVIOUS
    <2>1. Typed'
      BY TypedKept DEF TraceInv
    <2>2. ScriptInv'
      BY ScriptsKept DEF TraceInv
    <2>3. TerminalHasTrace'
      BY TerminalKept
    <2> QED
      BY <2>1, <2>2, <2>3 DEF TraceInv
  <1> QED
    BY <1>1, <1>2, PTL DEF Spec

\* Whatever processes overlap and die, a COMPLETED run has its answer and its
\* last event, and a FAILED one the event that says why: the scripts write the
\* event before the status, and no one ever deletes an event.
THEOREM TraceKept == Spec => []TerminalHasTrace
  <1>1. TraceInv => TerminalHasTrace
    BY DEF TraceInv
  <1> QED
    BY <1>1, TraceInvariant, PTL

-----------------------------------------------------------------------------
(* Who decides a run *)

\* Nothing new comes to write a run whose status stays what it is.
LEMMA PlaceKept ==
    ASSUME NEW r, Placed(r), status'[r] = status[r],
           \A q \in Procs :
                  /\ r \in accepted'[q] => r \in accepted[q]
                  /\ r \in QueuedAt(q)' => r \in QueuedAt(q)
                  /\ \A i, j \in DOMAIN queue'[q] :
                        queue'[q][i] = r /\ queue'[q][j] = r => i = j
                  /\ thread'[q].run = r =>
                        /\ thread[q].run = r
                        /\ WillWrite(thread'[q].todo) => WillWrite(thread[q].todo)
    PROVE  Placed(r)'
  <1>1. ASSUME NEW q \in Procs
        PROVE  /\ Waits(q, r)' => Waits(q, r)
               /\ Executes(q, r)' => Executes(q, r)
               /\ Held(q, r)' => Held(q, r)
               /\ r \in accepted'[q] => r \in accepted[q]
               /\ r \in QueuedAt(q)' => r \in QueuedAt(q)
    BY DEF Waits, Executes, Held
  <1>2. OnePlace(r)'
    <2>1. ASSUME NEW p \in Procs, NEW q \in Procs, Held(p, r)', Held(q, r)'
          PROVE  p = q
      BY <1>1, <2>1 DEF Placed, OnePlace
    <2>2. ASSUME NEW p \in Procs
          PROVE  /\ ~(r \in accepted'[p] /\ r \in QueuedAt(p)')
                 /\ ~(Waits(p, r)' /\ Executes(p, r)')
      BY <1>1 DEF Placed, OnePlace
    <2> QED
      BY <2>1, <2>2 DEF OnePlace
  <1>3. Settled(r)'
    <2>1. Decided(r)' <=> Decided(r)
      BY DEF Decided
    <2>2. ASSUME NEW p \in Procs, Decided(r)
          PROVE  /\ ~Waits(p, r)'
                 /\ Executes(p, r)' => ~WillWrite(thread'[p].todo)
      BY <1>1, <2>2 DEF Placed, Settled, Executes
    <2> QED
      BY <2>1, <2>2 DEF Settled
  <1>4. status'[r] = "NONE" => \A p \in Procs : ~Held(p, r)'
    BY <1>1 DEF Placed
  <1> QED
    BY <1>2, <1>3, <1>4 DEF Placed

\* Queues as sets.
LEMMA QueuesAre ==
    ASSUME Typed, NEW p \in Procs
    PROVE  /\ \A r : r \in QueuedAt(p) <=> \E i \in DOMAIN queue[p] : queue[p][i] = r
           /\ \A r : r \in QueuedAt(p)' <=> \E i \in DOMAIN queue'[p] : queue'[p][i] = r
    BY DEF QueuedAt

\* What a script still writes.
LEMMA RestWrites ==
    ASSUME NEW t \in Seq(Step), t # <<>>, WillWrite(Tail(t))
    PROVE  WillWrite(t)
  <1> DEFINE u == Tail(t)
  <1>1. \A i \in DOMAIN u : i + 1 \in DOMAIN t /\ u[i] = t[i + 1]
    BY TailShifts
  <1> HIDE DEF u
  <1>2. WillWrite(u)
    BY DEF u
  <1> QED
    BY <1>1, <1>2 DEF WillWrite, Calls

LEMMA NothingAfterDecision ==
    ASSUME NEW t \in Seq(Step), t # <<>>, DecidesLast(t), Decides(t, 1)
    PROVE  ~WillWrite(Tail(t))
  <1> DEFINE u == Tail(t)
  <1>1. /\ 1 \in DOMAIN t
        /\ \A i \in DOMAIN u : i + 1 \in DOMAIN t /\ 1 < i + 1 /\ u[i] = t[i + 1]
    BY TailShifts
  <1> HIDE DEF u
  <1>2. ~WillWrite(u)
    BY <1>1 DEF WillWrite, DecidesLast, Calls
  <1> QED
    BY <1>2 DEF u

LEMMA PlacesKept ==
    ASSUME Typed, ScriptInv, PlaceInv, [Next]_vars, NEW r \in Runs, r \notin recovered
    PROVE  Placed(r)'
  <1>o. /\ TypeOK /\ IdleIsIdle /\ Placed(r)
    BY DEF Typed, PlaceInv
  <1>q. \A q \in Procs : /\ queue[q] \in Seq(Runs)
                         /\ r \in QueuedAt(q) <=> \E i \in DOMAIN queue[q] : queue[q][i] = r
                         /\ \A i, j \in DOMAIN queue[q] :
                               queue[q][i] = r /\ queue[q][j] = r => i = j
    BY <1>o, QueuesAre DEF TypeOK, Placed, OnePlace
  <1>t. \A q \in Procs : thread[q].todo \in Seq(Step)
    BY <1>o DEF TypeOK
  <1>e. DOMAIN <<>> = {}
    OBVIOUS
  <1>i. Idle.run # r
    BY QueryConstants DEF Idle
  \* The hypothesis of PlaceKept for one process.
  <1> DEFINE Same(q) ==
        /\ r \in accepted'[q] => r \in accepted[q]
        /\ r \in QueuedAt(q)' => r \in QueuedAt(q)
        /\ \A i, j \in DOMAIN queue'[q] : queue'[q][i] = r /\ queue'[q][j] = r => i = j
        /\ thread'[q].run = r =>
              /\ thread[q].run = r
              /\ WillWrite(thread'[q].todo) => WillWrite(thread[q].todo)
  <1>k. ASSUME status'[r] = status[r], \A q \in Procs : Same(q)
        PROVE  Placed(r)'
    BY <1>o, <1>k, PlaceKept
  \* Nothing moves but what is dropped.
  <1>s. ASSUME NEW q \in Procs,
               accepted'[q] \subseteq accepted[q],
               queue'[q] = queue[q] \/ queue'[q] = <<>>,
               \/ thread'[q] = thread[q]
               \/ thread'[q].run # r
               \/ /\ thread'[q].run = thread[q].run
                  /\ WillWrite(thread'[q].todo) => WillWrite(thread[q].todo)
        PROVE  Same(q)
    <2>1. r \in QueuedAt(q)' => r \in QueuedAt(q)
      BY <1>s, <1>e DEF QueuedAt
    <2>2. \A i, j \in DOMAIN queue'[q] : queue'[q][i] = r /\ queue'[q][j] = r => i = j
      BY <1>s, <1>e, <1>q
    <2> QED
      BY <1>s, <2>1, <2>2
  <1> HIDE DEF Same
  <1>1. ASSUME NEW p \in Procs,
               \/ StartServer(p) \/ Serve(p) \/ PortTaken(p) \/ Close(p) \/ Exit(p)
        PROVE  Placed(r)'
    <2>1. UNCHANGED <<status, accepted, thread>>
      BY <1>1 DEF StartServer, Serve, PortTaken, Close, Exit, db
    <2>2. \A q \in Procs : queue'[q] = queue[q] \/ queue'[q] = <<>>
      BY <1>o, <1>1 DEF StartServer, Serve, PortTaken, Close, Exit, TypeOK
    <2> QED
      BY <1>k, <1>s, <2>1, <2>2
  <1>2. ASSUME NEW p \in Procs, NEW x \in Runs, Recover(p, x)
        PROVE  Placed(r)'
    <2>1. Recovery(x) \in Threads /\ Recovery(x).run = x
      BY ScriptsAreTyped DEF Threads, Recovery
    <2>2. x # r
      BY <1>2 DEF Recover, PlaceInv, BacklogIsRecovered
    <2>3. \A q \in Procs : thread'[q] = thread[q] \/ thread'[q].run # r
      BY <1>o, <1>2, <2>1, <2>2, Performs DEF Recover
    <2> QED
      BY <1>2, <1>k, <1>s, <2>3 DEF Recover, db
  <1>3. ASSUME NEW p \in Procs, NEW x \in Runs, Prepare(p, x)
        PROVE  Placed(r)'
    <2>1. /\ status[x] = "NONE"
          /\ status' = [status EXCEPT ![x] = "QUEUED"]
          /\ accepted' = [accepted EXCEPT ![p] = accepted[p] \cup {x}]
          /\ queue' = queue /\ thread' = thread
      BY <1>3 DEF Prepare, Create
    <2>2. CASE x # r
      <3>1. status'[r] = status[r]
        BY <1>o, <2>1, <2>2 DEF TypeOK
      <3>2. \A q \in Procs : Same(q)
        <4>1. ASSUME NEW q \in Procs
              PROVE  r \in accepted'[q] => r \in accepted[q]
          BY <1>o, <2>1, <2>2 DEF TypeOK
        <4> QED
          BY <1>q, <2>1, <4>1 DEF Same, QueuedAt
      <3> QED
        BY <1>k, <3>1, <3>2
    <2>3. CASE x = r
      <3>1. \A q \in Procs : ~Held(q, r)
        BY <1>o, <2>1, <2>3 DEF Placed
      <3>2. status'[r] = "QUEUED" /\ \A q \in Procs \ {p} : accepted'[q] = accepted[q]
        BY <1>o, <2>1, <2>3 DEF TypeOK
      <3>3. /\ \A q \in Procs \ {p} : ~Held(q, r)'
            /\ \A q \in Procs : r \notin QueuedAt(q)' /\ ~Executes(q, r)'
            /\ \A q \in Procs : \A i \in DOMAIN queue'[q] : queue'[q][i] # r
        <4>1. \A q \in Procs : /\ r \notin accepted[q]
                               /\ r \notin QueuedAt(q)
                               /\ thread[q].run # r
          BY <3>1 DEF Held, Waits, Executes
        <4>2. \A q \in Procs : QueuedAt(q)' = QueuedAt(q)
          BY <2>1 DEF QueuedAt
        <4> QED
          BY <1>q, <2>1, <3>2, <4>1, <4>2 DEF Held, Waits, Executes
      <3>4. OnePlace(r)'
        BY <3>3 DEF OnePlace, Waits
      <3>5. Settled(r)'
        BY <3>2 DEF Settled, Decided
      <3> QED
        BY <3>2, <3>4, <3>5 DEF Placed
    <2> QED
      BY <2>2, <2>3
  <1>4. ASSUME NEW p \in Procs, NEW x \in Runs, Enqueue(p, x)
        PROVE  Placed(r)'
    <2>1. /\ x \in accepted[p]
          /\ queue' = [queue EXCEPT ![p] = Append(queue[p], x)]
          /\ accepted' = [accepted EXCEPT ![p] = accepted[p] \ {x}]
          /\ status' = status /\ thread' = thread
      BY <1>4 DEF Enqueue, db
    <2>2. /\ queue'[p] = Append(queue[p], x)
          /\ accepted'[p] = accepted[p] \ {x}
          /\ \A q \in Procs \ {p} : queue'[q] = queue[q] /\ accepted'[q] = accepted[q]
      BY <1>o, <2>1 DEF TypeOK
    <2>3. /\ Len(queue[p]) \in Nat /\ DOMAIN queue[p] = 1..Len(queue[p])
          /\ DOMAIN queue'[p] = 1..(Len(queue[p]) + 1)
          /\ \A i \in DOMAIN queue[p] : queue'[p][i] = queue[p][i]
          /\ queue'[p][Len(queue[p]) + 1] = x
      <3>1. ASSUME NEW s \in Seq(Runs)
            PROVE  /\ Len(s) \in Nat /\ DOMAIN s = 1..Len(s)
                   /\ DOMAIN Append(s, x) = 1..(Len(s) + 1)
                   /\ \A i \in DOMAIN s : Append(s, x)[i] = s[i]
                   /\ Append(s, x)[Len(s) + 1] = x
        OBVIOUS
      <3> QED
        BY <1>q, <2>2, <3>1
    <2>4. \A i \in DOMAIN queue'[p] : i \in DOMAIN queue[p] \/ i = Len(queue[p]) + 1
      BY <2>3
    <2>5. \A q \in Procs \ {p} : Same(q)
      BY <1>s, <2>1, <2>2
    <2>6. CASE x # r
      <3>1. Same(p)
        <4>1. \A i \in DOMAIN queue'[p] : queue'[p][i] = r =>
                  i \in DOMAIN queue[p] /\ queue[p][i] = r
          BY <2>3, <2>4, <2>6
        <4>2. r \in QueuedAt(p)' => r \in QueuedAt(p)
          BY <4>1, QueuesAre
        <4> QED
          BY <1>q, <2>1, <2>2, <4>1, <4>2 DEF Same
      <3> QED
        BY <1>k, <2>1, <2>5, <3>1
    <2>7. CASE x = r
      <3>1. /\ Held(p, r) /\ r \notin QueuedAt(p) /\ ~Executes(p, r)
            /\ \A q \in Procs \ {p} : ~Held(q, r)
        BY <1>o, <2>1, <2>7 DEF Placed, OnePlace, Waits, Held
      <3>2. r \notin accepted'[p] /\ ~Executes(p, r)'
        BY <2>1, <2>2, <2>7, <3>1 DEF Executes
      <3>3. \A q \in Procs \ {p} : ~Held(q, r)'
        <4>1. ASSUME NEW q \in Procs \ {p}
              PROVE  QueuedAt(q)' = QueuedAt(q)
          BY <2>2 DEF QueuedAt
        <4> QED
          BY <2>1, <2>2, <3>1, <4>1 DEF Held, Waits, Executes
      <3>4. \A i, j \in DOMAIN queue'[p] :
                queue'[p][i] = r /\ queue'[p][j] = r => i = j
        <4>1. \A i \in DOMAIN queue[p] : queue[p][i] # r
          BY <3>1, QueuesAre
        <4> QED
          BY <2>3, <2>4, <4>1
      <3>5. OnePlace(r)'
        <4>1. \A q \in Procs \ {p} : /\ r \notin accepted'[q] /\ r \notin QueuedAt(q)'
                                     /\ ~Waits(q, r)' /\ ~Executes(q, r)'
          BY <3>3 DEF Held, Waits
        <4>2. \A q \in Procs : \A i, j \in DOMAIN queue'[q] :
                queue'[q][i] = r /\ queue'[q][j] = r => i = j
          BY <1>q, <2>2, <3>4
        <4>3. \A a, b \in Procs : Held(a, r)' /\ Held(b, r)' => a = b
          BY <3>3
        <4> QED
          BY <3>2, <4>1, <4>2, <4>3 DEF OnePlace
      <3>6. ~Decided(r) /\ status[r] # "NONE"
        BY <1>o, <2>1, <2>7, <3>1 DEF Placed, Settled, Waits
      <3> QED
        BY <2>1, <3>5, <3>6 DEF Placed, Settled, Decided
    <2> QED
      BY <2>6, <2>7
  <1>5. ASSUME NEW p \in Procs, Take(p)
        PROVE  Placed(r)'
    <2> DEFINE x == Head(queue[p])
    <2>1. /\ queue[p] # <<>> /\ ~Busy(p)
          /\ Perform(p, Job(x))
          /\ queue' = [queue EXCEPT ![p] = Tail(queue[p])]
          /\ UNCHANGED <<status, accepted>>
      BY <1>5 DEF Take, db
    <2>2. /\ x \in Runs /\ x = queue[p][1] /\ 1 \in DOMAIN queue[p]
          /\ Len(queue[p]) \in Nat /\ DOMAIN queue[p] = 1..Len(queue[p])
          /\ DOMAIN Tail(queue[p]) = 1..(Len(queue[p]) - 1)
          /\ \A i \in DOMAIN Tail(queue[p]) : Tail(queue[p])[i] = queue[p][i + 1]
      BY <1>q, <2>1, TailShifts
    <2>3. /\ queue'[p] = Tail(queue[p])
          /\ \A q \in Procs \ {p} : queue'[q] = queue[q]
      BY <1>o, <2>1 DEF TypeOK
    <2>4. /\ thread'[p].run = x
          /\ \A q \in Procs \ {p} : thread'[q] = thread[q]
      <3>1. Job(x) \in Threads /\ Job(x).run = x
        BY <2>2, ScriptsAreTyped DEF Threads, Job
      <3> QED
        BY <1>o, <2>1, <3>1, Performs
    <2>5. \A i \in DOMAIN queue'[p] : /\ i + 1 \in DOMAIN queue[p] /\ i + 1 # 1
                                      /\ queue'[p][i] = queue[p][i + 1]
      BY <2>2, <2>3
    <2>6. \A q \in Procs \ {p} : Same(q)
      BY <1>s, <2>1, <2>3, <2>4
    <2>7. \A i, j \in DOMAIN queue'[p] :
              queue'[p][i] = r /\ queue'[p][j] = r => i = j
      <3>1. \A i, j \in DOMAIN queue'[p] : i + 1 = j + 1 => i = j
        BY <2>2, <2>3
      <3> QED
        BY <1>q, <2>5, <3>1
    <2> HIDE DEF x
    <2>8. CASE x # r
      <3>1. r \in QueuedAt(p)' => r \in QueuedAt(p)
        BY <2>5, QueuesAre
      <3>2. Same(p)
        BY <2>1, <2>4, <2>7, <2>8, <3>1 DEF Same
      <3> QED
        BY <1>k, <2>1, <2>6, <3>2
    <2>9. CASE x = r
      <3>1. r \in QueuedAt(p)
        BY <2>2, <2>9, QueuesAre
      <3>2. /\ r \notin accepted[p]
            /\ \A q \in Procs \ {p} : ~Held(q, r)
        BY <1>o, <3>1 DEF Placed, OnePlace, Waits, Held
      <3>3. r \notin QueuedAt(p)'
        <4>1. ASSUME NEW i \in DOMAIN queue'[p], queue'[p][i] = r
              PROVE  FALSE
          <5>1. i + 1 \in DOMAIN queue[p] /\ i + 1 # 1 /\ queue[p][i + 1] = r
            BY <2>5, <4>1
          <5>2. 1 \in DOMAIN queue[p] /\ queue[p][1] = r
            BY <2>2, <2>9
          <5> QED
            BY <1>q, <5>1, <5>2
        <4> QED
          BY <4>1, QueuesAre
      <3>4. ~Waits(p, r)'
        BY <2>1, <3>2, <3>3 DEF Waits
      <3>5. \A q \in Procs \ {p} : ~Held(q, r)'
        <4>1. ASSUME NEW q \in Procs \ {p}
              PROVE  QueuedAt(q)' = QueuedAt(q)
          BY <2>3 DEF QueuedAt
        <4> QED
          BY <2>1, <2>4, <3>2, <4>1 DEF Held, Waits, Executes
      <3>6. OnePlace(r)'
        <4>1. \A q \in Procs \ {p} : /\ r \notin accepted'[q] /\ r \notin QueuedAt(q)'
                                     /\ ~Waits(q, r)' /\ ~Executes(q, r)'
          BY <3>5 DEF Held, Waits
        <4>2. \A q \in Procs : \A i, j \in DOMAIN queue'[q] :
                queue'[q][i] = r /\ queue'[q][j] = r => i = j
          BY <1>q, <2>3, <2>7
        <4>3. \A a, b \in Procs : Held(a, r)' /\ Held(b, r)' => a = b
          BY <3>5
        <4> QED
          BY <3>3, <3>4, <4>1, <4>2, <4>3 DEF OnePlace
      <3>7. ~Decided(r) /\ status[r] # "NONE"
        BY <1>o, <3>1 DEF Placed, Settled, Waits, Held
      <3> QED
        BY <2>1, <3>6, <3>7 DEF Placed, Settled, Decided
    <2> QED
      BY <2>8, <2>9
  <1>6. ASSUME NEW p \in Procs, NEW x \in Runs, Ask(p, x)
        PROVE  Placed(r)'
    <2>1. /\ status[x] = "NONE"
          /\ status' = [status EXCEPT ![x] = "QUEUED"]
          /\ Perform(p, Job(x))
          /\ accepted' = accepted /\ queue' = queue
      BY <1>6 DEF Ask, Create
    <2>2. /\ thread'[p].run = x
          /\ \A q \in Procs \ {p} : thread'[q] = thread[q]
      <3>1. Job(x) \in Threads /\ Job(x).run = x
        BY ScriptsAreTyped DEF Threads, Job
      <3> QED
        BY <1>o, <2>1, <3>1, Performs
    <2>3. CASE x # r
      <3>1. status'[r] = status[r]
        BY <1>o, <2>1, <2>3 DEF TypeOK
      <3>2. \A q \in Procs : Same(q)
        BY <1>s, <2>1, <2>2, <2>3
      <3> QED
        BY <1>k, <3>1, <3>2
    <2>4. CASE x = r
      <3>1. \A q \in Procs : /\ r \notin accepted[q] /\ r \notin QueuedAt(q)
                             /\ thread[q].run # r
        BY <1>o, <2>1, <2>4 DEF Placed, Held, Waits, Executes
      <3>2. \A q \in Procs : QueuedAt(q)' = QueuedAt(q)
        BY <2>1 DEF QueuedAt
      <3>3. /\ \A q \in Procs : r \notin accepted'[q] /\ r \notin QueuedAt(q)' /\ ~Waits(q, r)'
            /\ \A q \in Procs \ {p} : ~Executes(q, r)'
        BY <2>1, <2>2, <3>1, <3>2 DEF Waits, Executes
      <3>4. OnePlace(r)'
        BY <1>q, <2>1, <3>3 DEF OnePlace, Held
      <3>5. status'[r] = "QUEUED"
        BY <1>o, <2>1, <2>4 DEF TypeOK
      <3> QED
        BY <3>4, <3>5 DEF Placed, Settled, Decided
    <2> QED
      BY <2>3, <2>4
  <1>7. ASSUME NEW p \in Procs,
               \/ ReadMax(p) \/ CallReturns(p) \/ CallRaises(p)
               \/ Resolve(p) \/ Insert(p)
        PROVE  Placed(r)'
    <2>1. UNCHANGED <<status, accepted, queue>>
      BY <1>7 DEF ReadMax, CallReturns, CallRaises, Resolve, Insert, db
    <2>2. ASSUME NEW q \in Procs
          PROVE  \/ thread'[q] = thread[q]
                 \/ /\ thread'[q].run = thread[q].run
                    /\ WillWrite(thread'[q].todo) => WillWrite(thread[q].todo)
      <3>1. CASE Resolve(p) \/ Insert(p)
        BY <1>t, <3>1, AdvancesMove, RestWrites DEF Moves
      <3>2. CASE ReadMax(p)
        BY <3>2, ReadsStay DEF Stays
      <3>3. CASE CallReturns(p) \/ CallRaises(p)
        <4>1. Extends(p) /\ \A z \in Procs \ {p} : thread'[z] = thread[z]
          BY <3>3, CallsExtend
        <4>2. WillWrite(thread[p].todo)
          <5>1. 1 \in DOMAIN thread[p].todo
            BY <1>t, <4>1, TailShifts DEF Extends
          <5> QED
            BY <4>1, <5>1 DEF Extends, WillWrite
        <4> QED
          BY <4>1, <4>2 DEF Extends
      <3> QED
        BY <1>7, <3>1, <3>2, <3>3
    <2> QED
      BY <1>k, <1>s, <2>1, <2>2
  <1>8. ASSUME NEW p \in Procs, SetStatus(p)
        PROVE  Placed(r)'
    <2>1. /\ thread[p].run \in Runs /\ thread[p].todo # <<>>
          /\ Arg(p) = thread[p].todo[1].arg /\ thread[p].todo[1].op = "put"
          /\ Arg(p) \in {"RUNNING", "COMPLETED", "FAILED"}
          /\ 1 \in DOMAIN thread[p].todo
      BY <1>o, <1>t, <1>8, Pends, TailShifts DEF SetStatus
    <2>2. /\ thread'[p].run = thread[p].run
          /\ thread'[p].todo = Tail(thread[p].todo)
          /\ \A q \in Procs \ {p} : thread'[q] = thread[q]
          /\ WillWrite(thread'[p].todo) => WillWrite(thread[p].todo)
      BY <1>t, <1>8, <2>1, AdvancesMove, RestWrites DEF Moves
    <2>3. accepted' = accepted /\ queue' = queue
      BY <1>8 DEF SetStatus
    <2>4. CASE thread[p].run # r
      <3>1. status'[r] = status[r]
        BY <1>o, <1>8, <2>4 DEF SetStatus, TypeOK
      <3> QED
        BY <1>k, <1>s, <2>2, <2>3, <3>1
    <2>5. CASE thread[p].run = r
      <3>1. status'[r] = Arg(p)
        BY <1>o, <1>8, <2>5 DEF SetStatus, TypeOK
      <3>2. \A q \in Procs : /\ accepted'[q] = accepted[q] /\ queue'[q] = queue[q]
                             /\ QueuedAt(q)' = QueuedAt(q)
                             /\ thread'[q].run = thread[q].run
        BY <2>2, <2>3 DEF QueuedAt
      <3>3. \A q \in Procs : /\ Waits(q, r)' <=> Waits(q, r)
                             /\ Executes(q, r)' <=> Executes(q, r)
                             /\ Held(q, r)' <=> Held(q, r)
        BY <3>2 DEF Waits, Executes, Held
      <3>4. OnePlace(r)'
        BY <1>o, <3>2, <3>3 DEF Placed, OnePlace
      <3>5. \A q \in Procs : ~Waits(q, r) /\ (Executes(q, r) => q = p)
        <4>1. Executes(p, r) /\ Held(p, r)
          BY <2>5 DEF Executes, Held
        <4> QED
          BY <1>o, <4>1 DEF Placed, OnePlace, Held
      <3>6. status'[r] \in {"COMPLETED", "FAILED"} => ~WillWrite(thread'[p].todo)
        <4>1. DecidesLast(thread[p].todo)
          BY DEF ScriptInv
        <4>2. ASSUME Decides(thread[p].todo, 1)
              PROVE  ~WillWrite(Tail(thread[p].todo))
          BY <1>t, <2>1, <4>1, <4>2, NothingAfterDecision
        <4> QED
          BY <2>1, <2>2, <3>1, <4>2 DEF Decides, Puts
      <3>7. Settled(r)'
        BY <3>3, <3>5, <3>6 DEF Settled, Decided, Executes
      <3> QED
        BY <2>1, <3>1, <3>4, <3>7 DEF Placed
    <2> QED
      BY <2>4, <2>5
  <1>9. ASSUME NEW p \in Procs,
               ResolveFails(p) \/ InsertConflict(p) \/ Reraise(p) \/ StoreFails(p)
        PROVE  Placed(r)'
    <2>1. Busy(p) /\ Raise(p) /\ status' = status
      BY <1>o, <1>9, Pends DEF ResolveFails, InsertConflict, Reraise, StoreFails, db
    <2>2. ASSUME NEW q \in Procs
          PROVE  /\ accepted'[q] \subseteq accepted[q]
                 /\ queue'[q] = queue[q] \/ queue'[q] = <<>>
                 /\ thread'[q] = thread[q] \/ thread'[q] = Idle
      BY <1>o, <2>1, Raises
    <2> QED
      BY <1>i, <1>k, <1>s, <2>1, <2>2
  <1>10. ASSUME NEW p \in Procs, Kill(p)
         PROVE  Placed(r)'
    <2>1. Vanish(p) /\ status' = status
      BY <1>10 DEF Kill, db
    <2>2. ASSUME NEW q \in Procs
          PROVE  /\ accepted'[q] \subseteq accepted[q]
                 /\ queue'[q] = queue[q] \/ queue'[q] = <<>>
                 /\ thread'[q] = thread[q] \/ thread'[q] = Idle
      BY <1>o, <2>1, Vanishes
    <2> QED
      BY <1>i, <1>k, <1>s, <2>1, <2>2
  <1>11. ASSUME NEW p \in Procs, JobDone(p)
         PROVE  Placed(r)'
    <2>1. Perform(p, Idle) /\ UNCHANGED <<status, accepted, queue>>
      BY <1>11 DEF JobDone, db
    <2>2. Idle \in Threads
      BY ScriptsAreTyped DEF Threads
    <2>3. \A q \in Procs : thread'[q] = thread[q] \/ thread'[q] = Idle
      BY <1>o, <2>1, <2>2, Performs
    <2> QED
      BY <1>i, <1>k, <1>s, <2>1, <2>3
  <1>12. CASE UNCHANGED vars
    BY <1>12, <1>k, <1>s DEF vars, db, procs
  <1> QED
    BY <1>1, <1>2, <1>3, <1>4, <1>5, <1>6, <1>7, <1>8, <1>9, <1>10, <1>11, <1>12
       DEF Next, Progress, Command

LEMMA BacklogKept ==
    ASSUME Typed, PlaceInv, [Next]_vars
    PROVE  BacklogIsRecovered' /\ recovered \subseteq recovered'
  <1>o. TypeOK /\ IdleIsIdle /\ \A q \in Procs : backlog[q] \subseteq recovered
    BY DEF Typed, PlaceInv, BacklogIsRecovered
  <1>1. ASSUME NEW p \in Procs, StartServer(p)
        PROVE  /\ recovered \subseteq recovered'
               /\ \A q \in Procs : backlog'[q] \subseteq recovered'
    <2>1. /\ recovered' = recovered \cup backlog'[p]
          /\ backlog' = [backlog EXCEPT ![p] = {r \in Runs : Open(r)}]
      BY <1>1 DEF StartServer
    <2>2. \A q \in Procs \ {p} : backlog'[q] = backlog[q]
      BY <1>o, <2>1 DEF TypeOK
    <2> QED
      BY <1>o, <2>1, <2>2
  <1>2. ASSUME NEW p \in Procs, NEW r \in Runs, Recover(p, r)
        PROVE  /\ recovered \subseteq recovered'
               /\ \A q \in Procs : backlog'[q] \subseteq recovered'
    BY <1>o, <1>2 DEF Recover, TypeOK
  <1>3. ASSUME NEW p \in Procs,
               ResolveFails(p) \/ InsertConflict(p) \/ Reraise(p) \/ StoreFails(p)
        PROVE  /\ recovered \subseteq recovered'
               /\ \A q \in Procs : backlog'[q] \subseteq recovered'
    <2>1. Busy(p) /\ Raise(p) /\ recovered' = recovered
      BY <1>o, <1>3, Pends DEF ResolveFails, InsertConflict, Reraise, StoreFails
    <2>2. \A q \in Procs : backlog'[q] = backlog[q] \/ backlog'[q] = {}
      BY <1>o, <2>1, Raises
    <2> QED
      BY <1>o, <2>1, <2>2
  <1>4. ASSUME NEW p \in Procs, Kill(p)
        PROVE  /\ recovered \subseteq recovered'
               /\ \A q \in Procs : backlog'[q] \subseteq recovered'
    <2>1. Vanish(p) /\ recovered' = recovered
      BY <1>4 DEF Kill
    <2>2. \A q \in Procs : backlog'[q] = backlog[q] \/ backlog'[q] = {}
      BY <1>o, <2>1, Vanishes
    <2> QED
      BY <1>o, <2>1, <2>2
  <1>5. ASSUME UNCHANGED <<backlog, recovered>>
        PROVE  /\ recovered \subseteq recovered'
               /\ \A q \in Procs : backlog'[q] \subseteq recovered'
    BY <1>o, <1>5
  <1>6. \/ \E p \in Procs :
              \/ StartServer(p) \/ ResolveFails(p) \/ InsertConflict(p) \/ Reraise(p)
              \/ StoreFails(p) \/ Kill(p)
        \/ \E p \in Procs : \E r \in Runs : Recover(p, r)
        \/ UNCHANGED <<backlog, recovered>>
    BY DEF Next, Progress, Command, vars, procs, Serve, Take, Exit, JobDone,
           Enqueue, Resolve, SetStatus, ReadMax, Insert, CallReturns, CallRaises,
           PortTaken, Close, Prepare, Ask
  <1> QED
    BY <1>1, <1>2, <1>3, <1>4, <1>5, <1>6 DEF BacklogIsRecovered

LEMMA PlaceInvariant == Spec => [](TraceInv /\ PlaceInv)
  <1>1. Init => PlaceInv
    <2> SUFFICES ASSUME Init PROVE PlaceInv
      OBVIOUS
    <2>1. /\ thread = [p \in Procs |-> Idle] /\ accepted = [p \in Procs |-> {}]
          /\ queue = [p \in Procs |-> <<>>] /\ backlog = [p \in Procs |-> {}]
          /\ status = [r \in Runs |-> "NONE"]
      BY DEF Init
    <2>2. \A p \in Procs : /\ thread[p].run = NoRun
                           /\ accepted[p] = {} /\ backlog[p] = {}
                           /\ DOMAIN queue[p] = {}
      BY <2>1 DEF Idle
    <2>3. ASSUME NEW r \in Runs
          PROVE  Placed(r)
      <3>1. \A p \in Procs : ~Waits(p, r) /\ ~Held(p, r) /\ ~Executes(p, r)
        BY <2>2, QueryConstants DEF Waits, Held, Executes, QueuedAt
      <3>2. OnePlace(r)
        BY <2>2, <3>1 DEF OnePlace
      <3>3. Settled(r)
        BY <2>1 DEF Settled, Decided
      <3> QED
        BY <3>1, <3>2, <3>3 DEF Placed
    <2> QED
      BY <2>2, <2>3 DEF PlaceInv, BacklogIsRecovered
  <1>2. TraceInv /\ PlaceInv /\ [Next]_vars => PlaceInv'
    <2> SUFFICES ASSUME TraceInv, PlaceInv, [Next]_vars PROVE PlaceInv'
      OBVIOUS
    <2>1. Typed /\ ScriptInv
      BY DEF TraceInv
    <2>2. BacklogIsRecovered' /\ recovered \subseteq recovered'
      BY <2>1, BacklogKept
    <2>3. \A r \in Runs : r \notin recovered' => Placed(r)'
      BY <2>1, <2>2, PlacesKept
    <2> QED
      BY <2>2, <2>3 DEF PlaceInv
  <1> QED
    BY <1>1, <1>2, TraceInvariant, PTL DEF Spec

\* Whatever processes share the database, a decided run keeps its status, its
\* result and its trace unless some recovery had found it open: otherwise there
\* is one request, one place in one queue or one thread for it, and its script
\* ends with its decision.
THEOREM OverruledByRecovery == Spec => OnlyRecoveryIsOverruled
  <1> DEFINE Step1 == \A r \in Runs :
           Decided(r) /\ (\/ status'[r] # status[r]
                         \/ result'[r] # result[r]
                         \/ events'[r] # events[r]) => r \in recovered
  <1>1. TraceInv /\ PlaceInv /\ [Next]_vars => [Step1]_vars
    <2> SUFFICES ASSUME TraceInv, PlaceInv, [Next]_vars,
                        NEW r \in Runs, Decided(r),
                        ~(status'[r] = status[r] /\ result'[r] = result[r]
                            /\ events'[r] = events[r]),
                        r \notin recovered
                 PROVE  FALSE
      OBVIOUS
    <2>o. Typed /\ TypeOK /\ IdleIsIdle /\ Placed(r)
      BY DEF TraceInv, Typed, PlaceInv
    <2>1. ASSUME NEW p \in Procs, SetStatus(p) \/ Insert(p)
          PROVE  FALSE
      <3>1. thread[p].run = r
        <4>1. CASE SetStatus(p)
          BY <2>o, <4>1 DEF SetStatus, TypeOK
        <4>2. CASE Insert(p)
          BY <2>o, <4>2 DEF Insert, TypeOK
        <4> QED
          BY <2>1, <4>1, <4>2
      <3>2. /\ 1 \in DOMAIN thread[p].todo
            /\ thread[p].todo[1].op \in {"append", "put"}
        BY <2>o, <2>1, Pends, TailShifts DEF SetStatus, Insert
      <3>3. WillWrite(thread[p].todo)
        BY <3>2 DEF WillWrite
      <3> QED
        BY <2>o, <3>1, <3>3 DEF Placed, Settled, Executes
    <2>2. ASSUME NEW p \in Procs, NEW q \in Runs, Prepare(p, q) \/ Ask(p, q)
          PROVE  FALSE
      <3>1. /\ status[q] = "NONE" /\ status' = [status EXCEPT ![q] = "QUEUED"]
            /\ UNCHANGED <<result, events>>
        BY <2>2 DEF Prepare, Ask, Create
      <3> QED
        BY <2>o, <3>1 DEF TypeOK, Decided
    <2>3. \/ \E p \in Procs : SetStatus(p) \/ Insert(p)
          \/ \E p \in Procs : \E q \in Runs : Prepare(p, q) \/ Ask(p, q)
          \/ UNCHANGED db
      BY DEF Next, Progress, Command, vars, db, Serve, Take, Exit, JobDone, Recover,
             Enqueue, Resolve, ResolveFails, ReadMax, InsertConflict,
             CallReturns, CallRaises, Reraise, StartServer, PortTaken, Close,
             StoreFails, Kill
    <2> QED
      BY <2>1, <2>2, <2>3 DEF db
  <1> QED
    BY <1>1, PlaceInvariant, PTL DEF Spec, OnlyRecoveryIsOverruled

-----------------------------------------------------------------------------
(* One process at a time *)

\* The scripts of the code, and what becomes of them step by step.
LEMMA JobFits == \A r \in Runs : Fits(Job(r).todo, "QUEUED")
  <1> SUFFICES ASSUME NEW r \in Runs PROVE Fits(Job(r).todo, "QUEUED")
    OBVIOUS
  <1> DEFINE t == <<Do("resolve"), Put("RUNNING"), Trace("RUN_STARTED"), Do("call")>>
  <1>1. /\ t[1] = Do("resolve") /\ t[2] = Put("RUNNING")
        /\ t[3] = Trace("RUN_STARTED") /\ t[4] = Do("call")
    OBVIOUS
  <1>2. DOMAIN t = 1..4
    OBVIOUS
  <1>3. Job(r).todo = t
    BY DEF Job
  <1> HIDE DEF t
  <1>4. /\ t[1].op = "resolve" /\ t[2].op = "put" /\ t[2].arg = "RUNNING"
        /\ t[3].op = "append" /\ t[4].op = "call"
    <2>1. /\ \A w : Do(w).op = w
          /\ \A w : Put(w).op = "put" /\ Put(w).arg = w
          /\ \A w : Trace(w).op = "append"
      BY DEF Do, Put, Trace
    <2> QED
      BY <1>1, <2>1
  <1>5. \A i \in DOMAIN t : i = 1 \/ i = 2 \/ i = 3 \/ i = 4
    BY <1>2
  <1>6. 2 \in DOMAIN t /\ 4 \in DOMAIN t /\ 2 < 4
    BY <1>2
  <1>7. \A i \in DOMAIN t : /\ ~Decides(t, i)
                            /\ \A s : Puts(t, i, s) => i = 2
                            /\ Calls(t, i) => i = 4
    BY <1>4, <1>5 DEF Decides, Puts, Calls
  <1>8. Calls(t, 4) /\ Puts(t, 2, "RUNNING")
    BY <1>4 DEF Calls, Puts
  <1> QED
    BY <1>3, <1>6, <1>7, <1>8 DEF Fits, Decides

LEMMA RecoveryFits ==
    \A r \in Runs, s \in {"QUEUED", "RUNNING"} : Fits(Recovery(r).todo, s)
  <1> SUFFICES ASSUME NEW r \in Runs, NEW s \in {"QUEUED", "RUNNING"}
               PROVE  Fits(Recovery(r).todo, s)
    OBVIOUS
  <1> DEFINE t == <<Trace("APPLICATION_RESTARTED"), Put("FAILED")>>
  <1>1. /\ DOMAIN t = 1..2
        /\ t[1].op = "append"
        /\ t[2].op = "put" /\ t[2].arg = "FAILED"
    BY DEF Put, Trace
  <1>2. Recovery(r).todo = t
    BY DEF Recovery
  <1> HIDE DEF t
  <1> QED
    BY <1>1, <1>2 DEF Fits, Decides, Puts, Calls

LEMMA AnswerFits == Fits(Answered, "RUNNING") /\ Fits(Failing, "RUNNING")
  <1>1. Fits(Answered, "RUNNING")
    <2>1. LayerEvents \in Nat
      BY QueryConstants
    <2>2. \A i \in DOMAIN Answered :
              i \in 1..LayerEvents \/ i = LayerEvents + 1 \/ i = LayerEvents + 2
      BY <2>1, AnsweredIs
    <2>3. /\ \A i \in 1..LayerEvents : Answered[i].op = "append"
          /\ Answered[LayerEvents + 1].op = "append"
          /\ Answered[LayerEvents + 2].op = "put"
          /\ Answered[LayerEvents + 2].arg = "COMPLETED"
          /\ LayerEvents + 2 \in DOMAIN Answered
      BY <2>1, AnsweredIs DEF Trace, Put
    <2>4. \A i \in DOMAIN Answered : /\ ~Calls(Answered, i)
                                     /\ ~Puts(Answered, i, "RUNNING")
      BY <2>2, <2>3 DEF Calls, Puts
    <2> QED
      BY <2>3, <2>4 DEF Fits, Decides, Puts
  <1>2. Fits(Failing, "RUNNING")
    <2> DEFINE t == <<Trace("FAILED"), Put("FAILED"), Do("reraise")>>
    <2>1. t[1] = Trace("FAILED") /\ t[2] = Put("FAILED") /\ t[3] = Do("reraise")
      OBVIOUS
    <2>2. DOMAIN t = 1..3
      OBVIOUS
    <2>3. Failing = t
      BY DEF Failing
    <2> HIDE DEF t
    <2>4. t[1].op = "append" /\ t[2].op = "put" /\ t[2].arg = "FAILED" /\ t[3].op = "reraise"
      <3>1. /\ \A w : Do(w).op = w
            /\ \A w : Put(w).op = "put" /\ Put(w).arg = w
            /\ \A w : Trace(w).op = "append"
        BY DEF Do, Put, Trace
      <3> QED
        BY <2>1, <3>1
    <2>5. \A i \in DOMAIN t : i = 1 \/ i = 2 \/ i = 3
      BY <2>2
    <2>6. 2 \in DOMAIN t
      BY <2>2
    <2> QED
      BY <2>3, <2>4, <2>5, <2>6 DEF Fits, Decides, Puts, Calls
  <1> QED
    BY <1>1, <1>2

\* A step that is neither a status nor the call leaves the rest fitting.
LEMMA RestFits ==
    ASSUME NEW t \in Seq(Step), t # <<>>, NEW s, Fits(t, s),
           t[1].op # "put", ~Calls(t, 1)
    PROVE  Fits(Tail(t), s)
  <1> DEFINE u == Tail(t)
  <1>1. /\ \A i \in DOMAIN u : i \in Int /\ i + 1 \in DOMAIN t /\ u[i] = t[i + 1]
        /\ \A i \in DOMAIN t : i = 1 \/ (i - 1 \in DOMAIN u /\ (i - 1) + 1 = i
                                          /\ u[i - 1] = t[i] /\ i \in Int)
    BY TailShifts
  <1> HIDE DEF u
  <1>2. /\ \A i \in DOMAIN u : /\ \A w : Puts(u, i, w) <=> Puts(t, i + 1, w)
                               /\ Calls(u, i) <=> Calls(t, i + 1)
                               /\ Decides(u, i) <=> Decides(t, i + 1)
        /\ ~Calls(t, 1) /\ ~Decides(t, 1) /\ \A w : ~Puts(t, 1, w)
    BY <1>1 DEF Puts, Calls, Decides
  <1>3. ASSUME NEW i \in DOMAIN u
        PROVE  /\ Puts(u, i, "RUNNING") =>
                    /\ s = "QUEUED"
                    /\ \E j \in DOMAIN u : i < j /\ Calls(u, j)
                    /\ \A j \in DOMAIN u : i < j => ~Puts(u, j, "RUNNING")
               /\ Puts(u, i, "COMPLETED") => s = "RUNNING"
               /\ Puts(u, i, "FAILED") => s \in {"QUEUED", "RUNNING"}
               /\ Calls(u, i) => \/ s = "RUNNING"
                                 \/ \E j \in DOMAIN u : j < i /\ Puts(u, j, "RUNNING")
    <2>1. i + 1 \in DOMAIN t /\ i \in Int
      BY <1>1
    <2>2. ASSUME Puts(u, i, "RUNNING")
          PROVE  /\ s = "QUEUED"
                 /\ \E j \in DOMAIN u : i < j /\ Calls(u, j)
                 /\ \A j \in DOMAIN u : i < j => ~Puts(u, j, "RUNNING")
      <3>1. Puts(t, i + 1, "RUNNING")
        BY <1>2, <2>2
      <3>2. PICK k \in DOMAIN t : i + 1 < k /\ Calls(t, k)
        BY <2>1, <3>1 DEF Fits
      <3>3. k - 1 \in DOMAIN u /\ i < k - 1 /\ Calls(u, k - 1)
        BY <1>1, <1>2, <2>1, <3>2
      <3>4. \A j \in DOMAIN u : i < j => i + 1 < j + 1
        BY <1>1, <2>1
      <3>5. \A j \in DOMAIN t : i + 1 < j => ~Puts(t, j, "RUNNING")
        BY <2>1, <3>1 DEF Fits
      <3> QED
        BY <1>1, <1>2, <2>1, <3>1, <3>3, <3>4, <3>5 DEF Fits
    <2>3. ASSUME Calls(u, i), s # "RUNNING"
          PROVE  \E j \in DOMAIN u : j < i /\ Puts(u, j, "RUNNING")
      <3>1. Calls(t, i + 1)
        BY <1>2, <2>3
      <3>2. PICK k \in DOMAIN t : k < i + 1 /\ Puts(t, k, "RUNNING")
        BY <2>1, <2>3, <3>1 DEF Fits
      <3>3. k - 1 \in DOMAIN u /\ k - 1 < i /\ Puts(u, k - 1, "RUNNING")
        BY <1>1, <1>2, <2>1, <3>2
      <3> QED
        BY <3>3
    <2> QED
      BY <1>2, <2>1, <2>2, <2>3 DEF Fits
  <1>4. s \in {"QUEUED", "RUNNING"} => \E i \in DOMAIN u : Decides(u, i) \/ Calls(u, i)
    <2> SUFFICES ASSUME s \in {"QUEUED", "RUNNING"}
                 PROVE  \E i \in DOMAIN u : Decides(u, i) \/ Calls(u, i)
      OBVIOUS
    <2>1. PICK k \in DOMAIN t : Decides(t, k) \/ Calls(t, k)
      BY DEF Fits
    <2>2. k - 1 \in DOMAIN u /\ (Decides(u, k - 1) \/ Calls(u, k - 1))
      BY <1>1, <1>2, <2>1
    <2> QED
      BY <2>2
  <1>5. Fits(u, s)
    BY <1>3, <1>4 DEF Fits
  <1> QED
    BY <1>5 DEF u

\* A status that is set fits what is left.
LEMMA PutFits ==
    ASSUME NEW t \in Seq(Step), t # <<>>, NEW s, Fits(t, s), DecidesLast(t),
           t[1].op = "put"
    PROVE  Fits(Tail(t), t[1].arg)
  <1> DEFINE u == Tail(t)
             a == t[1].arg
  <1>1. /\ 1 \in DOMAIN t
        /\ \A i \in DOMAIN u : /\ i \in Int /\ i + 1 \in DOMAIN t /\ 1 < i + 1
                               /\ u[i] = t[i + 1]
        /\ \A i \in DOMAIN t : i = 1 \/ (i - 1 \in DOMAIN u /\ (i - 1) + 1 = i
                                          /\ u[i - 1] = t[i] /\ i \in Int)
        /\ a \in {"RUNNING", "COMPLETED", "FAILED"}
    <2>1. t[1] \in Step
      BY TailShifts
    <2>2. a \in {"RUNNING", "COMPLETED", "FAILED"}
      BY <2>1 DEF Step
    <2>3. 1 \in DOMAIN t /\ DOMAIN t = 1..Len(t) /\ Len(t) \in Nat
          /\ DOMAIN u = 1..(Len(t) - 1)
          /\ \A i \in DOMAIN u : u[i] = t[i + 1]
      BY TailShifts
    <2> HIDE DEF u, a
    <2> QED
      BY <2>2, <2>3
  <1> HIDE DEF u
  <1>2. \A i \in DOMAIN u : /\ \A w : Puts(u, i, w) <=> Puts(t, i + 1, w)
                            /\ Calls(u, i) <=> Calls(t, i + 1)
                            /\ Decides(u, i) <=> Decides(t, i + 1)
    BY <1>1 DEF Puts, Calls, Decides
  <1>3. CASE a = "RUNNING"
    <2>1. Puts(t, 1, "RUNNING")
      BY <1>3 DEF Puts
    <2>2. /\ \A j \in DOMAIN t : 1 < j => ~Puts(t, j, "RUNNING")
          /\ s = "QUEUED"
      BY <1>1, <2>1 DEF Fits
    <2>3. PICK k \in DOMAIN t : 1 < k /\ Calls(t, k)
      BY <1>1, <2>1 DEF Fits
    <2>4. k - 1 \in DOMAIN u /\ Calls(u, k - 1)
      BY <1>1, <1>2, <2>3
    <2>5. \A i \in DOMAIN u : ~Puts(u, i, "RUNNING")
      BY <1>1, <1>2, <2>2
    <2>6. Fits(u, "RUNNING")
      BY <2>4, <2>5 DEF Fits
    <2> QED
      BY <1>3, <2>6 DEF u
  <1>4. CASE a \in {"COMPLETED", "FAILED"}
    <2>1. Decides(t, 1)
      BY <1>4 DEF Decides, Puts
    <2>2. \A i \in DOMAIN u : ~Calls(u, i) /\ \A w : ~Puts(u, i, w)
      BY <1>1, <1>2, <2>1 DEF DecidesLast, Puts
    <2>3. a \notin {"QUEUED", "RUNNING"}
      BY <1>4
    <2>4. Fits(u, a)
      BY <2>2, <2>3 DEF Fits
    <2> QED
      BY <2>4 DEF u
  <1> QED
    BY <1>1, <1>3, <1>4

\* The thread of the only process and the status of its run.
LEMMA StatusFitsKept ==
    ASSUME TraceInv, PlaceInv, AloneInv, [Next]_vars, NEW p \in Procs
    PROVE  StatusFits(p)'
  <1>o. /\ Typed /\ TypeOK /\ IdleIsIdle /\ ScriptInv
        /\ \A q \in Procs : q = p
        /\ StatusFits(p) /\ RecoveryIsApart(p)
    BY DEF TraceInv, Typed, AloneInv, OneProcess
  <1>t. thread[p].todo \in Seq(Step) /\ DecidesLast(thread[p].todo)
    BY <1>o DEF TypeOK, ScriptInv
  <1>u. Typed'
    BY <1>o, TypedKept
  <1>f. Busy(p) => Fits(thread[p].todo, status[thread[p].run]) /\ thread[p].run \in Runs
    BY <1>o DEF StatusFits, Busy, TypeOK
  <1>q. /\ \A r : r \in QueuedAt(p) <=> \E i \in DOMAIN queue[p] : queue[p][i] = r
        /\ \A r : r \in QueuedAt(p)' <=> \E i \in DOMAIN queue'[p] : queue'[p][i] = r
    BY <1>o, QueuesAre
  \* The run of the thread waits nowhere.
  <1>w. Busy(p) => ~Waits(p, thread[p].run) /\ status[thread[p].run] # "NONE"
    <2> SUFFICES ASSUME Busy(p)
                 PROVE  ~Waits(p, thread[p].run) /\ status[thread[p].run] # "NONE"
      OBVIOUS
    <2>1. CASE thread[p].run \in recovered
      BY <1>o, <2>1 DEF RecoveryIsApart
    <2>2. CASE thread[p].run \notin recovered
      <3>1. Placed(thread[p].run)
        BY <1>f, <2>2 DEF PlaceInv
      <3>2. Executes(p, thread[p].run) /\ Held(p, thread[p].run)
        BY DEF Executes, Held
      <3> QED
        BY <3>1, <3>2 DEF Placed, OnePlace
    <2> QED
      BY <2>1, <2>2
  <1> DEFINE G1 == \A r \in Runs : Waits(p, r)' => status'[r] = "QUEUED"
             G2 == \A r \in backlog'[p] : status'[r] \in {"QUEUED", "RUNNING"}
             G3 == thread'[p].run # NoRun =>
                       Fits(thread'[p].todo, status'[thread'[p].run])
  <1> SUFFICES G1 /\ G2 /\ G3
    <2>1. G3 => (Busy(p) => Fits(thread[p].todo, status[thread[p].run]))'
      BY DEF Busy
    <2> QED
      BY <2>1 DEF StatusFits, Open
  <1>a. /\ \A r \in Runs : Waits(p, r) => status[r] = "QUEUED"
        /\ \A r \in backlog[p] : status[r] \in {"QUEUED", "RUNNING"}
        /\ thread[p].run # NoRun => Fits(thread[p].todo, status[thread[p].run])
        /\ backlog[p] \subseteq Runs
    BY <1>o, <1>f DEF StatusFits, Open, Busy, TypeOK
  <1> HIDE DEF G1, G2, G3
  <1>g1. ASSUME \A r \in Runs : Waits(p, r)' => Waits(p, r),
                \A r \in Runs : Waits(p, r) => status'[r] = status[r]
         PROVE  G1
    BY <1>a, <1>g1 DEF G1
  <1>g2. ASSUME backlog'[p] \subseteq backlog[p],
                \A r \in backlog[p] : status'[r] = status[r]
         PROVE  G2
    BY <1>a, <1>g2 DEF G2
  <1>g3. ASSUME thread'[p].run = thread[p].run, thread'[p].todo = thread[p].todo,
                Busy(p) => status'[thread[p].run] = status[thread[p].run]
         PROVE  G3
    BY <1>a, <1>g3 DEF G3, Busy
  <1>1. ASSUME StartServer(p)
        PROVE  G1 /\ G2 /\ G3
    <2>1. /\ UNCHANGED <<status, accepted, queue, thread>>
          /\ backlog' = [backlog EXCEPT ![p] = {r \in Runs : Open(r)}]
      BY <1>1 DEF StartServer, db
    <2>2. backlog'[p] = {r \in Runs : Open(r)}
      BY <1>o, <2>1 DEF TypeOK
    <2>3. G2
      BY <2>1, <2>2 DEF G2, Open
    <2>4. \A r \in Runs : Waits(p, r)' => Waits(p, r)
      BY <2>1 DEF Waits, QueuedAt
    <2> QED
      BY <1>g1, <1>g3, <2>1, <2>3, <2>4
  <1>2. ASSUME Serve(p) \/ PortTaken(p) \/ Close(p) \/ Exit(p)
        PROVE  G1 /\ G2 /\ G3
    <2>1. UNCHANGED <<status, backlog, accepted, thread>>
      BY <1>2 DEF Serve, PortTaken, Close, Exit, db
    <2>2. queue'[p] = queue[p] \/ queue'[p] = <<>>
      BY <1>o, <1>2 DEF Serve, PortTaken, Close, Exit, TypeOK
    <2>3. \A r \in Runs : Waits(p, r)' => Waits(p, r)
      BY <1>q, <2>1, <2>2 DEF Waits
    <2> QED
      BY <1>g1, <1>g2, <1>g3, <2>1, <2>3
  <1>3. ASSUME NEW x \in Runs, Recover(p, x)
        PROVE  G1 /\ G2 /\ G3
    <2>1. /\ UNCHANGED <<status, accepted, queue>>
          /\ x \in backlog[p]
          /\ Perform(p, Recovery(x))
          /\ backlog' = [backlog EXCEPT ![p] = backlog[p] \ {x}]
      BY <1>3 DEF Recover, db
    <2>2. thread'[p] = Recovery(x) /\ Recovery(x).run = x
      <3>1. Recovery(x) \in Threads /\ Recovery(x).run = x
        BY ScriptsAreTyped DEF Threads, Recovery
      <3> QED
        BY <1>o, <2>1, <3>1, Performs
    <2>3. G3
      <3>1. status[x] \in {"QUEUED", "RUNNING"}
        BY <1>a, <2>1
      <3>2. Fits(Recovery(x).todo, status[x])
        BY <3>1, RecoveryFits
      <3> QED
        BY <2>1, <2>2, <3>2 DEF G3
    <2>4. \A r \in Runs : Waits(p, r)' => Waits(p, r)
      BY <2>1 DEF Waits, QueuedAt
    <2>5. backlog'[p] \subseteq backlog[p]
      BY <1>o, <2>1 DEF TypeOK
    <2> QED
      BY <1>g1, <1>g2, <2>1, <2>3, <2>4, <2>5
  <1>4. ASSUME NEW x \in Runs, Prepare(p, x)
        PROVE  G1 /\ G2 /\ G3
    <2>1. /\ status[x] = "NONE"
          /\ status' = [status EXCEPT ![x] = "QUEUED"]
          /\ accepted' = [accepted EXCEPT ![p] = accepted[p] \cup {x}]
          /\ UNCHANGED <<backlog, queue, thread>>
      BY <1>4 DEF Prepare, Create
    <2>2. /\ status'[x] = "QUEUED"
          /\ \A r \in Runs \ {x} : status'[r] = status[r]
          /\ accepted'[p] = accepted[p] \cup {x}
      BY <1>o, <2>1 DEF TypeOK
    <2>3. \A r \in Runs : Waits(p, r)' => Waits(p, r) \/ r = x
      BY <2>1, <2>2 DEF Waits, QueuedAt
    <2>4. G1
      BY <1>a, <2>2, <2>3 DEF G1
    <2>5. G2
      BY <1>a, <2>1, <2>2 DEF G2
    <2>6. Busy(p) => thread[p].run # x
      BY <1>w, <2>1
    <2> QED
      BY <1>f, <1>g3, <2>1, <2>2, <2>4, <2>5, <2>6
  <1>5. ASSUME NEW x \in Runs, Enqueue(p, x)
        PROVE  G1 /\ G2 /\ G3
    <2>1. /\ UNCHANGED <<status, backlog, thread>>
          /\ x \in accepted[p]
          /\ accepted' = [accepted EXCEPT ![p] = accepted[p] \ {x}]
          /\ queue' = [queue EXCEPT ![p] = Append(queue[p], x)]
      BY <1>5 DEF Enqueue, db
    <2>2. /\ accepted'[p] \subseteq accepted[p]
          /\ queue'[p] = Append(queue[p], x)
      BY <1>o, <2>1 DEF TypeOK
    <2>3. \A i \in DOMAIN queue'[p] :
              (i \in DOMAIN queue[p] /\ queue'[p][i] = queue[p][i]) \/ queue'[p][i] = x
      BY <1>o, <2>2 DEF TypeOK
    <2>4. \A r \in Runs : Waits(p, r)' => Waits(p, r)
      BY <1>q, <2>1, <2>2, <2>3 DEF Waits
    <2> QED
      BY <1>g1, <1>g2, <1>g3, <2>1, <2>4
  <1>6. ASSUME Take(p)
        PROVE  G1 /\ G2 /\ G3
    <2> DEFINE x == Head(queue[p])
    <2>1. /\ UNCHANGED <<status, backlog, accepted>>
          /\ queue[p] # <<>>
          /\ Perform(p, Job(x))
          /\ queue' = [queue EXCEPT ![p] = Tail(queue[p])]
      BY <1>6 DEF Take, db
    <2>2. /\ x \in Runs /\ x = queue[p][1] /\ 1 \in DOMAIN queue[p]
          /\ queue'[p] = Tail(queue[p])
          /\ \A i \in DOMAIN queue'[p] : /\ i + 1 \in DOMAIN queue[p]
                                         /\ queue'[p][i] = queue[p][i + 1]
      <3>1. queue[p] \in Seq(Runs) /\ queue'[p] = Tail(queue[p])
        BY <1>o, <2>1 DEF TypeOK
      <3>2. /\ x \in Runs /\ x = queue[p][1] /\ 1 \in DOMAIN queue[p]
            /\ DOMAIN Tail(queue[p]) = 1..(Len(queue[p]) - 1)
            /\ DOMAIN queue[p] = 1..Len(queue[p]) /\ Len(queue[p]) \in Nat
            /\ \A i \in DOMAIN Tail(queue[p]) : Tail(queue[p])[i] = queue[p][i + 1]
        BY <2>1, <3>1, TailShifts
      <3> HIDE DEF x
      <3> QED
        BY <3>1, <3>2
    <2> HIDE DEF x
    <2>3. thread'[p] = Job(x) /\ Job(x).run = x
      <3>1. Job(x) \in Threads /\ Job(x).run = x
        BY <2>2, ScriptsAreTyped DEF Threads, Job
      <3> QED
        BY <1>o, <2>1, <3>1, Performs
    <2>4. status[x] = "QUEUED"
      BY <1>a, <1>q, <2>2 DEF Waits
    <2>5. G3
      BY <2>1, <2>2, <2>3, <2>4, JobFits DEF G3
    <2>6. \A r \in Runs : Waits(p, r)' => Waits(p, r)
      BY <1>q, <2>1, <2>2 DEF Waits
    <2> QED
      BY <1>g1, <1>g2, <2>1, <2>5, <2>6
  <1>7. ASSUME NEW x \in Runs, Ask(p, x)
        PROVE  G1 /\ G2 /\ G3
    <2>1. /\ status[x] = "NONE"
          /\ status' = [status EXCEPT ![x] = "QUEUED"]
          /\ Perform(p, Job(x))
          /\ UNCHANGED <<backlog, accepted, queue>>
      BY <1>7 DEF Ask, Create
    <2>2. /\ status'[x] = "QUEUED"
          /\ \A r \in Runs \ {x} : status'[r] = status[r]
      BY <1>o, <2>1 DEF TypeOK
    <2>3. thread'[p] = Job(x) /\ Job(x).run = x
      <3>1. Job(x) \in Threads /\ Job(x).run = x
        BY ScriptsAreTyped DEF Threads, Job
      <3> QED
        BY <1>o, <2>1, <3>1, Performs
    <2>4. G3
      BY <2>2, <2>3, JobFits DEF G3
    <2>5. \A r \in Runs : Waits(p, r)' => Waits(p, r)
      BY <2>1 DEF Waits, QueuedAt
    <2>6. G1
      BY <1>a, <2>2, <2>5 DEF G1
    <2>7. G2
      BY <1>a, <2>1, <2>2 DEF G2
    <2> QED
      BY <2>4, <2>6, <2>7
  <1>8. ASSUME SetStatus(p)
        PROVE  G1 /\ G2 /\ G3
    <2>1. /\ Busy(p) /\ thread[p].run \in Runs /\ thread[p].todo # <<>>
          /\ thread[p].todo[1].op = "put"
          /\ Arg(p) = thread[p].todo[1].arg
      BY <1>o, <1>8, Pends DEF SetStatus
    <2>2. /\ status'[thread[p].run] = Arg(p)
          /\ \A r \in Runs \ {thread[p].run} : status'[r] = status[r]
          /\ UNCHANGED <<backlog, accepted, queue>>
      BY <1>o, <1>8, <2>1 DEF SetStatus, TypeOK
    <2>3. /\ thread'[p].run = thread[p].run
          /\ thread'[p].todo = Tail(thread[p].todo)
      BY <1>o, <1>8, AdvancesMove DEF Moves
    <2>4. G3
      <3>1. Fits(Tail(thread[p].todo), thread[p].todo[1].arg)
        BY <1>f, <1>t, <2>1, PutFits
      <3> QED
        BY <2>1, <2>2, <2>3, <3>1 DEF G3
    <2>5. \A r \in Runs : Waits(p, r) => status'[r] = status[r]
      BY <1>w, <2>1, <2>2
    <2>6. \A r \in backlog[p] : status'[r] = status[r]
      BY <1>a, <1>o, <2>2 DEF RecoveryIsApart
    <2>7. \A r \in Runs : Waits(p, r)' => Waits(p, r)
      BY <2>2 DEF Waits, QueuedAt
    <2> QED
      BY <1>g1, <1>g2, <2>2, <2>4, <2>5, <2>6, <2>7
  <1>9. ASSUME Resolve(p) \/ Insert(p)
        PROVE  G1 /\ G2 /\ G3
    <2>1. /\ Busy(p) /\ thread[p].run \in Runs /\ thread[p].todo # <<>>
          /\ thread[p].todo[1].op # "put" /\ ~Calls(thread[p].todo, 1)
      BY <1>o, <1>9, Pends DEF Resolve, Insert, Calls
    <2>2. UNCHANGED <<status, backlog, accepted, queue>>
      BY <1>9 DEF Resolve, Insert, db
    <2>3. /\ thread'[p].run = thread[p].run
          /\ thread'[p].todo = Tail(thread[p].todo)
      BY <1>o, <1>9, AdvancesMove DEF Moves
    <2>4. G3
      BY <1>f, <1>t, <2>1, <2>2, <2>3, RestFits DEF G3
    <2>5. \A r \in Runs : Waits(p, r)' => Waits(p, r)
      BY <2>2 DEF Waits, QueuedAt
    <2> QED
      BY <1>g1, <1>g2, <2>2, <2>4, <2>5
  <1>10. ASSUME ReadMax(p)
         PROVE  G1 /\ G2 /\ G3
    <2>1. UNCHANGED <<status, backlog, accepted, queue>> /\ Stays(p)
      BY <1>o, <1>10, ReadsStay DEF ReadMax, db
    <2>2. \A r \in Runs : Waits(p, r)' => Waits(p, r)
      BY <2>1 DEF Waits, QueuedAt
    <2> QED
      BY <1>g1, <1>g2, <1>g3, <2>1, <2>2 DEF Stays
  <1>11. ASSUME CallReturns(p) \/ CallRaises(p)
         PROVE  G1 /\ G2 /\ G3
    <2>1. UNCHANGED <<status, backlog, accepted, queue>> /\ Extends(p)
      BY <1>o, <1>11, CallsExtend DEF CallReturns, CallRaises, db
    <2>2. Busy(p) /\ 1 \in DOMAIN thread[p].todo /\ \A j \in DOMAIN thread[p].todo : ~(j < 1)
      BY <1>o, <1>t, <1>11, Pends, TailShifts DEF CallReturns, CallRaises
    <2>3. status[thread[p].run] = "RUNNING"
      BY <1>f, <2>1, <2>2 DEF Extends, Fits
    <2>4. G3
      BY <2>1, <2>3, AnswerFits DEF G3, Extends
    <2>5. \A r \in Runs : Waits(p, r)' => Waits(p, r)
      BY <2>1 DEF Waits, QueuedAt
    <2> QED
      BY <1>g1, <1>g2, <2>1, <2>4, <2>5
  <1>12. ASSUME \/ ResolveFails(p) \/ InsertConflict(p) \/ Reraise(p) \/ StoreFails(p)
                \/ Kill(p) \/ JobDone(p)
         PROVE  G1 /\ G2 /\ G3
    <2>1. /\ status' = status
          /\ thread'[p] = Idle
          /\ backlog'[p] = backlog[p] \/ backlog'[p] = {}
          /\ accepted'[p] = accepted[p] \/ accepted'[p] = {}
          /\ queue'[p] = queue[p] \/ queue'[p] = <<>>
      <3>1. CASE ResolveFails(p) \/ InsertConflict(p) \/ Reraise(p) \/ StoreFails(p)
        <4>1. Busy(p) /\ Raise(p) /\ status' = status
          BY <1>o, <3>1, Pends DEF ResolveFails, InsertConflict, Reraise, StoreFails, db
        <4> QED
          BY <1>o, <4>1, Raises
      <3>2. CASE Kill(p)
        BY <1>o, <3>2, Vanishes DEF Kill, db
      <3>3. CASE JobDone(p)
        <4>1. Idle \in Threads /\ Perform(p, Idle)
          BY <3>3, ScriptsAreTyped DEF Threads, JobDone
        <4> QED
          BY <1>o, <3>3, <4>1, Performs DEF JobDone, db
      <3> QED
        BY <1>12, <3>1, <3>2, <3>3
    <2>2. G3
      BY <2>1 DEF G3, Idle
    <2>3. \A r \in Runs : Waits(p, r)' => Waits(p, r)
      BY <1>q, <2>1 DEF Waits
    <2> QED
      BY <1>g1, <1>g2, <2>1, <2>2, <2>3
  <1>13. ASSUME UNCHANGED vars
         PROVE  G1 /\ G2 /\ G3
    <2>1. \A r \in Runs : Waits(p, r)' => Waits(p, r)
      BY <1>13 DEF Waits, QueuedAt, vars, procs
    <2> QED
      BY <1>g1, <1>g2, <1>g3, <1>13, <2>1 DEF vars, db, procs
  <1> QED
    BY <1>o, <1>1, <1>2, <1>3, <1>4, <1>5, <1>6, <1>7, <1>8, <1>9, <1>10, <1>11,
       <1>12, <1>13 DEF Next, Progress, Command

\* What a recovery has found open is out of the queues, and the run it is
\* failing out of its list.
LEMMA RecoveryIsApartKept ==
    ASSUME TraceInv, PlaceInv, AloneInv, [Next]_vars, NEW p \in Procs
    PROVE  RecoveryIsApart(p)'
  <1>o. /\ Typed /\ TypeOK /\ IdleIsIdle /\ OnlyServersQueue
        /\ \A q \in Procs : q = p
        /\ StatusFits(p)
    BY DEF TraceInv, Typed, AloneInv, OneProcess
  <1>a. /\ \A r \in recovered : ~Waits(p, r) /\ status[r] # "NONE"
        /\ thread[p].run \notin backlog[p]
        /\ backlog[p] # {} => phase[p] = "starting"
        /\ backlog[p] \subseteq Runs /\ recovered \subseteq Runs
    BY DEF AloneInv, RecoveryIsApart, TraceInv, Typed, TypeOK
  <1>q. /\ \A r : r \in QueuedAt(p) <=> \E i \in DOMAIN queue[p] : queue[p][i] = r
        /\ \A r : r \in QueuedAt(p)' <=> \E i \in DOMAIN queue'[p] : queue'[p][i] = r
    BY <1>o, QueuesAre
  <1>n. NoRun \notin Runs /\ Idle.run = NoRun
    BY QueryConstants DEF Idle
  <1>s. /\ \A r \in Runs : status[r] # "NONE" => status'[r] # "NONE"
        /\ \A r \in Runs : Waits(p, r)' => Waits(p, r) \/ status[r] = "NONE"
    <2>1. ASSUME NEW x \in Runs, Prepare(p, x) \/ Ask(p, x)
          PROVE  /\ \A r \in Runs : status[r] # "NONE" => status'[r] # "NONE"
                 /\ \A r \in Runs : Waits(p, r)' => Waits(p, r) \/ status[r] = "NONE"
      <3>1. /\ status[x] = "NONE"
            /\ status' = [status EXCEPT ![x] = "QUEUED"]
            /\ queue' = queue
            /\ \/ accepted' = accepted
               \/ accepted' = [accepted EXCEPT ![p] = accepted[p] \cup {x}]
        BY <2>1 DEF Prepare, Ask, Create
      <3>2. accepted'[p] \subseteq accepted[p] \cup {x}
        BY <1>o, <3>1 DEF TypeOK
      <3>3. \A r \in Runs : status[r] # "NONE" => status'[r] # "NONE"
        BY <1>o, <3>1 DEF TypeOK
      <3> QED
        BY <3>1, <3>2, <3>3 DEF Waits, QueuedAt
    <2>2. ASSUME SetStatus(p)
          PROVE  /\ \A r \in Runs : status[r] # "NONE" => status'[r] # "NONE"
                 /\ \A r \in Runs : Waits(p, r)' => Waits(p, r) \/ status[r] = "NONE"
      <3>1. Arg(p) \in {"RUNNING", "COMPLETED", "FAILED"} /\ thread[p].run \in Runs
        BY <1>o, <2>2, Pends DEF SetStatus
      <3>2. status' = [status EXCEPT ![thread[p].run] = Arg(p)]
            /\ UNCHANGED <<accepted, queue>>
        BY <2>2 DEF SetStatus
      <3>3. \A r \in Runs : status[r] # "NONE" => status'[r] # "NONE"
        BY <1>o, <3>1, <3>2 DEF TypeOK
      <3> QED
        BY <3>2, <3>3 DEF Waits, QueuedAt
    <2>3. ASSUME NEW x \in Runs, Enqueue(p, x)
          PROVE  /\ \A r \in Runs : status[r] # "NONE" => status'[r] # "NONE"
                 /\ \A r \in Runs : Waits(p, r)' => Waits(p, r) \/ status[r] = "NONE"
      <3>1. /\ status' = status /\ x \in accepted[p]
            /\ accepted'[p] \subseteq accepted[p]
            /\ queue'[p] = Append(queue[p], x)
        BY <1>o, <2>3 DEF Enqueue, db, TypeOK
      <3>2. \A i \in DOMAIN queue'[p] :
                (i \in DOMAIN queue[p] /\ queue'[p][i] = queue[p][i]) \/ queue'[p][i] = x
        BY <1>o, <3>1 DEF TypeOK
      <3> QED
        BY <1>q, <3>1, <3>2 DEF Waits
    <2>4. ASSUME Take(p)
          PROVE  /\ \A r \in Runs : status[r] # "NONE" => status'[r] # "NONE"
                 /\ \A r \in Runs : Waits(p, r)' => Waits(p, r) \/ status[r] = "NONE"
      <3>1. /\ queue[p] # <<>> /\ queue[p] \in Seq(Runs)
            /\ queue'[p] = Tail(queue[p])
            /\ UNCHANGED <<status, accepted>>
        BY <1>o, <2>4 DEF Take, TypeOK, db
      <3>2. \A i \in DOMAIN queue'[p] : /\ i + 1 \in DOMAIN queue[p]
                                        /\ queue'[p][i] = queue[p][i + 1]
        <4>1. /\ DOMAIN Tail(queue[p]) = 1..(Len(queue[p]) - 1)
              /\ DOMAIN queue[p] = 1..Len(queue[p]) /\ Len(queue[p]) \in Nat
              /\ \A i \in DOMAIN Tail(queue[p]) : Tail(queue[p])[i] = queue[p][i + 1]
          BY <3>1, TailShifts
        <4> QED
          BY <3>1, <4>1
      <3> QED
        BY <1>q, <3>1, <3>2 DEF Waits
    <2>5. ASSUME \/ ResolveFails(p) \/ InsertConflict(p) \/ Reraise(p) \/ StoreFails(p)
                 \/ Kill(p) \/ Close(p)
          PROVE  /\ \A r \in Runs : status[r] # "NONE" => status'[r] # "NONE"
                 /\ \A r \in Runs : Waits(p, r)' => Waits(p, r) \/ status[r] = "NONE"
      <3>1. /\ status' = status
            /\ accepted'[p] = accepted[p] \/ accepted'[p] = {}
            /\ queue'[p] = queue[p] \/ queue'[p] = <<>>
        <4>1. CASE ResolveFails(p) \/ InsertConflict(p) \/ Reraise(p) \/ StoreFails(p)
          <5>1. Busy(p) /\ Raise(p) /\ status' = status
            BY <1>o, <4>1, Pends DEF ResolveFails, InsertConflict, Reraise, StoreFails, db
          <5> QED
            BY <1>o, <5>1, Raises
        <4>2. CASE Kill(p)
          BY <1>o, <4>2, Vanishes DEF Kill, db
        <4>3. CASE Close(p)
          BY <1>o, <4>3 DEF Close, db, TypeOK
        <4> QED
          BY <2>5, <4>1, <4>2, <4>3
      <3> QED
        BY <1>q, <3>1 DEF Waits
    <2>6. ASSUME UNCHANGED <<status, accepted, queue>>
          PROVE  /\ \A r \in Runs : status[r] # "NONE" => status'[r] # "NONE"
                 /\ \A r \in Runs : Waits(p, r)' => Waits(p, r) \/ status[r] = "NONE"
      BY <2>6 DEF Waits, QueuedAt
    <2>7. \/ \E x \in Runs : Prepare(p, x) \/ Ask(p, x)
          \/ SetStatus(p)
          \/ \E x \in Runs : Enqueue(p, x)
          \/ Take(p)
          \/ ResolveFails(p) \/ InsertConflict(p) \/ Reraise(p) \/ StoreFails(p)
          \/ Kill(p) \/ Close(p)
          \/ UNCHANGED <<status, accepted, queue>>
      BY <1>o DEF Next, Progress, Command, vars, db, procs, Serve, Exit, JobDone, Recover,
             Resolve, ReadMax, Insert, CallReturns, CallRaises, StartServer, PortTaken
    <2> QED
      BY <2>1, <2>2, <2>3, <2>4, <2>5, <2>6, <2>7
  <1>r. /\ recovered' = recovered
        \/ /\ StartServer(p)
           /\ backlog'[p] = {r \in Runs : Open(r)}
           /\ recovered' = recovered \cup backlog'[p]
           /\ UNCHANGED <<status, accepted, queue, thread>>
           /\ phase[p] = "down" /\ phase'[p] = "starting"
    <2>1. StartServer(p) \/ recovered' = recovered
      BY <1>o DEF Next, Progress, Command, vars, Serve, Take, Exit, JobDone, Recover,
             Enqueue, Resolve, ResolveFails, SetStatus, ReadMax, Insert, InsertConflict,
             CallReturns, CallRaises, Reraise, PortTaken, Close, Prepare,
             Ask, StoreFails, Kill
    <2> QED
      BY <1>o, <2>1 DEF StartServer, Enter, db, TypeOK
  <1>1. \A r \in recovered' : ~Waits(p, r)' /\ status'[r] # "NONE"
    <2>1. CASE recovered' = recovered
      BY <1>a, <1>s, <2>1
    <2>2. CASE /\ StartServer(p)
               /\ backlog'[p] = {r \in Runs : Open(r)}
               /\ recovered' = recovered \cup backlog'[p]
               /\ UNCHANGED <<status, accepted, queue, thread>>
               /\ phase[p] = "down"
      <3>1. accepted[p] = {} /\ queue[p] = <<>>
        BY <1>o, <2>2 DEF OnlyServersQueue
      <3>2. \A r : ~Waits(p, r)'
        BY <1>q, <2>2, <3>1 DEF Waits
      <3>3. \A r \in backlog'[p] : status'[r] # "NONE"
        BY <2>2 DEF Open
      <3> QED
        BY <1>a, <2>2, <3>2, <3>3
    <2> QED
      BY <1>r, <2>1, <2>2
  <1> DEFINE G == /\ thread'[p].run \notin backlog'[p]
                  /\ backlog'[p] # {} => phase'[p] = "starting"
  <1> HIDE DEF G
  <1>2. ASSUME StartServer(p)
        PROVE  G
    <2>1. /\ thread'[p].run = NoRun
          /\ backlog'[p] \subseteq Runs /\ phase'[p] = "starting"
      BY <1>n, <1>o, <1>2 DEF StartServer, Enter, TypeOK
    <2> QED
      BY <1>n, <2>1 DEF G
  <1>3. ASSUME NEW x \in Runs, Recover(p, x)
        PROVE  G
    <2>1. /\ Perform(p, Recovery(x)) /\ phase' = phase /\ phase[p] = "starting"
          /\ backlog'[p] = backlog[p] \ {x}
      BY <1>o, <1>3 DEF Recover, TypeOK
    <2>2. thread'[p].run = x
      <3>1. Recovery(x) \in Threads /\ Recovery(x).run = x
        BY ScriptsAreTyped DEF Threads, Recovery
      <3> QED
        BY <1>o, <2>1, <3>1, Performs
    <2> QED
      BY <2>1, <2>2 DEF G
  <1>4. ASSUME \/ ResolveFails(p) \/ InsertConflict(p) \/ Reraise(p) \/ StoreFails(p)
               \/ Kill(p)
        PROVE  G
    <2>1. /\ thread'[p] = Idle
          /\ backlog'[p] = {} \/ (backlog'[p] = backlog[p] /\ phase'[p] = phase[p])
      <3>1. CASE Kill(p)
        BY <1>o, <3>1, Vanishes DEF Kill
      <3>2. CASE ResolveFails(p) \/ InsertConflict(p) \/ Reraise(p) \/ StoreFails(p)
        <4>1. Busy(p) /\ Raise(p)
          BY <1>o, <3>2, Pends DEF ResolveFails, InsertConflict, Reraise, StoreFails
        <4>2. CASE phase[p] = "starting"
          BY <1>o, <4>1, <4>2, Vanishes DEF Raise
        <4>3. CASE phase[p] # "starting"
          <5>1. backlog[p] = {} /\ backlog' = backlog
            BY <1>a, <4>1, <4>3 DEF Raise
          <5> QED
            BY <1>o, <4>1, <5>1, Raises
        <4> QED
          BY <4>2, <4>3
      <3> QED
        BY <1>4, <3>1, <3>2
    <2>2. NoRun \notin backlog[p]
      BY <1>a, <1>n
    <2> QED
      BY <1>a, <1>n, <2>1, <2>2 DEF G
  <1>5. ASSUME JobDone(p)
        PROVE  G
    <2>1. Idle \in Threads /\ Perform(p, Idle)
      BY <1>5, ScriptsAreTyped DEF Threads, JobDone
    <2>2. /\ thread'[p] = Idle /\ backlog' = backlog
          /\ phase[p] = "starting" => phase' = phase
      BY <1>o, <1>5, <2>1, Performs DEF JobDone
    <2> QED
      BY <1>a, <1>n, <2>2 DEF G
  <1>6. ASSUME Serve(p) \/ PortTaken(p) \/ Close(p) \/ Exit(p)
        PROVE  G
    <2>1. /\ backlog' = backlog /\ thread' = thread
          /\ backlog[p] = {}
      BY <1>a, <1>6 DEF Serve, PortTaken, Close, Exit
    <2> QED
      BY <2>1 DEF G
  <1>7. ASSUME Take(p)
        PROVE  G
    <2>1. backlog' = backlog /\ queue[p] # <<>>
      BY <1>7 DEF Take
    <2>2. backlog[p] = {}
      BY <1>a, <1>o, <2>1 DEF OnlyServersQueue
    <2> QED
      BY <2>1, <2>2 DEF G
  <1>8. ASSUME NEW x \in Runs, Ask(p, x)
        PROVE  G
    <2>1. backlog' = backlog /\ phase[p] = "down"
      BY <1>8 DEF Ask
    <2> QED
      BY <1>a, <2>1 DEF G
  <1>9. ASSUME UNCHANGED <<phase, backlog>>, thread'[p].run = thread[p].run
        PROVE  G
    BY <1>9, <1>a DEF G
  <1>10. ASSUME \/ Resolve(p) \/ SetStatus(p) \/ Insert(p) \/ ReadMax(p)
                \/ CallReturns(p) \/ CallRaises(p)
         PROVE  G
    <2>1. UNCHANGED <<phase, backlog>>
      BY <1>10 DEF Resolve, SetStatus, Insert, ReadMax, CallReturns, CallRaises
    <2>2. thread'[p].run = thread[p].run
      BY <1>o, <1>10, AdvancesMove, ReadsStay, CallsExtend DEF Moves, Stays, Extends
    <2> QED
      BY <1>9, <2>1, <2>2
  <1>11. ASSUME (\E x \in Runs : Prepare(p, x) \/ Enqueue(p, x)) \/ UNCHANGED vars
         PROVE  G
    BY <1>9, <1>11 DEF Prepare, Enqueue, vars, procs
  <1>12. G
    BY <1>o, <1>2, <1>3, <1>4, <1>5, <1>6, <1>7, <1>8, <1>10, <1>11
       DEF Next, Progress, Command
  <1> QED
    BY <1>1, <1>12 DEF G, RecoveryIsApart

\* No open run is forgotten by the only process while it starts or serves.
LEMMA NobodyForgottenKept ==
    ASSUME TraceInv, PlaceInv, AloneInv, [Next]_vars, NEW p \in Procs
    PROVE  NobodyForgotten(p)'
  <1>o. /\ Typed /\ TypeOK /\ IdleIsIdle
        /\ \A q \in Procs : q = p
        /\ StatusFits(p) /\ NobodyForgotten(p)
    BY DEF TraceInv, Typed, AloneInv, OneProcess
  <1>q. /\ \A r : r \in QueuedAt(p) <=> \E i \in DOMAIN queue[p] : queue[p][i] = r
        /\ \A r : r \in QueuedAt(p)' <=> \E i \in DOMAIN queue'[p] : queue'[p][i] = r
    BY <1>o, QueuesAre
  <1> DEFINE Opened(r) == status'[r] \in {"QUEUED", "RUNNING"}
             Mine(r) == OwnedBy(p, r)'
             Goal == phase'[p] \in {"starting", "up"} =>
                        \A r \in Runs : Opened(r) => Mine(r) \/ r \in raised'
  <1> SUFFICES Goal
    BY DEF NobodyForgotten, Open
  <1>a. phase[p] \in {"starting", "up"} =>
            \A r \in Runs : status[r] \in {"QUEUED", "RUNNING"} =>
                OwnedBy(p, r) \/ r \in raised
    BY <1>o DEF NobodyForgotten, Open
  <1>m. \A r : Mine(r) <=> \/ thread'[p].run = r \/ r \in accepted'[p]
                           \/ r \in QueuedAt(p)' \/ r \in backlog'[p]
    BY DEF OwnedBy, Waits
  <1>p. \A r : OwnedBy(p, r) <=> \/ thread[p].run = r \/ r \in accepted[p]
                                 \/ r \in QueuedAt(p) \/ r \in backlog[p]
    BY DEF OwnedBy, Waits
  <1> HIDE DEF Mine, Goal
  \* A step that keeps the owners, the raised and the open runs.
  <1>k. ASSUME phase[p] \in {"starting", "up"},
               \A r \in Runs : OwnedBy(p, r) => Mine(r) \/ r \in raised' \/ ~Opened(r),
               \A r \in Runs : Opened(r) =>
                   status[r] \in {"QUEUED", "RUNNING"} \/ Mine(r),
               raised \subseteq raised'
        PROVE  Goal
    BY <1>a, <1>k DEF Goal
  <1>1. ASSUME StartServer(p)
        PROVE  Goal
    <2>1. backlog'[p] = {r \in Runs : status[r] \in {"QUEUED", "RUNNING"}}
      BY <1>o, <1>1 DEF StartServer, TypeOK, Open
    <2>2. status' = status
      BY <1>1 DEF StartServer, db
    <2> QED
      BY <1>m, <2>1, <2>2 DEF Goal
  <1>2. ASSUME Serve(p)
        PROVE  Goal
    <2>1. /\ UNCHANGED <<status, backlog, accepted, queue, thread, raised>>
          /\ phase[p] = "starting"
      BY <1>2 DEF Serve, db
    <2>2. \A r : OwnedBy(p, r) => Mine(r)
      BY <1>m, <1>p, <2>1 DEF QueuedAt
    <2> QED
      BY <1>k, <2>1, <2>2
  <1>3. ASSUME PortTaken(p) \/ Close(p) \/ Exit(p) \/ Kill(p)
        PROVE  Goal
    <2>1. phase'[p] \in {"down", "closing"}
      BY <1>o, <1>3 DEF PortTaken, Close, Exit, Kill, Vanish, Enter, TypeOK
    <2> QED
      BY <2>1 DEF Goal
  <1>4. ASSUME NEW x \in Runs, Recover(p, x)
        PROVE  Goal
    <2>1. /\ UNCHANGED <<status, accepted, queue, raised>>
          /\ phase[p] = "starting" /\ ~Busy(p)
          /\ Perform(p, Recovery(x))
          /\ backlog'[p] = backlog[p] \ {x}
      BY <1>o, <1>4 DEF Recover, db, TypeOK
    <2>2. thread'[p].run = x
      <3>1. Recovery(x) \in Threads /\ Recovery(x).run = x
        BY ScriptsAreTyped DEF Threads, Recovery
      <3> QED
        BY <1>o, <2>1, <3>1, Performs
    <2>3. \A r \in Runs : OwnedBy(p, r) => Mine(r)
      BY <1>m, <1>p, <2>1, <2>2, QueryConstants DEF QueuedAt, Busy
    <2> QED
      BY <1>k, <2>1, <2>3
  <1>5. ASSUME NEW x \in Runs, Prepare(p, x)
        PROVE  Goal
    <2>1. /\ phase[p] = "up"
          /\ status' = [status EXCEPT ![x] = "QUEUED"]
          /\ accepted'[p] = accepted[p] \cup {x}
          /\ UNCHANGED <<backlog, queue, thread, raised>>
      BY <1>o, <1>5 DEF Prepare, Create, TypeOK
    <2>2. \A r : OwnedBy(p, r) \/ r = x => Mine(r)
      BY <1>m, <1>p, <2>1 DEF QueuedAt
    <2>3. \A r \in Runs \ {x} : status'[r] = status[r]
      BY <1>o, <2>1 DEF TypeOK
    <2> QED
      BY <1>k, <2>1, <2>2, <2>3
  <1>6. ASSUME NEW x \in Runs, Enqueue(p, x)
        PROVE  Goal
    <2>1. /\ UNCHANGED <<status, phase, backlog, thread, raised>>
          /\ x \in accepted[p]
          /\ accepted'[p] = accepted[p] \ {x}
          /\ queue'[p] = Append(queue[p], x)
      BY <1>o, <1>6 DEF Enqueue, db, TypeOK
    <2>2. /\ \A i \in DOMAIN queue[p] : i \in DOMAIN queue'[p] /\ queue'[p][i] = queue[p][i]
          /\ Len(queue[p]) + 1 \in DOMAIN queue'[p]
          /\ queue'[p][Len(queue[p]) + 1] = x
      <3>1. queue[p] \in Seq(Runs)
        BY <1>o DEF TypeOK
      <3>2. ASSUME NEW s \in Seq(Runs)
            PROVE  /\ \A i \in DOMAIN s : i \in DOMAIN Append(s, x) /\ Append(s, x)[i] = s[i]
                   /\ Len(s) + 1 \in DOMAIN Append(s, x)
                   /\ Append(s, x)[Len(s) + 1] = x
        OBVIOUS
      <3> QED
        BY <2>1, <3>1, <3>2
    <2>3. x \in QueuedAt(p)' /\ \A r : r \in QueuedAt(p) => r \in QueuedAt(p)'
      BY <1>q, <2>2
    <2>4. \A r : OwnedBy(p, r) => Mine(r)
      BY <1>m, <1>p, <2>1, <2>3
    <2> QED
      BY <1>a, <2>1, <2>4 DEF Goal
  <1>7. ASSUME Take(p)
        PROVE  Goal
    <2> DEFINE x == Head(queue[p])
    <2>1. /\ UNCHANGED <<status, phase, backlog, accepted, raised>>
          /\ queue[p] # <<>> /\ ~Busy(p) /\ queue[p] \in Seq(Runs)
          /\ Perform(p, Job(x))
          /\ queue'[p] = Tail(queue[p])
      BY <1>o, <1>7 DEF Take, db, TypeOK
    <2>2. /\ x \in Runs /\ x = queue[p][1]
          /\ DOMAIN Tail(queue[p]) = 1..(Len(queue[p]) - 1)
          /\ DOMAIN queue[p] = 1..Len(queue[p]) /\ Len(queue[p]) \in Nat
          /\ \A i \in DOMAIN Tail(queue[p]) : Tail(queue[p])[i] = queue[p][i + 1]
      BY <2>1, TailShifts
    <2>3. thread'[p].run = x
      <3>1. Job(x) \in Threads /\ Job(x).run = x
        BY <2>2, ScriptsAreTyped DEF Threads, Job
      <3> QED
        BY <1>o, <2>1, <3>1, Performs
    <2> HIDE DEF x
    <2>4. \A i \in DOMAIN queue[p] :
              i = 1 \/ (i - 1 \in DOMAIN queue'[p] /\ queue'[p][i - 1] = queue[p][i])
      BY <2>1, <2>2
    <2>5. \A r : r \in QueuedAt(p) => r = x \/ r \in QueuedAt(p)'
      BY <1>q, <2>2, <2>4
    <2>6. \A r \in Runs : OwnedBy(p, r) => Mine(r)
      BY <1>m, <1>p, <2>1, <2>3, <2>5, QueryConstants DEF Busy
    <2> QED
      BY <1>a, <2>1, <2>6 DEF Goal
  <1>8. ASSUME NEW x \in Runs, Ask(p, x)
        PROVE  Goal
    <2>1. phase'[p] = "asking"
      BY <1>o, <1>8 DEF Ask, Enter, TypeOK
    <2> QED
      BY <2>1 DEF Goal
  <1>9. ASSUME \/ Resolve(p) \/ SetStatus(p) \/ Insert(p) \/ ReadMax(p)
               \/ CallReturns(p) \/ CallRaises(p)
        PROVE  Goal
    <2>1. UNCHANGED <<phase, backlog, accepted, queue, raised>>
      BY <1>9 DEF Resolve, SetStatus, Insert, ReadMax, CallReturns, CallRaises
    <2>2. thread'[p].run = thread[p].run
      BY <1>o, <1>9, AdvancesMove, ReadsStay, CallsExtend DEF Moves, Stays, Extends
    <2>3. \A r : OwnedBy(p, r) => Mine(r)
      BY <1>m, <1>p, <2>1, <2>2 DEF QueuedAt
    <2>4. \A r \in Runs : status'[r] = status[r] \/ thread[p].run = r
      BY <1>o, <1>9 DEF Resolve, SetStatus, Insert, ReadMax, CallReturns, CallRaises,
                        db, TypeOK
    <2>5. \A r \in Runs : thread[p].run = r => Mine(r)
      BY <1>m, <2>2
    <2> QED
      BY <1>a, <2>1, <2>3, <2>4, <2>5 DEF Goal
  <1>10. ASSUME ResolveFails(p) \/ InsertConflict(p) \/ Reraise(p) \/ StoreFails(p)
         PROVE  Goal
    <2>1. Busy(p) /\ Raise(p) /\ status' = status
      BY <1>o, <1>10, Pends DEF ResolveFails, InsertConflict, Reraise, StoreFails, db
    <2>2. CASE phase'[p] = "down"
      BY <2>2 DEF Goal
    <2>3. CASE /\ phase'[p] = phase[p] /\ phase[p] # "starting"
               /\ backlog' = backlog /\ accepted' = accepted /\ queue' = queue
      <3>1. raised \subseteq raised' /\ thread[p].run \in raised'
        BY <1>o, <2>1, <2>3, Raises
      <3>2. \A r : OwnedBy(p, r) => Mine(r) \/ r \in raised'
        BY <1>m, <1>p, <2>3, <3>1 DEF QueuedAt
      <3> QED
        BY <1>a, <2>1, <2>3, <3>1, <3>2 DEF Goal
    <2> QED
      BY <1>o, <2>1, <2>2, <2>3, Raises
  <1>11. ASSUME JobDone(p)
         PROVE  Goal
    <2>1. /\ Busy(p) /\ thread[p].todo = <<>>
          /\ UNCHANGED <<status, backlog, accepted, queue, raised>>
          /\ phase'[p] = phase[p] \/ phase'[p] = "down"
      BY <1>o, <1>11 DEF JobDone, db, Enter, TypeOK
    <2>2. DOMAIN thread[p].todo = {}
      BY <2>1
    <2>3. status[thread[p].run] \notin {"QUEUED", "RUNNING"}
      BY <1>o, <2>1, <2>2 DEF StatusFits, Fits
    <2>4. \A r : OwnedBy(p, r) => Mine(r) \/ r = thread[p].run
      BY <1>m, <1>p, <2>1 DEF QueuedAt
    <2> QED
      BY <1>a, <2>1, <2>3, <2>4 DEF Goal
  <1>12. ASSUME UNCHANGED vars
         PROVE  Goal
    <2>1. \A r : OwnedBy(p, r) => Mine(r)
      BY <1>m, <1>p, <1>12 DEF QueuedAt, vars, procs
    <2> QED
      BY <1>a, <1>12, <2>1 DEF Goal, vars, db, procs
  <1> QED
    BY <1>o, <1>1, <1>2, <1>3, <1>4, <1>5, <1>6, <1>7, <1>8, <1>9, <1>10, <1>11, <1>12
       DEF Next, Progress, Command

LEMMA AloneInvariant == OneProcess /\ Spec => [](TraceInv /\ PlaceInv /\ AloneInv)
  <1>1. OneProcess /\ Init => AloneInv
    <2> SUFFICES ASSUME OneProcess, Init, NEW p \in Procs
                 PROVE  StatusFits(p) /\ RecoveryIsApart(p) /\ NobodyForgotten(p)
      BY DEF AloneInv
    <2>1. /\ thread[p] = Idle /\ Idle.run = NoRun
          /\ accepted[p] = {} /\ queue[p] = <<>> /\ backlog[p] = {}
          /\ recovered = {} /\ phase[p] = "down"
      BY DEF Init, Idle
    <2>2. DOMAIN queue[p] = {}
      BY <2>1
    <2>3. \A r : ~Waits(p, r)
      BY <2>1, <2>2 DEF Waits, QueuedAt
    <2> QED
      BY <2>1, <2>3 DEF StatusFits, RecoveryIsApart, NobodyForgotten, Busy
  <1>2. TraceInv /\ PlaceInv /\ AloneInv /\ [Next]_vars => AloneInv'
    <2> SUFFICES ASSUME TraceInv, PlaceInv, AloneInv, [Next]_vars
                 PROVE  AloneInv'
      OBVIOUS
    <2>1. \A p \in Procs : StatusFits(p)' /\ RecoveryIsApart(p)' /\ NobodyForgotten(p)'
      BY StatusFitsKept, RecoveryIsApartKept, NobodyForgottenKept
    <2> QED
      BY <2>1 DEF AloneInv, OneProcess
  <1> QED
    BY <1>1, <1>2, PlaceInvariant, PTL DEF Spec

\* With one process at a time, kills and restarts included, a server that is up
\* has every open run in its thread, in its queue or on the way there, unless
\* its own executor has abandoned it: no run an earlier process left open.
THEOREM RunsOwned == OneProcess /\ Spec => []OpenRunsAreOwned
  <1>1. AloneInv => OpenRunsAreOwned
    <2> SUFFICES ASSUME AloneInv, NEW p \in Procs, phase[p] = "up",
                        NEW r \in Runs, Open(r), r \notin raised
                 PROVE  Owned(r)
      BY DEF OpenRunsAreOwned, Abandoned
    <2>1. OwnedBy(p, r)
      BY DEF AloneInv, NobodyForgotten
    <2> QED
      BY <2>1 DEF Owned, OwnedBy, Waits
  <1> QED
    BY <1>1, AloneInvariant, PTL

\* With one process at a time the status column implements RunLifecycle: a run
\* is accepted once, goes forward only, and is final once decided.
THEOREM LifecycleImplemented == OneProcess /\ Spec => StatusFollowsLifecycle
  <1>1. Init => Lifecycle!Init
    BY DEF Init, Lifecycle!Init
  <1>2. TraceInv /\ PlaceInv /\ AloneInv /\ [Next]_vars => [Lifecycle!Next]_status
    <2> SUFFICES ASSUME TraceInv, PlaceInv, AloneInv, [Next]_vars, status' # status
                 PROVE  Lifecycle!Next
      OBVIOUS
    <2>o. Typed /\ TypeOK /\ IdleIsIdle
      BY DEF TraceInv, Typed
    <2>1. ASSUME NEW p \in Procs, SetStatus(p)
          PROVE  Lifecycle!Next
      <3> DEFINE R == thread[p].run
                 t == thread[p].todo
      <3>1. /\ Busy(p) /\ R \in Runs /\ 1 \in DOMAIN t
            /\ \A j \in DOMAIN t : ~(j < 1)
            /\ t[1].op = "put" /\ Arg(p) = t[1].arg
            /\ Arg(p) \in {"RUNNING", "COMPLETED", "FAILED"}
        BY <2>o, <2>1, Pends, TailShifts DEF SetStatus
      <3>2. Fits(t, status[R])
        BY <3>1 DEF AloneInv, StatusFits
      <3>3. status' = [status EXCEPT ![R] = Arg(p)]
        BY <2>1 DEF SetStatus
      <3>4. /\ Arg(p) = "RUNNING" => status[R] = "QUEUED"
            /\ Arg(p) = "COMPLETED" => status[R] = "RUNNING"
            /\ Arg(p) = "FAILED" => status[R] \in {"QUEUED", "RUNNING"}
        BY <3>1, <3>2 DEF Fits, Puts
      <3> HIDE DEF R
      <3> QED
        BY <3>1, <3>3, <3>4
           DEF Lifecycle!Next, Lifecycle!Begin, Lifecycle!Complete, Lifecycle!Fail,
               Lifecycle!Move
    <2>2. ASSUME NEW p \in Procs, NEW x \in Runs, Prepare(p, x) \/ Ask(p, x)
          PROVE  Lifecycle!Next
      <3>1. status[x] = "NONE" /\ status' = [status EXCEPT ![x] = "QUEUED"]
        BY <2>2 DEF Prepare, Ask, Create
      <3> QED
        BY <3>1 DEF Lifecycle!Next, Lifecycle!Accept, Lifecycle!Move
    <2>3. \/ \E p \in Procs : SetStatus(p)
          \/ \E p \in Procs : \E x \in Runs : Prepare(p, x) \/ Ask(p, x)
      BY DEF Next, Progress, Command, vars, db, Serve, Take, Exit, JobDone, Recover,
             Enqueue, Resolve, ResolveFails, ReadMax, Insert, InsertConflict,
             CallReturns, CallRaises, Reraise, StartServer, PortTaken, Close,
             StoreFails, Kill
    <2> QED
      BY <2>1, <2>2, <2>3
  <1> QED
    BY <1>1, <1>2, AloneInvariant, PTL DEF Spec, StatusFollowsLifecycle, Lifecycle!Spec
=============================================================================
