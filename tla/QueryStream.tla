---------------------------- MODULE QueryStream ----------------------------
(***************************************************************************)
(* GET /queries/{run_id}/events (interfaces/api/routes/queries.py): a       *)
(* server-sent-event stream that polls the database beside the executor.   *)
(* Streams do not influence each other, so one is followed here.           *)
(***************************************************************************)
EXTENDS QueryRuns

VARIABLE stream  \* the followed stream: where it is, its run, server, cursor

streamVars == <<vars, stream>>

Closed == [at |-> "none", run |-> NoRun, server |-> "none", cursor |-> 0]

\* events(): those of a run after a cursor, in order of their sequence.
LastEvent(r) == Len(events[r])

Streaming == stream.at \in {"events", "status"}

StreamInit == Init /\ stream = Closed

\* A client subscribes, from the start or after the last event it has.
OpenStream(p, r) ==
    /\ stream.at = "none"
    /\ phase[p] = "up"
    /\ status[r] # "NONE"
    /\ \E after \in 0..LastEvent(r) :
         stream' = [at |-> "events", run |-> r, server |-> p, cursor |-> after]
    /\ UNCHANGED vars

\* The events stored after the cursor are sent.
ReadEvents ==
    /\ stream.at = "events"
    /\ stream' = [stream EXCEPT !.at = "status", !.cursor = LastEvent(stream.run)]
    /\ UNCHANGED vars

\* Mutant: FAILED is not taken for an end.
ReadStatusCompleted ==
    /\ stream.at = "status"
    /\ stream' = [stream EXCEPT !.at = IF status[stream.run] = "COMPLETED"
                                       THEN "over" ELSE "events"]
    /\ UNCHANGED vars

\* Then the status is read: `terminal` ends the stream, or it polls again.
ReadStatus ==
    /\ stream.at = "status"
    /\ stream' = [stream EXCEPT !.at = IF Decided(stream.run)
                                       THEN "over" ELSE "events"]
    /\ UNCHANGED vars

\* uvicorn finishes its open responses before the shutdown hook runs.
Drained(p) == ~(Streaming /\ stream.server = p)

\* Beside the stream the processes go on; a connection goes with its server.
Alongside ==
    /\ \A p \in Procs : phase[p] = "up" /\ phase'[p] = "closing" => Drained(p)
    /\ stream' = IF Streaming /\ phase'[stream.server] = "down"
                 THEN [stream EXCEPT !.at = "broken"]
                 ELSE stream

Poll == ReadEvents \/ ReadStatus

StreamNext ==
    \/ Next /\ Alongside
    \/ \E p \in Procs, r \in Runs : OpenStream(p, r)
    \/ Poll

StreamSpec == StreamInit /\ [][StreamNext]_streamVars

\* The event loop keeps polling, and the processes go on as in QueryRuns.
StreamFairness ==
    /\ WF_streamVars(Poll)
    /\ \A p \in Procs : WF_streamVars(Progress(p) /\ Alongside)

FairStreamSpec == StreamSpec /\ StreamFairness

\* A stream ends by itself: its run is decided, be it FAILED by the except
\* branch or by a recovery, or its server is gone.  It polls forever only over
\* a run that was abandoned open.
EveryStreamEnds ==
    Streaming ~> ~Streaming \/ Abandoned(stream.run)

\* test_p5_api.py reads a stream until `terminal` and expects the events of all
\* layers in it: when `terminal` is sent, every stored event has been sent.
TerminalComesLast ==
    [][stream.at = "status" /\ stream'.at = "over" =>
           stream.cursor = LastEvent(stream.run)]_streamVars
=============================================================================
