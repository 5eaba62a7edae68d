---------------------------- MODULE SuiteRegister ---------------------------
(***************************************************************************)
(* What a benchmark sequence, or an operator, may read off the files of a  *)
(* guarded suite, whatever its supervisors and workers go through: cases   *)
(* are checkpointed one at a time, and only while the suite says that it   *)
(* runs; PAUSED and COMPLETE are boundaries at which nothing moves; and    *)
(* a latched suite neither begins nor reaches a boundary again.            *)
(***************************************************************************)
EXTENDS Naturals

CONSTANTS Suites,
          Cases    \* Cases[s]: the length of the manifest of s

VARIABLES done,    \* done[s]: the length of the checkpoint
          report,  \* report[s]: the final report exists
          phase,   \* phase[s]: what the state file says
          latched, \* latched[s]: the resource-stop latch exists
          astray   \* suites with a worker that no file names

Init ==
    /\ done = [s \in Suites |-> 0]
    /\ report = [s \in Suites |-> FALSE]
    /\ phase = [s \in Suites |-> "NONE"]
    /\ latched = [s \in Suites |-> FALSE]
    /\ astray = {}

Runs(s) == phase[s] = "RUNNING"

Enter(s, to) == phase' = [phase EXCEPT ![s] = to]

\* A start is admitted: it runs, or finds a request and is paused at once.
Begin(s) ==
    /\ ~latched[s]
    /\ Enter(s, "RUNNING") \/ Enter(s, "PAUSED")
    /\ UNCHANGED <<done, report, latched, astray>>

\* One more case, and with the last one perhaps the report.  A worker that
\* could not be stopped may get there after the suite has been latched.
Checkpoint(s) ==
    /\ Runs(s) \/ latched[s]
    /\ done[s] < Cases[s]
    /\ done' = [done EXCEPT ![s] = @ + 1]
    /\ \/ UNCHANGED report
       \/ done'[s] = Cases[s] /\ report' = [report EXCEPT ![s] = TRUE]
    /\ UNCHANGED <<phase, latched, astray>>

Conclude(s) ==
    /\ Runs(s) \/ latched[s]
    /\ done[s] = Cases[s]
    /\ report' = [report EXCEPT ![s] = TRUE]
    /\ UNCHANGED <<done, phase, latched, astray>>

\* A boundary.  COMPLETE takes every case and the report.
Settle(s) ==
    /\ Runs(s) /\ ~latched[s]
    /\ \/ Enter(s, "PAUSED")
       \/ done[s] = Cases[s] /\ report[s] /\ Enter(s, "COMPLETE")
    /\ UNCHANGED <<done, report, latched, astray>>

\* A batch fails; it may latch the suite, before it says so or as it does.
Latch(s) ==
    /\ Runs(s)
    /\ latched' = [latched EXCEPT ![s] = TRUE]
    /\ UNCHANGED <<done, report, phase, astray>>

Fail(s) ==
    /\ Runs(s)
    /\ Enter(s, "FAILED")
    /\ UNCHANGED latched \/ latched' = [latched EXCEPT ![s] = TRUE]
    /\ UNCHANGED <<done, report, astray>>

\* A supervisor dies before it has written down which worker it started ...
Lose(s) ==
    /\ astray' = astray \cup {s}
    /\ UNCHANGED <<done, report, phase, latched>>

\* ... and from then on that worker may replace the checkpoint at any time.
Overwrite(s) ==
    /\ s \in astray
    /\ \E cases \in 0..Cases[s] : done' = [done EXCEPT ![s] = cases]
    /\ UNCHANGED <<report, phase, latched, astray>>

ConcludeAstray(s) ==
    /\ s \in astray
    /\ report' = [report EXCEPT ![s] = TRUE]
    /\ UNCHANGED <<done, phase, latched, astray>>

Next == \E s \in Suites :
    \/ Begin(s) \/ Checkpoint(s) \/ Conclude(s) \/ Settle(s)
    \/ Latch(s) \/ Fail(s) \/ Lose(s) \/ Overwrite(s) \/ ConcludeAstray(s)

Spec == Init /\ [][Next]_<<done, report, phase, latched, astray>>
=============================================================================
