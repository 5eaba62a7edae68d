---------------------------- MODULE RunLifecycle ----------------------------
(***************************************************************************)
(* What a client may rely on about a query run: it is accepted once, moves  *)
(* forward only, and once COMPLETED or FAILED it stays so.                 *)
(***************************************************************************)
CONSTANT Runs

VARIABLE life  \* life[r]: the status of run r, "NONE" before it is accepted

Init == life = [r \in Runs |-> "NONE"]

Move(r, from, to) == life[r] \in from /\ life' = [life EXCEPT ![r] = to]

Accept(r)   == Move(r, {"NONE"}, "QUEUED")
Begin(r)    == Move(r, {"QUEUED"}, "RUNNING")
Complete(r) == Move(r, {"RUNNING"}, "COMPLETED")

\* A queued run fails when its server restarts before it begins.
Fail(r) == Move(r, {"QUEUED", "RUNNING"}, "FAILED")

Next == \E r \in Runs : Accept(r) \/ Begin(r) \/ Complete(r) \/ Fail(r)

Spec == Init /\ [][Next]_life
=============================================================================
