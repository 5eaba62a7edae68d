--------------------------- MODULE BundleRegister ---------------------------
(***************************************************************************)
(* What readers may assume of the indexes of one database, whoever builds  *)
(* them and however builds end: bundles are published complete and for     *)
(* good, and the active one is a published one.                            *)
(***************************************************************************)
CONSTANTS Versions,  \* index versions
          None       \* no version is active yet

VARIABLES published,  \* the complete bundles
          active      \* the bundle readers load

Init == published = {} /\ active = None

Publish(v) == published' = published \cup {v} /\ UNCHANGED active

Activate(v) == v \in published /\ active' = v /\ UNCHANGED published

Next == \E v \in Versions : Publish(v) \/ Activate(v)

Spec == Init /\ [][Next]_<<published, active>>
=============================================================================
