----------------------------- MODULE FrozenRun -----------------------------
(***************************************************************************)
(* What the rows of one checkpoint were made with.                         *)
(*                                                                         *)
(* A case worker (scripts/run_olist_acceptance.py, run_benchmark.py) hashes *)
(* its world, compares it with the identity frozen beside the checkpoint   *)
(* (agentic_text2sql_eval/runtime_checkpoint.py), opens the index          *)
(* (layer6_application/service_factory.py) and appends one case.  Beside   *)
(* it indexes are built (IndexBundle), the database is rebuilt             *)
(* (data/olist.py), and sources are edited; none of them takes the         *)
(* worker's lease.  A stopped checkpoint can be continued under new        *)
(* sources (scripts/migrate_sensor_checkpoint.py).                         *)
(***************************************************************************)
EXTENDS IndexBundle, Sequences, SequencesExt

CONSTANTS Databases,  \* contents of the database file
          CatalogOf,  \* catalog hash of a database, and of an index version
          Cases,      \* cases of the suite
          NoPin,      \* no index version is pinned yet
          MaxEdits    \* bound on rebuilt databases and edited sources

ASSUME RunConstants ==
    /\ Databases # {}
    /\ None \notin Databases
    /\ NoPin \notin Versions \cup {None}
    /\ Databases \cap Versions = {}
    /\ DOMAIN CatalogOf = Databases \cup Versions
    /\ Cases \in Nat \ {0}
    /\ MaxEdits \in Nat

VARIABLES
    database,  \* the published database file
    staged,    \* its .tmp beside it: "none", "partial", or a database
    source,    \* the sources: "old", "fixed" (an approved change) or "other"
    edits,     \* databases published and sources edited
    ckpt,      \* ckpt[c]: the files of a checkpoint
    worker,    \* the one case worker (workload lease)
    migrator,  \* where migrate() is, and the identity it has compared
    stopped    \* the parent's sequence is RESOURCE_STOP, with everything gone

worldVars == <<database, staged, source, edits>>
runVars   == <<ckpt, worker, migrator, stopped>>
vars      == <<indexVars, worldVars, runVars>>

-----------------------------------------------------------------------------
(* State *)

Checkpoints == {"parent", "next"}

\* runtime_identity(): the files of the index directory, the database and the
\* sources, with their contents.
Identity == [lock : BOOLEAN, bundle : [Versions -> Stage],
             temp : [Versions -> Stage], pointer : Versions \cup {None},
             written : Versions \cup {None}, cache : SUBSET Versions,
             database : Databases, source : {"old", "fixed", "other"}]

\* A row of predictions: the index and the copy of the database it was made
\* with, and the sources its worker had hashed.  raced: "identity", the pointer
\* or the database was replaced between the worker's hash and its own use of
\* it; "pin", the pointer was, between its two reads by RuntimeBundle.
Row == [index : Versions \cup {None}, database : Databases,
        source : {"old", "fixed", "other"}, raced : SUBSET {"identity", "pin"}]

\* .runtime.json, .backend.json (the index version it pins), the predictions,
\* and whether a plan names the checkpoint.
Files == [runtime : Identity \cup {None},
          backend : Versions \cup {None, NoPin},
          rows : Seq(Row), plan : BOOLEAN]
Unused == [runtime |-> None, backend |-> NoPin, rows |-> <<>>, plan |-> FALSE]

\* A worker: what it has hashed, copied, recorded and opened, and what of it
\* was replaced too early.
Worker == [at : {"off", "comparing", "copying", "opening", "loading",
                 "pinning", "running"},
           ckpt : Checkpoints, identity : Identity \cup {None},
           database : Databases \cup {None}, pin : Versions \cup {None},
           index : Versions \cup {None}, raced : SUBSET {"identity", "pin"}]

Off == [at |-> "off", ckpt |-> "parent", identity |-> None, database |-> None,
        pin |-> None, index |-> None, raced |-> {}]

Migrator == [at : {"off", "runtime", "plan"}, identity : Identity \cup {None}]
NoMigration == [at |-> "off", identity |-> None]

Init ==
    /\ InitIndex
    /\ database \in Databases
    /\ staged = "none"
    /\ source = "old"
    /\ edits = 0
    /\ ckpt = [c \in Checkpoints |-> [Unused EXCEPT !.plan = (c = "parent")]]
    /\ worker = Off
    /\ migrator = NoMigration
    /\ stopped = FALSE

-----------------------------------------------------------------------------
(* The worker *)

WorkerAt(where) == worker.at = where
Goes(to)        == worker' = [worker EXCEPT !.at = to]
Ends            == worker' = Off
My              == ckpt[worker.ckpt]

IdentityNow == [lock |-> lock, bundle |-> bundle, temp |-> temp, pointer |-> pointer,
                written |-> written, cache |-> cache, database |-> database,
                source |-> source]

\* A worker of a plan that is not stopped hashes the world.
StartWorker(c) ==
    /\ WorkerAt("off")
    /\ ckpt[c].plan
    /\ c = "parent" => ~stopped
    /\ Len(ckpt[c].rows) < Cases
    /\ worker' = [Off EXCEPT !.at = "comparing", !.ckpt = c, !.identity = IdentityNow]
    /\ UNCHANGED <<indexVars, worldVars, ckpt, migrator, stopped>>

\* Mutant: an identity once frozen is not compared again.
MatchesUnlessFrozen == My.runtime # None \/ My.rows = <<>>

\* freeze_checkpoint(): the frozen identity, or a new one for an empty
\* checkpoint.
Matches == IF My.runtime = None THEN My.rows = <<>>
                                      ELSE My.runtime = worker.identity

FreezeCheckpoint ==
    /\ WorkerAt("comparing")
    /\ Matches
    /\ ckpt' = [ckpt EXCEPT ![worker.ckpt] = [@ EXCEPT !.runtime =
           IF My.runtime = None THEN worker.identity ELSE My.runtime]]
    /\ Goes("copying")
    /\ UNCHANGED <<indexVars, worldVars, migrator, stopped>>

\* "Checkpoint source/config/manifest changed"
FreezeRefused ==
    /\ WorkerAt("comparing")
    /\ ~Matches
    /\ Ends
    /\ UNCHANGED <<indexVars, worldVars, ckpt, migrator, stopped>>

\* The database is copied to a directory of the worker's own and inspected.
CopyDatabase ==
    /\ WorkerAt("copying")
    /\ worker' = [worker EXCEPT !.at = "opening", !.database = database]
    /\ UNCHANGED <<indexVars, worldVars, ckpt, migrator, stopped>>

\* The pointer for the provenance; without one there is no retrieval.
ReadPointer ==
    /\ WorkerAt("opening")
    /\ worker' = [worker EXCEPT !.at = IF pointer = None THEN "pinning" ELSE "loading",
                                !.pin = pointer]
    /\ UNCHANGED <<indexVars, worldVars, ckpt, migrator, stopped>>

Loadable == /\ Validated(pointer)
            /\ CatalogOf[pointer] = CatalogOf[worker.database]

\* load() reads the pointer again, and verifies the bundle.
LoadIndex ==
    /\ WorkerAt("loading")
    /\ Loadable
    /\ worker' = [worker EXCEPT !.at = "pinning", !.index = pointer]
    /\ UNCHANGED <<indexVars, worldVars, ckpt, migrator, stopped>>

\* "Active index is stale for this catalog"
LoadFails ==
    /\ WorkerAt("loading")
    /\ ~Loadable
    /\ Ends
    /\ UNCHANGED <<indexVars, worldVars, ckpt, migrator, stopped>>

\* Mutant: a provenance that was recorded before is replaced.
PinnableAlways == TRUE

\* freeze_backend()
Pinnable == My.backend \in {NoPin, worker.pin}

FreezeBackend ==
    /\ WorkerAt("pinning")
    /\ Pinnable
    /\ ckpt' = [ckpt EXCEPT ![worker.ckpt] = [@ EXCEPT !.backend = worker.pin]]
    /\ Goes("running")
    /\ UNCHANGED <<indexVars, worldVars, migrator, stopped>>

BackendRefused ==
    /\ WorkerAt("pinning")
    /\ ~Pinnable
    /\ Ends
    /\ UNCHANGED <<indexVars, worldVars, ckpt, migrator, stopped>>

\* One case, and the checkpoint is replaced.
AppendRow ==
    /\ WorkerAt("running")
    /\ ckpt' = [ckpt EXCEPT ![worker.ckpt] = [@ EXCEPT !.rows = Append(My.rows,
           [index |-> worker.index, database |-> worker.database,
            source |-> worker.identity.source, raced |-> worker.raced])]]
    /\ Ends
    /\ UNCHANGED <<indexVars, worldVars, migrator, stopped>>

\* A failing case, a kill or a pause: the worker is gone.
WorkerDies ==
    /\ ~WorkerAt("off")
    /\ Ends
    /\ UNCHANGED <<indexVars, worldVars, ckpt, migrator, stopped>>

\* The guard's stop before a spawn, the only incident that may be migrated.
StopSequence ==
    /\ WorkerAt("off")
    /\ ~stopped
    /\ stopped' = TRUE
    /\ UNCHANGED <<indexVars, worldVars, ckpt, worker, migrator>>

-----------------------------------------------------------------------------
(* The world beside it *)

\* What the worker has hashed or read is replaced before it reads it again.
\* After the last read a replacement is no race: the worker has its copy.
Races(reads) == worker' = [worker EXCEPT !.raced = @ \cup reads]

IndexRaces ==
    (IF worker.at \in {"comparing", "copying", "opening", "loading"}
     THEN {"identity"} ELSE {})
    \cup (IF WorkerAt("loading") THEN {"pin"} ELSE {})

DatabaseRaces ==
    IF worker.at \in {"comparing", "copying"} THEN {"identity"} ELSE {}

\* A step of a builder; an activation replaces the pointer.
BuildStep ==
    /\ IndexNext
    /\ IF pointer' # pointer THEN Races(IndexRaces) ELSE UNCHANGED worker
    /\ UNCHANGED <<worldVars, ckpt, migrator, stopped>>

\* build_olist_database(): staged elsewhere, copied to .tmp, checked, replaced.
CopyStaged ==
    /\ edits < MaxEdits
    /\ staged' = "partial"
    /\ edits' = edits + 1
    /\ UNCHANGED <<indexVars, database, source, runVars>>

\* The copy is complete and passes its check, or the build fails and removes it.
CheckStaged ==
    /\ staged = "partial"
    /\ staged' \in Databases \cup {"none"}
    /\ UNCHANGED <<indexVars, database, source, edits, runVars>>

ReplaceDatabase ==
    /\ staged \in Databases
    /\ database' = staged
    /\ staged' = "none"
    /\ IF database' # database THEN Races(DatabaseRaces) ELSE UNCHANGED worker
    /\ UNCHANGED <<indexVars, source, edits, ckpt, migrator, stopped>>

EditSource ==
    /\ edits < MaxEdits
    /\ source' \in {"fixed", "other"} \ {source}
    /\ edits' = edits + 1
    /\ UNCHANGED <<indexVars, database, staged, runVars>>

-----------------------------------------------------------------------------
(* migrate() *)

Parent == ckpt["parent"]

\* Mutant: drift of anything but the sources goes unnoticed.
EligibleAnyDrift ==
    /\ stopped
    /\ Len(Parent.rows) \in 1..(Cases - 1)
    /\ ckpt["next"] = Unused
    /\ source = "fixed" /\ Parent.runtime.source = "old"

\* A stopped parent with a nonempty incomplete prefix, approved source changes
\* only, no other drift, and unused destination paths.
Eligible ==
    /\ stopped
    /\ Len(Parent.rows) \in 1..(Cases - 1)
    /\ ckpt["next"] = Unused
    /\ source = "fixed" /\ Parent.runtime.source = "old"
    /\ IdentityNow = [Parent.runtime EXCEPT !.source = source]

\* The files are created one after the other, each exclusively.
WritePredictions ==
    /\ migrator.at = "off"
    /\ Eligible
    /\ ckpt' = [ckpt EXCEPT !["next"] = [@ EXCEPT !.rows = Parent.rows]]
    /\ migrator' = [at |-> "runtime", identity |-> IdentityNow]
    /\ UNCHANGED <<indexVars, worldVars, worker, stopped>>

WriteRuntime ==
    /\ migrator.at = "runtime"
    /\ ckpt' = [ckpt EXCEPT !["next"] = [@ EXCEPT
           !.runtime = migrator.identity, !.backend = Parent.backend]]
    /\ migrator' = [migrator EXCEPT !.at = "plan"]
    /\ UNCHANGED <<indexVars, worldVars, worker, stopped>>

\* "Publish plan last. An incomplete preparation is never launchable."
PublishPlan ==
    /\ migrator.at = "plan"
    /\ ckpt' = [ckpt EXCEPT !["next"] = [@ EXCEPT !.plan = TRUE]]
    /\ migrator' = NoMigration
    /\ UNCHANGED <<indexVars, worldVars, worker, stopped>>

\* Killed, or refused because the parent's files changed.
MigrationDies ==
    /\ migrator.at # "off"
    /\ migrator' = NoMigration
    /\ UNCHANGED <<indexVars, worldVars, ckpt, worker, stopped>>

-----------------------------------------------------------------------------
(* The specification *)

Work ==
    \/ \E c \in Checkpoints : StartWorker(c)
    \/ FreezeCheckpoint \/ FreezeRefused
    \/ CopyDatabase \/ ReadPointer \/ LoadIndex \/ LoadFails
    \/ FreezeBackend \/ BackendRefused \/ AppendRow \/ WorkerDies

World == BuildStep \/ CopyStaged \/ CheckStaged \/ ReplaceDatabase \/ EditSource

Migrate == \/ WritePredictions \/ WriteRuntime \/ PublishPlan \/ MigrationDies
           \/ StopSequence

Next == Work \/ World \/ Migrate

Spec == Init /\ [][Next]_vars

-----------------------------------------------------------------------------
(* Properties *)

TypeOK ==
    /\ IndexTypeOK
    /\ database \in Databases
    /\ staged \in Databases \cup {"none", "partial"}
    /\ source \in {"old", "fixed", "other"}
    /\ edits \in 0..MaxEdits
    /\ ckpt \in [Checkpoints -> Files]
    /\ \A c \in Checkpoints : Len(ckpt[c].rows) <= Cases
    /\ worker \in Worker
    /\ migrator \in Migrator
    /\ stopped \in BOOLEAN

Launchable == {c \in Checkpoints : ckpt[c].plan}

\* A row a continuation has from its parent.
FromParent(c, i) == c = "next" /\ i <= Len(Parent.rows)

\* What freeze_checkpoint is for.  Every row of a checkpoint was made by a
\* worker that had hashed the frozen sources, unless it is inherited; with the
\* index and the database of the frozen identity, unless they were replaced
\* after its worker had hashed and before it had opened or copied them (no lock
\* prevents that); and even then not with an index of another catalog than its
\* database's.
RowsMatchIdentity ==
    \A c \in Launchable : \A i \in DOMAIN ckpt[c].rows :
        LET row    == ckpt[c].rows[i]
            frozen == ckpt[c].runtime
        IN  /\ FromParent(c, i) \/ row.source = frozen.source
            /\ "identity" \notin row.raced => /\ row.index = frozen.pointer
                                              /\ row.database = frozen.database
            /\ row.index # None => CatalogOf[row.index] = CatalogOf[row.database]

\* The index version pinned for a checkpoint is the one its rows were made
\* with, whatever was activated before the provenance was read, after the
\* index was loaded, or between the workers of two rows: only an activation
\* between the two reads of one worker is pinned wrongly.
RowsMatchPin ==
    \A c \in Launchable : \A i \in DOMAIN ckpt[c].rows :
        LET row == ckpt[c].rows[i]
        IN  "pin" \notin row.raced => row.index = ckpt[c].backend

\* "Explicit infrastructure migration; inherited rows retain their original
\* source": a continuation that can be launched begins with its parent's rows,
\* frozen in the same world but for the sources.
ContinuationIsFaithful ==
    ckpt["next"].plan =>
        /\ IsPrefix(Parent.rows, ckpt["next"].rows)
        /\ ckpt["next"].runtime = [Parent.runtime EXCEPT !.source = "fixed"]
        /\ \A i \in DOMAIN ckpt["next"].rows :
               ckpt["next"].rows[i].source = IF i <= Len(Parent.rows) THEN "old" ELSE "fixed"
=============================================================================
