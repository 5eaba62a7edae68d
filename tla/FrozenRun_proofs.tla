-------------------------- MODULE FrozenRun_proofs --------------------------
(***************************************************************************)
(* Theorems about IndexBundle and FrozenRun, for every number of builders, *)
(* versions, databases, cases and faults: index bundles implement the      *)
(* register, and the rows of a checkpoint belong to its frozen identity    *)
(* and its pinned index, also after a migration.                           *)
(***************************************************************************)
EXTENDS FrozenRun, SequenceTheorems, TLAPS

-----------------------------------------------------------------------------
(* The index bundles *)

\* The lock admits one builder, and each of its steps finds what the steps
\* before it have left.
IndexInv ==
    /\ IndexTypeOK
    /\ \A b \in Builders : ~At(b, "idle") =>
         /\ lock
         /\ Mine(b) \in Versions
         /\ \A d \in Builders \ {b} : At(d, "idle")
    /\ \A v \in Versions : bundle[v] # "partial"
    /\ \A b \in Builders :
         /\ At(b, "filling") => temp[Mine(b)] = "partial"
         /\ At(b, "renaming") => temp[Mine(b)] = "complete"
         /\ At(b, "writing") => Validated(Mine(b))
         /\ At(b, "activating") => written = Mine(b) /\ Validated(Mine(b))
    /\ pointer # None => Validated(pointer)

LEMMA IndexInvInit == InitIndex => IndexInv
<1> SUFFICES ASSUME InitIndex PROVE IndexInv
  OBVIOUS
<1>1. IndexTypeOK
  <2>1. builder \in [Builders -> [at : {"idle", "clearing", "filling",
           "renaming", "writing", "activating", "unlocking"}, version : Versions \cup {None}]]
    BY DEF InitIndex, Idle
  <2>2. bundle \in [Versions -> Stage] /\ temp \in [Versions -> Stage]
    BY DEF InitIndex, Stage
  <2>3. lock \in BOOLEAN
    BY Zenon DEF InitIndex
  <2>4. builds \in 0..MaxBuilds /\ faults \in 0..MaxFaults
    BY IndexConstants DEF InitIndex
  <2> QED
    BY <2>1, <2>2, <2>3, <2>4 DEF InitIndex, IndexTypeOK
<1>2. \A b \in Builders : At(b, "idle")
  BY DEF InitIndex, Idle, At
<1> QED
  BY <1>1, <1>2 DEF InitIndex, IndexInv, At, Validated

\* Every step of a builder keeps the invariant.
LEMMA IndexInvStep == IndexInv /\ [IndexNext]_indexVars => IndexInv'
<1> SUFFICES ASSUME IndexInv, [IndexNext]_indexVars PROVE IndexInv'
  OBVIOUS
<1> USE IndexConstants
<1> USE DEF IndexInv, IndexTypeOK, Stage, At, Mine, Validated, Step, Done
<1>1. ASSUME NEW b \in Builders, NEW v \in Versions, TakeLock(b, v)
      PROVE  IndexInv'
  BY <1>1 DEF TakeLock
<1>2. ASSUME NEW b \in Builders, Clear(b) PROVE IndexInv'
  BY <1>2 DEF Clear
<1>3. ASSUME NEW b \in Builders, BuildFails(b) PROVE IndexInv'
  BY <1>3 DEF BuildFails, Embedded
<1>4. ASSUME NEW b \in Builders, Fill(b) PROVE IndexInv'
  BY <1>4 DEF Fill, Embedded
<1>5. ASSUME NEW b \in Builders, Rename(b) PROVE IndexInv'
  BY <1>5 DEF Rename
<1>6. ASSUME NEW b \in Builders, WritePointer(b) PROVE IndexInv'
  BY <1>6 DEF WritePointer
<1>7. ASSUME NEW b \in Builders, Activate(b) PROVE IndexInv'
  BY <1>7 DEF Activate
<1>8. ASSUME NEW b \in Builders, Unlock(b) PROVE IndexInv'
  BY <1>8 DEF Unlock, Idle
<1>9. ASSUME NEW b \in Builders, KillBuilder(b) PROVE IndexInv'
  <2>1. IndexTypeOK'
    <3>1. builder' \in [Builders -> [at : {"idle", "clearing", "filling",
           "renaming", "writing", "activating", "unlocking"}, version : Versions \cup {None}]]
      BY <1>9 DEF KillBuilder, Idle
    <3>2. lock' \in BOOLEAN
      <4>1. lock' = lock \/ lock' = FALSE
        BY <1>9, Zenon DEF KillBuilder
      <4> QED
        BY <4>1, Zenon
    <3>3. faults' \in 0..MaxFaults
      BY <1>9 DEF KillBuilder
    <3> QED
      BY <1>9, <3>1, <3>2, <3>3 DEF KillBuilder
  <2>2. \A d \in Builders : At(d, "idle")'
    BY <1>9 DEF KillBuilder, Idle
  <2> QED
    BY <1>9, <2>1, <2>2 DEF KillBuilder
<1>10. CASE RemoveStaleLock
  BY <1>10 DEF RemoveStaleLock
<1>11. CASE UNCHANGED indexVars
  BY <1>11 DEF indexVars, indexFiles
<1> QED
  BY <1>1, <1>2, <1>3, <1>4, <1>5, <1>6, <1>7, <1>8, <1>9, <1>10, <1>11
     DEF IndexNext, Build

\* Whatever else happens, the indexes only change by steps of their builders.
LEMMA OnlyBuildersWrite == [Next]_vars => [IndexNext]_indexVars
  BY DEF Next, Work, World, Migrate, vars, BuildStep, CopyStaged, CheckStaged,
         ReplaceDatabase, EditSource, StartWorker, FreezeCheckpoint,
         FreezeRefused, CopyDatabase, ReadPointer, LoadIndex, LoadFails,
         FreezeBackend, BackendRefused, AppendRow, WorkerDies,
         WritePredictions, WriteRuntime, PublishPlan, MigrationDies,
         StopSequence

LEMMA IndexInvAlways == Spec => []IndexInv
<1>1. Init => IndexInv
  BY IndexInvInit DEF Init
<1> QED
  BY <1>1, IndexInvStep, OnlyBuildersWrite, PTL DEF Spec

\* Renaming publishes, replacing the pointer activates, and nothing else shows.
LEMMA StepRegister ==
    IndexInv /\ [IndexNext]_indexVars =>
        [Register!Next]_<<{v \in Versions : Validated(v)}, pointer>>
<1> DEFINE published == {v \in Versions : Validated(v)}
<1> SUFFICES ASSUME IndexInv, [IndexNext]_indexVars
             PROVE  \/ published' = published /\ pointer' = pointer
                    \/ Register!Next
  OBVIOUS
<1> USE IndexConstants
<1> USE DEF IndexInv, IndexTypeOK, Stage, At, Mine, Validated
<1>1. ASSUME NEW b \in Builders, Rename(b) PROVE Register!Next
  <2>1. Mine(b) \in Versions /\ temp[Mine(b)] = "complete"
    BY <1>1 DEF Rename
  <2>2. published' = published \cup {Mine(b)} /\ pointer' = pointer
    BY <1>1, <2>1 DEF Rename
  <2> QED
    BY <2>1, <2>2 DEF Register!Next, Register!Publish
<1>2. ASSUME NEW b \in Builders, Activate(b) PROVE Register!Next
  <2>1. Mine(b) \in published /\ written = Mine(b)
    BY <1>2 DEF Activate
  <2>2. published' = published /\ pointer' = Mine(b)
    BY <1>2, <2>1 DEF Activate
  <2> QED
    BY <2>1, <2>2 DEF Register!Next, Register!Activate
<1>3. ASSUME bundle' = bundle, pointer' = pointer
      PROVE  published' = published /\ pointer' = pointer
  BY <1>3
<1> QED
  BY <1>1, <1>2, <1>3
     DEF IndexNext, Build, TakeLock, Clear, BuildFails, Fill, WritePointer,
         Unlock, KillBuilder, RemoveStaleLock, indexVars, indexFiles

\* Whoever builds, fails or is killed: a published bundle is complete for good,
\* and the active one is published.
THEOREM BundlesKept == Spec => BundlesAreImmutable
<1>1. Init => Register!Init
  <2> SUFFICES ASSUME Init PROVE Register!Init
    OBVIOUS
  <2>1. {v \in Versions : Validated(v)} = {}
    BY DEF Init, InitIndex, Validated
  <2> QED
    BY <2>1 DEF Init, InitIndex, Register!Init
<1> QED
  BY <1>1, IndexInvAlways, OnlyBuildersWrite, StepRegister, PTL
     DEF Spec, BundlesAreImmutable, Register!Spec

-----------------------------------------------------------------------------
(* Typing *)

LEMMA OffTyped == Off \in Worker
  BY DEF Off, Worker, Checkpoints

\* What a worker hashes, and what a migration copies, is an identity.
LEMMA IdentityTyped ==
    ASSUME IndexTypeOK, database \in Databases,
           source \in {"old", "fixed", "other"}
    PROVE  /\ IdentityNow \in Identity
           /\ IdentityNow.pointer = pointer
           /\ IdentityNow.database = database
           /\ IdentityNow.source = source
  BY DEF IndexTypeOK, IdentityNow, Identity

LEMMA InitTyped == Init => TypeOK
<1> SUFFICES ASSUME Init PROVE TypeOK
  OBVIOUS
<1>1. IndexTypeOK
  BY IndexInvInit DEF Init, IndexInv
<1>2. \A p \in BOOLEAN : [Unused EXCEPT !.plan = p] \in Files
  <2>1. <<>> \in Seq(Row)
    OBVIOUS
  <2> QED
    BY <2>1 DEF Unused, Files
<1>3. ckpt \in [Checkpoints -> Files]
  BY <1>2, Zenon DEF Init
<1>4. \A c \in Checkpoints : Len(ckpt[c].rows) <= Cases
  <2>1. \A c \in Checkpoints : ckpt[c].rows = <<>>
    BY DEF Init, Unused
  <2> QED
    BY <2>1, RunConstants
<1>5. worker \in Worker
  BY OffTyped DEF Init
<1>6. migrator \in Migrator
  BY DEF Init, NoMigration, Migrator
<1>7. stopped \in BOOLEAN
  BY Zenon DEF Init
<1>8. edits \in 0..MaxEdits
  BY RunConstants DEF Init
<1> QED
  BY <1>1, <1>3, <1>4, <1>5, <1>6, <1>7, <1>8 DEF Init, TypeOK

-----------------------------------------------------------------------------
(* The inductive invariant *)

\* What the worker has hashed is still there until it uses it, unless somebody
\* raced it, and what it has made of it so far fits together.
WorkerInv ==
    WorkerAt("off") \/
      /\ worker.identity \in Identity
      /\ My.plan
      /\ Len(My.rows) < Cases
      /\ worker.ckpt = "parent" => ~stopped
      /\ worker.at # "comparing" => My.runtime = worker.identity
      /\ worker.at \in {"comparing", "copying", "opening", "loading"} =>
             worker.index = None
      /\ worker.at \in {"opening", "loading", "pinning", "running"} =>
             worker.database \in Databases
      /\ "identity" \notin worker.raced =>
             /\ worker.at \in {"comparing", "copying", "opening", "loading"} =>
                    worker.identity.pointer = pointer
             /\ worker.at \in {"comparing", "copying"} =>
                    worker.identity.database = database
             /\ worker.at \in {"opening", "loading", "pinning", "running"} =>
                    worker.database = worker.identity.database
             /\ worker.at \in {"pinning", "running"} =>
                    worker.index = worker.identity.pointer
      /\ worker.at \in {"pinning", "running"} /\ worker.index # None =>
             CatalogOf[worker.index] = CatalogOf[worker.database]
      /\ "pin" \notin worker.raced =>
             /\ worker.at = "loading" => worker.pin = pointer
             /\ worker.at \in {"pinning", "running"} => worker.index = worker.pin
      /\ worker.at = "running" => My.backend = worker.pin

\* A row belongs to the identity and the pinned index of its file.
Belongs(row, file) ==
    /\ "identity" \notin row.raced => /\ row.index = file.runtime.pointer
                                      /\ row.database = file.runtime.database
    /\ row.index # None => CatalogOf[row.index] = CatalogOf[row.database]
    /\ "pin" \notin row.raced => row.index = file.backend

\* The rows of a file belong to it, and rows need both.
FileInv(file) ==
    /\ \A i \in DOMAIN file.rows : Belongs(file.rows[i], file)
    /\ file.rows # <<>> => file.runtime \in Identity /\ file.backend # NoPin

\* The checkpoint that continues the parent.
Continued == ckpt["next"]

\* The parent was planned from the start, and all its rows are of one source.
ParentInv ==
    /\ Parent.plan
    /\ FileInv(Parent)
    /\ \A i \in DOMAIN Parent.rows : Parent.rows[i].source = Parent.runtime.source

\* What a migration finds when it is eligible, and keeps.
Inherited ==
    /\ stopped
    /\ Parent.rows # <<>>
    /\ Parent.runtime.source = "old"

\* What is prepared for the continuation, and what it is when launched.
MigrationInv ==
    /\ migrator.at # "off" =>
         /\ Inherited
         /\ ~Continued.plan
         /\ migrator.identity = [Parent.runtime EXCEPT !.source = "fixed"]
         /\ Continued.rows = Parent.rows
    /\ migrator.at = "plan" => /\ Continued.runtime = migrator.identity
                               /\ Continued.backend = Parent.backend
    /\ Continued.plan =>
         /\ Inherited
         /\ FileInv(Continued)
         /\ Continued.runtime = [Parent.runtime EXCEPT !.source = "fixed"]
         /\ Continued.backend = Parent.backend
         /\ Len(Parent.rows) <= Len(Continued.rows)
         /\ \A i \in DOMAIN Parent.rows : Continued.rows[i] = Parent.rows[i]
         /\ \A i \in DOMAIN Continued.rows : i > Len(Parent.rows) =>
                Continued.rows[i].source = "fixed"
    /\ ~stopped => ~Continued.plan /\ migrator.at = "off"

\* The inductive invariant.
Inv == TypeOK /\ IndexInv /\ WorkerInv /\ ParentInv /\ MigrationInv

LEMMA InvInit == Init => Inv
<1> SUFFICES ASSUME Init PROVE Inv
  OBVIOUS
<1>1. TypeOK /\ IndexInv
  BY InitTyped, IndexInvInit DEF Init
<1>2. WorkerInv
  BY DEF Init, WorkerInv, WorkerAt, Off
<1>3. ParentInv /\ MigrationInv
  <2>1. /\ Parent.rows = <<>> /\ Parent.plan
        /\ Continued.rows = <<>> /\ ~Continued.plan
    BY DEF Init, Parent, Continued, Unused, Checkpoints
  <2>2. migrator.at = "off"
    BY DEF Init, NoMigration
  <2>3. \A i \in DOMAIN <<>> : FALSE
    OBVIOUS
  <2> QED
    BY <2>1, <2>2, <2>3 DEF ParentInv, MigrationInv, FileInv
<1> QED
  BY <1>1, <1>2, <1>3 DEF Inv

\* Steps that leave the files of the checkpoints alone.
LEMMA FilesKept ==
    ASSUME ParentInv, MigrationInv, UNCHANGED <<ckpt, migrator, stopped>>
    PROVE  ParentInv' /\ MigrationInv'
  BY DEF ParentInv, MigrationInv, Inherited, FileInv, Belongs, Parent, Continued

\* Steps of the worker that only it can see.
LEMMA WorkerStep ==
    ASSUME Inv, WorkerInv', worker' \in Worker,
           UNCHANGED <<indexVars, worldVars, ckpt, migrator, stopped>>
    PROVE  Inv'
<1>1. TypeOK'
  BY DEF Inv, TypeOK, IndexTypeOK, indexVars, indexFiles, worldVars, Files
<1>2. IndexInv'
  BY IndexInvStep DEF Inv
<1> QED
  BY <1>1, <1>2, FilesKept DEF Inv

\* A worker that ends leaves nothing to say about it.
LEMMA WorkerEnds ==
    ASSUME worker' = Off
    PROVE  WorkerInv' /\ worker' \in Worker
  BY OffTyped DEF WorkerInv, WorkerAt, Off

LEMMA StartKept ==
    ASSUME Inv, NEW c \in Checkpoints, StartWorker(c)
    PROVE  Inv'
<1>1. IdentityNow \in Identity /\ IdentityNow.pointer = pointer /\ IdentityNow.database = database
  BY IdentityTyped DEF Inv, TypeOK
<1>2. /\ worker'.at = "comparing" /\ worker'.ckpt = c
      /\ worker'.identity = IdentityNow /\ worker'.raced = {}
      /\ worker'.index = None
  BY DEF StartWorker, Off
<1>3. worker' \in Worker
  BY <1>1, OffTyped DEF StartWorker, Worker
<1>4. WorkerInv'
  BY <1>1, <1>2 DEF StartWorker, WorkerInv, WorkerAt, My, indexVars, indexFiles, worldVars
<1> QED
  BY <1>3, <1>4, WorkerStep DEF StartWorker

\* The worker copies the database, reads the pointer and opens the index.
LEMMA ReadsKept ==
    ASSUME Inv, CopyDatabase \/ ReadPointer \/ LoadIndex
    PROVE  Inv'
<1> USE DEF WorkerAt, My, indexVars, indexFiles, worldVars
<1>1. worker \in Worker /\ WorkerInv /\ database \in Databases
      /\ pointer \in Versions \cup {None}
  BY DEF Inv, TypeOK, IndexTypeOK
<1>2. CASE CopyDatabase
  <2>1. worker' \in Worker
    BY <1>1, <1>2 DEF CopyDatabase, Worker
  <2>2. WorkerInv'
    BY <1>1, <1>2 DEF CopyDatabase, Worker, WorkerInv
  <2> QED
    BY <1>2, <2>1, <2>2, WorkerStep DEF CopyDatabase
<1>3. CASE ReadPointer
  <2>1. worker' \in Worker
    BY <1>1, <1>3 DEF ReadPointer, Worker
  <2>2. WorkerInv'
    BY <1>1, <1>3 DEF ReadPointer, Worker, WorkerInv
  <2> QED
    BY <1>3, <2>1, <2>2, WorkerStep DEF ReadPointer
<1>4. CASE LoadIndex
  <2>1. worker' \in Worker
    BY <1>1, <1>4 DEF LoadIndex, Worker
  <2>2. WorkerInv'
    BY <1>1, <1>4 DEF LoadIndex, Loadable, Worker, WorkerInv
  <2> QED
    BY <1>4, <2>1, <2>2, WorkerStep DEF LoadIndex
<1> QED
  BY <1>2, <1>3, <1>4

\* A worker that is refused, fails or is killed.
LEMMA EndsKept ==
    ASSUME Inv, FreezeRefused \/ LoadFails \/ BackendRefused \/ WorkerDies
    PROVE  Inv'
<1>1. worker' = Off /\ UNCHANGED <<indexVars, worldVars, ckpt, migrator, stopped>>
  BY DEF FreezeRefused, LoadFails, BackendRefused, WorkerDies, Ends
<1> QED
  BY <1>1, WorkerEnds, WorkerStep

\* What the worker may write of a checkpoint that is not frozen, and what it
\* finds in one that is: in both cases rows and files keep belonging together.
LEMMA FreezeKept ==
    ASSUME Inv, FreezeCheckpoint
    PROVE  Inv'
<1> USE DEF WorkerAt, My
<1>1. /\ worker \in Worker /\ WorkerAt("comparing") /\ WorkerInv
      /\ ckpt \in [Checkpoints -> Files] /\ worker.ckpt \in Checkpoints
  BY DEF Inv, TypeOK, FreezeCheckpoint, Worker
<1>2. My \in Files /\ worker.identity \in Identity
  BY <1>1 DEF WorkerInv
<1>3. ckpt' = [ckpt EXCEPT ![worker.ckpt] = [My EXCEPT !.runtime = worker.identity]]
  <2>1. My.runtime = None \/ My.runtime = worker.identity
    BY DEF FreezeCheckpoint, Matches
  <2>2. (IF My.runtime = None THEN worker.identity ELSE My.runtime) = worker.identity
    BY <2>1
  <2>3. ckpt' = [ckpt EXCEPT ![worker.ckpt] = [ckpt[worker.ckpt] EXCEPT
            !.runtime = IF My.runtime = None THEN worker.identity ELSE My.runtime]]
    BY DEF FreezeCheckpoint
  <2> QED
    BY <2>2, <2>3
<1>4. My.rows = <<>> \/ My.runtime = worker.identity
  BY DEF FreezeCheckpoint, Matches
<1>5. [My EXCEPT !.runtime = worker.identity] \in Files
  BY <1>2 DEF Files
<1>6. TypeOK'
  <2>1. ckpt' \in [Checkpoints -> Files]
    BY <1>1, <1>3, <1>5
  <2>2. \A c \in Checkpoints : ckpt'[c].rows = ckpt[c].rows
    BY <1>1, <1>2, <1>3 DEF Files
  <2>3. worker' \in Worker
    BY <1>1 DEF FreezeCheckpoint, Goes, Worker
  <2> QED
    BY <2>1, <2>2, <2>3
       DEF Inv, TypeOK, FreezeCheckpoint, IndexTypeOK, indexVars, indexFiles, worldVars
<1>7. WorkerInv'
  <2>1. ckpt'[worker.ckpt] = [My EXCEPT !.runtime = worker.identity]
    BY <1>1, <1>3
  <2>2. worker' = [worker EXCEPT !.at = "copying"]
    BY DEF FreezeCheckpoint, Goes
  <2>3. pointer' = pointer /\ database' = database /\ stopped' = stopped
    BY DEF FreezeCheckpoint, indexVars, indexFiles, worldVars
  <2> QED
    BY <1>1, <1>2, <2>1, <2>2, <2>3 DEF WorkerInv, Worker, Files
<1>8. ParentInv' /\ MigrationInv'
  <2>1. CASE worker.ckpt = "parent"
    <3>1. Parent' = [Parent EXCEPT !.runtime = worker.identity] /\ Continued' = Continued
      BY <1>1, <1>3, <2>1 DEF Parent, Continued, Checkpoints
    <3>2. ~stopped /\ migrator' = migrator /\ stopped' = stopped
      BY <1>1, <2>1 DEF WorkerInv, FreezeCheckpoint
    <3>3. My = Parent
      BY <2>1 DEF Parent
    <3> QED
      BY <1>2, <1>4, <3>1, <3>2, <3>3
         DEF Inv, ParentInv, MigrationInv, FileInv, Belongs, Files
  <2>2. CASE worker.ckpt = "next"
    <3>1. My = Continued /\ Continued.plan
      BY <1>1, <2>2 DEF WorkerInv, Continued
    <3>2. Continued.rows # <<>>
      BY <1>1, <1>2, <3>1, EmptySeq DEF Inv, MigrationInv, Inherited, Files, Parent, Checkpoints
    <3>3. ckpt' = ckpt
      BY <1>1, <1>2, <1>3, <1>4, <3>1, <3>2 DEF Files
    <3> QED
      BY <3>3, FilesKept DEF Inv, FreezeCheckpoint
  <2> QED
    BY <1>1, <2>1, <2>2 DEF Checkpoints
<1> QED
  BY <1>6, <1>7, <1>8, IndexInvStep DEF Inv, FreezeCheckpoint

LEMMA PinKept ==
    ASSUME Inv, FreezeBackend
    PROVE  Inv'
<1> USE DEF WorkerAt, My
<1>1. /\ worker \in Worker /\ WorkerAt("pinning") /\ WorkerInv
      /\ ckpt \in [Checkpoints -> Files] /\ worker.ckpt \in Checkpoints
  BY DEF Inv, TypeOK, FreezeBackend, Worker
<1>2. My \in Files /\ worker.pin \in Versions \cup {None} /\ worker.pin # NoPin
  BY <1>1, RunConstants DEF Worker
<1>3. ckpt' = [ckpt EXCEPT ![worker.ckpt] = [My EXCEPT !.backend = worker.pin]]
  BY DEF FreezeBackend
<1>4. My.backend = NoPin \/ My.backend = worker.pin
  BY DEF FreezeBackend, Pinnable
<1>5. [My EXCEPT !.backend = worker.pin] \in Files
  BY <1>2 DEF Files
<1>6. TypeOK'
  <2>1. ckpt' \in [Checkpoints -> Files]
    BY <1>1, <1>3, <1>5
  <2>2. \A c \in Checkpoints : ckpt'[c].rows = ckpt[c].rows
    BY <1>1, <1>2, <1>3 DEF Files
  <2>3. worker' \in Worker
    BY <1>1 DEF FreezeBackend, Goes, Worker
  <2> QED
    BY <2>1, <2>2, <2>3
       DEF Inv, TypeOK, FreezeBackend, IndexTypeOK, indexVars, indexFiles, worldVars
<1>7. WorkerInv'
  <2>1. ckpt'[worker.ckpt] = [My EXCEPT !.backend = worker.pin]
    BY <1>1, <1>3
  <2>2. worker' = [worker EXCEPT !.at = "running"]
    BY DEF FreezeBackend, Goes
  <2>3. pointer' = pointer /\ database' = database /\ stopped' = stopped
    BY DEF FreezeBackend, indexVars, indexFiles, worldVars
  <2> QED
    BY <1>1, <1>2, <2>1, <2>2, <2>3 DEF WorkerInv, Worker, Files
<1>8. ParentInv' /\ MigrationInv'
  <2>1. CASE worker.ckpt = "parent"
    <3>1. Parent' = [Parent EXCEPT !.backend = worker.pin] /\ Continued' = Continued
      BY <1>1, <1>3, <2>1 DEF Parent, Continued, Checkpoints
    <3>2. ~stopped /\ migrator' = migrator /\ stopped' = stopped
      BY <1>1, <2>1 DEF WorkerInv, FreezeBackend
    <3>3. My = Parent
      BY <2>1 DEF Parent
    <3>4. Parent.rows = <<>> \/ Parent' = Parent
      BY <1>2, <1>4, <3>1, <3>3 DEF Inv, ParentInv, FileInv, Files
    <3> QED
      BY <1>2, <3>1, <3>2, <3>3, <3>4
         DEF Inv, ParentInv, MigrationInv, FileInv, Belongs, Files
  <2>2. CASE worker.ckpt = "next"
    <3>1. My = Continued /\ Continued.plan
      BY <1>1, <2>2 DEF WorkerInv, Continued
    <3>2. Continued.backend # NoPin
      BY <1>1, <1>2, <3>1, EmptySeq
         DEF Inv, MigrationInv, Inherited, FileInv, Files, Parent, Checkpoints
    <3>3. ckpt' = ckpt
      BY <1>1, <1>2, <1>3, <1>4, <3>1, <3>2 DEF Files
    <3> QED
      BY <3>3, FilesKept DEF Inv, FreezeBackend
  <2> QED
    BY <1>1, <2>1, <2>2 DEF Checkpoints
<1> QED
  BY <1>6, <1>7, <1>8, IndexInvStep DEF Inv, FreezeBackend

\* The new row belongs to the file the worker found or froze.
LEMMA RowKept ==
    ASSUME Inv, AppendRow
    PROVE  Inv'
<1> USE DEF WorkerAt, My
<1> DEFINE row  == [index |-> worker.index, database |-> worker.database,
                    source |-> worker.identity.source, raced |-> worker.raced]
           file == [My EXCEPT !.rows = Append(My.rows, row)]
<1>1. /\ worker \in Worker /\ WorkerAt("running") /\ WorkerInv
      /\ ckpt \in [Checkpoints -> Files] /\ worker.ckpt \in Checkpoints
  BY DEF Inv, TypeOK, AppendRow, Worker
<1>2. /\ My \in Files /\ worker.identity \in Identity
      /\ worker.database \in Databases /\ worker.index \in Versions \cup {None}
      /\ worker.pin # NoPin
  BY <1>1, RunConstants DEF WorkerInv, Worker
<1>3. row \in Row
  BY <1>1, <1>2 DEF Row, Identity, Worker
<1>4. /\ My.runtime = worker.identity /\ My.backend = worker.pin /\ My.plan
      /\ Len(My.rows) < Cases
  BY <1>1 DEF WorkerInv
<1>5. Belongs(row, My)
  BY <1>1, <1>4 DEF WorkerInv, Belongs
<1> HIDE DEF row
<1>6. /\ file \in Files
      /\ file.runtime = My.runtime /\ file.backend = My.backend
      /\ file.plan = My.plan /\ file.rows = Append(My.rows, row)
  <2>1. Append(My.rows, row) \in Seq(Row)
    <3>1. My.rows \in Seq(Row)
      BY <1>2 DEF Files
    <3> QED
      BY <3>1, <1>3
  <2> QED
    BY <2>1, <1>2 DEF Files
<1>7. /\ Len(file.rows) = Len(My.rows) + 1
      /\ \A i \in DOMAIN My.rows : file.rows[i] = My.rows[i]
      /\ file.rows[Len(My.rows) + 1] = row
      /\ DOMAIN file.rows = 1..(Len(My.rows) + 1)
      /\ DOMAIN My.rows = 1..Len(My.rows)
      /\ Len(My.rows) \in Nat
      /\ file.rows # <<>>
  <2> DEFINE old == My.rows
  <2>1. old \in Seq(Row)
    BY <1>2 DEF Files
  <2>2. file.rows = Append(old, row)
    BY <1>6
  <2> HIDE DEF old, file
  <2>3. /\ Len(Append(old, row)) = Len(old) + 1
        /\ \A i \in 1..Len(old) : Append(old, row)[i] = old[i]
        /\ Append(old, row)[Len(old) + 1] = row
        /\ DOMAIN Append(old, row) = 1..(Len(old) + 1)
        /\ DOMAIN old = 1..Len(old)
        /\ Len(old) \in Nat
    BY <2>1, <1>3
  <2>4. Append(old, row) # <<>>
    BY <2>3, EmptySeq
  <2> QED
    BY <2>2, <2>3, <2>4 DEF old
<1>8. ckpt' = [ckpt EXCEPT ![worker.ckpt] = file]
  BY DEF AppendRow, row
<1>9. FileInv(file)
  <2>1. FileInv(My)
    BY <1>1, <1>4 DEF Inv, ParentInv, MigrationInv, Parent, Continued, Checkpoints
  <2>2. \A i \in DOMAIN file.rows : i \in DOMAIN My.rows \/ i = Len(My.rows) + 1
    BY <1>7
  <2>3. \A i \in DOMAIN file.rows : Belongs(file.rows[i], file)
    BY <2>1, <2>2, <1>5, <1>6, <1>7 DEF FileInv, Belongs
  <2> QED
    BY <2>3, <1>2, <1>4, <1>6 DEF FileInv
<1> HIDE DEF file
<1>10. TypeOK'
  <2>1. ckpt' \in [Checkpoints -> Files]
    BY <1>1, <1>6, <1>8
  <2>2. \A c \in Checkpoints : Len(ckpt'[c].rows) <= Cases
    BY <1>1, <1>4, <1>7, <1>8, RunConstants DEF Inv, TypeOK
  <2>3. worker' \in Worker
    BY WorkerEnds DEF AppendRow, Ends
  <2> QED
    BY <2>1, <2>2, <2>3
       DEF Inv, TypeOK, AppendRow, IndexTypeOK, indexVars, indexFiles, worldVars
<1>11. WorkerInv'
  BY WorkerEnds DEF AppendRow, Ends
<1>12. ParentInv' /\ MigrationInv'
  <2>1. CASE worker.ckpt = "parent"
    <3>1. Parent' = file /\ Continued' = Continued /\ My = Parent
      BY <1>1, <1>8, <2>1 DEF Parent, Continued, Checkpoints
    <3>2. ~stopped /\ migrator' = migrator /\ stopped' = stopped
      BY <1>1, <2>1 DEF WorkerInv, AppendRow
    <3>3. \A i \in DOMAIN file.rows : file.rows[i].source = file.runtime.source
      <4>1. row.source = file.runtime.source
        BY <1>4, <1>6 DEF row
      <4>2. \A i \in DOMAIN My.rows : My.rows[i].source = My.runtime.source
        BY <3>1 DEF Inv, ParentInv
      <4> QED
        BY <4>1, <4>2, <1>6, <1>7
    <3>4. ParentInv'
      BY <1>4, <1>6, <1>9, <3>1, <3>3 DEF ParentInv
    <3>5. MigrationInv'
      BY <3>1, <3>2 DEF Inv, MigrationInv
    <3> QED
      BY <3>4, <3>5
  <2>2. CASE worker.ckpt = "next"
    <3>1. Continued' = file /\ Parent' = Parent /\ My = Continued
      BY <1>1, <1>8, <2>2 DEF Parent, Continued, Checkpoints
    <3>2. migrator' = migrator /\ stopped' = stopped /\ migrator.at = "off"
      BY <1>4, <3>1 DEF AppendRow, Inv, MigrationInv, TypeOK, Migrator
    <3>3. ParentInv'
      BY <3>1 DEF Inv, ParentInv
    <3>4. row.source = "fixed"
      <4>1. Parent.runtime \in Identity
        BY <1>4, <3>1 DEF Inv, ParentInv, MigrationInv, Inherited, FileInv
      <4> QED
        BY <4>1, <1>4, <3>1 DEF Inv, MigrationInv, Identity, row
    <3>5. Len(Parent.rows) \in Nat /\ DOMAIN Parent.rows = 1..Len(Parent.rows)
      BY <1>1 DEF Parent, Checkpoints, Files
    <3>6. /\ Len(Parent.rows) <= Len(file.rows)
          /\ \A i \in DOMAIN Parent.rows : file.rows[i] = Parent.rows[i]
      BY <1>4, <1>7, <3>1, <3>5 DEF Inv, MigrationInv
    <3>7. \A i \in DOMAIN file.rows : i > Len(Parent.rows) => file.rows[i].source = "fixed"
      BY <1>4, <1>7, <3>1, <3>4, <3>5 DEF Inv, MigrationInv
    <3>8. MigrationInv'
      BY <1>4, <1>6, <1>9, <3>1, <3>2, <3>6, <3>7 DEF Inv, MigrationInv, Inherited
    <3> QED
      BY <3>3, <3>8
  <2> QED
    BY <1>1, <2>1, <2>2 DEF Checkpoints
<1> QED
  BY <1>10, <1>11, <1>12, IndexInvStep DEF Inv, AppendRow

-----------------------------------------------------------------------------
(* The world, and the migration *)

\* Whatever is replaced before the worker has used it is marked as raced, and
\* what is replaced later does not concern it.
LEMMA RacesKept ==
    ASSUME Inv, TypeOK', IndexInv',
           \/ pointer' = pointer /\ database' = database /\ worker' = worker
           \/ database' = database /\ Races(IndexRaces)
           \/ pointer' = pointer /\ Races(DatabaseRaces),
           UNCHANGED <<ckpt, migrator, stopped>>
    PROVE  Inv'
<1>1. worker \in Worker /\ WorkerInv
  BY DEF Inv, TypeOK
<1>2. WorkerInv'
  <2>1. CASE pointer' = pointer /\ database' = database /\ worker' = worker
    BY <1>1, <2>1 DEF WorkerInv, WorkerAt, My
  <2>2. CASE database' = database /\ Races(IndexRaces)
    BY <1>1, <2>2 DEF Races, IndexRaces, WorkerInv, WorkerAt, My, Worker
  <2>3. CASE pointer' = pointer /\ Races(DatabaseRaces)
    BY <1>1, <2>3 DEF Races, DatabaseRaces, WorkerInv, WorkerAt, My, Worker
  <2> QED
    BY <2>1, <2>2, <2>3
<1> QED
  BY <1>2, FilesKept DEF Inv

LEMMA RacesTyped ==
    ASSUME worker \in Worker, Races(IndexRaces) \/ Races(DatabaseRaces)
    PROVE  worker' \in Worker
<1>1. PICK read \in SUBSET {"identity", "pin"} :
          worker' = [worker EXCEPT !.raced = @ \cup read]
  BY DEF Races, IndexRaces, DatabaseRaces
<1> QED
  BY <1>1 DEF Worker

LEMMA WorldKept ==
    ASSUME Inv, World
    PROVE  Inv'
<1> USE DEF indexVars, indexFiles, worldVars, runVars
<1>0. worker \in Worker
  BY DEF Inv, TypeOK
<1>1. IndexInv' /\ IndexTypeOK'
  <2>1. [IndexNext]_indexVars
    BY DEF World, BuildStep, CopyStaged, CheckStaged, ReplaceDatabase, EditSource
  <2> QED
    BY <2>1, IndexInvStep DEF Inv, IndexInv
<1>2. CASE BuildStep
  <2>1. worker' \in Worker
    BY <1>0, <1>2, RacesTyped DEF BuildStep
  <2>2. TypeOK'
    BY <1>1, <1>2, <2>1 DEF BuildStep, Inv, TypeOK, Files
  <2> QED
    BY <1>0, <1>1, <1>2, <2>2, RacesTyped, RacesKept DEF BuildStep
<1>3. CASE ReplaceDatabase
  <2>1. worker' \in Worker
    BY <1>0, <1>3, RacesTyped DEF ReplaceDatabase
  <2>2. TypeOK'
    BY <1>1, <1>3, <2>1 DEF ReplaceDatabase, Inv, TypeOK
  <2> QED
    BY <1>0, <1>1, <1>3, <2>2, RacesTyped, RacesKept DEF ReplaceDatabase
<1>4. CASE CopyStaged \/ CheckStaged \/ EditSource
  <2>1. TypeOK'
    BY <1>1, <1>4, RunConstants DEF CopyStaged, CheckStaged, EditSource, Inv, TypeOK
  <2> QED
    BY <1>1, <1>4, <2>1, RacesKept DEF CopyStaged, CheckStaged, EditSource
<1> QED
  BY <1>2, <1>3, <1>4 DEF World

LEMMA MigrateKept ==
    ASSUME Inv, Migrate
    PROVE  Inv'
<1> USE DEF indexVars, indexFiles, worldVars
<1>1. /\ worker \in Worker /\ WorkerInv /\ ckpt \in [Checkpoints -> Files]
      /\ Parent \in Files /\ Continued \in Files
  BY DEF Inv, TypeOK, Parent, Continued, Checkpoints
<1>2. IndexInv' /\ IndexTypeOK'
  <2>1. UNCHANGED indexVars
    BY DEF Migrate, WritePredictions, WriteRuntime, PublishPlan, MigrationDies, StopSequence
  <2> QED
    BY <2>1, IndexInvStep DEF Inv, IndexInv
<1>3. ASSUME UNCHANGED worldVars, UNCHANGED worker, stopped' \in BOOLEAN,
             migrator' \in Migrator, ckpt' \in [Checkpoints -> Files],
             \A c \in Checkpoints : Len(ckpt'[c].rows) <= Cases
      PROVE  TypeOK'
  BY <1>1, <1>2, <1>3 DEF Inv, TypeOK
<1>4. ASSUME NEW file \in Files, ckpt' = [ckpt EXCEPT !["next"] = file],
             Len(file.rows) <= Cases, ~Continued.plan
      PROVE  /\ ckpt' \in [Checkpoints -> Files]
             /\ \A c \in Checkpoints : Len(ckpt'[c].rows) <= Cases
             /\ Parent' = Parent /\ Continued' = file
             /\ WorkerAt("off") \/ ckpt'[worker.ckpt] = ckpt[worker.ckpt]
  BY <1>1, <1>4 DEF Inv, TypeOK, Parent, Continued, Checkpoints, WorkerInv, My, Worker
<1>5. ASSUME UNCHANGED <<worldVars, worker, stopped, indexVars>>,
             WorkerAt("off") \/ ckpt'[worker.ckpt] = ckpt[worker.ckpt]
      PROVE  WorkerInv'
  BY <1>1, <1>5 DEF WorkerInv, WorkerAt, My
<1>6. CASE WritePredictions
  <2> DEFINE file == [Continued EXCEPT !.rows = Parent.rows]
  <2>1. /\ file \in Files /\ file.rows = Parent.rows /\ file.plan = Continued.plan
        /\ file.runtime = Continued.runtime
    BY <1>1 DEF Files
  <2>2. ckpt' = [ckpt EXCEPT !["next"] = file]
    BY <1>6 DEF WritePredictions, Continued
  <2>3. ~Continued.plan
    <3>1. Continued = Unused
      BY <1>6 DEF WritePredictions, Eligible, Continued
    <3>2. ~Unused.plan
      BY DEF Unused
    <3> QED
      BY <3>1, <3>2, Zenon
  <2>4. Len(file.rows) <= Cases
    BY <2>1 DEF Inv, TypeOK, Parent, Checkpoints
  <2>5. /\ Parent.rows # <<>> /\ Parent.runtime \in Identity
        /\ Parent.runtime.source = "old" /\ stopped
        /\ IdentityNow = [Parent.runtime EXCEPT !.source = "fixed"]
    <3>1. Parent.rows # <<>>
      BY <1>1, <1>6, EmptySeq DEF WritePredictions, Eligible
    <3> QED
      BY <1>6, <3>1 DEF WritePredictions, Eligible, Inv, ParentInv, FileInv
  <2> HIDE DEF file
  <2>6. /\ ckpt' \in [Checkpoints -> Files]
        /\ \A c \in Checkpoints : Len(ckpt'[c].rows) <= Cases
        /\ Parent' = Parent /\ Continued' = file
        /\ WorkerAt("off") \/ ckpt'[worker.ckpt] = ckpt[worker.ckpt]
    BY <1>4, <2>1, <2>2, <2>3, <2>4
  <2>7. migrator' = [at |-> "runtime", identity |-> IdentityNow] /\ migrator' \in Migrator
    BY <1>6, IdentityTyped DEF WritePredictions, Inv, TypeOK, Migrator
  <2>8. TypeOK' /\ WorkerInv'
    BY <1>3, <1>5, <1>6, <2>6, <2>7 DEF WritePredictions, Inv, TypeOK
  <2>9. ParentInv'
    BY <2>6 DEF Inv, ParentInv
  <2>10. MigrationInv'
    BY <1>6, <2>1, <2>3, <2>5, <2>6, <2>7
       DEF WritePredictions, Inv, MigrationInv, Inherited
  <2> QED
    BY <1>2, <2>8, <2>9, <2>10 DEF Inv
<1>7. CASE WriteRuntime
  <2> DEFINE file == [Continued EXCEPT !.runtime = migrator.identity,
                                       !.backend = Parent.backend]
  <2>0. migrator.identity \in Identity \cup {None} /\ ~Continued.plan
    BY <1>7 DEF WriteRuntime, Inv, TypeOK, Migrator, MigrationInv
  <2>1. /\ file \in Files /\ file.rows = Continued.rows /\ file.plan = Continued.plan
        /\ file.runtime = migrator.identity /\ file.backend = Parent.backend
    BY <1>1, <2>0 DEF Files
  <2>2. ckpt' = [ckpt EXCEPT !["next"] = file]
    BY <1>7 DEF WriteRuntime, Continued
  <2>4. Len(file.rows) <= Cases
    BY <2>1 DEF Inv, TypeOK, Continued, Checkpoints
  <2> HIDE DEF file
  <2>6. /\ ckpt' \in [Checkpoints -> Files]
        /\ \A c \in Checkpoints : Len(ckpt'[c].rows) <= Cases
        /\ Parent' = Parent /\ Continued' = file
        /\ WorkerAt("off") \/ ckpt'[worker.ckpt] = ckpt[worker.ckpt]
    BY <1>4, <2>0, <2>1, <2>2, <2>4
  <2>7. /\ migrator' = [migrator EXCEPT !.at = "plan"] /\ migrator' \in Migrator
        /\ migrator'.at = "plan" /\ migrator'.identity = migrator.identity
    BY <1>7 DEF WriteRuntime, Inv, TypeOK, Migrator
  <2>8. TypeOK' /\ WorkerInv'
    BY <1>3, <1>5, <1>7, <2>6, <2>7 DEF WriteRuntime, Inv, TypeOK
  <2>9. ParentInv'
    BY <2>6 DEF Inv, ParentInv
  <2>10. MigrationInv'
    BY <1>7, <2>0, <2>1, <2>6, <2>7 DEF WriteRuntime, Inv, MigrationInv, Inherited
  <2> QED
    BY <1>2, <2>8, <2>9, <2>10 DEF Inv
<1>8. CASE PublishPlan
  <2> DEFINE file == [Continued EXCEPT !.plan = TRUE]
  <2>0. ~Continued.plan /\ Continued.rows = Parent.rows /\ Inherited
        /\ Continued.runtime = [Parent.runtime EXCEPT !.source = "fixed"]
        /\ Continued.backend = Parent.backend
    BY <1>8 DEF PublishPlan, Inv, MigrationInv
  <2>1. /\ file \in Files /\ file.rows = Continued.rows /\ file.plan
        /\ file.runtime = Continued.runtime /\ file.backend = Continued.backend
    BY <1>1 DEF Files
  <2>2. ckpt' = [ckpt EXCEPT !["next"] = file]
    BY <1>8 DEF PublishPlan, Continued
  <2>4. Len(file.rows) <= Cases
    BY <2>1 DEF Inv, TypeOK, Continued, Checkpoints
  <2> HIDE DEF file
  <2>6. /\ ckpt' \in [Checkpoints -> Files]
        /\ \A c \in Checkpoints : Len(ckpt'[c].rows) <= Cases
        /\ Parent' = Parent /\ Continued' = file
        /\ WorkerAt("off") \/ ckpt'[worker.ckpt] = ckpt[worker.ckpt]
    BY <1>4, <2>0, <2>1, <2>2, <2>4
  <2>7. migrator' = NoMigration /\ migrator' \in Migrator
    BY <1>8 DEF PublishPlan, NoMigration, Migrator
  <2>8. TypeOK' /\ WorkerInv'
    BY <1>3, <1>5, <1>8, <2>6, <2>7 DEF PublishPlan, Inv, TypeOK
  <2>9. ParentInv'
    BY <2>6 DEF Inv, ParentInv
  <2>10. FileInv(file) /\ file.runtime = [Parent.runtime EXCEPT !.source = "fixed"]
    <3>1. Parent.runtime \in Identity /\ FileInv(Parent)
      BY <2>0 DEF Inherited, Inv, ParentInv, FileInv
    <3>2. /\ [Parent.runtime EXCEPT !.source = "fixed"] \in Identity
          /\ [Parent.runtime EXCEPT !.source = "fixed"].pointer = Parent.runtime.pointer
          /\ [Parent.runtime EXCEPT !.source = "fixed"].database = Parent.runtime.database
      BY <3>1 DEF Identity
    <3> QED
      BY <2>0, <2>1, <3>1, <3>2 DEF FileInv, Belongs
  <2>11. MigrationInv'
    <3>1. Len(Parent.rows) \in Nat /\ DOMAIN Parent.rows = 1..Len(Parent.rows)
      BY <1>1 DEF Files
    <3> QED
      BY <1>8, <2>0, <2>1, <2>6, <2>7, <2>10, <3>1
         DEF PublishPlan, Inv, MigrationInv, Inherited, NoMigration
  <2> QED
    BY <1>2, <2>8, <2>9, <2>11 DEF Inv
<1>9. CASE MigrationDies \/ StopSequence
  <2>1. ckpt' = ckpt /\ Parent' = Parent /\ Continued' = Continued
    BY <1>9 DEF MigrationDies, StopSequence, Parent, Continued
  <2>2. migrator' \in Migrator /\ stopped' \in BOOLEAN
    <3>1. NoMigration \in Migrator
      BY DEF NoMigration, Migrator
    <3>2. migrator' \in Migrator
      BY <1>9, <3>1 DEF MigrationDies, StopSequence, Inv, TypeOK
    <3>3. stopped' \in BOOLEAN
      BY <1>9, Zenon DEF MigrationDies, StopSequence, Inv, TypeOK
    <3> QED
      BY <3>2, <3>3
  <2>3. TypeOK'
    BY <1>3, <1>9, <2>1, <2>2 DEF MigrationDies, StopSequence, Inv, TypeOK
  <2>4. WorkerInv'
    BY <1>1, <1>9, <2>1 DEF MigrationDies, StopSequence, WorkerInv, WorkerAt, My
  <2>5. ParentInv' /\ MigrationInv'
    BY <1>9, <2>1
       DEF MigrationDies, StopSequence, NoMigration, Inv, ParentInv, MigrationInv, Inherited
  <2> QED
    BY <1>2, <2>3, <2>4, <2>5 DEF Inv
<1> QED
  BY <1>6, <1>7, <1>8, <1>9 DEF Migrate

-----------------------------------------------------------------------------
(* The theorems *)

LEMMA StepKept == Inv /\ [Next]_vars => Inv'
<1> SUFFICES ASSUME Inv, [Next]_vars PROVE Inv'
  OBVIOUS
<1>1. CASE Work
  <2>1. ASSUME NEW c \in Checkpoints, StartWorker(c) PROVE Inv'
    BY <2>1, StartKept
  <2> QED
    BY <1>1, <2>1, ReadsKept, EndsKept, FreezeKept, PinKept, RowKept DEF Work
<1>2. CASE World
  BY <1>2, WorldKept
<1>3. CASE Migrate
  BY <1>3, MigrateKept
<1>4. CASE UNCHANGED vars
  <2>1. IndexInv'
    BY <1>4, IndexInvStep DEF Inv, vars
  <2>2. TypeOK'
    BY <1>4, <2>1 DEF Inv, IndexInv, TypeOK, vars, worldVars, runVars
  <2>3. WorkerInv'
    BY <1>4 DEF Inv, WorkerInv, WorkerAt, My, vars, indexVars, indexFiles,
                worldVars, runVars
  <2>4. ParentInv' /\ MigrationInv'
    BY <1>4, FilesKept DEF Inv, vars, runVars
  <2> QED
    BY <2>1, <2>2, <2>3, <2>4 DEF Inv
<1> QED
  BY <1>1, <1>2, <1>3, <1>4 DEF Next

LEMMA InvAlways == Spec => []Inv
  BY InvInit, StepKept, PTL DEF Spec

\* Every variable keeps its type, and no checkpoint has more rows than cases.
THEOREM TypeCorrect == Spec => []TypeOK
<1>1. Inv => TypeOK
  BY DEF Inv
<1> QED
  BY <1>1, InvAlways, PTL

\* A checkpoint that can be launched is the parent or a published continuation,
\* and its rows belong to it either way.
LEMMA LaunchableBelongs ==
    ASSUME Inv, NEW c \in Launchable, NEW i \in DOMAIN ckpt[c].rows
    PROVE  Belongs(ckpt[c].rows[i], ckpt[c])
<1>1. FileInv(ckpt[c])
  <2>1. CASE c = "parent"
    BY <2>1 DEF Inv, ParentInv, Parent
  <2>2. CASE c = "next"
    BY <2>2 DEF Inv, MigrationInv, Continued, Launchable
  <2> QED
    BY <2>1, <2>2 DEF Launchable, Checkpoints
<1> QED
  BY <1>1 DEF FileInv

\* The rows a checkpoint does not have from its parent are of its own sources.
LEMMA SourcesBelong ==
    ASSUME Inv, NEW c \in Launchable, NEW i \in DOMAIN ckpt[c].rows,
           ~FromParent(c, i)
    PROVE  ckpt[c].rows[i].source = ckpt[c].runtime.source
<1>1. CASE c = "parent"
  BY <1>1 DEF Inv, ParentInv, Parent
<1>2. CASE c = "next"
  <2>1. /\ Continued.plan /\ i \in DOMAIN Continued.rows
        /\ Parent \in Files /\ Continued \in Files
    BY <1>2 DEF Inv, TypeOK, Launchable, Parent, Continued, Checkpoints
  <2>2. i > Len(Parent.rows)
    <3>1. i \in Nat /\ Len(Parent.rows) \in Nat
      BY <2>1 DEF Files
    <3> QED
      BY <1>2, <3>1 DEF FromParent
  <2>3. Continued.rows[i].source = "fixed"
    BY <2>1, <2>2 DEF Inv, MigrationInv
  <2>4. Parent.runtime \in Identity
    BY <2>1 DEF Inv, ParentInv, MigrationInv, Inherited, FileInv
  <2>5. Continued.runtime.source = "fixed"
    BY <2>1, <2>4 DEF Inv, MigrationInv, Identity
  <2> QED
    BY <1>2, <2>3, <2>5 DEF Continued
<1> QED
  BY <1>1, <1>2 DEF Launchable, Checkpoints

\* However builds, rebuilt databases, edits, crashes and a migration interleave
\* with the workers: a row that is not inherited is of the frozen sources
\* (freeze_checkpoint), one whose index and database were not replaced between
\* its worker's hash and its use of them is of the frozen ones, and every row's
\* index was built for the catalog of its database.
THEOREM IdentityMatched == Spec => []RowsMatchIdentity
<1>1. Inv => RowsMatchIdentity
  <2> SUFFICES ASSUME Inv, NEW c \in Launchable, NEW i \in DOMAIN ckpt[c].rows
               PROVE  LET row    == ckpt[c].rows[i]
                          frozen == ckpt[c].runtime
                      IN  /\ FromParent(c, i) \/ row.source = frozen.source
                          /\ "identity" \notin row.raced =>
                                 /\ row.index = frozen.pointer
                                 /\ row.database = frozen.database
                          /\ row.index # None =>
                                 CatalogOf[row.index] = CatalogOf[row.database]
    BY DEF RowsMatchIdentity
  <2> QED
    BY LaunchableBelongs, SourcesBelong DEF Belongs
<1> QED
  BY <1>1, InvAlways, PTL

\* A row was made with the index version that freeze_backend has pinned for its
\* checkpoint, unless an activation came between the two reads of the pointer
\* by its own worker.
THEOREM PinMatched == Spec => []RowsMatchPin
<1>1. Inv => RowsMatchPin
  BY LaunchableBelongs DEF RowsMatchPin, Belongs
<1> QED
  BY <1>1, InvAlways, PTL

\* What the migration has published keeps the parent's rows in front, in the
\* parent's world, and new sources only behind them, whatever is killed.
THEOREM ContinuationKept == Spec => []ContinuationIsFaithful
<1>1. Inv => ContinuationIsFaithful
  <2> SUFFICES ASSUME Inv, Continued.plan PROVE ContinuationIsFaithful
    BY DEF ContinuationIsFaithful, Continued
  <2> DEFINE old == Parent.rows
             new == Continued.rows
  <2>1. old \in Seq(Row) /\ new \in Seq(Row)
    BY DEF Inv, TypeOK, Parent, Continued, Checkpoints, Files
  <2>2. /\ Len(old) <= Len(new)
        /\ \A i \in DOMAIN old : new[i] = old[i]
        /\ \A i \in DOMAIN new : i > Len(old) => new[i].source = "fixed"
        /\ Parent.runtime.source = "old"
        /\ Continued.runtime = [Parent.runtime EXCEPT !.source = "fixed"]
    BY DEF Inv, MigrationInv, Inherited
  <2>3. \A i \in DOMAIN old : old[i].source = "old"
    BY <2>2 DEF Inv, ParentInv
  <2> HIDE DEF old, new
  <2>4. IsPrefix(old, new)
    <3>1. SubSeq(old, 1, Len(old)) = SubSeq(new, 1, Len(old))
      BY <2>1, <2>2
    <3> QED
      BY <3>1, <2>2 DEF IsPrefix
  <2>5. \A i \in DOMAIN new : new[i].source = IF i <= Len(old) THEN "old" ELSE "fixed"
    BY <2>1, <2>2, <2>3
  <2> QED
    BY <2>2, <2>4, <2>5 DEF ContinuationIsFaithful, Continued, old, new
<1> QED
  BY <1>1, InvAlways, PTL
=============================================================================
