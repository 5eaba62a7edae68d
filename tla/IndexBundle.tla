---------------------------- MODULE IndexBundle ----------------------------
(***************************************************************************)
(* The index bundles of one database (layer2_grounding/service.py): built  *)
(* in a temporary directory under .build.lock, renamed to their version    *)
(* and activated by replacing active.json.  Builders are processes of      *)
(* their own and may be killed at any step.                                *)
(*                                                                         *)
(* A version stands for everything its id is the hash of: catalog, aliases *)
(* and embedding model.                                                    *)
(***************************************************************************)
EXTENDS Naturals, FiniteSets

CONSTANTS Builders,   \* processes in build()
          Versions,   \* index versions
          MaxBuilds,  \* bound on the builds begun
          MaxFaults,  \* bound on kills and interrupts
          None        \* no version

ASSUME IndexConstants ==
    /\ MaxBuilds \in Nat
    /\ MaxFaults \in Nat
    /\ None \notin Versions

VARIABLES
    bundle,   \* bundle[v]: the directory versions/<v>
    temp,     \* temp[v]: the directory versions/.<v>.building
    pointer,  \* active.json: its version, or None before the first build
    written,  \* .active.tmp: its version, or None
    lock,     \* .build.lock exists
    cache,    \* the versions embedding_cache.sqlite has all vectors of
    builder,  \* builder[b]: where build() is, and its version
    builds,   \* builds begun so far
    faults    \* kills and interrupts so far

indexFiles == <<bundle, temp, pointer, written, lock, cache>>
indexVars  == <<indexFiles, builder, builds, faults>>

-----------------------------------------------------------------------------

\* A bundle directory: absent, with files missing, or with its manifest.
Stage == {"none", "partial", "complete"}

Idle == [at |-> "idle", version |-> None]

InitIndex ==
    /\ bundle = [v \in Versions |-> "none"]
    /\ temp = [v \in Versions |-> "none"]
    /\ pointer = None
    /\ written = None
    /\ lock = FALSE
    /\ cache = {}
    /\ builder = [b \in Builders |-> Idle]
    /\ builds = 0
    /\ faults = 0

At(b, where) == builder[b].at = where
Step(b, to)  == builder' = [builder EXCEPT ![b] = [@ EXCEPT !.at = to]]
Done(b)      == builder' = [builder EXCEPT ![b] = Idle]

\* _version_id(): the version a build is for.
Mine(b) == builder[b].version

\* The artifacts and checksums of a manifest are there.
Validated(v) == bundle[v] = "complete"

\* _cached_embeddings(): vectors that are missing are embedded and cached.
Embedded(b) == cache \cup {Mine(b)}

\* Mutant: the lock file is opened without O_EXCL.
TakeLockAnyway(b, v) ==
    /\ At(b, "idle")
    /\ builds < MaxBuilds
    /\ builds' = builds + 1
    /\ lock' = TRUE
    /\ builder' = [builder EXCEPT ![b] = [version |-> v,
           at |-> IF bundle[v] = "none" THEN "clearing" ELSE "writing"]]
    /\ UNCHANGED <<bundle, temp, pointer, written, cache, faults>>

\* Documents and version id of a catalog, then the lock (O_CREAT | O_EXCL; while
\* it exists a build is refused); a version that exists is only activated.
TakeLock(b, v) ==
    /\ At(b, "idle")
    /\ builds < MaxBuilds
    /\ builds' = builds + 1
    /\ ~lock
    /\ lock' = TRUE
    /\ builder' = [builder EXCEPT ![b] = [version |-> v,
           at |-> IF bundle[v] = "none" THEN "clearing" ELSE "writing"]]
    /\ UNCHANGED <<bundle, temp, pointer, written, cache, faults>>

\* What an earlier build left is removed; catalog and documents are written.
Clear(b) ==
    /\ At(b, "clearing")
    /\ temp' = [temp EXCEPT ![Mine(b)] = "partial"]
    /\ Step(b, "filling")
    /\ UNCHANGED <<bundle, pointer, written, lock, cache, builds, faults>>

\* An exception, of the embedding server for instance: the directory goes, the
\* vectors embedded so far stay.
BuildFails(b) ==
    /\ builder[b].at \in {"filling", "renaming"}
    /\ temp' = [temp EXCEPT ![Mine(b)] = "none"]
    /\ cache' \in {cache, Embedded(b)}
    /\ Step(b, "unlocking")
    /\ UNCHANGED <<bundle, pointer, written, lock, builds, faults>>

\* Vectors are looked up, or embedded and cached; the FAISS and BM25 files, and
\* the manifest with the checksum of each file.
Fill(b) ==
    /\ At(b, "filling")
    /\ cache' = Embedded(b)
    /\ temp' = [temp EXCEPT ![Mine(b)] =
                    IF @ = "partial" THEN "complete" ELSE @]
    /\ Step(b, "renaming")
    /\ UNCHANGED <<bundle, pointer, written, lock, builds, faults>>

Rename(b) ==
    /\ At(b, "renaming")
    /\ bundle' = [bundle EXCEPT ![Mine(b)] = temp[Mine(b)]]
    /\ temp' = [temp EXCEPT ![Mine(b)] = "none"]
    /\ Step(b, "writing")
    /\ UNCHANGED <<pointer, written, lock, cache, builds, faults>>

WritePointer(b) ==
    /\ At(b, "writing")
    /\ written' = Mine(b)
    /\ Step(b, "activating")
    /\ UNCHANGED <<bundle, temp, pointer, lock, cache, builds, faults>>

Activate(b) ==
    /\ At(b, "activating")
    /\ pointer' = written
    /\ written' = None
    /\ Step(b, "unlocking")
    /\ UNCHANGED <<bundle, temp, lock, cache, builds, faults>>

Unlock(b) ==
    /\ At(b, "unlocking")
    /\ lock' = FALSE
    /\ Done(b)
    /\ UNCHANGED <<bundle, temp, pointer, written, cache, builds, faults>>

\* A killed build leaves its lock and its temporary files; one that is
\* interrupted, or fails outside _build_version, only the files.
KillBuilder(b) ==
    /\ ~At(b, "idle")
    /\ faults < MaxFaults
    /\ faults' = faults + 1
    /\ lock' \in {lock, FALSE}
    /\ Done(b)
    /\ UNCHANGED <<bundle, temp, pointer, written, cache, builds>>

\* Nobody but an operator removes the lock of a build that was killed.
RemoveStaleLock ==
    /\ lock
    /\ \A b \in Builders : At(b, "idle")
    /\ lock' = FALSE
    /\ UNCHANGED <<bundle, temp, pointer, written, cache, builder, builds,
                   faults>>

Build(b) ==
    \/ \E v \in Versions : TakeLock(b, v)
    \/ Clear(b) \/ Fill(b) \/ BuildFails(b) \/ Rename(b) \/ WritePointer(b)
    \/ Activate(b) \/ Unlock(b)

IndexNext == (\E b \in Builders : Build(b) \/ KillBuilder(b)) \/ RemoveStaleLock

IndexSpec == InitIndex /\ [][IndexNext]_indexVars

-----------------------------------------------------------------------------

IndexTypeOK ==
    /\ bundle \in [Versions -> Stage]
    /\ temp \in [Versions -> Stage]
    /\ pointer \in Versions \cup {None}
    /\ written \in Versions \cup {None}
    /\ lock \in BOOLEAN
    /\ cache \in SUBSET Versions
    /\ builder \in [Builders -> [at : {"idle", "clearing", "filling",
           "renaming", "writing", "activating", "unlocking"}, version : Versions \cup {None}]]
    /\ builds \in 0..MaxBuilds
    /\ faults \in 0..MaxFaults

\* "Immutable, checksum-verified Layer 2 index bundles": whoever builds at the
\* same time and wherever builds are killed, a reader of the pointer finds a
\* complete bundle, and a published one never changes again.
Register == INSTANCE BundleRegister WITH
    published <- {v \in Versions : Validated(v)},
    active    <- pointer
BundlesAreImmutable == Register!Spec
=============================================================================
