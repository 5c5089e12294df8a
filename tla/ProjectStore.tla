---------------------------- MODULE ProjectStore ----------------------------
(***************************************************************************)
(* src/src/aletheia_lab/project/persistence.py: the P3 project store.      *)
(*                                                                         *)
(* Content-addressed object files lie beside an SQLite index.  A           *)
(* generation of a project is persisted by publishing its object files one *)
(* by one, outside any transaction, and then committing index rows and     *)
(* records in one.  A purge deletes a project's records and its unshared   *)
(* index rows in one transaction and unlinks the files afterwards.         *)
(*                                                                         *)
(* The bundle, the snapshot and the comparison records of one generation   *)
(* are one record here, and one object of their own: they are committed    *)
(* together, name the same project and share no bytes with another         *)
(* generation.  Artifacts are the imported source bytes, which projects    *)
(* may share.  This module holds the store's state and its operations;     *)
(* ProductService interleaves the calls that use them.                     *)
(***************************************************************************)
EXTENDS FiniteSets

CONSTANTS
  Projects,   \* project identities: one per granted source root
  Versions,   \* states a source tree can be in
  Artifacts,  \* digests of imported source files
  Calls,      \* invocations of the product service; a call's clock reading is its name
  None,       \* no generation
  Contents    \* the artifacts of each version of each source tree

\* A generation names its project, the version it captured, the capture (stamp), the capture
\* it was refreshed from and the preview it was first confirmed with.
Generations ==
  [project : Projects, version : Versions, stamp : Calls, previous : Calls \cup {None},
   preview : Versions]

\* A source tree has finitely many files.
ASSUME StoreAssumption ==
  /\ Contents \in [Projects -> [Versions -> SUBSET Artifacts]]
  /\ \A p \in Projects, v \in Versions : IsFiniteSet(Contents[p][v])
  /\ None \notin Calls \cup Generations

VARIABLES
  files,    \* digests whose object file is in place
  objects,  \* digests in the objects table
  records   \* generations in the records table

storeVars == <<files, objects, records>>

Digests == Artifacts \cup Generations

StoreTypeOK ==
  /\ files \in SUBSET Digests
  /\ objects \in SUBSET Digests
  /\ records \in SUBSET Generations

StoreInit ==
  /\ files = {}
  /\ objects = {}
  /\ records = {}

\* The digests a generation refers to: its own records and the artifacts of its bundle.
ObjectsOf(g) == {g} \cup Contents[g.project][g.version]

\* The digests a set of generations refers to (_artifact_references and the record objects).
References(R) == UNION {ObjectsOf(g) : g \in R}

RecordsOf(p) == {g \in records : g.project = p}

\* verify_integrity, which every open and every commit ends with: each indexed object is on
\* disk with its bytes.
Sound == objects \subseteq files

\* Mutant: the plan purges everything the project refers to.
PlanWithoutSharing(p) ==
  LET target == References(RecordsOf(p))
  IN  [records |-> RecordsOf(p), purge |-> target, retained |-> {}]

\* _project_purge_plan: what only this project refers to is purged, the rest retained.
PurgePlan(p) ==
  LET target    == References(RecordsOf(p))
      surviving == References(records \ RecordsOf(p))
  IN  [records |-> RecordsOf(p), purge |-> target \ surviving, retained |-> target \cap surviving]

\* _write_object: publish one object file; one that is there already is left alone.
WriteObject(d) ==
  /\ files' = files \cup {d}
  /\ UNCHANGED <<objects, records>>

\* The transaction of persist: index the objects and insert the records.
IndexGeneration(g) ==
  /\ objects' = objects \cup ObjectsOf(g)
  /\ records' = records \cup {g}
  /\ UNCHANGED files

\* The transaction of commit_project_purge; the files stay for now.
DeletePurged(plan) ==
  /\ records' = records \ plan.records
  /\ objects' = objects \ plan.purge
  /\ UNCHANGED files

\* Mutant: the listed files are unlinked without asking the index.
UnlinkAll(digests) ==
  /\ files' = files \ digests
  /\ UNCHANGED <<objects, records>>

\* remove_purged_object_files: unlink the listed files, but for those indexed again.
UnlinkUnindexed(digests) ==
  /\ files' = files \ (digests \ objects)
  /\ UNCHANGED <<objects, records>>
=============================================================================
