-------------------------- MODULE ProductLifecycle --------------------------
(***************************************************************************)
(* src/src/aletheia_lab/product/lifecycle.py and the queries of            *)
(* product/deletion.py: the product tables, which share the project        *)
(* store's SQLite file and so its transactions.                            *)
(*                                                                         *)
(* product_records holds previews, project states, results and deletion    *)
(* tombstones; product_projects points at each project's current state;    *)
(* product_confirmations binds a preview to the state it became.  A        *)
(* project state names exactly one P3 generation and is that generation    *)
(* here.  A preview and its lease are one row: they are written together.  *)
(***************************************************************************)
EXTENDS ProjectStore, Naturals

VARIABLES
  previews,       \* preview records with their leases
  states,         \* project_state records
  results,        \* result records
  pointer,        \* product_projects: the current state of each project, or None
  confirmations,  \* product_confirmations
  tombstones      \* deletion records

lifecycleVars == <<previews, states, results, pointer, confirmations, tombstones>>

\* A preview is addressed by what it shows: the project and the version of its source.
Previews == [project : Projects, version : Versions]
Results == [project : Projects, stamp : Calls]
Confirmations == [preview : Previews, state : Generations]
Tombstones ==
  [project : Projects, status : {"pending", "deleted"}, purge : SUBSET Digests, retained : Nat]

LifecycleTypeOK ==
  /\ previews \in SUBSET Previews
  /\ states \in SUBSET Generations
  /\ results \in SUBSET Results
  /\ pointer \in [Projects -> Generations \cup {None}]
  /\ confirmations \in SUBSET Confirmations
  /\ tombstones \in SUBSET Tombstones

LifecycleInit ==
  /\ previews = {}
  /\ states = {}
  /\ results = {}
  /\ pointer = [p \in Projects |-> None]
  /\ confirmations = {}
  /\ tombstones = {}

\* The rows of one project.
OfProject(R, p) == {r \in R : r.project = p}
ConfirmationsOf(p) == {x \in confirmations : x.state.project = p}
TombstonesOf(p) == OfProject(tombstones, p)

\* The preview a project state says it was confirmed with.
PreviewOf(g) == [project |-> g.project, version |-> g.preview]

\* Mutant: a tombstone that is still pending does not stop a write.
ActiveUntilDeleted(p) == \A t \in TombstonesOf(p) : t.status # "deleted"

\* ensure_product_project_active: any deletion record stops the write.
Active(p) == TombstonesOf(p) = {}

\* Mutant: a confirmation does not ask whether the project is already imported.
MayConfirmAgain(g) ==
  /\ \A x \in confirmations : x.preview # PreviewOf(g)
  /\ Active(g.project)

\* put_product_confirmation lets a new state in: its preview has not been confirmed (with
\* another state), the project has no current state and no deletion record.
MayConfirm(g) ==
  /\ \A x \in confirmations : x.preview # PreviewOf(g)
  /\ pointer[g.project] = None
  /\ Active(g.project)

\* Mutant: a refresh only asks that the project still exists.
MayRefreshAny(g, base) ==
  /\ Active(g.project)
  /\ pointer[g.project] # None

\* _write_project_state lets a refreshed state in: the current one is still its base.
MayRefresh(g, base) ==
  /\ Active(g.project)
  /\ pointer[g.project] = base

\* put_current_project_state: insert the state and make it current.
PutCurrentState(g) ==
  /\ states' = states \cup {g}
  /\ pointer' = [pointer EXCEPT ![g.project] = g]
  /\ UNCHANGED <<previews, results, tombstones>>

\* What _product_scope collects: the records a deletion is going to remove.
Scope(p) ==
  [states |-> OfProject(states, p), results |-> OfProject(results, p),
   previews |-> OfProject(previews, p)]

\* What _product_scope demands of a project that has a current state: the state is a record,
\* all states come from one preview, which is the only one confirmed and still there.
Reconciles(p) ==
  /\ pointer[p] \in OfProject(states, p)
  /\ TombstonesOf(p) = {}
  /\ \E w \in OfProject(previews, p) :
       /\ \A g \in OfProject(states, p) : PreviewOf(g) = w
       /\ \E x \in ConfirmationsOf(p) : ConfirmationsOf(p) = {x} /\ x.preview = w

\* _assert_deleted_product_scope and _product_scope: nothing of the project is left but t.
OnlyTombstone(p, t) ==
  /\ pointer[p] = None
  /\ ConfirmationsOf(p) = {}
  /\ OfProject(states, p) = {}
  /\ OfProject(results, p) = {}
  /\ TombstonesOf(p) = {t}

\* _write_pending_deletion, once the scope is known to be current: the project's rows are
\* replaced by its pending tombstone.
ReplaceScope(p, t) ==
  /\ states' = {g \in states : g.project # p}
  /\ results' = {r \in results : r.project # p}
  /\ previews' = {w \in previews : w.project # p}
  /\ confirmations' = {x \in confirmations : x.preview.project # p}
  /\ pointer' = [pointer EXCEPT ![p] = None]
  /\ tombstones' = tombstones \cup {t}
=============================================================================
