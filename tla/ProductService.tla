--------------------------- MODULE ProductService ---------------------------
(***************************************************************************)
(* The calls of src/src/aletheia_lab/product/service.py that change state  *)
(* (preview, confirm, refresh, persist a result, delete) interleaved over  *)
(* one product store, each cut at every point where it lets go of the      *)
(* SQLite write lock or touches the object files.                          *)
(*                                                                         *)
(* A call may stop at any of those points: its process dies, a check on    *)
(* the source tree, the mapping or the lease refuses, or an I/O error is   *)
(* raised.  What it has committed or published stays.  The user may edit a *)
(* source tree at any moment, so an inspection may find any version.       *)
(*                                                                         *)
(* The dashboard's server makes one call at a time; OneAtATime is that     *)
(* deployment.  Without it, several processes share the store.             *)
(***************************************************************************)
EXTENDS ProductLifecycle

CONSTANT OneAtATime

ASSUME ServiceAssumption == OneAtATime \in BOOLEAN

VARIABLES
  pc,    \* where each call is
  local  \* what each call holds in its local variables

callVars == <<pc, local>>
vars == <<storeVars, lifecycleVars, callVars>>

Confirming == {"confirm_inspecting", "confirm_publishing", "confirm_committing",
               "confirm_verifying"}
Refreshing == {"refresh_inspecting", "refresh_publishing", "refresh_committing",
               "refresh_verifying"}
Deleting == {"planning", "purging", "purge_verifying", "reconciling", "finishing", "completing"}
Running == Confirming \cup Refreshing \cup Deleting \cup {"answering"}

\* A call's local variables.
Locals ==
  [target : Generations \cup {None},    \* the generation it makes, or answers or deletes from
   base : Generations \cup {None},      \* the state a refresh started from
   todo : SUBSET Digests,               \* objects it has still to publish
   plan : [records : SUBSET Generations, purge : SUBSET Digests, retained : SUBSET Digests],
   scope : [states : SUBSET Generations, results : SUBSET Results, previews : SUBSET Previews],
   tombstone : Tombstones \cup {None},  \* the deletion record a deletion works on
   kept : Nat]                          \* listed digests it found indexed again

NoLocals ==
  [target |-> None, base |-> None, todo |-> {},
   plan |-> [records |-> {}, purge |-> {}, retained |-> {}],
   scope |-> [states |-> {}, results |-> {}, previews |-> {}],
   tombstone |-> None, kept |-> 0]

TypeOK ==
  /\ StoreTypeOK
  /\ LifecycleTypeOK
  /\ pc \in [Calls -> Running \cup {"idle", "ended"}]
  /\ local \in [Calls -> Locals]

Init ==
  /\ StoreInit
  /\ LifecycleInit
  /\ pc = [c \in Calls |-> "idle"]
  /\ local = [c \in Calls |-> NoLocals]

\* The server takes the next request when the previous one has been answered.
ServerFree == OneAtATime => \A c \in Calls : pc[c] \in {"idle", "ended"}

Begin(c) == pc[c] = "idle" /\ ServerFree

\* A call goes on with the local variables l, or returns or raises and has none.
GoTo(c, where, l) ==
  /\ pc' = [pc EXCEPT ![c] = where]
  /\ local' = [local EXCEPT ![c] = l]
End(c) == GoTo(c, "ended", NoLocals)

\* The step of a call that goes on only if ok, and raises otherwise.
Check(c, ok, where, l) == IF ok THEN GoTo(c, where, l) ELSE End(c)

\* A call stops: its process dies, or it raises for a reason outside this model.
Abandon(c) ==
  /\ pc[c] \in Running
  /\ End(c)
  /\ UNCHANGED <<storeVars, lifecycleVars>>

----------------------------------------------------------------------------
\* preview_import

\* put_preview, one transaction: the preview is written and its lease renewed.
Preview(p, v) ==
  /\ ServerFree
  /\ Active(p)
  /\ previews' = previews \cup {[project |-> p, version |-> v]}
  /\ UNCHANGED <<storeVars, states, results, pointer, confirmations, tombstones, callVars>>

----------------------------------------------------------------------------
\* confirm_import

\* _confirmation_input: a preview that has not been confirmed (a confirmed one is only
\* answered again), and the capture it leads to.
ConfirmBegin(c, w) ==
  /\ Begin(c)
  /\ w \in previews
  /\ \A x \in confirmations : x.preview # w
  /\ GoTo(c, "confirm_inspecting", [NoLocals EXCEPT !.target =
       [project |-> w.project, version |-> w.version, stamp |-> c, previous |-> None,
        preview |-> w.version]])
  /\ UNCHANGED <<storeVars, lifecycleVars>>

\* The source still is what was previewed: open the store and list what is to be published.
OpenToPersist(c) ==
  LET l == [local[c] EXCEPT !.todo = ObjectsOf(local[c].target)] IN
  /\ \/ pc[c] = "confirm_inspecting" /\ Check(c, Sound, "confirm_publishing", l)
     \/ pc[c] = "refresh_inspecting" /\ Check(c, Sound, "refresh_publishing", l)
  /\ UNCHANGED <<storeVars, lifecycleVars>>

\* persist publishes one object file after the other, in no transaction.
PublishObject(c, d) ==
  LET l == [local[c] EXCEPT !.todo = @ \ {d}] IN
  /\ d \in local[c].todo
  /\ \/ /\ pc[c] = "confirm_publishing"
        /\ GoTo(c, IF l.todo = {} THEN "confirm_committing" ELSE pc[c], l)
     \/ /\ pc[c] = "refresh_publishing"
        /\ GoTo(c, IF l.todo = {} THEN "refresh_committing" ELSE pc[c], l)
  /\ WriteObject(d)
  /\ UNCHANGED lifecycleVars

\* The transaction of a confirmation; a refusal rolls all of it back.
ConfirmCommit(c) ==
  LET g == local[c].target IN
  /\ pc[c] = "confirm_committing"
  /\ Check(c, MayConfirm(g), "confirm_verifying", NoLocals)
  /\ IF MayConfirm(g)
       THEN /\ IndexGeneration(g)
            /\ PutCurrentState(g)
            /\ confirmations' = confirmations \cup {[preview |-> PreviewOf(g), state |-> g]}
       ELSE UNCHANGED <<storeVars, lifecycleVars>>

----------------------------------------------------------------------------
\* refresh

\* refresh_product_project: read the current state, open the store, and find that the source
\* is not at the recorded version any more (nothing is done when it is).
RefreshBegin(c, p, v) ==
  /\ Begin(c)
  /\ pointer[p] # None
  /\ v # pointer[p].version
  /\ Check(c, Sound, "refresh_inspecting", [NoLocals EXCEPT
       !.base = pointer[p],
       !.target = [project |-> p, version |-> v, stamp |-> c, previous |-> pointer[p].stamp,
                   preview |-> pointer[p].preview]])
  /\ UNCHANGED <<storeVars, lifecycleVars>>

\* The transaction of a refresh; a refusal rolls all of it back.
RefreshCommit(c) ==
  LET g == local[c].target
      ok == MayRefresh(g, local[c].base) IN
  /\ pc[c] = "refresh_committing"
  /\ Check(c, ok, "refresh_verifying", NoLocals)
  /\ IF ok THEN IndexGeneration(g) /\ PutCurrentState(g) /\ UNCHANGED confirmations
           ELSE UNCHANGED <<storeVars, lifecycleVars>>

\* persist ends with verify_integrity; the generation stays committed when that raises.
VerifyCommit(c) ==
  /\ pc[c] \in {"confirm_verifying", "refresh_verifying"}
  /\ End(c)
  /\ UNCHANGED <<storeVars, lifecycleVars>>

----------------------------------------------------------------------------
\* analyze and follow_up

\* A question is answered from a stored state of the project.
AnswerBegin(c, g) ==
  /\ Begin(c)
  /\ g \in states
  /\ Check(c, Sound, "answering", [NoLocals EXCEPT !.target = g])
  /\ UNCHANGED <<storeVars, lifecycleVars>>

\* Mutant: the deletion record is looked for before the transaction, not inside it.
PutResultUnguarded(c) ==
  /\ pc[c] = "answering"
  /\ results' = results \cup {[project |-> local[c].target.project, stamp |-> c]}
  /\ End(c)
  /\ UNCHANGED <<storeVars, previews, states, pointer, confirmations, tombstones>>

\* ProductLifecycleStore.put, one transaction: the result is stored unless the project is gone.
PutResult(c) ==
  LET p == local[c].target.project IN
  /\ pc[c] = "answering"
  /\ results' = IF Active(p) THEN results \cup {[project |-> p, stamp |-> c]} ELSE results
  /\ End(c)
  /\ UNCHANGED <<storeVars, previews, states, pointer, confirmations, tombstones>>

----------------------------------------------------------------------------
\* delete_project

\* _load_or_begin_deletion, the reads: resume from the project's deletion record, or collect
\* the scope of a project that has none.
DeleteBegin(c, p) ==
  /\ Begin(c)
  /\ \/ \E t \in TombstonesOf(p) :
          Check(c, TombstonesOf(p) = {t} /\ (t.status = "deleted" => OnlyTombstone(p, t)),
                "reconciling", [NoLocals EXCEPT !.tombstone = t])
     \/ /\ TombstonesOf(p) = {}
        /\ pointer[p] # None
        /\ Check(c, Reconciles(p), "planning",
                 [NoLocals EXCEPT !.target = pointer[p], !.scope = Scope(p)])
  /\ UNCHANGED <<storeVars, lifecycleVars>>

\* plan_project_purge: open, verify and plan.
PlanPurge(c) ==
  LET p == local[c].target.project IN
  /\ pc[c] = "planning"
  /\ Check(c, Sound /\ RecordsOf(p) # {}, "purging", [local[c] EXCEPT !.plan = PurgePlan(p)])
  /\ UNCHANGED <<storeVars, lifecycleVars>>

\* _pending_record.
PendingTombstone(l) ==
  [project |-> l.target.project, status |-> "pending", purge |-> l.plan.purge,
   retained |-> Cardinality(l.plan.retained)]

\* commit_project_purge and _write_pending_deletion find what the plan and the scope say.
PlanIsCurrent(l) ==
  LET p == l.target.project IN
  /\ PurgePlan(p) = l.plan
  /\ Sound
  /\ Reconciles(p)
  /\ Scope(p) = l.scope

\* The transaction of commit_project_purge: P3 records and unshared index rows go, and the
\* product rows are replaced by the pending tombstone.
CommitPurge(c) ==
  LET l == local[c]
      t == PendingTombstone(l) IN
  /\ pc[c] = "purging"
  /\ Check(c, PlanIsCurrent(l), "purge_verifying", [NoLocals EXCEPT !.tombstone = t])
  /\ IF PlanIsCurrent(l) THEN DeletePurged(l.plan) /\ ReplaceScope(t.project, t)
                         ELSE UNCHANGED <<storeVars, lifecycleVars>>

\* commit_project_purge ends with verify_integrity.
VerifyPurge(c) ==
  /\ pc[c] = "purge_verifying"
  /\ Check(c, Sound, "reconciling", local[c])
  /\ UNCHANGED <<storeVars, lifecycleVars>>

\* Mutant: a deletion that finds its project gone from the store leaves the files.
SkipUnlink(c) ==
  LET t == local[c].tombstone IN
  /\ pc[c] = "reconciling"
  /\ Check(c, Sound /\ t.status # "deleted", "finishing", local[c])
  /\ UNCHANGED <<storeVars, lifecycleVars>>

\* _reconcile_purged_objects: under the write lock, unlink what the tombstone lists and no
\* index row claims; a deletion that was complete already has nothing left to do.
ReconcileFiles(c) ==
  LET t  == local[c].tombstone
      ok == Sound /\ RecordsOf(t.project) = {} IN
  /\ pc[c] = "reconciling"
  /\ Check(c, ok /\ t.status # "deleted", "finishing",
           [local[c] EXCEPT !.kept = Cardinality(t.purge \cap objects)])
  /\ IF ok THEN UnlinkUnindexed(t.purge) ELSE UNCHANGED storeVars
  /\ UNCHANGED lifecycleVars

\* The process dies while it unlinks: SQLite drops the transaction, some files are gone.
DieUnlinking(c) ==
  LET t == local[c].tombstone IN
  /\ pc[c] = "reconciling"
  /\ Sound
  /\ RecordsOf(t.project) = {}
  /\ \E gone \in SUBSET (t.purge \ objects) : UnlinkUnindexed(gone)
  /\ End(c)
  /\ UNCHANGED lifecycleVars

\* The reads before a deletion is completed: nothing but the pending tombstone is left.  The
\* last of them is the SELECT of _complete_deletion, which no transaction covers yet.
FinishCheck(c) ==
  LET t == local[c].tombstone IN
  /\ pc[c] = "finishing"
  /\ Check(c, OnlyTombstone(t.project, t), "completing", local[c])
  /\ UNCHANGED <<storeVars, lifecycleVars>>

\* Mutant: the completed tombstone is inserted, and the pending one is not removed.
KeepPending(c) ==
  LET t == local[c].tombstone IN
  /\ pc[c] = "completing"
  /\ tombstones' = tombstones \cup
                     {[t EXCEPT !.status = "deleted", !.retained = @ + local[c].kept]}
  /\ End(c)
  /\ UNCHANGED <<storeVars, previews, states, results, pointer, confirmations>>

\* The writes of _complete_deletion: the completed tombstone replaces the pending one.
CompleteDeletion(c) ==
  LET t == local[c].tombstone IN
  /\ pc[c] = "completing"
  /\ tombstones' = (tombstones \ {t}) \cup
                     {[t EXCEPT !.status = "deleted", !.retained = @ + local[c].kept]}
  /\ End(c)
  /\ UNCHANGED <<storeVars, previews, states, results, pointer, confirmations>>

----------------------------------------------------------------------------

Next ==
  \/ \E p \in Projects, v \in Versions : Preview(p, v)
  \/ \E c \in Calls :
       \/ \E w \in Previews : ConfirmBegin(c, w)
       \/ \E p \in Projects, v \in Versions : RefreshBegin(c, p, v)
       \/ \E p \in Projects : DeleteBegin(c, p)
       \/ \E g \in states : AnswerBegin(c, g)
       \/ \E d \in local[c].todo : PublishObject(c, d)
       \/ OpenToPersist(c) \/ ConfirmCommit(c) \/ RefreshCommit(c) \/ VerifyCommit(c)
       \/ PutResult(c)
       \/ PlanPurge(c) \/ CommitPurge(c) \/ VerifyPurge(c) \/ ReconcileFiles(c)
       \/ DieUnlinking(c) \/ FinishCheck(c) \/ CompleteDeletion(c)
       \/ Abandon(c)

Spec == Init /\ [][Next]_vars

----------------------------------------------------------------------------

\* "preventing a stale confirmation, refresh, result, or follow-up from resurrecting the
\* scope": once a project has a deletion record, no row of it is left in either store.
NoResurrection ==
  \A p \in Projects : TombstonesOf(p) # {} =>
    /\ RecordsOf(p) = {}
    /\ pointer[p] = None
    /\ OfProject(previews, p) = {} /\ OfProject(states, p) = {} /\ OfProject(results, p) = {}
    /\ ConfirmationsOf(p) = {}

\* "Only the difference is removed": however confirmations, refreshes and purges interleave,
\* the object index lists what the surviving generations refer to, no more and no less.
IndexMatchesRecords == objects = References(records)

\* A project that has a current state can be deleted: the checks of _product_scope on its
\* states, its confirmation and its preview never fail, and its P3 records are its states.
ScopeReconciles ==
  \A p \in Projects : pointer[p] # None => Reconciles(p) /\ RecordsOf(p) = OfProject(states, p)

\* "A concurrent refresh cannot overwrite a newer pointer": the states of a project form one
\* line, each refreshed from a different one, and the pointer is at its end.
LinearHistory ==
  /\ \A g, h \in states :
       g.project = h.project /\ g # h => g.previous # h.previous /\ g.stamp # h.stamp
  /\ \A g \in states : g.previous # pointer[g.project].stamp
  /\ \A g \in states : g.previous = None \/ \E h \in states :
                         h.project = g.project /\ h.stamp = g.previous

\* "other projects and shared objects remain fully loadable", "Reopening the store validates
\* all indexed objects before use": what the index lists is on disk, so the store opens.
IndexedObjectsOnDisk == Sound

\* "A completed tombstone replaces the pending one": a project has one deletion record.
OneTombstone == \A t, u \in tombstones : t.project = u.project => t = u

\* "A completed tombstone replaces the pending one only after all removable files are absent":
\* when a deletion completes, of the files it lists only those in use again are left.
CompletedWhenAbsent ==
  [][\A t \in tombstones' \ tombstones :
       t.status = "deleted" => files \cap t.purge \subseteq objects]_vars

\* The life of a project, whatever the calls do: see ProjectLife.
Phase(p) ==
  IF \E t \in TombstonesOf(p) : t.status = "deleted" THEN "deleted"
  ELSE IF TombstonesOf(p) # {} THEN "deleting"
  ELSE IF pointer[p] # None THEN "active" ELSE "absent"

\* The capture a project shows, and those it showed before.
Shown(p) == IF pointer[p] = None THEN None ELSE pointer[p].stamp
ShownBefore(p) == {g.stamp : g \in OfProject(states, p) \ {pointer[p]}}

Life == INSTANCE ProjectLife WITH
  Captures   <- Calls,
  phase      <- [p \in Projects |-> Phase(p)],
  current    <- [p \in Projects |-> Shown(p)],
  superseded <- [p \in Projects |-> ShownBefore(p)]

\* The refinement as a property of the runs.
ImplementsProjectLife == Life!Spec
=============================================================================
