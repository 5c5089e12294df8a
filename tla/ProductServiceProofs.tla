------------------------ MODULE ProductServiceProofs ------------------------
(***************************************************************************)
(* Proofs about the product service, for any number of calls, projects,    *)
(* versions and files, and whether or not the calls overlap: a deletion is *)
(* final, the object index lists what the records refer to, a project that *)
(* can be shown can be deleted, its states form one line, and the service  *)
(* implements the abstract life of a project.  When the calls do not       *)
(* overlap, what is indexed is on disk, too, a project has one deletion    *)
(* record, and a completed one is true.                                    *)
(*                                                                         *)
(* A call holds what it read long before it commits.  The invariant says   *)
(* what is still true of it: the capture it makes is nobody's yet, the     *)
(* preview it confirms is there or its project has a deletion record, and  *)
(* the project whose deletion it resumes has one for ever.  The rest is    *)
(* the transactions' work, which look again at what may have changed.      *)
(***************************************************************************)
EXTENDS ProductService, FiniteSetTheorems, TLAPS

\* Before the transaction of a confirmation, and of a refresh.
Importing == {"confirm_inspecting", "confirm_publishing", "confirm_committing"}
Renewing == {"refresh_inspecting", "refresh_publishing", "refresh_committing"}
\* With a deletion record in hand.
Resuming == {"purge_verifying", "reconciling", "finishing", "completing"}

\* The object index is finite, and all of it is there for a record.
IndexInv ==
  /\ IsFiniteSet(objects)
  /\ IndexMatchesRecords

\* A project without a pointer has no states and no confirmation, one with a pointer can be
\* deleted, and one with a deletion record has nothing else.
ProjectInv(p) ==
  /\ pointer[p] = None => OfProject(states, p) = {} /\ ConfirmationsOf(p) = {}
  /\ pointer[p] # None => Reconciles(p)
  /\ TombstonesOf(p) # {} =>
       pointer[p] = None /\ OfProject(previews, p) = {} /\ OfProject(results, p) = {}

\* The two stores agree, and so do the product tables.
RowsInv ==
  /\ records = states
  /\ \A x \in confirmations : x.preview = PreviewOf(x.state)
  /\ \A p \in Projects : ProjectInv(p)

\* A project's states form one line that ends at the pointer.
LineInv ==
  /\ \A g, h \in states :
       g.project = h.project /\ g # h => g.previous # h.previous /\ g.stamp # h.stamp
  /\ \A g \in states : g.previous # pointer[g.project].stamp
  /\ \A g \in states : g.previous = None \/ \E h \in states :
                         h.project = g.project /\ h.stamp = g.previous

\* Nobody's capture bears the name of a call that has not committed.
Fresh(c) == \A g \in states : g.stamp # c

\* What a confirmation is about to commit.
ImportOK(c) ==
  LET g == local[c].target IN
  /\ g \in Generations
  /\ g.stamp = c
  /\ g.previous = None
  /\ PreviewOf(g) \in previews \/ TombstonesOf(g.project) # {}

\* What a refresh is about to commit.
RenewalOK(c) ==
  LET g == local[c].target
      b == local[c].base IN
  /\ g \in Generations
  /\ b \in Generations
  /\ g.stamp = c
  /\ g.project = b.project
  /\ g.previous = b.stamp
  /\ g.preview = b.preview

CallOK(c) ==
  /\ pc[c] \in {"idle"} \cup Importing \cup Renewing => Fresh(c)
  /\ pc[c] \in Importing => ImportOK(c)
  /\ pc[c] \in Renewing => RenewalOK(c)
  /\ pc[c] \in {"answering", "planning", "purging"} => local[c].target \in Generations
  /\ pc[c] \in Resuming =>
       local[c].tombstone \in Tombstones /\ TombstonesOf(local[c].tombstone.project) # {}

CallsInv == \A c \in Calls : CallOK(c)

\* The inductive invariant.
IInv == TypeOK /\ IndexInv /\ RowsInv /\ LineInv /\ CallsInv

----------------------------------------------------------------------------
\* Types

LEMMA NoLocalsType == NoLocals \in Locals
  BY DEF NoLocals, Locals, Generations

LEMMA ObjectsType ==
  ASSUME NEW g \in Generations
  PROVE  ObjectsOf(g) \in SUBSET Digests
  <1>1. g.project \in Projects /\ g.version \in Versions
    BY DEF Generations
  <1>2. Contents[g.project][g.version] \in SUBSET Artifacts
    BY <1>1, StoreAssumption
  <1>. QED BY <1>2 DEF ObjectsOf, Digests

LEMMA ReferencesType ==
  ASSUME NEW R \in SUBSET Generations
  PROVE  References(R) \in SUBSET Digests
  BY StoreAssumption DEF References, ObjectsOf, Digests, Generations

\* A call's new position and local variables have their types.
LEMMA GoToType ==
  ASSUME TypeOK, NEW c \in Calls, NEW where \in Running \cup {"idle", "ended"},
         NEW l \in Locals, GoTo(c, where, l)
  PROVE  /\ pc' \in [Calls -> Running \cup {"idle", "ended"}]
         /\ local' \in [Calls -> Locals]
         /\ pc'[c] = where
         /\ local'[c] = l
         /\ \A d \in Calls : d # c => pc'[d] = pc[d] /\ local'[d] = local[d]
  BY DEF TypeOK, GoTo

LEMMA CheckType ==
  ASSUME TypeOK, NEW c \in Calls, NEW ok, NEW where \in Running,
         NEW l, ok => l \in Locals, Check(c, ok, where, l)
  PROVE  /\ pc' \in [Calls -> Running \cup {"idle", "ended"}]
         /\ local' \in [Calls -> Locals]
         /\ \/ ok /\ pc'[c] = where /\ local'[c] = l
            \/ ~ok /\ pc'[c] = "ended" /\ local'[c] = NoLocals
         /\ \A d \in Calls : d # c => pc'[d] = pc[d] /\ local'[d] = local[d]
  BY GoToType, NoLocalsType DEF Check, End

\* The records a call builds from its local variables are local variables again.
LEMMA UpdateType ==
  ASSUME NEW l \in Locals
  PROVE  /\ \A g \in Generations : [l EXCEPT !.target = g] \in Locals
         /\ \A g, b \in Generations : [l EXCEPT !.base = b, !.target = g] \in Locals
         /\ \A t \in Tombstones : [l EXCEPT !.tombstone = t] \in Locals
         /\ \A D \in SUBSET Digests : [l EXCEPT !.todo = D] \in Locals
         /\ \A n \in Nat : [l EXCEPT !.kept = n] \in Locals
         /\ \A x \in [records : SUBSET Generations, purge : SUBSET Digests,
                     retained : SUBSET Digests] : [l EXCEPT !.plan = x] \in Locals
  BY DEF Locals

LEMMA CompletedType ==
  ASSUME NEW t \in Tombstones, NEW n \in Nat
  PROVE  [t EXCEPT !.status = "deleted", !.retained = @ + n] \in Tombstones
  <1>1. t.retained + n \in Nat
    BY DEF Tombstones
  <1>2. [t EXCEPT !.status = "deleted"] \in Tombstones
    BY DEF Tombstones
  <1>. QED BY <1>1, <1>2 DEF Tombstones

LEMMA PlanType ==
  ASSUME TypeOK, IndexInv, NEW p
  PROVE  /\ PurgePlan(p) \in
              [records : SUBSET Generations, purge : SUBSET Digests, retained : SUBSET Digests]
         /\ Cardinality(PurgePlan(p).retained) \in Nat
  <1>1. records \in SUBSET Generations /\ RecordsOf(p) \in SUBSET records
    BY DEF TypeOK, StoreTypeOK, RecordsOf
  <1>2. References(RecordsOf(p)) \in SUBSET Digests
    BY <1>1, ReferencesType
  <1>3. References(RecordsOf(p)) \subseteq objects
    BY <1>1 DEF IndexInv, IndexMatchesRecords, References
  <1>4. IsFiniteSet(PurgePlan(p).retained)
    BY <1>3, FS_Subset DEF IndexInv, PurgePlan
  <1>5. Cardinality(PurgePlan(p).retained) \in Nat
    BY <1>4, FS_CardinalityType
  <1>. QED BY <1>1, <1>2, <1>5 DEF PurgePlan

LEMMA ScopeType ==
  ASSUME TypeOK, NEW p
  PROVE  Scope(p) \in [states : SUBSET Generations, results : SUBSET Results,
                       previews : SUBSET Previews]
  BY DEF TypeOK, LifecycleTypeOK, Scope, OfProject

LEMMA InitIInv == Init => IInv
  <1> SUFFICES ASSUME Init PROVE IInv
    OBVIOUS
  <1> USE DEF Init, StoreInit, LifecycleInit
  <1>1. TypeOK
    BY NoLocalsType DEF TypeOK, StoreTypeOK, LifecycleTypeOK
  <1>2. IndexInv
    BY FS_EmptySet DEF IndexInv, IndexMatchesRecords, References
  <1>3. RowsInv
    BY DEF RowsInv, ProjectInv, OfProject, ConfirmationsOf, TombstonesOf
  <1>4. LineInv
    BY DEF LineInv
  <1>5. CallsInv
    BY DEF CallsInv, CallOK, Fresh, Importing, Renewing, Resuming
  <1>. QED BY <1>1, <1>2, <1>3, <1>4, <1>5 DEF IInv

\* Steps that begin or go on with a call keep the types.
LEMMA BeginTypeOK ==
  ASSUME TypeOK, NEW c \in Calls,
         \/ \E w \in Previews : ConfirmBegin(c, w)
         \/ \E p \in Projects, v \in Versions : RefreshBegin(c, p, v)
         \/ \E p \in Projects : DeleteBegin(c, p)
         \/ \E g \in states : AnswerBegin(c, g)
  PROVE  TypeOK'
  <1> USE NoLocalsType, UpdateType
  <1>0. ASSUME UNCHANGED <<storeVars, lifecycleVars>>,
               pc' \in [Calls -> Running \cup {"idle", "ended"}], local' \in [Calls -> Locals]
        PROVE  TypeOK'
    BY <1>0 DEF TypeOK, StoreTypeOK, LifecycleTypeOK, storeVars, lifecycleVars
  <1>1. ASSUME NEW w \in Previews, ConfirmBegin(c, w) PROVE TypeOK'
    <2> DEFINE g == [project |-> w.project, version |-> w.version, stamp |-> c, previous |-> None,
                     preview |-> w.version]
    <2>1. g \in Generations
      BY DEF Generations, Previews
    <2>2. [NoLocals EXCEPT !.target = g] \in Locals
      BY <2>1
    <2>3. GoTo(c, "confirm_inspecting", [NoLocals EXCEPT !.target = g])
      BY <1>1 DEF ConfirmBegin
    <2>. QED BY <1>0, <1>1, <2>2, <2>3, GoToType DEF ConfirmBegin, Running, Confirming
  <1>2. ASSUME NEW p \in Projects, NEW v \in Versions, RefreshBegin(c, p, v) PROVE TypeOK'
    <2> DEFINE g == [project |-> p, version |-> v, stamp |-> c, previous |-> pointer[p].stamp,
                     preview |-> pointer[p].preview]
    <2>1. pointer[p] \in Generations
      BY <1>2 DEF RefreshBegin, TypeOK, LifecycleTypeOK
    <2>2. g \in Generations
      BY <2>1 DEF Generations
    <2>3. [NoLocals EXCEPT !.base = pointer[p], !.target = g] \in Locals
      BY <2>1, <2>2
    <2>4. Check(c, Sound, "refresh_inspecting", [NoLocals EXCEPT !.base = pointer[p], !.target = g])
      BY <1>2 DEF RefreshBegin
    <2>. QED BY <1>0, <1>2, <2>3, <2>4, CheckType DEF RefreshBegin, Running, Refreshing
  <1>3. ASSUME NEW p \in Projects, DeleteBegin(c, p) PROVE TypeOK'
    <2>1. ASSUME NEW t \in TombstonesOf(p),
                 Check(c, TombstonesOf(p) = {t} /\ (t.status = "deleted" => OnlyTombstone(p, t)),
                       "reconciling", [NoLocals EXCEPT !.tombstone = t])
          PROVE  TypeOK'
      <3>1. t \in Tombstones
        BY DEF TypeOK, LifecycleTypeOK, TombstonesOf, OfProject
      <3>2. [NoLocals EXCEPT !.tombstone = t] \in Locals
        BY <3>1
      <3>. QED BY <1>0, <1>3, <2>1, <3>2, CheckType DEF DeleteBegin, Running, Deleting
    <2>2. ASSUME pointer[p] # None,
                 Check(c, Reconciles(p), "planning",
                       [NoLocals EXCEPT !.target = pointer[p], !.scope = Scope(p)])
          PROVE  TypeOK'
      <3>1. pointer[p] \in Generations
        BY <2>2 DEF TypeOK, LifecycleTypeOK
      <3>2. [NoLocals EXCEPT !.target = pointer[p], !.scope = Scope(p)] \in Locals
        BY <3>1, ScopeType DEF Locals
      <3>. QED BY <1>0, <1>3, <2>2, <3>2, CheckType DEF DeleteBegin, Running, Deleting
    <2>. QED BY <1>3, <2>1, <2>2 DEF DeleteBegin
  <1>4. ASSUME NEW g \in states, AnswerBegin(c, g) PROVE TypeOK'
    <2>1. g \in Generations
      BY DEF TypeOK, LifecycleTypeOK
    <2>2. [NoLocals EXCEPT !.target = g] \in Locals
      BY <2>1
    <2>. QED BY <1>0, <1>4, <2>2, CheckType DEF AnswerBegin, Running
  <1>. QED BY <1>1, <1>2, <1>3, <1>4

\* So do the steps of a call that has begun.
LEMMA StepTypeOK ==
  ASSUME TypeOK, IndexInv, CallsInv, NEW c \in Calls,
         \/ \E d \in local[c].todo : PublishObject(c, d)
         \/ OpenToPersist(c) \/ ConfirmCommit(c) \/ RefreshCommit(c) \/ VerifyCommit(c)
         \/ PutResult(c)
         \/ PlanPurge(c) \/ CommitPurge(c) \/ VerifyPurge(c) \/ ReconcileFiles(c)
         \/ DieUnlinking(c) \/ FinishCheck(c) \/ CompleteDeletion(c)
         \/ Abandon(c)
  PROVE  TypeOK'
  <1> USE NoLocalsType, UpdateType
  <1> DEFINE CallsTyped == /\ pc' \in [Calls -> Running \cup {"idle", "ended"}]
                           /\ local' \in [Calls -> Locals]
  <1>0. local[c] \in Locals
    BY DEF TypeOK
  <1>a. ASSUME UNCHANGED <<storeVars, lifecycleVars>>, CallsTyped PROVE TypeOK'
    BY <1>a DEF TypeOK, StoreTypeOK, LifecycleTypeOK, storeVars, lifecycleVars
  <1>b. ASSUME UNCHANGED <<objects, records, lifecycleVars>>, files' \in SUBSET Digests, CallsTyped
        PROVE  TypeOK'
    BY <1>b DEF TypeOK, StoreTypeOK, LifecycleTypeOK, lifecycleVars
  <1>c. ASSUME End(c) PROVE CallsTyped
    BY <1>c, GoToType DEF End
  <1> HIDE DEF CallsTyped
  <1>1. ASSUME NEW d \in local[c].todo, PublishObject(c, d) PROVE TypeOK'
    <2> DEFINE l == [local[c] EXCEPT !.todo = @ \ {d}]
    <2>1. local[c].todo \in SUBSET Digests
      BY <1>0 DEF Locals
    <2>2. l \in Locals
      BY <1>0, <2>1
    <2>3. files' \in SUBSET Digests
      BY <1>1, <2>1 DEF PublishObject, WriteObject, TypeOK, StoreTypeOK
    <2>4. PICK where \in Running : GoTo(c, where, l)
      BY <1>1 DEF PublishObject, Running, Confirming, Refreshing
    <2>5. CallsTyped
      BY <2>2, <2>4, GoToType DEF CallsTyped
    <2>. QED BY <1>1, <1>b, <2>3, <2>5 DEF PublishObject, WriteObject
  <1>2. ASSUME OpenToPersist(c) PROVE TypeOK'
    <2> DEFINE l == [local[c] EXCEPT !.todo = ObjectsOf(local[c].target)]
    <2>1. ObjectsOf(local[c].target) \in SUBSET Digests
      BY <1>2, ObjectsType
      DEF OpenToPersist, CallsInv, CallOK, Importing, Renewing, ImportOK, RenewalOK
    <2>2. l \in Locals
      BY <1>0, <2>1
    <2>3. PICK where \in Running : Check(c, Sound, where, l)
      BY <1>2 DEF OpenToPersist, Running, Confirming, Refreshing
    <2>4. CallsTyped
      BY <2>2, <2>3, CheckType DEF CallsTyped
    <2>. QED BY <1>2, <1>a, <2>4 DEF OpenToPersist
  <1>3. ASSUME ConfirmCommit(c) PROVE TypeOK'
    <2> DEFINE g == local[c].target
    <2>1. g \in Generations /\ PreviewOf(g) \in Previews
      BY <1>3 DEF ConfirmCommit, CallsInv, CallOK, Importing, ImportOK, PreviewOf, Previews,
                  Generations
    <2>2. ObjectsOf(g) \in SUBSET Digests
      BY <2>1, ObjectsType
    <2>3. CallsTyped
      BY <1>3, CheckType DEF ConfirmCommit, CallsTyped, Running, Confirming
    <2>4. CASE MayConfirm(g)
      <3>1. [preview |-> PreviewOf(g), state |-> g] \in Confirmations
        BY <2>1 DEF Confirmations
      <3>2. confirmations' = confirmations \cup {[preview |-> PreviewOf(g), state |-> g]}
        BY <1>3, <2>4 DEF ConfirmCommit
      <3>3. confirmations' \in SUBSET Confirmations
        BY <3>1, <3>2 DEF TypeOK, LifecycleTypeOK
      <3>4. IndexGeneration(g) /\ PutCurrentState(g)
        BY <1>3, <2>4 DEF ConfirmCommit
      <3>. QED BY <2>1, <2>2, <2>3, <3>3, <3>4
           DEF IndexGeneration, PutCurrentState, TypeOK, StoreTypeOK, LifecycleTypeOK, CallsTyped
    <2>5. CASE ~MayConfirm(g)
      BY <1>3, <1>a, <2>3, <2>5 DEF ConfirmCommit
    <2>. QED BY <2>4, <2>5
  <1>4. ASSUME RefreshCommit(c) PROVE TypeOK'
    <2> DEFINE g == local[c].target
    <2>1. g \in Generations
      BY <1>4 DEF RefreshCommit, CallsInv, CallOK, Renewing, RenewalOK
    <2>2. ObjectsOf(g) \in SUBSET Digests
      BY <2>1, ObjectsType
    <2>3. CallsTyped
      BY <1>4, CheckType DEF RefreshCommit, CallsTyped, Running, Refreshing
    <2>4. CASE MayRefresh(g, local[c].base)
      BY <1>4, <2>1, <2>2, <2>3, <2>4
      DEF RefreshCommit, IndexGeneration, PutCurrentState, TypeOK, StoreTypeOK, LifecycleTypeOK,
          CallsTyped
    <2>5. CASE ~MayRefresh(g, local[c].base)
      BY <1>4, <1>a, <2>3, <2>5 DEF RefreshCommit
    <2>. QED BY <2>4, <2>5
  <1>5. ASSUME VerifyCommit(c) PROVE TypeOK'
    BY <1>5, <1>a, <1>c DEF VerifyCommit
  <1>6. ASSUME PutResult(c) PROVE TypeOK'
    <2>1. [project |-> local[c].target.project, stamp |-> c] \in Results
      BY <1>6 DEF PutResult, CallsInv, CallOK, Results, Generations
    <2>2. results' \in SUBSET Results
      BY <1>6, <2>1 DEF PutResult, TypeOK, LifecycleTypeOK
    <2>. QED BY <1>6, <1>c, <2>2
         DEF PutResult, TypeOK, StoreTypeOK, LifecycleTypeOK, storeVars, CallsTyped
  <1>7. ASSUME PlanPurge(c) PROVE TypeOK'
    <2> DEFINE l == [local[c] EXCEPT !.plan = PurgePlan(local[c].target.project)]
    <2>1. l \in Locals
      BY <1>0, PlanType
    <2>2. CallsTyped
      BY <1>7, <2>1, CheckType DEF PlanPurge, CallsTyped, Running, Deleting
    <2>. QED BY <1>7, <1>a, <2>2 DEF PlanPurge
  <1>8. ASSUME CommitPurge(c) PROVE TypeOK'
    <2> DEFINE t == PendingTombstone(local[c])
    <2>1. ASSUME PlanIsCurrent(local[c]) PROVE t \in Tombstones
      <3>1. local[c].plan = PurgePlan(local[c].target.project)
        BY <2>1 DEF PlanIsCurrent
      <3>2. local[c].target \in Generations
        BY <1>8 DEF CommitPurge, CallsInv, CallOK
      <3>3. Cardinality(local[c].plan.retained) \in Nat /\ local[c].plan.purge \in SUBSET Digests
        BY <3>1, PlanType
      <3>. QED BY <3>2, <3>3 DEF PendingTombstone, Tombstones, Generations
    <2>2. CallsTyped
      BY <1>8, <2>1, CheckType DEF CommitPurge, CallsTyped, Running, Deleting
    <2>3. CASE PlanIsCurrent(local[c])
      BY <1>8, <2>1, <2>2, <2>3
      DEF CommitPurge, DeletePurged, ReplaceScope, TypeOK, StoreTypeOK, LifecycleTypeOK, CallsTyped
    <2>4. CASE ~PlanIsCurrent(local[c])
      BY <1>8, <1>a, <2>2, <2>4 DEF CommitPurge
    <2>. QED BY <2>3, <2>4
  <1>9. ASSUME VerifyPurge(c) PROVE TypeOK'
    <2>1. CallsTyped
      BY <1>0, <1>9, CheckType DEF VerifyPurge, CallsTyped, Running, Deleting
    <2>. QED BY <1>9, <1>a, <2>1 DEF VerifyPurge
  <1>10. ASSUME ReconcileFiles(c) PROVE TypeOK'
    <2> DEFINE n == Cardinality(local[c].tombstone.purge \cap objects)
               l == [local[c] EXCEPT !.kept = n]
    <2>1. n \in Nat
      BY FS_Intersection, FS_CardinalityType DEF IndexInv
    <2>2. l \in Locals
      BY <1>0, <2>1
    <2>3. CallsTyped
      BY <1>10, <2>2, CheckType DEF ReconcileFiles, CallsTyped, Running, Deleting
    <2>4. files' \in SUBSET Digests /\ UNCHANGED <<objects, records>>
      BY <1>10 DEF ReconcileFiles, UnlinkUnindexed, storeVars, TypeOK, StoreTypeOK
    <2>. QED BY <1>10, <1>b, <2>3, <2>4 DEF ReconcileFiles
  <1>11. ASSUME DieUnlinking(c) PROVE TypeOK'
    <2>1. files' \in SUBSET Digests /\ UNCHANGED <<objects, records>>
      BY <1>11 DEF DieUnlinking, UnlinkUnindexed, TypeOK, StoreTypeOK
    <2>. QED BY <1>11, <1>b, <1>c, <2>1 DEF DieUnlinking
  <1>12. ASSUME FinishCheck(c) PROVE TypeOK'
    <2>1. CallsTyped
      BY <1>0, <1>12, CheckType DEF FinishCheck, CallsTyped, Running, Deleting
    <2>. QED BY <1>12, <1>a, <2>1 DEF FinishCheck
  <1>13. ASSUME CompleteDeletion(c) PROVE TypeOK'
    <2> DEFINE t == local[c].tombstone
    <2>1. t \in Tombstones /\ local[c].kept \in Nat
      BY <1>0, <1>13 DEF CompleteDeletion, CallsInv, CallOK, Resuming, Locals
    <2>2. [t EXCEPT !.status = "deleted", !.retained = @ + local[c].kept] \in Tombstones
      BY <2>1, CompletedType
    <2>3. tombstones' \in SUBSET Tombstones
      BY <1>13, <2>2 DEF CompleteDeletion, TypeOK, LifecycleTypeOK
    <2>. QED BY <1>13, <1>c, <2>3
         DEF CompleteDeletion, TypeOK, StoreTypeOK, LifecycleTypeOK, storeVars, CallsTyped
  <1>14. ASSUME Abandon(c) PROVE TypeOK'
    BY <1>14, <1>a, <1>c DEF Abandon
  <1>. QED BY <1>1, <1>2, <1>3, <1>4, <1>5, <1>6, <1>7, <1>8, <1>9, <1>10, <1>11, <1>12, <1>13, <1>14

----------------------------------------------------------------------------
\* What a step leaves true of the calls that do not make it

\* A step of call c.
StepOf(c) ==
  \/ \E w \in Previews : ConfirmBegin(c, w)
  \/ \E p \in Projects, v \in Versions : RefreshBegin(c, p, v)
  \/ \E p \in Projects : DeleteBegin(c, p)
  \/ \E g \in states : AnswerBegin(c, g)
  \/ \E d \in local[c].todo : PublishObject(c, d)
  \/ OpenToPersist(c) \/ ConfirmCommit(c) \/ RefreshCommit(c) \/ VerifyCommit(c)
  \/ PutResult(c)
  \/ PlanPurge(c) \/ CommitPurge(c) \/ VerifyPurge(c) \/ ReconcileFiles(c)
  \/ DieUnlinking(c) \/ FinishCheck(c) \/ CompleteDeletion(c)
  \/ Abandon(c)

LEMMA NextSteps ==
  Next <=> \/ \E p \in Projects, v \in Versions : Preview(p, v)
           \/ \E c \in Calls : StepOf(c)
  BY DEF Next, StepOf

\* Most steps change neither the records nor a product row.
Rows == <<objects, records, lifecycleVars>>

LEMMA RowsChange ==
  ASSUME NEW c \in Calls, StepOf(c)
  PROVE  \/ UNCHANGED Rows
         \/ ConfirmCommit(c) /\ MayConfirm(local[c].target)
         \/ RefreshCommit(c) /\ MayRefresh(local[c].target, local[c].base)
         \/ PutResult(c)
         \/ CommitPurge(c) /\ PlanIsCurrent(local[c])
         \/ CompleteDeletion(c)
  <1> USE DEF Rows, storeVars
  <1>1. CASE \E w \in Previews : ConfirmBegin(c, w)
    BY <1>1 DEF ConfirmBegin
  <1>2. CASE \E p \in Projects, v \in Versions : RefreshBegin(c, p, v)
    BY <1>2 DEF RefreshBegin
  <1>3. CASE \E p \in Projects : DeleteBegin(c, p)
    BY <1>3 DEF DeleteBegin
  <1>4. CASE \E g \in states : AnswerBegin(c, g)
    BY <1>4 DEF AnswerBegin
  <1>5. CASE \E d \in local[c].todo : PublishObject(c, d)
    BY <1>5 DEF PublishObject, WriteObject
  <1>6. CASE OpenToPersist(c) \/ VerifyCommit(c) \/ PlanPurge(c) \/ VerifyPurge(c) \/ FinishCheck(c)
             \/ Abandon(c)
    BY <1>6 DEF OpenToPersist, VerifyCommit, PlanPurge, VerifyPurge, FinishCheck, Abandon
  <1>7. CASE ReconcileFiles(c) \/ DieUnlinking(c)
    BY <1>7 DEF ReconcileFiles, DieUnlinking, UnlinkUnindexed
  <1>8. CASE ConfirmCommit(c)
    BY <1>8 DEF ConfirmCommit
  <1>9. CASE RefreshCommit(c)
    BY <1>9 DEF RefreshCommit
  <1>10. CASE CommitPurge(c)
    BY <1>10 DEF CommitPurge
  <1>. QED BY <1>1, <1>2, <1>3, <1>4, <1>5, <1>6, <1>7, <1>8, <1>9, <1>10 DEF StepOf

\* A deletion record is for ever, a preview goes only when its project gets one, and a new
\* state is the capture of the call that commits it.
LEMMA RowsStay ==
  ASSUME IInv, NEW c \in Calls, StepOf(c)
  PROVE  /\ \A p \in Projects : TombstonesOf(p) # {} => (TombstonesOf(p) # {})'
         /\ \A w \in previews : w \in previews' \/ (TombstonesOf(w.project) # {})'
         /\ \A g \in states' : g \in states \/ g.stamp = c
  <1> USE DEF TombstonesOf, OfProject
  <1>1. CASE UNCHANGED Rows
    BY <1>1 DEF Rows, lifecycleVars
  <1>2. CASE ConfirmCommit(c) /\ MayConfirm(local[c].target)
    <2>1. local[c].target.stamp = c
      BY <1>2 DEF IInv, CallsInv, CallOK, ImportOK, Importing, ConfirmCommit
    <2>. QED BY <1>2, <2>1 DEF ConfirmCommit, PutCurrentState
  <1>3. CASE RefreshCommit(c) /\ MayRefresh(local[c].target, local[c].base)
    <2>1. local[c].target.stamp = c
      BY <1>3 DEF IInv, CallsInv, CallOK, RenewalOK, Renewing, RefreshCommit
    <2>. QED BY <1>3, <2>1 DEF RefreshCommit, PutCurrentState
  <1>4. CASE PutResult(c)
    BY <1>4 DEF PutResult
  <1>5. CASE CommitPurge(c) /\ PlanIsCurrent(local[c])
    <2>1. PendingTombstone(local[c]).project = local[c].target.project
      BY DEF PendingTombstone
    <2>. QED BY <1>5, <2>1 DEF CommitPurge, ReplaceScope
  <1>6. CASE CompleteDeletion(c)
    <2> DEFINE t == local[c].tombstone
               u == [t EXCEPT !.status = "deleted", !.retained = @ + local[c].kept]
    <2>1. t \in Tombstones
      BY <1>6 DEF IInv, CallsInv, CallOK, Resuming, CompleteDeletion
    <2>2. u.project = t.project
      BY <2>1 DEF Tombstones
    <2>3. tombstones' = (tombstones \ {t}) \cup {u}
      BY <1>6 DEF CompleteDeletion
    <2> HIDE DEF u
    <2>. QED BY <1>6, <2>2, <2>3 DEF CompleteDeletion
  <1>. QED BY RowsChange, <1>1, <1>2, <1>3, <1>4, <1>5, <1>6

LEMMA CallKept ==
  ASSUME TypeOK, NEW c \in Calls, CallOK(c), pc'[c] = pc[c], local'[c] = local[c],
         \A p \in Projects : TombstonesOf(p) # {} => (TombstonesOf(p) # {})',
         \A w \in previews : w \in previews' \/ (TombstonesOf(w.project) # {})',
         \A g \in states' : g \in states \/ g.stamp # c
  PROVE  CallOK(c)'
  <1>1. (pc[c] \in {"idle"} \cup Importing \cup Renewing => Fresh(c))'
    BY DEF CallOK, Fresh
  <1>2. (pc[c] \in Importing => ImportOK(c))'
    <2> SUFFICES ASSUME pc[c] \in Importing PROVE ImportOK(c)'
      OBVIOUS
    <2>1. ImportOK(c) /\ local[c].target.project \in Projects
      BY DEF CallOK, ImportOK, Generations
    <2>. QED BY <2>1 DEF ImportOK, PreviewOf
  <1>3. (pc[c] \in Renewing => RenewalOK(c))'
    BY DEF CallOK, RenewalOK
  <1>4. (pc[c] \in {"answering", "planning", "purging"} => local[c].target \in Generations)'
    BY DEF CallOK
  <1>5. (pc[c] \in Resuming => local[c].tombstone \in Tombstones
                               /\ TombstonesOf(local[c].tombstone.project) # {})'
    <2> SUFFICES ASSUME pc[c] \in Resuming
                 PROVE  local[c].tombstone \in Tombstones
                        /\ (TombstonesOf(local[c].tombstone.project) # {})'
      OBVIOUS
    <2>1. local[c].tombstone.project \in Projects
      BY DEF CallOK, Tombstones
    <2>. QED BY <2>1 DEF CallOK, TombstonesOf
  <1>. QED BY <1>1, <1>2, <1>3, <1>4, <1>5 DEF CallOK

\* A call's own step leaves it with what the invariant says of its new position.
LEMMA OwnStep ==
  ASSUME IInv, TypeOK', NEW c \in Calls, StepOf(c)
  PROVE  CallOK(c)'
  <1> USE DEF IInv, Importing, Renewing, Resuming
  <1>0. local[c] \in Locals /\ local \in [Calls -> Locals] /\ CallOK(c)
        /\ pc \in [Calls -> Running \cup {"idle", "ended"}]
    BY DEF TypeOK, CallsInv
  <1>a. ASSUME pc'[c] \in {"ended", "confirm_verifying", "refresh_verifying"} PROVE CallOK(c)'
    BY <1>a DEF CallOK
  <1>b. ASSUME NEW ok, NEW where, NEW l, Check(c, ok, where, l)
        PROVE  \/ pc'[c] = "ended"
               \/ ok /\ pc'[c] = where /\ local'[c] = l
    <2>1. CASE ok
      BY <1>0, <1>b, <2>1 DEF Check, GoTo
    <2>2. CASE ~ok
      <3>1. GoTo(c, "ended", NoLocals)
        BY <1>b, <2>2 DEF Check, End
      <3>. QED BY <1>0, <3>1 DEF GoTo
    <2>. QED BY <2>1, <2>2
  <1>1. ASSUME NEW w \in Previews, ConfirmBegin(c, w) PROVE CallOK(c)'
    <2> DEFINE g == [project |-> w.project, version |-> w.version, stamp |-> c, previous |-> None,
                     preview |-> w.version]
    <2>1. g \in Generations /\ g.stamp = c /\ g.previous = None /\ PreviewOf(g) = w
      BY DEF Generations, Previews, PreviewOf
    <2> HIDE DEF g
    <2>2. GoTo(c, "confirm_inspecting", [NoLocals EXCEPT !.target = g]) /\ w \in previews
          /\ UNCHANGED <<previews, states>> /\ pc[c] = "idle"
      BY <1>1 DEF ConfirmBegin, Begin, lifecycleVars, g
    <2>3. pc'[c] = "confirm_inspecting" /\ local'[c].target = g
      BY <1>0, <2>2 DEF GoTo, NoLocals
    <2>4. Fresh(c)'
      BY <1>0, <2>2 DEF CallOK, Fresh
    <2>5. ImportOK(c)'
      BY <2>1, <2>2, <2>3 DEF ImportOK, PreviewOf
    <2>. QED BY <2>3, <2>4, <2>5 DEF CallOK
  <1>2. ASSUME NEW p \in Projects, NEW v \in Versions, RefreshBegin(c, p, v) PROVE CallOK(c)'
    <2> DEFINE g == [project |-> p, version |-> v, stamp |-> c, previous |-> pointer[p].stamp,
                     preview |-> pointer[p].preview]
    <2>1. pointer[p] \in Generations /\ pointer[p].project = p
      BY <1>2 DEF RefreshBegin, TypeOK, LifecycleTypeOK, RowsInv, ProjectInv, Reconciles,
                  OfProject
    <2>2. /\ g \in Generations
          /\ g.stamp = c /\ g.project = p /\ g.previous = pointer[p].stamp
          /\ g.preview = pointer[p].preview
      BY <2>1 DEF Generations
    <2> HIDE DEF g
    <2>3. /\ Check(c, Sound, "refresh_inspecting", [NoLocals EXCEPT !.base = pointer[p], !.target = g])
          /\ UNCHANGED states
          /\ pc[c] = "idle"
      BY <1>2 DEF RefreshBegin, Begin, lifecycleVars, g
    <2>4. CASE pc'[c] = "ended"
      BY <1>a, <2>4
    <2>5. CASE pc'[c] = "refresh_inspecting"
               /\ local'[c] = [NoLocals EXCEPT !.base = pointer[p], !.target = g]
      <3>1. local'[c].target = g /\ local'[c].base = pointer[p]
        BY <2>5 DEF NoLocals
      <3>2. Fresh(c)'
        BY <1>0, <2>3 DEF CallOK, Fresh
      <3>3. RenewalOK(c)'
        BY <2>1, <2>2, <3>1 DEF RenewalOK
      <3>. QED BY <2>5, <3>2, <3>3 DEF CallOK
    <2>. QED BY <1>b, <2>3, <2>4, <2>5
  <1>3. ASSUME NEW p \in Projects, DeleteBegin(c, p) PROVE CallOK(c)'
    <2>1. ASSUME NEW t \in TombstonesOf(p),
                 Check(c, TombstonesOf(p) = {t} /\ (t.status = "deleted" => OnlyTombstone(p, t)),
                       "reconciling", [NoLocals EXCEPT !.tombstone = t])
          PROVE  CallOK(c)'
      <3>1. t \in Tombstones /\ t.project = p /\ t \in TombstonesOf(t.project)
        BY DEF TypeOK, LifecycleTypeOK, TombstonesOf, OfProject
      <3>2. UNCHANGED tombstones
        BY <1>3 DEF DeleteBegin, lifecycleVars
      <3>3. CASE pc'[c] = "ended"
        BY <1>a, <3>3
      <3>4. CASE pc'[c] = "reconciling" /\ local'[c] = [NoLocals EXCEPT !.tombstone = t]
        <4>1. local'[c].tombstone = t
          BY <3>4 DEF NoLocals
        <4>. QED BY <3>1, <3>2, <3>4, <4>1 DEF CallOK, TombstonesOf
      <3>. QED BY <1>b, <2>1, <3>3, <3>4
    <2>2. ASSUME pointer[p] # None,
                 Check(c, Reconciles(p), "planning",
                       [NoLocals EXCEPT !.target = pointer[p], !.scope = Scope(p)])
          PROVE  CallOK(c)'
      <3>1. pointer[p] \in Generations
        BY <2>2 DEF TypeOK, LifecycleTypeOK
      <3>2. CASE pc'[c] = "ended"
        BY <1>a, <3>2
      <3>3. CASE pc'[c] = "planning"
                 /\ local'[c] = [NoLocals EXCEPT !.target = pointer[p], !.scope = Scope(p)]
        <4>1. local'[c].target = pointer[p]
          BY <3>3 DEF NoLocals
        <4>. QED BY <3>1, <3>3, <4>1 DEF CallOK
      <3>. QED BY <1>b, <2>2, <3>2, <3>3
    <2>. QED BY <1>3, <2>1, <2>2 DEF DeleteBegin
  <1>4. ASSUME NEW g \in states, AnswerBegin(c, g) PROVE CallOK(c)'
    <2>1. g \in Generations /\ Check(c, Sound, "answering", [NoLocals EXCEPT !.target = g])
      BY <1>4 DEF AnswerBegin, TypeOK, LifecycleTypeOK
    <2>2. CASE pc'[c] = "ended"
      BY <1>a, <2>2
    <2>3. CASE pc'[c] = "answering" /\ local'[c] = [NoLocals EXCEPT !.target = g]
      <3>1. local'[c].target = g
        BY <2>3 DEF NoLocals
      <3>. QED BY <2>1, <2>3, <3>1 DEF CallOK
    <2>. QED BY <1>b, <2>1, <2>2, <2>3
  <1>c. ASSUME NEW l \in Locals, local'[c] = l, l.target = local[c].target, l.base = local[c].base,
               UNCHANGED <<previews, states, tombstones>>,
               \/ pc[c] \in Importing /\ pc'[c] \in Importing
               \/ pc[c] \in Renewing /\ pc'[c] \in Renewing
        PROVE  CallOK(c)'
    BY <1>0, <1>c DEF CallOK, Fresh, ImportOK, RenewalOK, TombstonesOf, OfProject
  <1>5. ASSUME NEW d \in local[c].todo, PublishObject(c, d) PROVE CallOK(c)'
    <2> DEFINE l == [local[c] EXCEPT !.todo = @ \ {d}]
    <2>1. l.target = local[c].target /\ l.base = local[c].base
      BY <1>0 DEF Locals
    <2> HIDE DEF l
    <2>2. local'[c] = l /\ local'[c] \in Locals
      BY <1>0, <1>5 DEF PublishObject, GoTo, TypeOK, l
    <2>3. \/ pc[c] \in Importing /\ pc'[c] \in Importing
          \/ pc[c] \in Renewing /\ pc'[c] \in Renewing
      BY <1>0, <1>5 DEF PublishObject, GoTo
    <2>. QED BY <1>c, <1>5, <2>1, <2>2, <2>3 DEF PublishObject, lifecycleVars
  <1>6. ASSUME OpenToPersist(c) PROVE CallOK(c)'
    <2> DEFINE l == [local[c] EXCEPT !.todo = ObjectsOf(local[c].target)]
    <2>1. l.target = local[c].target /\ l.base = local[c].base
      BY <1>0 DEF Locals
    <2> HIDE DEF l
    <2>2. \/ pc[c] = "confirm_inspecting" /\ Check(c, Sound, "confirm_publishing", l)
          \/ pc[c] = "refresh_inspecting" /\ Check(c, Sound, "refresh_publishing", l)
      BY <1>6 DEF OpenToPersist, l
    <2>3. CASE pc'[c] = "ended"
      BY <1>a, <2>3
    <2>4. CASE local'[c] = l /\ \/ pc[c] \in Importing /\ pc'[c] \in Importing
                                \/ pc[c] \in Renewing /\ pc'[c] \in Renewing
      <3>1. local'[c] \in Locals
        BY DEF TypeOK
      <3>. QED BY <1>c, <1>6, <2>1, <2>4, <3>1 DEF OpenToPersist, lifecycleVars
    <2>. QED BY <1>b, <2>2, <2>3, <2>4
  <1>7. ASSUME ConfirmCommit(c) \/ RefreshCommit(c) PROVE CallOK(c)'
    <2>1. pc'[c] \in {"ended", "confirm_verifying", "refresh_verifying"}
      BY <1>7, <1>b DEF ConfirmCommit, RefreshCommit
    <2>. QED BY <1>a, <2>1
  <1>8. ASSUME VerifyCommit(c) \/ PutResult(c) \/ DieUnlinking(c) \/ CompleteDeletion(c) \/ Abandon(c)
        PROVE  CallOK(c)'
    <2>1. pc'[c] = "ended"
      BY <1>0, <1>8 DEF VerifyCommit, PutResult, DieUnlinking, CompleteDeletion, Abandon, End, GoTo
    <2>. QED BY <1>a, <2>1
  <1>9. ASSUME PlanPurge(c) PROVE CallOK(c)'
    <2> DEFINE l == [local[c] EXCEPT !.plan = PurgePlan(local[c].target.project)]
    <2>1. l.target = local[c].target
      BY <1>0 DEF Locals
    <2> HIDE DEF l
    <2>2. PICK ok \in BOOLEAN : Check(c, ok, "purging", l)
      BY <1>9 DEF PlanPurge, l
    <2>3. pc[c] = "planning"
      BY <1>9 DEF PlanPurge
    <2>4. CASE pc'[c] = "ended"
      BY <1>a, <2>4
    <2>5. CASE pc'[c] = "purging" /\ local'[c] = l
      BY <1>0, <2>1, <2>3, <2>5 DEF CallOK
    <2>. QED BY <1>b, <2>2, <2>4, <2>5
  <1>10. ASSUME CommitPurge(c) PROVE CallOK(c)'
    <2> DEFINE t == PendingTombstone(local[c])
    <2>1. Check(c, PlanIsCurrent(local[c]), "purge_verifying", [NoLocals EXCEPT !.tombstone = t])
      BY <1>10 DEF CommitPurge
    <2>2. CASE pc'[c] = "ended"
      BY <1>a, <2>2
    <2>3. CASE /\ PlanIsCurrent(local[c])
               /\ pc'[c] = "purge_verifying"
               /\ local'[c] = [NoLocals EXCEPT !.tombstone = t]
      <3>1. local'[c].tombstone = t
        BY <2>3 DEF NoLocals
      <3>2. tombstones' = tombstones \cup {t}
        BY <1>10, <2>3 DEF CommitPurge, ReplaceScope
      <3>3. t \in Tombstones
        BY <3>2 DEF TypeOK, LifecycleTypeOK
      <3> HIDE DEF t
      <3>. QED BY <2>3, <3>1, <3>2, <3>3 DEF CallOK, TombstonesOf, OfProject
    <2> HIDE DEF t
    <2>. QED BY <1>b, <2>1, <2>2, <2>3
  <1>11. ASSUME VerifyPurge(c) \/ ReconcileFiles(c) \/ FinishCheck(c) PROVE CallOK(c)'
    <2> DEFINE l == [local[c] EXCEPT !.kept = Cardinality(local[c].tombstone.purge \cap objects)]
    <2>1. l.tombstone = local[c].tombstone
      BY <1>0 DEF Locals
    <2> HIDE DEF l
    <2>2. \E ok \in BOOLEAN : \/ Check(c, ok, "reconciling", local[c])
                              \/ Check(c, ok, "finishing", l)
                              \/ Check(c, ok, "completing", local[c])
      BY <1>11 DEF VerifyPurge, ReconcileFiles, FinishCheck, l, Sound, RecordsOf, OnlyTombstone
    <2>3. pc[c] \in Resuming /\ UNCHANGED tombstones
      BY <1>11 DEF VerifyPurge, ReconcileFiles, FinishCheck, lifecycleVars
    <2>4. CASE pc'[c] = "ended"
      BY <1>a, <2>4
    <2>5. CASE pc'[c] \in {"reconciling", "finishing", "completing"}
               /\ local'[c].tombstone = local[c].tombstone
      BY <1>0, <2>3, <2>5 DEF CallOK, TombstonesOf, OfProject
    <2>. QED BY <1>b, <2>1, <2>2, <2>4, <2>5
  <1>. QED BY <1>1, <1>2, <1>3, <1>4, <1>5, <1>6, <1>7, <1>8, <1>9, <1>10, <1>11 DEF StepOf

LEMMA StepCallsInv ==
  ASSUME IInv, TypeOK', NEW c \in Calls, StepOf(c)
  PROVE  CallsInv'
  <1> SUFFICES ASSUME NEW d \in Calls PROVE CallOK(d)'
    BY DEF CallsInv
  <1>1. CASE d = c
    BY <1>1, OwnStep
  <1>2. CASE d # c
    <2>1. pc'[d] = pc[d] /\ local'[d] = local[d]
      <3> USE <1>2 DEF IInv, TypeOK, GoTo, End, Check
      <3>1. CASE \E l, where : GoTo(c, where, l)
        BY <3>1
      <3>. QED BY <3>1 DEF StepOf, ConfirmBegin, RefreshBegin, DeleteBegin, AnswerBegin, PublishObject,
                    OpenToPersist, ConfirmCommit, RefreshCommit, VerifyCommit, PutResult, PlanPurge,
                    CommitPurge, VerifyPurge, ReconcileFiles, DieUnlinking, FinishCheck,
                    CompleteDeletion, Abandon
    <2>. QED BY <1>2, <2>1, RowsStay, CallKept DEF IInv, CallsInv
  <1>. QED BY <1>1, <1>2

----------------------------------------------------------------------------
\* The object index

LEMMA IndexOfMore ==
  ASSUME NEW R, NEW g
  PROVE  References(R \cup {g}) = References(R) \cup ObjectsOf(g)
  BY DEF References

LEMMA ObjectsFinite ==
  ASSUME NEW g \in Generations
  PROVE  IsFiniteSet(ObjectsOf(g))
  <1>1. IsFiniteSet(Contents[g.project][g.version])
    BY StoreAssumption DEF Generations
  <1>2. IsFiniteSet({g})
    BY FS_Singleton
  <1>. QED BY <1>1, <1>2, FS_Union DEF ObjectsOf

LEMMA StepIndexInv ==
  ASSUME IInv, NEW c \in Calls, StepOf(c)
  PROVE  IndexInv'
  <1> USE DEF IInv
  <1>1. ASSUME UNCHANGED <<objects, records>> PROVE IndexInv'
    BY <1>1 DEF IndexInv, IndexMatchesRecords, References
  <1>2. ASSUME NEW g \in Generations, IndexGeneration(g) PROVE IndexInv'
    <2>1. objects' = objects \cup ObjectsOf(g) /\ records' = records \cup {g}
      BY <1>2 DEF IndexGeneration
    <2>2. IsFiniteSet(objects')
      BY <2>1, ObjectsFinite, FS_Union DEF IndexInv
    <2>3. objects' = References(records')
      BY <2>1, IndexOfMore DEF IndexInv, IndexMatchesRecords
    <2>. QED BY <2>2, <2>3 DEF IndexInv, IndexMatchesRecords, References
  <1>3. ASSUME ConfirmCommit(c), MayConfirm(local[c].target) PROVE IndexInv'
    <2>1. local[c].target \in Generations
      BY <1>3 DEF ConfirmCommit, CallsInv, CallOK, Importing, ImportOK
    <2>. QED BY <1>2, <1>3, <2>1 DEF ConfirmCommit
  <1>4. ASSUME RefreshCommit(c), MayRefresh(local[c].target, local[c].base) PROVE IndexInv'
    <2>1. local[c].target \in Generations
      BY <1>4 DEF RefreshCommit, CallsInv, CallOK, Renewing, RenewalOK
    <2>. QED BY <1>2, <1>4, <2>1 DEF RefreshCommit
  <1>5. ASSUME CommitPurge(c), PlanIsCurrent(local[c]) PROVE IndexInv'
    <2> DEFINE p == local[c].target.project
               mine == RecordsOf(p)
    <2>1. /\ records' = records \ mine
          /\ objects' = objects \ (References(mine) \ References(records \ mine))
      BY <1>5 DEF CommitPurge, PlanIsCurrent, DeletePurged, PurgePlan
    <2>2. References(records) = References(mine) \cup References(records \ mine)
      BY DEF References, RecordsOf
    <2>3. objects' = References(records')
      BY <2>1, <2>2 DEF IndexInv, IndexMatchesRecords
    <2>4. IsFiniteSet(objects')
      BY <2>1, FS_Subset DEF IndexInv
    <2>. QED BY <2>3, <2>4 DEF IndexInv, IndexMatchesRecords, References
  <1>. QED BY RowsChange, <1>1, <1>3, <1>4, <1>5
       DEF Rows, PutResult, CompleteDeletion, storeVars

----------------------------------------------------------------------------
\* The product rows

\* A project whose rows a step leaves alone.
SameProject(p) ==
  /\ pointer'[p] = pointer[p]
  /\ OfProject(states, p)' = OfProject(states, p)
  /\ OfProject(previews, p)' = OfProject(previews, p)
  /\ OfProject(results, p)' = OfProject(results, p)
  /\ ConfirmationsOf(p)' = ConfirmationsOf(p)
  /\ TombstonesOf(p)' = TombstonesOf(p)

LEMMA ProjectKept ==
  ASSUME NEW p \in Projects, ProjectInv(p), SameProject(p)
  PROVE  ProjectInv(p)'
  <1>1. Reconciles(p) => Reconciles(p)'
    BY DEF SameProject, Reconciles, PreviewOf
  <1>. QED BY <1>1 DEF SameProject, ProjectInv

LEMMA ConfirmRows ==
  ASSUME IInv, NEW c \in Calls, ConfirmCommit(c), MayConfirm(local[c].target)
  PROVE  RowsInv' /\ LineInv'
  <1>g. PICK g \in Generations : g = local[c].target
    BY DEF IInv, CallsInv, CallOK, Importing, ImportOK, ConfirmCommit
  <1> DEFINE p == g.project
             w == PreviewOf(g)
             x == [preview |-> w, state |-> g]
  <1>1. /\ g \in Generations /\ g.stamp = c /\ g.previous = None
        /\ p \in Projects
        /\ w \in previews /\ w.project = p
        /\ pointer[p] = None /\ TombstonesOf(p) = {}
        /\ Fresh(c)
    BY <1>g DEF IInv, CallsInv, CallOK, Importing, ImportOK, ConfirmCommit, MayConfirm, Active,
           Generations, PreviewOf
  <1>2. /\ records' = records \cup {g}
        /\ states' = states \cup {g}
        /\ pointer' = [pointer EXCEPT ![p] = g]
        /\ confirmations' = confirmations \cup {x}
        /\ UNCHANGED <<previews, results, tombstones>>
    BY <1>g DEF ConfirmCommit, IndexGeneration, PutCurrentState
  <1>3. /\ OfProject(states, p) = {}
        /\ ConfirmationsOf(p) = {}
    BY <1>1 DEF IInv, RowsInv, ProjectInv
  <1>4. None \notin Generations /\ None # c /\ pointer \in [Projects -> Generations \cup {None}]
    BY StoreAssumption DEF IInv, TypeOK, LifecycleTypeOK
  <1>5. x.preview = PreviewOf(x.state) /\ x.preview = w /\ x.state = g
    OBVIOUS
  <1>6. RowsInv'
    <2> HIDE DEF x, w
    <2>1. records' = states'
      BY <1>2 DEF IInv, RowsInv
    <2>2. (\A y \in confirmations : y.preview = PreviewOf(y.state))'
      BY <1>2, <1>5 DEF IInv, RowsInv, PreviewOf
    <2>3. ASSUME NEW q \in Projects, q # p PROVE SameProject(q)
      BY <1>1, <1>2, <1>4, <1>5, <2>3 DEF SameProject, OfProject, ConfirmationsOf, TombstonesOf
    <2>4. /\ pointer'[p] = g
          /\ OfProject(states, p)' = {g}
          /\ ConfirmationsOf(p)' = {x}
          /\ TombstonesOf(p)' = {}
          /\ w \in OfProject(previews, p)'
      <3>1. pointer'[p] = g
        BY <1>1, <1>2, <1>4
      <3>2. OfProject(states, p)' = OfProject(states, p) \cup {g}
        BY <1>2 DEF OfProject
      <3>3. ConfirmationsOf(p)' = ConfirmationsOf(p) \cup {x}
        BY <1>2, <1>5 DEF ConfirmationsOf
      <3>4. TombstonesOf(p)' = {} /\ w \in OfProject(previews, p)'
        BY <1>1, <1>2 DEF TombstonesOf, OfProject
      <3>. QED BY <1>3, <3>1, <3>2, <3>3, <3>4
    <2>5. Reconciles(p)'
      <3>1. PreviewOf(g) = w
        BY DEF w
      <3>. QED BY <1>5, <2>4, <3>1 DEF Reconciles, PreviewOf
    <2>6. ProjectInv(p)'
      BY <1>1, <1>4, <2>4, <2>5 DEF ProjectInv
    <2>7. ASSUME NEW q \in Projects PROVE ProjectInv(q)'
      BY <2>3, <2>6, <2>7, ProjectKept DEF IInv, RowsInv
    <2>. QED BY <2>1, <2>2, <2>7 DEF RowsInv
  <1>7. LineInv'
    <2>1. \A h \in states : h.project # p /\ h.project \in Projects
      BY <1>3 DEF OfProject, IInv, TypeOK, LifecycleTypeOK, Generations
    <2>2. \A h \in states : pointer'[h.project] = pointer[h.project]
      BY <1>2, <2>1, <1>4
    <2>3. pointer'[p] = g
      BY <1>1, <1>2, <1>4
    <2>. QED BY <1>1, <1>2, <1>4, <2>1, <2>2, <2>3 DEF IInv, LineInv
  <1>. QED BY <1>6, <1>7

LEMMA RefreshRows ==
  ASSUME IInv, NEW c \in Calls, RefreshCommit(c), MayRefresh(local[c].target, local[c].base)
  PROVE  RowsInv' /\ LineInv'
  <1>g. PICK g \in Generations, b \in Generations : g = local[c].target /\ b = local[c].base
    BY DEF IInv, CallsInv, CallOK, Renewing, RenewalOK, RefreshCommit
  <1> DEFINE p == g.project
  <1>1. /\ g \in Generations /\ b \in Generations
        /\ g.stamp = c /\ g.project = b.project /\ g.previous = b.stamp /\ g.preview = b.preview
        /\ p \in Projects
        /\ pointer[p] = b /\ TombstonesOf(p) = {}
        /\ Fresh(c)
    BY <1>g DEF IInv, CallsInv, CallOK, Renewing, RenewalOK, RefreshCommit, MayRefresh, Active,
           Generations
  <1>2. /\ records' = records \cup {g}
        /\ states' = states \cup {g}
        /\ pointer' = [pointer EXCEPT ![p] = g]
        /\ UNCHANGED <<previews, results, confirmations, tombstones>>
    BY <1>g DEF RefreshCommit, IndexGeneration, PutCurrentState
  <1>3. None \notin Generations /\ None # c /\ pointer \in [Projects -> Generations \cup {None}]
    BY StoreAssumption DEF IInv, TypeOK, LifecycleTypeOK
  <1>4. Reconciles(p) /\ b \in states
    BY <1>1, <1>3 DEF IInv, RowsInv, ProjectInv, Reconciles, OfProject
  <1>5. PreviewOf(g) = PreviewOf(b)
    BY <1>1 DEF PreviewOf
  <1>6. RowsInv'
    <2>1. records' = states'
      BY <1>2 DEF IInv, RowsInv
    <2>2. (\A y \in confirmations : y.preview = PreviewOf(y.state))'
      BY <1>2 DEF IInv, RowsInv, PreviewOf
    <2>3. ASSUME NEW q \in Projects, q # p PROVE SameProject(q)
      BY <1>1, <1>2, <1>3, <2>3 DEF SameProject, OfProject, ConfirmationsOf, TombstonesOf
    <2>4. /\ pointer'[p] = g
          /\ OfProject(states, p)' = OfProject(states, p) \cup {g}
          /\ OfProject(previews, p)' = OfProject(previews, p)
          /\ ConfirmationsOf(p)' = ConfirmationsOf(p)
          /\ TombstonesOf(p)' = {}
      <3>1. pointer'[p] = g
        BY <1>1, <1>2, <1>3
      <3>2. OfProject(states, p)' = OfProject(states, p) \cup {g}
        BY <1>2 DEF OfProject
      <3>3. /\ OfProject(previews, p)' = OfProject(previews, p)
            /\ ConfirmationsOf(p)' = ConfirmationsOf(p)
            /\ TombstonesOf(p)' = {}
        BY <1>1, <1>2 DEF OfProject, ConfirmationsOf, TombstonesOf
      <3>. QED BY <3>1, <3>2, <3>3
    <2>5. Reconciles(p)'
      <3>1. PICK v \in OfProject(previews, p) :
              /\ \A h \in OfProject(states, p) : PreviewOf(h) = v
              /\ \E x \in ConfirmationsOf(p) : ConfirmationsOf(p) = {x} /\ x.preview = v
        BY <1>4 DEF Reconciles
      <3>2. PreviewOf(b) = v
        BY <1>1, <1>4, <3>1 DEF OfProject
      <3>3. \A h \in OfProject(states, p)' : PreviewOf(h) = v
        BY <1>5, <2>4, <3>1, <3>2
      <3>4. pointer'[p] \in OfProject(states, p)'
        BY <2>4
      <3>. QED BY <2>4, <3>1, <3>3, <3>4 DEF Reconciles, PreviewOf
    <2>6. ProjectInv(p)'
      BY <1>1, <1>3, <2>4, <2>5 DEF ProjectInv
    <2>7. ASSUME NEW q \in Projects PROVE ProjectInv(q)'
      BY <2>3, <2>6, <2>7, ProjectKept DEF IInv, RowsInv
    <2>. QED BY <2>1, <2>2, <2>7 DEF RowsInv
  <1>7. LineInv'
    <2>1. \A h \in states : h.project \in Projects
      BY DEF IInv, TypeOK, LifecycleTypeOK, Generations
    <2>2. \A h \in states : h.previous # c
      BY <1>1, <1>3 DEF IInv, LineInv, Fresh
    <2>3. b.stamp # c
      BY <1>1, <1>4 DEF Fresh
    <2>4. \A h \in states : h.project = p => h.previous # b.stamp
      BY <1>1 DEF IInv, LineInv
    <2>5. \A h \in states : h.stamp # c
      BY <1>1 DEF Fresh
    <2>6. \A h \in states' : pointer'[h.project] = IF h.project = p THEN g ELSE pointer[h.project]
      BY <1>1, <1>2, <1>3, <2>1
    <2>7. (\A h, k \in states :
             h.project = k.project /\ h # k => h.previous # k.previous /\ h.stamp # k.stamp)'
      BY <1>1, <1>2, <2>4, <2>5 DEF IInv, LineInv
    <2>8. (\A h \in states : h.previous # pointer[h.project].stamp)'
      BY <1>1, <1>2, <2>2, <2>3, <2>6 DEF IInv, LineInv
    <2>9. (\A h \in states : h.previous = None \/ \E k \in states :
                               k.project = h.project /\ k.stamp = h.previous)'
      BY <1>1, <1>2, <1>4 DEF IInv, LineInv
    <2>. QED BY <2>7, <2>8, <2>9 DEF LineInv
  <1>. QED BY <1>6, <1>7

LEMMA PurgeRows ==
  ASSUME IInv, NEW c \in Calls, CommitPurge(c), PlanIsCurrent(local[c])
  PROVE  RowsInv' /\ LineInv'
  <1>p. PICK p \in Projects : p = local[c].target.project
    BY DEF IInv, CallsInv, CallOK, CommitPurge, Generations
  <1> DEFINE t == PendingTombstone(local[c])
  <1>1. t.project = p
    BY <1>p DEF PendingTombstone
  <1>2. /\ records' = records \ RecordsOf(p)
        /\ states' = {h \in states : h.project # p}
        /\ results' = {r \in results : r.project # p}
        /\ previews' = {w \in previews : w.project # p}
        /\ confirmations' = {x \in confirmations : x.preview.project # p}
        /\ pointer' = [pointer EXCEPT ![p] = None]
        /\ tombstones' = tombstones \cup {t}
    BY <1>p, <1>1 DEF CommitPurge, PlanIsCurrent, DeletePurged, ReplaceScope, PurgePlan
  <1>3. \A x \in confirmations : x.preview.project = x.state.project
    <2>1. \A h : PreviewOf(h).project = h.project
      BY DEF PreviewOf
    <2>. QED BY <2>1 DEF IInv, RowsInv
  <1>4. pointer \in [Projects -> Generations \cup {None}]
    BY DEF IInv, TypeOK, LifecycleTypeOK
  <1> HIDE DEF t
  <1>5. RowsInv'
    <2>1. records' = states'
      BY <1>2 DEF IInv, RowsInv, RecordsOf
    <2>2. (\A y \in confirmations : y.preview = PreviewOf(y.state))'
      BY <1>2 DEF IInv, RowsInv, PreviewOf
    <2>3. ASSUME NEW q \in Projects, q # p PROVE SameProject(q)
      BY <1>1, <1>2, <1>3, <1>4, <2>3 DEF SameProject, OfProject, ConfirmationsOf, TombstonesOf
    <2>4. /\ OfProject(states, p)' = {}
          /\ OfProject(previews, p)' = {}
          /\ OfProject(results, p)' = {}
      BY <1>2 DEF OfProject
    <2>5. ConfirmationsOf(p)' = {}
      BY <1>2, <1>3 DEF ConfirmationsOf
    <2>6. pointer'[p] = None
      BY <1>1, <1>2, <1>4
    <2>7. ProjectInv(p)'
      BY <2>4, <2>5, <2>6 DEF ProjectInv
    <2>8. ASSUME NEW q \in Projects PROVE ProjectInv(q)'
      BY <2>3, <2>7, <2>8, ProjectKept DEF IInv, RowsInv
    <2>. QED BY <2>1, <2>2, <2>8 DEF RowsInv
  <1>6. LineInv'
    <2>1. \A h \in states' : h \in states /\ h.project \in Projects /\ h.project # p
                             /\ pointer'[h.project] = pointer[h.project]
      BY <1>2, <1>4 DEF IInv, TypeOK, LifecycleTypeOK, Generations
    <2>2. \A h \in states : h.project # p => h \in states'
      BY <1>2
    <2>. QED BY <2>1, <2>2 DEF IInv, LineInv
  <1>. QED BY <1>5, <1>6

LEMMA ResultRows ==
  ASSUME IInv, NEW c \in Calls, PutResult(c)
  PROVE  RowsInv' /\ LineInv'
  <1>p. PICK p \in Projects : p = local[c].target.project
    BY DEF IInv, CallsInv, CallOK, PutResult, Generations
  <1>1. /\ UNCHANGED <<records, previews, states, pointer, confirmations, tombstones>>
        /\ results' = IF Active(p) THEN results \cup {[project |-> p, stamp |-> c]} ELSE results
    BY <1>p DEF PutResult, storeVars
  <1>2. LineInv'
    BY <1>1 DEF IInv, LineInv
  <1>3. ASSUME NEW q \in Projects PROVE ProjectInv(q)'
    <2>1. /\ pointer'[q] = pointer[q]
          /\ OfProject(states, q)' = OfProject(states, q)
          /\ OfProject(previews, q)' = OfProject(previews, q)
          /\ ConfirmationsOf(q)' = ConfirmationsOf(q)
          /\ TombstonesOf(q)' = TombstonesOf(q)
      BY <1>1 DEF OfProject, ConfirmationsOf, TombstonesOf
    <2>2. CASE OfProject(results, q)' = OfProject(results, q)
      BY <2>1, <2>2, ProjectKept DEF IInv, RowsInv, SameProject
    <2>3. CASE Active(q)
      <3>1. Reconciles(q) => Reconciles(q)'
        BY <2>1 DEF Reconciles, PreviewOf
      <3>. QED BY <2>1, <2>3, <3>1 DEF IInv, RowsInv, ProjectInv, Active
    <2>4. CASE q # p \/ ~Active(p)
      <3>1. OfProject(results, q)' = OfProject(results, q)
        BY <1>1, <2>4 DEF OfProject
      <3>. QED BY <2>2, <3>1
    <2>. QED BY <2>3, <2>4
  <1>. QED BY <1>1, <1>2, <1>3 DEF IInv, RowsInv, PreviewOf

LEMMA CompletionRows ==
  ASSUME IInv, NEW c \in Calls, CompleteDeletion(c)
  PROVE  RowsInv' /\ LineInv'
  <1>t. PICK t \in Tombstones : t = local[c].tombstone /\ TombstonesOf(t.project) # {}
    BY DEF IInv, CallsInv, CallOK, Resuming, CompleteDeletion
  <1>u. PICK u : u = [t EXCEPT !.status = "deleted", !.retained = @ + local[c].kept]
    OBVIOUS
  <1>1. /\ UNCHANGED <<records, previews, states, results, pointer, confirmations>>
        /\ tombstones' = (tombstones \ {t}) \cup {u}
    BY <1>t, <1>u DEF CompleteDeletion, storeVars
  <1>2. u.project = t.project /\ t.project \in Projects
    BY <1>u DEF Tombstones
  <1>3. LineInv'
    BY <1>1 DEF IInv, LineInv
  <1>4. ASSUME NEW q \in Projects PROVE ProjectInv(q)'
    <2>1. /\ pointer'[q] = pointer[q]
          /\ OfProject(states, q)' = OfProject(states, q)
          /\ OfProject(previews, q)' = OfProject(previews, q)
          /\ OfProject(results, q)' = OfProject(results, q)
          /\ ConfirmationsOf(q)' = ConfirmationsOf(q)
      BY <1>1 DEF OfProject, ConfirmationsOf
    <2>2. CASE q = t.project
      BY <1>t, <2>1, <2>2 DEF IInv, RowsInv, ProjectInv
    <2>3. CASE q # t.project
      <3>1. TombstonesOf(q)' = TombstonesOf(q)
        BY <1>1, <1>2, <2>3 DEF TombstonesOf, OfProject
      <3>. QED BY <2>1, <3>1, ProjectKept DEF IInv, RowsInv, SameProject
    <2>. QED BY <2>2, <2>3
  <1>. QED BY <1>1, <1>3, <1>4 DEF IInv, RowsInv, PreviewOf

LEMMA StepRowsInv ==
  ASSUME IInv, NEW c \in Calls, StepOf(c)
  PROVE  RowsInv' /\ LineInv'
  <1>1. CASE UNCHANGED Rows
    <2>1. ASSUME NEW q \in Projects PROVE SameProject(q)
      BY <1>1 DEF Rows, lifecycleVars, SameProject, OfProject, ConfirmationsOf, TombstonesOf
    <2>2. \A q \in Projects : ProjectInv(q)'
      BY <2>1, ProjectKept DEF IInv, RowsInv
    <2>. QED BY <1>1, <2>2 DEF Rows, lifecycleVars, IInv, RowsInv, LineInv, PreviewOf
  <1>. QED BY <1>1, RowsChange, ConfirmRows, RefreshRows, PurgeRows, ResultRows, CompletionRows

----------------------------------------------------------------------------
\* The invariant

LEMMA PreviewIInv ==
  ASSUME IInv, NEW p \in Projects, NEW v \in Versions, Preview(p, v)
  PROVE  IInv'
  <1> DEFINE w == [project |-> p, version |-> v]
  <1>1. /\ Active(p)
        /\ previews' = previews \cup {w}
        /\ w \in Previews /\ w.project = p
        /\ UNCHANGED <<storeVars, states, results, pointer, confirmations, tombstones, callVars>>
    BY DEF Preview, Previews
  <1> HIDE DEF w
  <1>2. TypeOK'
    BY <1>1 DEF IInv, TypeOK, StoreTypeOK, LifecycleTypeOK, storeVars, callVars
  <1>3. IndexInv'
    BY <1>1 DEF IInv, IndexInv, IndexMatchesRecords, References, storeVars
  <1>4. LineInv'
    BY <1>1 DEF IInv, LineInv
  <1>5. ASSUME NEW q \in Projects PROVE ProjectInv(q)'
    <2>1. /\ pointer'[q] = pointer[q]
          /\ OfProject(states, q)' = OfProject(states, q)
          /\ OfProject(results, q)' = OfProject(results, q)
          /\ ConfirmationsOf(q)' = ConfirmationsOf(q)
          /\ TombstonesOf(q)' = TombstonesOf(q)
      BY <1>1 DEF OfProject, ConfirmationsOf, TombstonesOf
    <2>2. CASE q # p
      <3>1. OfProject(previews, q)' = OfProject(previews, q)
        BY <1>1, <2>2 DEF OfProject
      <3>. QED BY <2>1, <3>1, ProjectKept DEF IInv, RowsInv, SameProject
    <2>3. CASE q = p
      <3>1. OfProject(previews, q) \subseteq OfProject(previews, q)'
        BY <1>1 DEF OfProject
      <3>2. Reconciles(q) => Reconciles(q)'
        BY <2>1, <3>1 DEF Reconciles, PreviewOf
      <3>. QED BY <1>1, <2>1, <2>3, <3>2 DEF IInv, RowsInv, ProjectInv, Active
    <2>. QED BY <2>2, <2>3
  <1>6. RowsInv'
    BY <1>1, <1>5 DEF IInv, RowsInv, PreviewOf, storeVars
  <1>7. CallsInv'
    <2>1. ASSUME NEW c \in Calls PROVE CallOK(c)'
      <3>1. \A q \in Projects : TombstonesOf(q)' = TombstonesOf(q)
        BY <1>1 DEF TombstonesOf, OfProject
      <3>. QED BY <1>1, <3>1, CallKept DEF IInv, CallsInv, callVars
    <2>. QED BY <2>1 DEF CallsInv
  <1>. QED BY <1>2, <1>3, <1>4, <1>6, <1>7 DEF IInv

LEMMA StepIInv ==
  ASSUME IInv, NEW c \in Calls, StepOf(c)
  PROVE  IInv'
  <1>1. TypeOK'
    BY BeginTypeOK, StepTypeOK DEF IInv, StepOf
  <1>. QED BY <1>1, StepIndexInv, StepRowsInv, StepCallsInv DEF IInv

LEMMA NextIInv == ASSUME IInv, [Next]_vars PROVE IInv'
  <1>1. CASE Next
    BY <1>1, NextSteps, PreviewIInv, StepIInv
  <1>2. CASE UNCHANGED vars
    <2> USE <1>2 DEF vars, storeVars, lifecycleVars, callVars
    <2>1. TypeOK'
      BY DEF IInv, TypeOK, StoreTypeOK, LifecycleTypeOK
    <2>2. IndexInv'
      BY DEF IInv, IndexInv, IndexMatchesRecords, References
    <2>3. RowsInv' /\ LineInv'
      <3>1. ASSUME NEW q \in Projects PROVE SameProject(q)
        BY DEF SameProject, OfProject, ConfirmationsOf, TombstonesOf
      <3>2. \A q \in Projects : ProjectInv(q)'
        BY <3>1, ProjectKept DEF IInv, RowsInv
      <3>. QED BY <3>2 DEF IInv, RowsInv, LineInv, PreviewOf
    <2>4. CallsInv'
      <3>1. \A q \in Projects : TombstonesOf(q)' = TombstonesOf(q)
        BY DEF TombstonesOf, OfProject
      <3>. QED BY <3>1, CallKept DEF IInv, CallsInv
    <2>. QED BY <2>1, <2>2, <2>3, <2>4 DEF IInv
  <1>. QED BY <1>1, <1>2

LEMMA InvariantHolds == Spec => []IInv
  BY InitIInv, NextIInv, PTL DEF Spec

----------------------------------------------------------------------------
\* The theorems

\* Every variable keeps its type: counts of retained objects stay natural numbers, because the
\* index is finite.
THEOREM TypeCorrectness == Spec => []TypeOK
  <1>1. IInv => TypeOK
    BY DEF IInv
  <1>. QED BY <1>1, InvariantHolds, PTL

\* A deletion is final: whatever other calls had read before it, nothing of a project that has a
\* deletion record is ever found again.
THEOREM DeletionIsFinal == Spec => []NoResurrection
  <1>1. IInv => NoResurrection
    BY DEF IInv, RowsInv, ProjectInv, NoResurrection, RecordsOf, OfProject
  <1>. QED BY <1>1, InvariantHolds, PTL

\* The object index is exactly what the surviving generations refer to, after any interleaving
\* of commits and purges.
THEOREM IndexIsExact == Spec => []IndexMatchesRecords
  <1>1. IInv => IndexMatchesRecords
    BY DEF IInv, IndexInv
  <1>. QED BY <1>1, InvariantHolds, PTL

\* A project that can be shown can be deleted: the checks of its scope do not fail.
THEOREM ScopesReconcile == Spec => []ScopeReconciles
  <1>1. IInv => ScopeReconciles
    BY DEF IInv, RowsInv, ProjectInv, ScopeReconciles, RecordsOf, OfProject
  <1>. QED BY <1>1, InvariantHolds, PTL

\* The states of a project form one line that ends at the current one.
THEOREM HistoryIsLinear == Spec => []LinearHistory
  <1>1. IInv => LinearHistory
    BY DEF IInv, LineInv, LinearHistory
  <1>. QED BY <1>1, InvariantHolds, PTL

----------------------------------------------------------------------------
\* The service implements the life of a project

\* A project whose life a step leaves alone.
SameLife(p) == Phase(p)' = Phase(p) /\ Shown(p)' = Shown(p) /\ ShownBefore(p)' = ShownBefore(p)

LEMMA LifeKept ==
  ASSUME NEW p, pointer'[p] = pointer[p], OfProject(states, p)' = OfProject(states, p),
         TombstonesOf(p)' = TombstonesOf(p)
  PROVE  SameLife(p)
  BY DEF SameLife, Phase, Shown, ShownBefore

LEMMA Stutters ==
  ASSUME \A p \in Projects : SameLife(p)
  PROVE  UNCHANGED Life!vars
  BY DEF SameLife, Life!vars

\* A step that changes the life of one project.
LEMMA OneChanges ==
  ASSUME NEW p \in Projects, \A q \in Projects \ {p} : SameLife(q)
  PROVE  /\ [q \in Projects |-> Phase(q)]' =
              [[q \in Projects |-> Phase(q)] EXCEPT ![p] = Phase(p)']
         /\ [q \in Projects |-> Shown(q)]' =
              [[q \in Projects |-> Shown(q)] EXCEPT ![p] = Shown(p)']
         /\ [q \in Projects |-> ShownBefore(q)]' =
              [[q \in Projects |-> ShownBefore(q)] EXCEPT ![p] = ShownBefore(p)']
  BY DEF SameLife

LEMMA ConfirmImports ==
  ASSUME IInv, NEW c \in Calls, ConfirmCommit(c), MayConfirm(local[c].target)
  PROVE  Life!Next
  <1>g. PICK g \in Generations : g = local[c].target
    BY DEF IInv, CallsInv, CallOK, Importing, ImportOK, ConfirmCommit
  <1> DEFINE p == g.project
  <1>1. /\ g.stamp = c /\ p \in Projects
        /\ pointer[p] = None /\ TombstonesOf(p) = {}
    BY <1>g DEF IInv, CallsInv, CallOK, Importing, ImportOK, ConfirmCommit, MayConfirm, Active,
                Generations
  <1>2. /\ states' = states \cup {g}
        /\ pointer' = [pointer EXCEPT ![p] = g]
        /\ tombstones' = tombstones
    BY <1>g DEF ConfirmCommit, PutCurrentState
  <1>3. OfProject(states, p) = {}
    BY <1>1 DEF IInv, RowsInv, ProjectInv
  <1>4. None \notin Generations /\ pointer \in [Projects -> Generations \cup {None}]
    BY StoreAssumption DEF IInv, TypeOK, LifecycleTypeOK
  <1>5. \A q \in Projects \ {p} : SameLife(q)
    <2>1. ASSUME NEW q \in Projects, q # p
          PROVE  /\ pointer'[q] = pointer[q]
                 /\ OfProject(states, q)' = OfProject(states, q)
                 /\ TombstonesOf(q)' = TombstonesOf(q)
      BY <1>2, <1>4, <2>1 DEF OfProject, TombstonesOf
    <2>. QED BY <2>1, LifeKept
  <1>6. /\ pointer'[p] = g
        /\ OfProject(states, p)' = {g}
        /\ TombstonesOf(p)' = {}
    <2>1. OfProject(states, p)' = OfProject(states, p) \cup {g}
      BY <1>2 DEF OfProject
    <2>. QED BY <1>1, <1>2, <1>3, <1>4, <2>1 DEF TombstonesOf, OfProject
  <1>7. Phase(p) = "absent" /\ Shown(p) = None /\ ShownBefore(p) = {}
    BY <1>1, <1>3 DEF Phase, Shown, ShownBefore
  <1>8. Phase(p)' = "active" /\ Shown(p)' = c /\ ShownBefore(p)' = {}
    BY <1>1, <1>4, <1>6 DEF Phase, Shown, ShownBefore
  <1>9. Life!Import(p, c)
    BY <1>1, <1>5, <1>7, <1>8, OneChanges DEF Life!Import
  <1>. QED BY <1>1, <1>9 DEF Life!Next

LEMMA RefreshSupersedes ==
  ASSUME IInv, NEW c \in Calls, RefreshCommit(c), MayRefresh(local[c].target, local[c].base)
  PROVE  Life!Next
  <1>g. PICK g \in Generations, b \in Generations : g = local[c].target /\ b = local[c].base
    BY DEF IInv, CallsInv, CallOK, Renewing, RenewalOK, RefreshCommit
  <1> DEFINE p == g.project
  <1>1. /\ g.stamp = c /\ p \in Projects /\ b.project = p
        /\ pointer[p] = b /\ TombstonesOf(p) = {}
        /\ Fresh(c)
    BY <1>g DEF IInv, CallsInv, CallOK, Renewing, RenewalOK, RefreshCommit, MayRefresh, Active,
                Generations
  <1>2. /\ states' = states \cup {g}
        /\ pointer' = [pointer EXCEPT ![p] = g]
        /\ tombstones' = tombstones
    BY <1>g DEF RefreshCommit, PutCurrentState
  <1>3. None \notin Generations /\ pointer \in [Projects -> Generations \cup {None}]
    BY StoreAssumption DEF IInv, TypeOK, LifecycleTypeOK
  <1>4. b \in OfProject(states, p)
    BY <1>1, <1>3 DEF IInv, RowsInv, ProjectInv, Reconciles
  <1>5. \A q \in Projects \ {p} : SameLife(q)
    <2>1. ASSUME NEW q \in Projects, q # p
          PROVE  /\ pointer'[q] = pointer[q]
                 /\ OfProject(states, q)' = OfProject(states, q)
                 /\ TombstonesOf(q)' = TombstonesOf(q)
      BY <1>2, <1>3, <2>1 DEF OfProject, TombstonesOf
    <2>. QED BY <2>1, LifeKept
  <1>6. /\ pointer'[p] = g
        /\ OfProject(states, p)' = OfProject(states, p) \cup {g}
        /\ TombstonesOf(p)' = {}
    <2>1. OfProject(states, p)' = OfProject(states, p) \cup {g}
      BY <1>2 DEF OfProject
    <2>. QED BY <1>1, <1>2, <1>3, <2>1 DEF TombstonesOf, OfProject
  <1>7. Phase(p) = "active" /\ Shown(p) = b.stamp
    BY <1>1, <1>3 DEF Phase, Shown
  <1>8. Phase(p)' = "active" /\ Shown(p)' = c
    BY <1>1, <1>3, <1>6 DEF Phase, Shown
  <1>9. ShownBefore(p)' = ShownBefore(p) \cup {Shown(p)}
    <2>1. g \notin OfProject(states, p)
      BY <1>1 DEF Fresh, OfProject
    <2>2. OfProject(states, p)' \ {pointer'[p]} = (OfProject(states, p) \ {b}) \cup {b}
      BY <1>4, <1>6, <2>1
    <2>. QED BY <1>1, <1>7, <2>2 DEF ShownBefore
  <1>10. c \notin ShownBefore(p) \cup {Shown(p)}
    BY <1>1, <1>4, <1>7 DEF Fresh, ShownBefore, OfProject
  <1>11. Life!Refresh(p, c)
    BY <1>1, <1>5, <1>7, <1>8, <1>9, <1>10, OneChanges DEF Life!Refresh
  <1>. QED BY <1>1, <1>11 DEF Life!Next

LEMMA PurgeBeginsDeletion ==
  ASSUME IInv, TypeOK', NEW c \in Calls, CommitPurge(c), PlanIsCurrent(local[c])
  PROVE  Life!Next
  <1>p. PICK p \in Projects : p = local[c].target.project
    BY DEF IInv, CallsInv, CallOK, CommitPurge, Generations
  <1>t. PICK t : t = PendingTombstone(local[c])
    OBVIOUS
  <1>1. t.project = p /\ t.status = "pending"
    BY <1>p, <1>t DEF PendingTombstone
  <1>2. /\ states' = {h \in states : h.project # p}
        /\ pointer' = [pointer EXCEPT ![p] = None]
        /\ tombstones' = tombstones \cup {t}
    BY <1>t, <1>1 DEF CommitPurge, ReplaceScope
  <1>3. None \notin Generations /\ pointer \in [Projects -> Generations \cup {None}]
    BY StoreAssumption DEF IInv, TypeOK, LifecycleTypeOK
  <1>4. pointer[p] # None /\ TombstonesOf(p) = {}
    <2>1. Reconciles(p)
      BY <1>p DEF PlanIsCurrent
    <2>. QED BY <1>3, <2>1 DEF Reconciles, OfProject, IInv, TypeOK, LifecycleTypeOK
  <1>5. \A q \in Projects \ {p} : SameLife(q)
    <2>1. ASSUME NEW q \in Projects, q # p
          PROVE  /\ pointer'[q] = pointer[q]
                 /\ OfProject(states, q)' = OfProject(states, q)
                 /\ TombstonesOf(q)' = TombstonesOf(q)
      BY <1>1, <1>2, <1>3, <2>1 DEF OfProject, TombstonesOf
    <2>. QED BY <2>1, LifeKept
  <1>6. /\ pointer'[p] = None
        /\ OfProject(states, p)' = {}
        /\ TombstonesOf(p)' = {t}
    <2>1. TombstonesOf(p)' = TombstonesOf(p) \cup {t}
      BY <1>1, <1>2 DEF TombstonesOf, OfProject
    <2>2. OfProject(states, p)' = {}
      BY <1>2 DEF OfProject
    <2>. QED BY <1>2, <1>3, <1>4, <2>1, <2>2
  <1>7. Phase(p) = "active"
    BY <1>4 DEF Phase
  <1>8. Phase(p)' = "deleting" /\ Shown(p)' = None /\ ShownBefore(p)' = {}
    BY <1>1, <1>6 DEF Phase, Shown, ShownBefore
  <1>9. Life!BeginDeletion(p)
    BY <1>5, <1>7, <1>8, OneChanges DEF Life!BeginDeletion
  <1>. QED BY <1>9 DEF Life!Next

LEMMA CompletionFinishes ==
  ASSUME IInv, NEW c \in Calls, CompleteDeletion(c)
  PROVE  [Life!Next]_Life!vars
  <1>t. PICK t \in Tombstones : t = local[c].tombstone /\ TombstonesOf(t.project) # {}
    BY DEF IInv, CallsInv, CallOK, Resuming, CompleteDeletion
  <1>u. PICK u : u = [t EXCEPT !.status = "deleted", !.retained = @ + local[c].kept]
    OBVIOUS
  <1>1. /\ UNCHANGED <<states, pointer>>
        /\ tombstones' = (tombstones \ {t}) \cup {u}
    BY <1>t, <1>u DEF CompleteDeletion
  <1>2. PICK p \in Projects : p = t.project
    BY DEF Tombstones
  <1>3. u.project = p /\ u.status = "deleted"
    BY <1>u, <1>2 DEF Tombstones
  <1>4. \A q \in Projects \ {p} : SameLife(q)
    <2>1. ASSUME NEW q \in Projects, q # p
          PROVE  /\ pointer'[q] = pointer[q]
                 /\ OfProject(states, q)' = OfProject(states, q)
                 /\ TombstonesOf(q)' = TombstonesOf(q)
      BY <1>1, <1>2, <1>3, <2>1 DEF OfProject, TombstonesOf
    <2>. QED BY <2>1, LifeKept
  <1>5. Phase(p) \in {"deleting", "deleted"}
    BY <1>t, <1>2 DEF Phase
  <1>6. /\ u \in TombstonesOf(p)'
        /\ pointer'[p] = pointer[p]
        /\ OfProject(states, p)' = OfProject(states, p)
    BY <1>1, <1>3 DEF TombstonesOf, OfProject
  <1>7. Phase(p)' = "deleted" /\ Shown(p)' = Shown(p) /\ ShownBefore(p)' = ShownBefore(p)
    BY <1>3, <1>6 DEF Phase, Shown, ShownBefore
  <1>8. CASE Phase(p) = "deleted"
    <2>1. \A q \in Projects : SameLife(q)
      BY <1>4, <1>7, <1>8 DEF SameLife
    <2>. QED BY <2>1, Stutters
  <1>9. CASE Phase(p) = "deleting"
    <2>1. Life!FinishDeletion(p)
      BY <1>4, <1>7, <1>9, OneChanges DEF Life!FinishDeletion
    <2>. QED BY <2>1 DEF Life!Next
  <1>. QED BY <1>5, <1>8, <1>9

LEMMA StepRefines ==
  ASSUME IInv, TypeOK', [Next]_vars
  PROVE  [Life!Next]_Life!vars
  <1>1. CASE UNCHANGED <<states, pointer, tombstones>>
    <2>1. ASSUME NEW p \in Projects PROVE SameLife(p)
      BY <1>1, LifeKept DEF OfProject, TombstonesOf
    <2>. QED BY <2>1, Stutters
  <1>2. ASSUME NEW c \in Calls, StepOf(c) PROVE [Life!Next]_Life!vars
    <2>1. CASE UNCHANGED Rows \/ PutResult(c)
      BY <1>1, <2>1 DEF Rows, lifecycleVars, PutResult
    <2>. QED BY <1>2, <2>1, RowsChange, ConfirmImports, RefreshSupersedes, PurgeBeginsDeletion,
               CompletionFinishes
  <1>3. ASSUME NEW p \in Projects, NEW v \in Versions, Preview(p, v) PROVE [Life!Next]_Life!vars
    BY <1>1, <1>3 DEF Preview
  <1>4. CASE UNCHANGED vars
    BY <1>1, <1>4 DEF vars, lifecycleVars
  <1>. QED BY <1>2, <1>3, <1>4, NextSteps

\* Whatever calls overlap and wherever they stop, a project is imported once, refreshed from its
\* current capture to a new one, and deleted for good.
THEOREM Refinement == Spec => ImplementsProjectLife
  <1>1. Init => Life!Init
    BY DEF Init, LifecycleInit, Life!Init, Phase, Shown, ShownBefore, OfProject, TombstonesOf
  <1>2. IInv /\ IInv' /\ [Next]_vars => [Life!Next]_Life!vars
    BY StepRefines DEF IInv
  <1>. QED BY <1>1, <1>2, InvariantHolds, PTL DEF Spec, ImplementsProjectLife, Life!Spec

----------------------------------------------------------------------------
\* One call at a time: nothing comes between the steps of a call when the server takes the next
\* request after the answer to the last, as the dashboard's does.

\* A call is publishing object files, and has published them.
Publishing == {"confirm_publishing", "refresh_publishing"}
Committing == {"confirm_committing", "refresh_committing"}

\* What a call has done so far is still there: the files that it published, the deletion record
\* it works on, which is the project's only one, and the absence of the files it removed.
InHand(c) ==
  LET l == local[c] IN
  /\ pc[c] \in Publishing => ObjectsOf(l.target) \ l.todo \subseteq files
  /\ pc[c] \in Committing => ObjectsOf(l.target) \subseteq files
  /\ pc[c] \in Resuming => TombstonesOf(l.tombstone.project) = {l.tombstone}
  /\ pc[c] \in {"finishing", "completing"} => files \cap l.tombstone.purge \subseteq objects

\* One call is running.
Alone == \A c, d \in Calls : pc[c] \in Running /\ pc[d] \in Running => c = d

SerialInv ==
  /\ Alone
  /\ IndexedObjectsOnDisk
  /\ OneTombstone
  /\ \A c \in Calls : InHand(c)

\* Call c goes on, or begins, and the others are not running.
LEMMA OthersAtRest ==
  ASSUME OneAtATime, TypeOK, Alone, NEW c \in Calls, StepOf(c), NEW d \in Calls, d # c
  PROVE  pc[d] \notin Running /\ pc'[d] \notin Running
  <1>1. pc'[d] = pc[d]
    <2> USE DEF TypeOK, GoTo, End, Check
    <2>1. CASE \E l, where : GoTo(c, where, l)
      BY <2>1
    <2> QED BY <2>1 DEF StepOf, ConfirmBegin, RefreshBegin, DeleteBegin, AnswerBegin, PublishObject,
                  OpenToPersist, ConfirmCommit, RefreshCommit, VerifyCommit, PutResult, PlanPurge,
                  CommitPurge, VerifyPurge, ReconcileFiles, DieUnlinking, FinishCheck,
                  CompleteDeletion, Abandon
  <1>2. CASE Begin(c)
    BY <1>1, <1>2 DEF Begin, ServerFree, Running, Confirming, Refreshing, Deleting
  <1>3. CASE pc[c] \in Running
    BY <1>1, <1>3 DEF Alone
  <1>4. Begin(c) \/ pc[c] \in Running
    BY DEF StepOf, ConfirmBegin, RefreshBegin, DeleteBegin, AnswerBegin, PublishObject,
           OpenToPersist, ConfirmCommit, RefreshCommit, VerifyCommit, PutResult, PlanPurge,
           CommitPurge, VerifyPurge, ReconcileFiles, DieUnlinking, FinishCheck,
           CompleteDeletion, Abandon, Running, Confirming, Refreshing, Deleting
  <1> QED BY <1>2, <1>3, <1>4

\* Where a call is after its step, and what it holds.
LEMMA Arrives ==
  ASSUME TypeOK, NEW c \in Calls, NEW where, NEW l
  PROVE  /\ GoTo(c, where, l) => pc'[c] = where /\ local'[c] = l
         /\ End(c) => pc'[c] = "ended"
         /\ \A ok \in BOOLEAN : Check(c, ok, where, l) =>
              \/ pc'[c] = "ended"
              \/ ok /\ pc'[c] = where /\ local'[c] = l
  <1>1. ASSUME NEW x, NEW k, GoTo(c, x, k)
        PROVE  pc'[c] = x /\ local'[c] = k
    BY <1>1 DEF GoTo, TypeOK
  <1>2. End(c) => pc'[c] = "ended"
    BY <1>1 DEF End
  <1> QED BY <1>1, <1>2 DEF Check

\* What the step of a call that runs alone leaves true.
Stays(c) == IndexedObjectsOnDisk' /\ OneTombstone' /\ InHand(c)'

\* A step that leaves the stores alone, and the call where it has nothing in hand.
LEMMA QuietStays ==
  ASSUME SerialInv, NEW c \in Calls, UNCHANGED <<storeVars, lifecycleVars>>,
         pc'[c] \notin Publishing \cup Committing \cup Resuming
  PROVE  Stays(c)
  <1>1. IndexedObjectsOnDisk' /\ OneTombstone'
    BY DEF SerialInv, IndexedObjectsOnDisk, Sound, OneTombstone, storeVars, lifecycleVars
  <1>2. InHand(c)'
    BY DEF InHand, Resuming
  <1> QED BY <1>1, <1>2 DEF Stays

\* A call begins.
LEMMA BeginStays ==
  ASSUME IInv, SerialInv, NEW c \in Calls,
         \/ \E w \in Previews : ConfirmBegin(c, w)
         \/ \E p \in Projects, v \in Versions : RefreshBegin(c, p, v)
         \/ \E p \in Projects : DeleteBegin(c, p)
         \/ \E g \in states : AnswerBegin(c, g)
  PROVE  Stays(c)
  <1> USE DEF Publishing, Committing, Resuming
  <1>0. TypeOK
    BY DEF IInv
  <1>1. ASSUME NEW w \in Previews, ConfirmBegin(c, w)
        PROVE  Stays(c)
    <2>1. pc'[c] = "confirm_inspecting"
      BY <1>0, <1>1, Arrives DEF ConfirmBegin
    <2> QED BY <1>1, <2>1, QuietStays DEF ConfirmBegin
  <1>2. ASSUME NEW p \in Projects, NEW v \in Versions, RefreshBegin(c, p, v)
        PROVE  Stays(c)
    <2>1. pc'[c] \in {"refresh_inspecting", "ended"}
      BY <1>0, <1>2, Arrives DEF RefreshBegin, Sound
    <2> QED BY <1>2, <2>1, QuietStays DEF RefreshBegin
  <1>3. ASSUME NEW g \in states, AnswerBegin(c, g)
        PROVE  Stays(c)
    <2>1. pc'[c] \in {"answering", "ended"}
      BY <1>0, <1>3, Arrives DEF AnswerBegin, Sound
    <2> QED BY <1>3, <2>1, QuietStays DEF AnswerBegin
  <1>4. ASSUME NEW p \in Projects, DeleteBegin(c, p)
        PROVE  Stays(c)
    <2>0. UNCHANGED <<storeVars, lifecycleVars>>
      BY <1>4 DEF DeleteBegin
    <2>1. CASE pc'[c] \in {"planning", "ended"}
      BY <2>0, <2>1, QuietStays
    <2>2. ASSUME NEW t \in TombstonesOf(p), TombstonesOf(p) = {t}, pc'[c] = "reconciling",
                 local'[c] = [NoLocals EXCEPT !.tombstone = t]
          PROVE  Stays(c)
      <3>1. local'[c].tombstone = t /\ t.project = p
        BY <2>2 DEF NoLocals, TombstonesOf, OfProject
      <3>2. TombstonesOf(p)' = {t}
        BY <2>0, <2>2 DEF TombstonesOf, OfProject, lifecycleVars
      <3>3. InHand(c)'
        BY <2>2, <3>1, <3>2 DEF InHand
      <3> QED BY <2>0, <3>3 DEF Stays, SerialInv, IndexedObjectsOnDisk, Sound, OneTombstone,
                                storeVars, lifecycleVars
    <2>3. ASSUME NEW t \in TombstonesOf(p),
                 Check(c, TombstonesOf(p) = {t} /\ (t.status = "deleted" => OnlyTombstone(p, t)),
                       "reconciling", [NoLocals EXCEPT !.tombstone = t])
          PROVE  Stays(c)
      <3>1. \/ pc'[c] = "ended"
            \/ /\ TombstonesOf(p) = {t} /\ pc'[c] = "reconciling"
               /\ local'[c] = [NoLocals EXCEPT !.tombstone = t]
        BY <1>0, <2>3, Arrives
      <3> QED BY <2>1, <2>2, <3>1
    <2>4. ASSUME Check(c, Reconciles(p), "planning",
                       [NoLocals EXCEPT !.target = pointer[p], !.scope = Scope(p)])
          PROVE  Stays(c)
      <3>1. pc'[c] \in {"planning", "ended"}
        BY <1>0, <2>4, Arrives DEF Reconciles
      <3> QED BY <2>1, <3>1
    <2> QED BY <1>4, <2>3, <2>4 DEF DeleteBegin
  <1> QED BY <1>1, <1>2, <1>3, <1>4

\* It publishes its files and commits the generation that refers to them.
LEMMA ImportStays ==
  ASSUME IInv, SerialInv, NEW c \in Calls,
         \/ \E d \in local[c].todo : PublishObject(c, d)
         \/ OpenToPersist(c) \/ ConfirmCommit(c) \/ RefreshCommit(c) \/ VerifyCommit(c)
         \/ PutResult(c) \/ Abandon(c)
  PROVE  Stays(c)
  <1> USE DEF Publishing, Committing, Resuming
  <1>0. TypeOK /\ local[c] \in Locals /\ InHand(c)
    BY DEF IInv, TypeOK, SerialInv
  <1> DEFINE g == local[c].target
  <1>1. ASSUME NEW d \in local[c].todo, PublishObject(c, d)
        PROVE  Stays(c)
    <2> DEFINE l == [local[c] EXCEPT !.todo = @ \ {d}]
    <2>1. l.target = g /\ l.todo = local[c].todo \ {d}
      BY <1>0 DEF Locals
    <2>2. /\ pc[c] \in Publishing
          /\ \E where \in Publishing \cup Committing :
               GoTo(c, where, l) /\ (where \in Committing => l.todo = {})
          /\ files' = files \cup {d} /\ UNCHANGED <<objects, tombstones>>
      BY <1>1 DEF PublishObject, WriteObject, lifecycleVars
    <2> HIDE DEF l
    <2>3. /\ local'[c] = l /\ pc'[c] \in Publishing \cup Committing
          /\ pc'[c] \in Committing => l.todo = {}
      BY <1>0, <2>2, Arrives
    <2>4. ObjectsOf(g) \ l.todo \subseteq files'
      BY <1>0, <2>1, <2>2 DEF InHand
    <2>5. ObjectsOf(g)' = ObjectsOf(l.target)
      BY <2>1, <2>3 DEF ObjectsOf
    <2>6. InHand(c)'
      BY <2>1, <2>3, <2>4, <2>5 DEF InHand, ObjectsOf
    <2> QED BY <2>2, <2>6 DEF Stays, SerialInv, IndexedObjectsOnDisk, Sound, OneTombstone
  <1>2. ASSUME OpenToPersist(c)
        PROVE  Stays(c)
    <2> DEFINE l == [local[c] EXCEPT !.todo = ObjectsOf(g)]
    <2>1. l.target = g /\ l.todo = ObjectsOf(g)
      BY <1>0 DEF Locals
    <2> HIDE DEF l
    <2>2. pc'[c] = "ended" \/ (pc'[c] \in Publishing /\ local'[c] = l)
      <3>1. Check(c, Sound, "confirm_publishing", l) \/ Check(c, Sound, "refresh_publishing", l)
        BY <1>2 DEF OpenToPersist, l
      <3> QED BY <1>0, <3>1, Arrives DEF Sound
    <2>3. InHand(c)'
      BY <2>1, <2>2 DEF InHand, ObjectsOf
    <2> QED BY <1>2, <2>3 DEF OpenToPersist, Stays, SerialInv, IndexedObjectsOnDisk, Sound,
                              OneTombstone, storeVars, lifecycleVars
  <1>3. ASSUME NEW where, where \notin Publishing \cup Committing \cup Resuming,
               NEW ok \in BOOLEAN, Check(c, ok, where, NoLocals),
               pc[c] \in Committing, tombstones' = tombstones,
               IF ok THEN IndexGeneration(g) ELSE UNCHANGED storeVars
        PROVE  Stays(c)
    <2>1. pc'[c] \notin Publishing \cup Committing \cup Resuming
      BY <1>0, <1>3, Arrives
    <2>2. InHand(c)'
      BY <2>1 DEF InHand
    <2>3. ObjectsOf(g) \subseteq files
      BY <1>0, <1>3 DEF InHand
    <2>4. IndexedObjectsOnDisk'
      BY <1>3, <2>3 DEF SerialInv, IndexedObjectsOnDisk, Sound, IndexGeneration, storeVars
    <2>5. OneTombstone'
      BY <1>3 DEF SerialInv, OneTombstone
    <2> QED BY <2>2, <2>4, <2>5 DEF Stays
  <1>4. ASSUME ConfirmCommit(c)
        PROVE  Stays(c)
    <2>1. MayConfirm(g) \in BOOLEAN
      BY DEF MayConfirm
    <2> QED BY <1>3, <1>4, <2>1 DEF ConfirmCommit, PutCurrentState, lifecycleVars
  <1>5. ASSUME RefreshCommit(c)
        PROVE  Stays(c)
    <2>1. MayRefresh(g, local[c].base) \in BOOLEAN
      BY DEF MayRefresh
    <2> QED BY <1>3, <1>5, <2>1 DEF RefreshCommit, PutCurrentState, lifecycleVars
  <1>6. ASSUME VerifyCommit(c) \/ Abandon(c)
        PROVE  Stays(c)
    <2>1. pc'[c] = "ended" /\ UNCHANGED <<storeVars, lifecycleVars>>
      BY <1>0, <1>6, Arrives DEF VerifyCommit, Abandon
    <2> QED BY <2>1, QuietStays
  <1>7. ASSUME PutResult(c)
        PROVE  Stays(c)
    <2>1. pc'[c] = "ended" /\ UNCHANGED <<storeVars, tombstones>>
      BY <1>0, <1>7, Arrives DEF PutResult
    <2>2. InHand(c)'
      BY <2>1 DEF InHand
    <2> QED BY <2>1, <2>2 DEF Stays, SerialInv, IndexedObjectsOnDisk, Sound, OneTombstone, storeVars
  <1> QED BY <1>1, <1>2, <1>4, <1>5, <1>6, <1>7

\* It deletes a project: its record is the only one, and stays so.
LEMMA DeletionStays ==
  ASSUME IInv, SerialInv, NEW c \in Calls,
         \/ PlanPurge(c) \/ CommitPurge(c) \/ VerifyPurge(c) \/ ReconcileFiles(c)
         \/ DieUnlinking(c) \/ FinishCheck(c) \/ CompleteDeletion(c)
  PROVE  Stays(c)
  <1> USE DEF Publishing, Committing, Resuming
  <1>0. TypeOK /\ local[c] \in Locals /\ InHand(c)
    BY DEF IInv, TypeOK, SerialInv
  <1> DEFINE t == local[c].tombstone
  <1>1. ASSUME PlanPurge(c)
        PROVE  Stays(c)
    <2>1. pc'[c] \in {"purging", "ended"}
      BY <1>0, <1>1, Arrives DEF PlanPurge, Sound
    <2> QED BY <1>1, <2>1, QuietStays DEF PlanPurge
  <1>2. ASSUME CommitPurge(c)
        PROVE  Stays(c)
    <2> DEFINE l == local[c]
    <2>0. PICK r : r = PendingTombstone(l)
      OBVIOUS
    <2>1. CASE PlanIsCurrent(l)
      <3>1. /\ objects' \subseteq objects /\ files' = files /\ tombstones' = tombstones \cup {r}
        BY <1>2, <2>0, <2>1 DEF CommitPurge, DeletePurged, ReplaceScope
      <3>2. TombstonesOf(r.project) = {}
        BY <2>0, <2>1 DEF PlanIsCurrent, Reconciles, PendingTombstone
      <3>3. TombstonesOf(r.project)' = {r}
        BY <3>1, <3>2 DEF TombstonesOf, OfProject
      <3>4. OneTombstone'
        BY <3>1, <3>2 DEF SerialInv, OneTombstone, TombstonesOf, OfProject
      <3>5. pc'[c] = "purge_verifying" /\ local'[c] = [NoLocals EXCEPT !.tombstone = r]
        <4>1. GoTo(c, "purge_verifying", [NoLocals EXCEPT !.tombstone = r])
          BY <1>2, <2>0, <2>1 DEF CommitPurge, Check
        <4> QED BY <1>0, <4>1, Arrives
      <3>6. local'[c].tombstone = r
        BY <3>5 DEF NoLocals
      <3>7. InHand(c)'
        BY <3>3, <3>5, <3>6 DEF InHand
      <3> QED BY <3>1, <3>4, <3>7 DEF Stays, SerialInv, IndexedObjectsOnDisk, Sound
    <2>2. CASE ~PlanIsCurrent(l)
      <3>1. pc'[c] = "ended" /\ UNCHANGED <<storeVars, lifecycleVars>>
        BY <1>0, <1>2, <2>2, Arrives DEF CommitPurge, Check
      <3> QED BY <3>1, QuietStays
    <2> QED BY <2>1, <2>2
  <1>3. ASSUME NEW where \in {"reconciling", "completing"}, NEW ok \in BOOLEAN,
               Check(c, ok, where, local[c]), UNCHANGED <<storeVars, lifecycleVars>>,
               pc[c] \in Resuming, where = "completing" => pc[c] = "finishing"
        PROVE  Stays(c)
    <2>1. CASE pc'[c] = "ended"
      BY <1>3, <2>1, QuietStays
    <2>2. CASE pc'[c] = where /\ local'[c] = local[c]
      <3>1. InHand(c)'
        BY <1>0, <1>3, <2>2
           DEF InHand, TombstonesOf, OfProject, storeVars, lifecycleVars
      <3> QED BY <1>3, <3>1 DEF Stays, SerialInv, IndexedObjectsOnDisk, Sound, OneTombstone,
                                storeVars, lifecycleVars
    <2> QED BY <1>0, <1>3, <2>1, <2>2, Arrives
  <1>4. ASSUME VerifyPurge(c)
        PROVE  Stays(c)
    BY <1>3, <1>4 DEF VerifyPurge, Sound
  <1>5. ASSUME FinishCheck(c)
        PROVE  Stays(c)
    <2>1. OnlyTombstone(t.project, t) \in BOOLEAN
      BY DEF OnlyTombstone
    <2> QED BY <1>3, <1>5, <2>1 DEF FinishCheck
  <1>6. ASSUME NEW D, files' = files \ (D \ objects), UNCHANGED <<objects, tombstones>>,
               InHand(c)'
        PROVE  Stays(c)
    BY <1>6 DEF Stays, SerialInv, IndexedObjectsOnDisk, Sound, OneTombstone
  <1>7. ASSUME DieUnlinking(c)
        PROVE  Stays(c)
    <2>1. pc'[c] = "ended"
      BY <1>0, <1>7, Arrives DEF DieUnlinking
    <2>2. InHand(c)'
      BY <2>1 DEF InHand
    <2> QED BY <1>6, <1>7, <2>2 DEF DieUnlinking, UnlinkUnindexed, lifecycleVars
  <1>8. ASSUME ReconcileFiles(c)
        PROVE  Stays(c)
    <2> DEFINE ok == Sound /\ RecordsOf(t.project) = {}
               l == [local[c] EXCEPT !.kept = Cardinality(t.purge \cap objects)]
    <2>1. l.tombstone = t
      BY <1>0 DEF Locals
    <2>2. /\ Check(c, ok /\ t.status # "deleted", "finishing", l)
          /\ IF ok THEN UnlinkUnindexed(t.purge) ELSE UNCHANGED storeVars
          /\ UNCHANGED lifecycleVars /\ pc[c] = "reconciling"
      BY <1>8 DEF ReconcileFiles
    <2>3. (ok /\ t.status # "deleted") \in BOOLEAN
      OBVIOUS
    <2> HIDE DEF l, ok
    <2>4. pc'[c] = "ended" \/ (ok /\ pc'[c] = "finishing" /\ local'[c] = l)
      BY <1>0, <2>2, <2>3, Arrives
    <2>5. CASE ok
      <3>1. files' = files \ (t.purge \ objects) /\ UNCHANGED <<objects, tombstones>>
        BY <2>2, <2>5 DEF UnlinkUnindexed, lifecycleVars
      <3>2. InHand(c)'
        BY <1>0, <2>1, <2>2, <2>4, <3>1 DEF InHand, TombstonesOf, OfProject
      <3> QED BY <1>6, <3>1, <3>2
    <2>6. CASE ~ok
      BY <2>2, <2>4, <2>6, QuietStays
    <2> QED BY <2>5, <2>6
  <1>9. ASSUME CompleteDeletion(c)
        PROVE  Stays(c)
    <2> DEFINE u == [t EXCEPT !.status = "deleted", !.retained = @ + local[c].kept]
    <2>1. TombstonesOf(t.project) = {t} /\ t \in Tombstones
      BY <1>0, <1>9 DEF InHand, CompleteDeletion, IInv, CallsInv, CallOK
    <2>2. u.project = t.project
      BY <2>1 DEF Tombstones
    <2>3. tombstones' = (tombstones \ {t}) \cup {u} /\ UNCHANGED storeVars
      BY <1>9 DEF CompleteDeletion
    <2> HIDE DEF u
    <2>4. OneTombstone'
      BY <2>1, <2>2, <2>3 DEF SerialInv, OneTombstone, TombstonesOf, OfProject
    <2>5. pc'[c] = "ended"
      BY <1>0, <1>9, Arrives DEF CompleteDeletion
    <2>6. InHand(c)'
      BY <2>5 DEF InHand
    <2> QED BY <2>3, <2>4, <2>6 DEF Stays, SerialInv, IndexedObjectsOnDisk, Sound, storeVars
  <1> QED BY <1>1, <1>2, <1>4, <1>5, <1>7, <1>8, <1>9

\* When one call runs at a time, no step takes from another what it has in hand.
LEMMA SerialStep ==
  ASSUME OneAtATime, IInv, SerialInv, [Next]_vars
  PROVE  SerialInv'
  <1>1. ASSUME NEW c \in Calls, StepOf(c)
        PROVE  SerialInv'
    <2>1. \A d \in Calls : d # c => pc'[d] \notin Running
      BY <1>1, OthersAtRest DEF IInv, SerialInv
    <2>2. Alone'
      BY <2>1 DEF Alone
    <2>3. Stays(c)
      BY <1>1, BeginStays, ImportStays, DeletionStays DEF StepOf
    <2>4. ASSUME NEW d \in Calls, d # c
          PROVE  InHand(d)'
      BY <2>1, <2>4 DEF InHand, Running, Confirming, Refreshing, Deleting, Publishing, Committing,
                        Resuming
    <2> QED BY <2>2, <2>3, <2>4 DEF Stays, SerialInv
  <1>2. ASSUME UNCHANGED <<storeVars, tombstones, callVars>>
        PROVE  SerialInv'
    BY <1>2 DEF SerialInv, Alone, IndexedObjectsOnDisk, Sound, OneTombstone, InHand, TombstonesOf,
                OfProject, ObjectsOf, storeVars, callVars
  <1>3. ASSUME NEW p \in Projects, NEW v \in Versions, Preview(p, v)
        PROVE  SerialInv'
    BY <1>2, <1>3 DEF Preview
  <1>4. ASSUME UNCHANGED vars
        PROVE  SerialInv'
    BY <1>2, <1>4 DEF vars, lifecycleVars
  <1> QED BY <1>1, <1>3, <1>4, NextSteps

LEMMA SerialHolds == ASSUME OneAtATime PROVE Spec => [](IInv /\ SerialInv)
  <1>1. Init => IInv /\ SerialInv
    <2>1. Init => SerialInv
      BY DEF Init, StoreInit, LifecycleInit, SerialInv, Alone, IndexedObjectsOnDisk, Sound,
             OneTombstone, InHand, Running, Confirming, Refreshing, Deleting, Publishing,
             Committing, Resuming
    <2> QED BY <2>1, InitIInv
  <1>2. (IInv /\ SerialInv) /\ [Next]_vars => (IInv /\ SerialInv)'
    BY NextIInv, SerialStep
  <1> QED BY <1>1, <1>2, PTL DEF Spec

\* With a server that takes one request after the other, whatever dies between two steps, the
\* store opens: no file that the index lists is ever unlinked or missing.
THEOREM ObjectsStayOnDisk == ASSUME OneAtATime PROVE Spec => []IndexedObjectsOnDisk
  <1>1. SerialInv => IndexedObjectsOnDisk
    BY DEF SerialInv
  <1> QED BY <1>1, SerialHolds, PTL

\* And a project has one deletion record, however often its deletion is resumed.
THEOREM OneRecordPerDeletion == ASSUME OneAtATime PROVE Spec => []OneTombstone
  <1>1. SerialInv => OneTombstone
    BY DEF SerialInv
  <1> QED BY <1>1, SerialHolds, PTL

\* A deletion is recorded as completed only when the files it lists are absent, but for those
\* that are in use again.
THEOREM CompletionIsTrue == ASSUME OneAtATime PROVE Spec => CompletedWhenAbsent
  <1> DEFINE Absent(t) == t.status = "deleted" => files \cap t.purge \subseteq objects
             Fresher == \A t \in tombstones' \ tombstones : Absent(t)
  <1>1. IInv /\ SerialInv /\ [Next]_vars => [Fresher]_vars
    <2> SUFFICES ASSUME IInv, SerialInv, Next PROVE Fresher
      OBVIOUS
    <2>1. ASSUME tombstones' = tombstones
          PROVE  Fresher
      BY <2>1
    <2>2. ASSUME NEW c \in Calls, CompleteDeletion(c)
          PROVE  Fresher
      <3> DEFINE t == local[c].tombstone
                 u == [t EXCEPT !.status = "deleted", !.retained = @ + local[c].kept]
      <3>1. t \in Tombstones /\ files \cap t.purge \subseteq objects
        BY <2>2 DEF CompleteDeletion, SerialInv, InHand, IInv, CallsInv, CallOK, Resuming
      <3>2. u.purge = t.purge
        BY <3>1 DEF Tombstones
      <3>3. tombstones' = (tombstones \ {t}) \cup {u}
        BY <2>2 DEF CompleteDeletion
      <3> HIDE DEF u
      <3> QED BY <3>1, <3>2, <3>3
    <2>3. ASSUME NEW c \in Calls, CommitPurge(c), PlanIsCurrent(local[c])
          PROVE  Fresher
      <3> DEFINE r == PendingTombstone(local[c])
      <3>1. r.status = "pending"
        BY DEF PendingTombstone
      <3>2. tombstones' = tombstones \cup {r}
        BY <2>3 DEF CommitPurge, ReplaceScope
      <3> HIDE DEF r
      <3> QED BY <3>1, <3>2
    <2>4. ASSUME NEW c \in Calls, StepOf(c)
          PROVE  Fresher
      <3>1. \/ UNCHANGED tombstones
            \/ CommitPurge(c) /\ PlanIsCurrent(local[c])
            \/ CompleteDeletion(c)
        BY <2>4, RowsChange DEF Rows, lifecycleVars, ConfirmCommit, RefreshCommit, PutCurrentState,
                                PutResult
      <3> HIDE DEF Fresher
      <3> QED BY <2>1, <2>2, <2>3, <3>1
    <2>5. ASSUME NEW p \in Projects, NEW v \in Versions, Preview(p, v)
          PROVE  Fresher
      BY <2>1, <2>5 DEF Preview
    <2> HIDE DEF Fresher
    <2> QED BY <2>4, <2>5, NextSteps
  <1>2. [Fresher]_vars => [\A t \in tombstones' \ tombstones : Absent(t)]_vars
    OBVIOUS
  <1> HIDE DEF Fresher
  <1> QED BY <1>1, SerialHolds, PTL DEF Spec, CompletedWhenAbsent, Fresher

=============================================================================
