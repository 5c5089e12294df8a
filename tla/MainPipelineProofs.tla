-------------------------- MODULE MainPipelineProofs --------------------------
(***************************************************************************)
(* Proofs about the run of the main study, for any census, any number of   *)
(* processes and attempts and any costs: one process works on the run at a *)
(* time, no attempt reaches the provider twice, a terminal follows from    *)
(* the sealed turns, what a resumed run publishes agrees with what is      *)
(* there, a receipt is over the whole run, and all calls together cost no  *)
(* more than was approved.                                                 *)
(*                                                                         *)
(* The lock makes the process that is at work the only one, so what it     *)
(* found on disk stays true.  The invariant says what that is: nothing is  *)
(* open but its own job, whose request is on disk but for the moment       *)
(* before, and of which no attempt beyond those on record was ever sent.   *)
(*                                                                         *)
(* The budget is about sums: over the sealed attempts, which a restart     *)
(* adds up, and over the calls that are still out.  The lemmas on sums     *)
(* come first, then the invariant of the budget, step by step.  Last comes *)
(* what holds when no provider reports more than was reserved: a run that  *)
(* the budget has stopped never gets a receipt, whoever starts it again.   *)
(***************************************************************************)
EXTENDS MainPipeline, FiniteSetTheorems, TLAPS

\* Process p has a job at hand.
Holds(p) == stage[p] \in {"opening", "gateway", "waiting", "sealing"}

\* Process p is past the batch.
PastBatch(p) ==
  \/ stage[p] \in {"scoring", "relations", "publishing"}
  \/ Holds(p) /\ job[p] \in RelationJobs

\* What is on disk agrees.
DiskInv ==
  /\ \A j \in Jobs : sealed[j] # None => j \in begun
  /\ \A j \in RelationJobs : j \in begun => Pending = {} /\ j \in Prepared
  /\ batch # None => Pending = {} /\ batch = terminal
  /\ relations # None => Pending = {} /\ AllSealed /\ relations = Results

\* What is on disk for process p at work.
StageInv(p) ==
  /\ stage[p] # "idle" => lock
  /\ stage[p] \notin {"idle", "restoring"} =>
       /\ receipt = None
       /\ \A j \in MainJobs : Unfinished(j) => Holds(p) /\ j = job[p]
  /\ PastBatch(p) => Pending = {} /\ batch = terminal
  /\ stage[p] = "publishing" => AllSealed /\ relations = Results

\* And for its job.
JobInv(p) ==
  Holds(p) =>
    /\ job[p] \in Jobs
    /\ sealed[job[p]] = None
    /\ job[p] \in begun <=> stage[p] # "opening"
    /\ job[p] \in MainJobs => terminal[job[p][1]] = None
    /\ job[p] \in RelationJobs => job[p] \in Prepared

\* The attempts that process p has used up: those on record, and the one it waits for.
Used(p) == IF stage[p] = "waiting" THEN tries[p] + 1 ELSE tries[p]

\* No further attempt of its job has begun.
AttemptInv(p) ==
  /\ stage[p] \in {"gateway", "waiting"} => tries[p] < MaxAttempts
  /\ stage[p] \notin {"gateway", "waiting", "sealing"} => tries[p] = 0
  /\ stage[p] = "idle" => \A c \in calls : c.proc # p
  /\ Holds(p) => \A o \in Ordinals : o > Used(p) =>
       /\ asked[<<job[p], o>>] = 0
       /\ \A c \in calls : c.job = job[p] => c.ordinal # o

\* A call has reached the provider once, or not yet, and is the only one of its attempt.
CallInv ==
  /\ \A j \in Jobs : j \notin begun => \A o \in Ordinals : asked[<<j, o>>] = 0
  /\ \A c \in calls :
       /\ c.job \in begun
       /\ asked[<<c.job, c.ordinal>>] = IF c.sent THEN 1 ELSE 0
       /\ \A d \in calls : d.job = c.job /\ d.ordinal = c.ordinal => d = c

IInv ==
  /\ RunTypeOK
  /\ OneExecution
  /\ DiskInv
  /\ TerminalsFollowTurns
  /\ ReceiptIsWhole
  /\ \A p \in Procs : StageInv(p) /\ JobInv(p) /\ AttemptInv(p)
  /\ CallInv
  /\ NeverReplayed

----------------------------------------------------------------------------
\* What the operators over the disk read

\* A turn and a relation are different jobs.
LEMMA JobShapes ==
  /\ \A i \in Logical : \A t \in 1..Turns[i] : <<i, t>> \in MainJobs
  /\ \A j \in MainJobs : \E i \in Logical : \E t \in 1..Turns[i] : j = <<i, t>>
  /\ MainJobs \cap RelationJobs = {}
  /\ \A i \in Logical : Turns[i] \in Nat
<1>1. \A i \in Logical : Turns[i] \in Nat
  BY PipelineAssumption
<1>2. \A i \in Logical : \A t \in 1..Turns[i] : <<i, t>> \in MainJobs
  BY DEF MainJobs
<1>3. \A j \in MainJobs : \E i \in Logical : \E t \in 1..Turns[i] : j = <<i, t>>
  BY DEF MainJobs
<1>4. MainJobs \cap RelationJobs = {}
  BY <1>1, <1>3 DEF RelationJobs
<1> QED BY <1>1, <1>2, <1>3, <1>4

\* They depend on the requests, results and terminals alone.
LEMMA SameDisk ==
  ASSUME UNCHANGED <<begun, sealed, terminal>>
  PROVE  /\ Pending' = Pending
         /\ Prepared' = Prepared
         /\ AllSealed' <=> AllSealed
         /\ Results' = Results
         /\ \A i \in Logical : (Decided(i)' <=> Decided(i)) /\ StatusOf(i)' = StatusOf(i)
         /\ \A j \in Jobs : Unfinished(j)' <=> Unfinished(j)
<1>1. Pending' = Pending BY DEF Pending
<1>2. Prepared' = Prepared BY DEF Prepared
<1>3. AllSealed' <=> AllSealed BY <1>2 DEF AllSealed
<1>4. Results' = Results BY <1>2 DEF Results
<1>5. \A i \in Logical : FailedSelection(i)' <=> FailedSelection(i)
  BY DEF FailedSelection, Good
<1>6. \A i \in Logical : Decided(i)' <=> Decided(i)
  BY <1>5 DEF Decided
<1>7. \A i \in Logical : StatusOf(i)' = StatusOf(i)
  BY <1>5 DEF StatusOf
<1>8. \A j \in Jobs : Unfinished(j)' <=> Unfinished(j)
  BY DEF Unfinished
<1> QED BY <1>1, <1>2, <1>3, <1>4, <1>6, <1>7, <1>8

\* While the disk does not change, its part of the invariant stays.
LEMMA DiskKept ==
  ASSUME DiskInv, TerminalsFollowTurns, UNCHANGED <<begun, sealed, terminal, batch, relations>>
  PROVE  DiskInv' /\ TerminalsFollowTurns'
<1>1. DiskInv'
  BY SameDisk DEF DiskInv
<1>2. TerminalsFollowTurns'
  <2> SUFFICES ASSUME NEW i \in Logical, terminal'[i] # None
               PROVE  /\ Decided(i)'
                      /\ terminal'[i] = StatusOf(i)'
                      /\ \A t \in 1..Turns[i] : ~Unfinished(<<i, t>>)'
    BY DEF TerminalsFollowTurns
  <2> QED BY SameDisk, JobShapes DEF TerminalsFollowTurns, Jobs
<1> QED BY <1>1, <1>2

LEMMA ReceiptKept ==
  ASSUME ReceiptIsWhole, UNCHANGED <<begun, sealed, terminal, receipt>>
  PROVE  ReceiptIsWhole'
BY SameDisk DEF ReceiptIsWhole

\* The process at work is the only one.
LEMMA OthersIdle ==
  ASSUME IInv, NEW p \in Procs, stage[p] # "idle"
  PROVE  /\ lock = TRUE
         /\ \A q \in Procs : q # p => stage[q] = "idle"
         /\ \A c \in calls : c.proc = p
<1>1. \A q \in Procs : q # p => stage[q] = "idle"
  BY DEF IInv, OneExecution
<1>2. lock = TRUE
  BY DEF IInv, OneExecution, RunTypeOK
<1>3. \A c \in calls : c.proc = p
  BY <1>1 DEF IInv, AttemptInv, RunTypeOK, Calls
<1> QED BY <1>1, <1>2, <1>3

----------------------------------------------------------------------------
\* Runs begin and end

LEMMA InitEstablishes == Init => IInv
<1> SUFFICES ASSUME Init PROVE IInv
  OBVIOUS
<1> USE DEF Init
<1>1. RunTypeOK
  <2>1. \A a \in Jobs \X Ordinals : asked[a] \in Nat
    BY SMT
  <2>2. asked \in [Jobs \X Ordinals -> Nat]
    BY SMT
  <2>3. sealed \in [Jobs -> [answer : Answers, charge : Nat] \cup {None}]
    OBVIOUS
  <2>4. terminal \in [Logical -> Statuses \cup {None}]
    OBVIOUS
  <2>5. job \in [Procs -> Jobs \cup {None}]
    OBVIOUS
  <2>6. /\ tries \in [Procs -> 0..MaxAttempts]
        /\ charge \in [Procs -> Nat]
        /\ answer \in [Procs -> Answers]
        /\ exhausted \in [Procs -> BOOLEAN]
        /\ calls \subseteq Calls
    BY PipelineAssumption DEF Answers
  <2>7. stage \in [Procs -> {"idle", "restoring", "batch", "opening", "gateway", "waiting",
                             "sealing", "scoring", "relations", "publishing"}]
    OBVIOUS
  <2>8. lock \in BOOLEAN /\ begun \subseteq Jobs /\ stopped \in BOOLEAN
    OBVIOUS
  <2>9. batch = None /\ relations = None /\ receipt = None
    OBVIOUS
  <2> HIDE DEF Init
  <2> QED BY <2>2, <2>3, <2>4, <2>5, <2>6, <2>7, <2>8, <2>9 DEF RunTypeOK
<1>2. OneExecution /\ DiskInv /\ ReceiptIsWhole /\ CallInv /\ NeverReplayed
  BY DEF OneExecution, DiskInv, ReceiptIsWhole, CallInv, NeverReplayed, Jobs
<1>3. TerminalsFollowTurns
  BY DEF TerminalsFollowTurns
<1>4. \A p \in Procs : StageInv(p) /\ JobInv(p) /\ AttemptInv(p)
  BY DEF StageInv, JobInv, AttemptInv, PastBatch, Holds
<1> QED BY <1>1, <1>2, <1>3, <1>4 DEF IInv

\* A process that ends leaves nothing behind but the disk.
LEMMA ExitStep ==
  ASSUME IInv, NEW p \in Procs, stage[p] # "idle", Exit(p), lock' \in {lock, FALSE},
         UNCHANGED <<begun, sealed, terminal, batch, relations, asked>>,
         stopped' \in BOOLEAN, ReceiptIsWhole',
         receipt' = None \/ DOMAIN receipt' = {"batch", "relations", "cost"}
  PROVE  IInv'
<1>1. RunTypeOK'
  <2>1. /\ stage' \in [Procs -> {"idle", "restoring", "batch", "opening", "gateway", "waiting",
                                "sealing", "scoring", "relations", "publishing"}]
        /\ job' \in [Procs -> Jobs \cup {None}]
        /\ tries' \in [Procs -> 0..MaxAttempts]
        /\ charge' \in [Procs -> Nat]
        /\ answer' \in [Procs -> Answers]
        /\ exhausted' \in [Procs -> BOOLEAN]
    BY PipelineAssumption DEF IInv, RunTypeOK, Exit, Answers
  <2>2. calls' \subseteq Calls /\ lock' \in BOOLEAN
    BY DEF IInv, RunTypeOK, Exit
  <2>3. /\ begun' \subseteq Jobs
        /\ sealed' \in [Jobs -> [answer : Answers, charge : Nat] \cup {None}]
        /\ terminal' \in [Logical -> Statuses \cup {None}]
        /\ asked' \in [Jobs \X Ordinals -> Nat]
    BY DEF IInv, RunTypeOK
  <2>4. /\ batch' = None \/ batch' \in [Logical -> Statuses]
        /\ relations' = None \/ \E J \in SUBSET RelationJobs : relations' \in [J -> Answers]
    BY DEF IInv, RunTypeOK
  <2> QED BY <2>1, <2>2, <2>3, <2>4 DEF RunTypeOK
<1>2. \A q \in Procs : stage'[q] = "idle"
  BY OthersIdle DEF IInv, RunTypeOK, Exit
<1>3. calls' = {}
  BY OthersIdle DEF Exit
<1>4. OneExecution'
  BY <1>2 DEF OneExecution
<1>5. DiskInv' /\ TerminalsFollowTurns'
  BY DiskKept DEF IInv
<1>6. ASSUME NEW q \in Procs
      PROVE  StageInv(q)' /\ JobInv(q)' /\ AttemptInv(q)'
  <2>1. StageInv(q)' /\ JobInv(q)'
    BY <1>2 DEF StageInv, JobInv, PastBatch, Holds
  <2>2. tries'[q] = 0
    BY OthersIdle DEF IInv, AttemptInv, RunTypeOK, Exit
  <2>3. AttemptInv(q)'
    BY <1>2, <1>3, <2>2 DEF AttemptInv, Holds
  <2> QED BY <2>1, <2>3
<1>7. CallInv'
  BY <1>3 DEF IInv, CallInv
<1>8. NeverReplayed'
  BY DEF IInv, NeverReplayed
<1> QED BY <1>1, <1>4, <1>5, <1>6, <1>7, <1>8 DEF IInv

LEMMA LeaveStep ==
  ASSUME IInv, NEW p \in Procs, stage[p] # "idle", Leave(p), stopped' \in BOOLEAN,
         UNCHANGED <<begun, sealed, terminal, batch, relations, receipt, asked>>
  PROVE  IInv'
<1>1. ReceiptIsWhole'
  BY ReceiptKept DEF IInv
<1>2. receipt' = None \/ DOMAIN receipt' = {"batch", "relations", "cost"}
  BY DEF IInv, RunTypeOK
<1> QED BY <1>1, <1>2, ExitStep DEF Leave

LEMMA StartStep ==
  ASSUME IInv, NEW p \in Procs, Start(p)
  PROVE  IInv'
<1> USE DEF Start, GoTo, historyVars, gatewayVars, budgetVars
<1>1. RunTypeOK'
  BY DEF IInv, RunTypeOK
<1>2. \A q \in Procs : stage[q] = "idle"
  BY DEF IInv, StageInv
<1>3. \A q \in Procs : stage'[q] = IF q = p THEN "restoring" ELSE "idle"
  BY <1>2 DEF IInv, RunTypeOK
<1>4. calls' = {}
  BY <1>2 DEF IInv, AttemptInv, RunTypeOK, Calls
<1>5. OneExecution'
  BY <1>3 DEF OneExecution
<1>6. DiskInv' /\ TerminalsFollowTurns' /\ ReceiptIsWhole'
  BY DiskKept, ReceiptKept DEF IInv
<1>7. ASSUME NEW q \in Procs
      PROVE  StageInv(q)' /\ JobInv(q)' /\ AttemptInv(q)'
  <2>1. StageInv(q)' /\ JobInv(q)'
    BY <1>3 DEF StageInv, JobInv, PastBatch, Holds
  <2>2. AttemptInv(q)'
    BY <1>2, <1>3, <1>4 DEF IInv, AttemptInv, Holds
  <2> QED BY <2>1, <2>2
<1>8. CallInv' /\ NeverReplayed'
  BY <1>4 DEF IInv, CallInv, NeverReplayed
<1> QED BY <1>1, <1>5, <1>6, <1>7, <1>8 DEF IInv

LEMMA RemoveLockStep ==
  ASSUME IInv, RemoveLock
  PROVE  IInv'
<1> USE DEF RemoveLock, historyVars, gatewayVars, budgetVars
<1>1. RunTypeOK' /\ OneExecution'
  BY DEF IInv, RunTypeOK, OneExecution
<1>2. DiskInv' /\ TerminalsFollowTurns' /\ ReceiptIsWhole'
  BY DiskKept, ReceiptKept DEF IInv
<1>3. ASSUME NEW q \in Procs
      PROVE  StageInv(q)' /\ JobInv(q)' /\ AttemptInv(q)'
  BY DEF IInv, StageInv, JobInv, AttemptInv, PastBatch, Holds
<1>4. CallInv' /\ NeverReplayed'
  BY DEF IInv, CallInv, NeverReplayed
<1> QED BY <1>1, <1>2, <1>3, <1>4 DEF IInv

----------------------------------------------------------------------------
\* The run between its jobs

\* The run goes on to stage s, without a job, and may publish.
LEMMA MoveStep ==
  ASSUME IInv, NEW p \in Procs, stage[p] # "idle", ~Holds(p),
         NEW s \in {"batch", "scoring", "relations", "publishing"}, GoTo(p, s),
         UNCHANGED <<lock, begun, sealed, terminal, receipt, gatewayVars, exhausted, calls, asked>>,
         stopped' \in BOOLEAN,
         batch' = None \/ batch' \in [Logical -> Statuses],
         relations' = None \/ \E J \in SUBSET RelationJobs : relations' \in [J -> Answers],
         DiskInv', TerminalsFollowTurns', StageInv(p)'
  PROVE  IInv'
<1> USE DEF GoTo, gatewayVars
<1>1. RunTypeOK'
  BY DEF IInv, RunTypeOK
<1>2. /\ \A q \in Procs : q # p => stage[q] = "idle" /\ stage'[q] = "idle"
      /\ stage'[p] = s
      /\ lock = TRUE
  BY OthersIdle DEF IInv, RunTypeOK
<1>3. OneExecution'
  BY <1>2 DEF OneExecution
<1>4. ReceiptIsWhole'
  BY ReceiptKept DEF IInv
<1>5. ASSUME NEW q \in Procs
      PROVE  StageInv(q)' /\ JobInv(q)' /\ AttemptInv(q)'
  <2>1. StageInv(q)'
    BY <1>2 DEF StageInv, PastBatch, Holds
  <2>2. ~Holds(q)'
    BY <1>2 DEF Holds
  <2>3. tries[p] = 0
    BY <1>2 DEF IInv, AttemptInv, Holds
  <2>4. AttemptInv(q)'
    BY <1>2, <2>2, <2>3 DEF IInv, AttemptInv
  <2> QED BY <2>1, <2>2, <2>4 DEF JobInv
<1>6. CallInv' /\ NeverReplayed'
  BY DEF IInv, CallInv, NeverReplayed
<1> QED BY <1>1, <1>3, <1>4, <1>5, <1>6 DEF IInv

LEMMA RestoreStep ==
  ASSUME IInv, NEW p \in Procs, Restore(p)
  PROVE  IInv'
<1> USE DEF historyVars, gatewayVars
<1>1. CASE Leave(p)
  <2>1. stopped' \in BOOLEAN
    BY DEF Restore, IInv, RunTypeOK
  <2> QED BY <1>1, <2>1, LeaveStep DEF Restore
<1>2. CASE ~Leave(p)
  <2>1. /\ stage[p] = "restoring"
        /\ receipt = None
        /\ \A j \in MainJobs : ~Unfinished(j)
        /\ GoTo(p, "batch")
        /\ UNCHANGED <<lock, begun, sealed, terminal, batch, relations, receipt, gatewayVars,
                       exhausted, calls, stopped, asked>>
    BY <1>2 DEF Restore
  <2>2. DiskInv' /\ TerminalsFollowTurns'
    BY <2>1, DiskKept DEF IInv
  <2>3. \A j \in MainJobs : ~Unfinished(j)'
    BY <2>1 DEF Unfinished
  <2>4. StageInv(p)'
    <3>1. stage'[p] = "batch"
      BY <2>1 DEF GoTo, IInv, RunTypeOK
    <3>2. lock' = TRUE
      BY <2>1, OthersIdle
    <3> QED BY <2>1, <2>3, <3>1, <3>2 DEF StageInv, PastBatch, Holds
  <2>5. /\ stopped' \in BOOLEAN
        /\ batch' = None \/ batch' \in [Logical -> Statuses]
        /\ relations' = None \/ \E J \in SUBSET RelationJobs : relations' \in [J -> Answers]
    BY <2>1 DEF IInv, RunTypeOK
  <2>6. stage[p] # "idle" /\ ~Holds(p)
    BY <2>1 DEF Holds
  <2> QED BY <2>1, <2>2, <2>4, <2>5, <2>6, MoveStep
<1> QED BY <1>1, <1>2

LEMMA ConcludeStep ==
  ASSUME IInv, NEW p \in Procs, Conclude(p)
  PROVE  IInv'
<1> USE DEF historyVars, gatewayVars, budgetVars
<1>1. PICK i \in Logical : /\ IsNext(i)
                           /\ Decided(i)
                           /\ terminal' = [terminal EXCEPT ![i] = StatusOf(i)]
  BY DEF Conclude
<1>2. stage[p] = "batch" /\ terminal[i] = None /\ Pending # {}
  BY <1>1 DEF Conclude, IsNext, Pending
<1>3. UNCHANGED <<lock, begun, sealed, batch, relations, receipt, stage, gatewayVars, exhausted,
                  calls, stopped, asked>>
  BY DEF Conclude
<1>4. /\ batch = None
      /\ relations = None
      /\ \A j \in RelationJobs : j \notin begun
      /\ receipt = None
      /\ \A j \in MainJobs : ~Unfinished(j)
  BY <1>2 DEF IInv, DiskInv, StageInv, Holds
<1>5. StatusOf(i) \in Statuses
  BY DEF StatusOf, Statuses
<1>6. RunTypeOK'
  BY <1>1, <1>3, <1>5 DEF IInv, RunTypeOK
<1>7. OneExecution' /\ ReceiptIsWhole'
  BY <1>3, <1>4 DEF IInv, OneExecution, ReceiptIsWhole
<1>8. DiskInv'
  BY <1>3, <1>4 DEF IInv, DiskInv
<1>9. TerminalsFollowTurns'
  <2> SUFFICES ASSUME NEW k \in Logical, terminal'[k] # None
               PROVE  /\ Decided(k)'
                      /\ terminal'[k] = StatusOf(k)'
                      /\ \A t \in 1..Turns[k] : ~Unfinished(<<k, t>>)'
    BY DEF TerminalsFollowTurns
  <2>1. FailedSelection(k)' <=> FailedSelection(k)
    BY <1>3 DEF FailedSelection, Good
  <2>2. (Decided(k)' <=> Decided(k)) /\ StatusOf(k)' = StatusOf(k)
    BY <1>3, <2>1 DEF Decided, StatusOf
  <2>3. \A t \in 1..Turns[k] : ~Unfinished(<<k, t>>)'
    BY <1>3, <1>4, JobShapes DEF Unfinished
  <2>4. CASE k = i
    BY <1>1, <2>2, <2>3, <2>4 DEF IInv, RunTypeOK
  <2>5. CASE k # i
    <3>1. terminal'[k] = terminal[k]
      BY <1>1, <2>5 DEF IInv, RunTypeOK
    <3> QED BY <2>2, <2>3, <3>1 DEF IInv, TerminalsFollowTurns
  <2> QED BY <2>4, <2>5
<1>10. ASSUME NEW q \in Procs
       PROVE  StageInv(q)' /\ JobInv(q)' /\ AttemptInv(q)'
  <2>1. q # p => stage'[q] = "idle"
    BY <1>2, <1>3, OthersIdle
  <2>2. stage'[p] = "batch"
    BY <1>2, <1>3
  <2>3. StageInv(q)'
    <3>1. \A j \in MainJobs : ~Unfinished(j)'
      BY <1>3, <1>4 DEF Unfinished
    <3>2. lock' = TRUE
      BY <1>2, <1>3, OthersIdle
    <3> QED BY <1>3, <1>4, <2>1, <2>2, <3>1, <3>2 DEF StageInv, PastBatch, Holds
  <2>4. JobInv(q)'
    BY <2>1, <2>2 DEF JobInv, Holds
  <2>5. AttemptInv(q)'
    BY <1>3, <2>1, <2>2 DEF IInv, AttemptInv, Holds
  <2> QED BY <2>3, <2>4, <2>5
<1>11. CallInv' /\ NeverReplayed'
  BY <1>3 DEF IInv, CallInv, NeverReplayed
<1> QED BY <1>6, <1>7, <1>8, <1>9, <1>10, <1>11 DEF IInv

LEMMA FinishBatchStep ==
  ASSUME IInv, NEW p \in Procs, FinishBatch(p)
  PROVE  IInv'
<1> USE DEF historyVars, gatewayVars, budgetVars
<1>1. CASE Leave(p)
  <2>1. stopped' \in BOOLEAN /\ UNCHANGED batch
    <3>1. CASE exhausted[p] \/ batch \notin {None, terminal}
      BY <3>1 DEF FinishBatch, IInv, RunTypeOK
    <3>2. CASE ~(exhausted[p] \/ batch \notin {None, terminal})
      <4>1. stage'[p] = "idle" /\ stage'[p] = "scoring"
        BY <1>1, <3>2 DEF FinishBatch, Leave, Exit, GoTo, IInv, RunTypeOK
      <4> QED BY <4>1
    <3> QED BY <3>1, <3>2
  <2> QED BY <1>1, <2>1, LeaveStep DEF FinishBatch
<1>2. CASE ~Leave(p)
  <2>1. /\ stage[p] = "batch"
        /\ Pending = {}
        /\ batch' = terminal
        /\ GoTo(p, "scoring")
        /\ UNCHANGED <<lock, begun, sealed, terminal, relations, receipt, gatewayVars,
                       exhausted, calls, stopped, asked>>
    BY <1>2 DEF FinishBatch
  <2>2. TerminalsFollowTurns'
    <3>1. (Pending' = Pending) /\ (Prepared' = Prepared)
      BY <2>1, SameDisk
    <3> SUFFICES ASSUME NEW k \in Logical, terminal'[k] # None
                 PROVE  /\ Decided(k)'
                        /\ terminal'[k] = StatusOf(k)'
                        /\ \A t \in 1..Turns[k] : ~Unfinished(<<k, t>>)'
      BY DEF TerminalsFollowTurns
    <3> QED BY <2>1, SameDisk, JobShapes DEF IInv, TerminalsFollowTurns, Jobs
  <2>3. DiskInv'
    BY <2>1, SameDisk DEF IInv, DiskInv
  <2>4. StageInv(p)'
    <3>1. stage'[p] = "scoring" /\ stage[p] # "idle"
      BY <2>1 DEF GoTo, IInv, RunTypeOK
    <3>2. lock' = TRUE
      BY <2>1, <3>1, OthersIdle
    <3>3. \A j \in MainJobs : ~Unfinished(j)'
      BY <2>1 DEF IInv, StageInv, Holds, Unfinished
    <3>4. Pending' = {} /\ batch' = terminal' /\ receipt' = None
      BY <2>1, SameDisk DEF IInv, StageInv
    <3> QED BY <3>1, <3>2, <3>3, <3>4 DEF StageInv, PastBatch, Holds
  <2>5. /\ stopped' \in BOOLEAN
        /\ batch' \in [Logical -> Statuses]
        /\ relations' = None \/ \E J \in SUBSET RelationJobs : relations' \in [J -> Answers]
    BY <2>1 DEF IInv, RunTypeOK, Pending
  <2>6. stage[p] # "idle" /\ ~Holds(p)
    BY <2>1 DEF Holds
  <2> QED BY <2>1, <2>2, <2>3, <2>4, <2>5, <2>6, MoveStep
<1> QED BY <1>1, <1>2

LEMMA ScoreStep ==
  ASSUME IInv, NEW p \in Procs, Score(p)
  PROVE  IInv'
<1> USE DEF historyVars, gatewayVars, budgetVars
<1>1. CASE Leave(p)
  <2>1. stopped' \in BOOLEAN
    BY DEF Score, IInv, RunTypeOK
  <2> QED BY <1>1, <2>1, LeaveStep DEF Score
<1>2. CASE ~Leave(p)
  <2>1. /\ stage[p] = "scoring"
        /\ GoTo(p, "relations")
        /\ UNCHANGED <<lock, begun, sealed, terminal, batch, relations, receipt, gatewayVars,
                       exhausted, calls, stopped, asked>>
    BY <1>2 DEF Score
  <2>2. DiskInv' /\ TerminalsFollowTurns'
    BY <2>1, DiskKept DEF IInv
  <2>3. StageInv(p)'
    <3>1. stage'[p] = "relations" /\ stage[p] # "idle"
      BY <2>1 DEF GoTo, IInv, RunTypeOK
    <3>2. lock' = TRUE
      BY <2>1, <3>1, OthersIdle
    <3>3. \A j \in MainJobs : ~Unfinished(j)'
      BY <2>1 DEF IInv, StageInv, Holds, Unfinished
    <3>4. Pending' = {} /\ batch' = terminal' /\ receipt' = None
      BY <2>1, SameDisk DEF IInv, StageInv, PastBatch
    <3> QED BY <3>1, <3>2, <3>3, <3>4 DEF StageInv, PastBatch, Holds
  <2>4. /\ stopped' \in BOOLEAN
        /\ batch' = None \/ batch' \in [Logical -> Statuses]
        /\ relations' = None \/ \E J \in SUBSET RelationJobs : relations' \in [J -> Answers]
    BY <2>1 DEF IInv, RunTypeOK
  <2>5. stage[p] # "idle" /\ ~Holds(p)
    BY <2>1 DEF Holds
  <2> QED BY <2>1, <2>2, <2>3, <2>4, <2>5, MoveStep
<1> QED BY <1>1, <1>2

LEMMA FinishRelationsStep ==
  ASSUME IInv, NEW p \in Procs, FinishRelations(p)
  PROVE  IInv'
<1> USE DEF historyVars, gatewayVars, budgetVars
<1>1. CASE Leave(p)
  <2>1. stopped' \in BOOLEAN /\ UNCHANGED relations
    <3>1. CASE exhausted[p] \/ relations \notin {None, Results}
      BY <3>1 DEF FinishRelations, IInv, RunTypeOK
    <3>2. CASE ~(exhausted[p] \/ relations \notin {None, Results})
      <4>1. stage'[p] = "idle" /\ stage'[p] = "publishing"
        BY <1>1, <3>2 DEF FinishRelations, Leave, Exit, GoTo, IInv, RunTypeOK
      <4> QED BY <4>1
    <3> QED BY <3>1, <3>2
  <2> QED BY <1>1, <2>1, LeaveStep DEF FinishRelations
<1>2. CASE ~Leave(p)
  <2>1. /\ stage[p] = "relations"
        /\ AllSealed
        /\ relations' = Results
        /\ GoTo(p, "publishing")
        /\ UNCHANGED <<lock, begun, sealed, terminal, batch, receipt, gatewayVars,
                       exhausted, calls, stopped, asked>>
    BY <1>2 DEF FinishRelations
  <2>2. Pending = {} /\ batch = terminal
    BY <2>1 DEF IInv, StageInv, PastBatch
  <2>3. TerminalsFollowTurns'
    <3> SUFFICES ASSUME NEW k \in Logical, terminal'[k] # None
                 PROVE  /\ Decided(k)'
                        /\ terminal'[k] = StatusOf(k)'
                        /\ \A t \in 1..Turns[k] : ~Unfinished(<<k, t>>)'
      BY DEF TerminalsFollowTurns
    <3> QED BY <2>1, SameDisk, JobShapes DEF IInv, TerminalsFollowTurns, Jobs
  <2>4. DiskInv'
    BY <2>1, <2>2, SameDisk DEF IInv, DiskInv
  <2>5. StageInv(p)'
    <3>1. stage'[p] = "publishing" /\ stage[p] # "idle"
      BY <2>1 DEF GoTo, IInv, RunTypeOK
    <3>2. lock' = TRUE
      BY <2>1, <3>1, OthersIdle
    <3>3. \A j \in MainJobs : ~Unfinished(j)'
      BY <2>1 DEF IInv, StageInv, Holds, Unfinished
    <3>4. Pending' = {} /\ batch' = terminal' /\ receipt' = None
      BY <2>1, <2>2, SameDisk DEF IInv, StageInv
    <3>5. AllSealed' /\ relations' = Results'
      BY <2>1, SameDisk
    <3> QED BY <3>1, <3>2, <3>3, <3>4, <3>5 DEF StageInv, PastBatch, Holds
  <2>6. Results \in [Prepared -> Answers]
    <3> SUFFICES ASSUME NEW j \in Prepared
                 PROVE  sealed[j].answer \in Answers
      BY DEF Results
    <3>1. j \in Jobs
      BY DEF Prepared, Jobs, RelationJobs
    <3>2. sealed[j] # None
      BY <2>1 DEF AllSealed
    <3> QED BY <3>1, <3>2 DEF IInv, RunTypeOK
  <2>7. Prepared \subseteq RelationJobs
    BY DEF Prepared, RelationJobs
  <2>8. /\ stopped' \in BOOLEAN
        /\ batch' = None \/ batch' \in [Logical -> Statuses]
        /\ relations' = None \/ \E J \in SUBSET RelationJobs : relations' \in [J -> Answers]
    BY <2>1, <2>6, <2>7 DEF IInv, RunTypeOK
  <2>9. stage[p] # "idle" /\ ~Holds(p)
    BY <2>1 DEF Holds
  <2> QED BY <2>1, <2>3, <2>4, <2>5, <2>8, <2>9, MoveStep
<1> QED BY <1>1, <1>2

LEMMA CompleteStep ==
  ASSUME IInv, NEW p \in Procs, Complete(p)
  PROVE  IInv'
<1> USE DEF historyVars
<1>1. /\ stage[p] = "publishing"
      /\ receipt' = [batch |-> batch, relations |-> relations, cost |-> committed[p]]
      /\ Leave(p)
      /\ UNCHANGED <<begun, sealed, terminal, batch, relations, asked, stopped>>
  BY DEF Complete
<1>2. /\ Pending = {} /\ batch = terminal
      /\ AllSealed /\ relations = Results
      /\ \A j \in MainJobs : ~Unfinished(j)
  BY <1>1 DEF IInv, StageInv, PastBatch, Holds
<1>3. \A j \in Jobs : ~Unfinished(j)
  <2>1. \A j \in RelationJobs : j \in begun => sealed[j] # None
    BY <1>2 DEF IInv, DiskInv, AllSealed
  <2> QED BY <1>2, <2>1 DEF Jobs, Unfinished
<1>4. ReceiptIsWhole'
  BY <1>1, <1>2, <1>3, SameDisk DEF ReceiptIsWhole
<1>5. DOMAIN receipt' = {"batch", "relations", "cost"}
  BY <1>1
<1>6. stopped' \in BOOLEAN /\ lock' \in {lock, FALSE} /\ Exit(p) /\ stage[p] # "idle"
  BY <1>1 DEF IInv, RunTypeOK, Leave
<1> QED BY <1>1, <1>4, <1>5, <1>6, ExitStep

----------------------------------------------------------------------------
\* The run takes a job up

LEMMA OpenStep ==
  ASSUME IInv, NEW p \in Procs, stage[p] \in {"batch", "relations"},
         NEW j \in Jobs, Open(p, j), sealed[j] = None, j \notin begun,
         j \in MainJobs => stage[p] = "batch" /\ terminal[j[1]] = None,
         j \in RelationJobs => stage[p] = "relations" /\ j \in Prepared,
         UNCHANGED <<diskVars, tries, charge, answer, exhausted, calls, historyVars>>
  PROVE  IInv'
<1> USE DEF Open, GoTo, diskVars, historyVars
<1>1. /\ \A q \in Procs : q # p => stage[q] = "idle" /\ stage'[q] = "idle"
      /\ stage'[p] = "opening" /\ job'[p] = j
      /\ lock' = TRUE
  BY OthersIdle DEF IInv, RunTypeOK
<1>2. RunTypeOK'
  <2>1. stage' \in [Procs -> {"idle", "restoring", "batch", "opening", "gateway", "waiting",
                             "sealing", "scoring", "relations", "publishing"}]
    BY DEF IInv, RunTypeOK
  <2>2. job' \in [Procs -> Jobs \cup {None}]
    BY DEF IInv, RunTypeOK
  <2> QED BY <2>1, <2>2 DEF IInv, RunTypeOK
<1>3. OneExecution'
  BY <1>1 DEF OneExecution
<1>4. DiskInv' /\ TerminalsFollowTurns' /\ ReceiptIsWhole'
  BY DiskKept, ReceiptKept DEF IInv
<1>5. /\ receipt' = None
      /\ \A k \in MainJobs : ~Unfinished(k)'
  BY DEF IInv, StageInv, Holds, Unfinished
<1>6. stage[p] = "relations" => Pending' = {} /\ batch' = terminal'
  BY SameDisk DEF IInv, StageInv, PastBatch
<1>7. MainJobs \cap RelationJobs = {} /\ Jobs = MainJobs \cup RelationJobs
  BY JobShapes DEF Jobs
<1>8. StageInv(p)' /\ JobInv(p)'
  <2>1. StageInv(p)'
    BY <1>1, <1>5, <1>6, <1>7 DEF StageInv, PastBatch, Holds
  <2>2. Prepared' = Prepared
    BY SameDisk
  <2>3. JobInv(p)'
    BY <1>1, <1>7, <2>2 DEF JobInv, Holds
  <2> QED BY <2>1, <2>3
<1>9. AttemptInv(p)'
  <2>1. tries'[p] = 0
    BY DEF IInv, AttemptInv
  <2>2. \A o \in Ordinals : asked'[<<j, o>>] = 0 /\ \A c \in calls' : c.job # j
    BY DEF IInv, CallInv
  <2> QED BY <1>1, <2>1, <2>2 DEF AttemptInv, Holds
<1>10. \A q \in Procs : StageInv(q)' /\ JobInv(q)' /\ AttemptInv(q)'
  <2> SUFFICES ASSUME NEW q \in Procs, q # p
               PROVE  StageInv(q)' /\ JobInv(q)' /\ AttemptInv(q)'
    BY <1>8, <1>9
  <2> QED BY <1>1 DEF IInv, StageInv, JobInv, AttemptInv, PastBatch, Holds
<1>11. CallInv' /\ NeverReplayed'
  BY DEF IInv, CallInv, NeverReplayed
<1> QED BY <1>2, <1>3, <1>4, <1>10, <1>11 DEF IInv

LEMMA FindTurnStep ==
  ASSUME IInv, NEW p \in Procs, FindTurn(p)
  PROVE  IInv'
<1> USE DEF historyVars, diskVars, budgetVars
<1> DEFINE Found(i, t) ==
      /\ IsNext(i)
      /\ IsNextTurn(i, t)
      /\ IF <<i, t>> \in begun
           THEN Leave(p)
           ELSE Open(p, <<i, t>>) /\ UNCHANGED <<lock, tries, charge, answer, budgetVars, calls>>
<1>0. PICK i \in Logical : \E t \in 1..Turns[i] : Found(i, t)
  BY DEF FindTurn
<1>1. PICK t \in 1..Turns[i] : Found(i, t)
  BY <1>0
<1>2. /\ stage[p] = "batch"
      /\ UNCHANGED <<begun, sealed, terminal, batch, relations, receipt, historyVars>>
  BY DEF FindTurn
<1>3. CASE <<i, t>> \in begun
  <2>1. stopped' \in BOOLEAN
    BY <1>2 DEF IInv, RunTypeOK
  <2> QED BY <1>1, <1>2, <1>3, <2>1, LeaveStep
<1>4. CASE <<i, t>> \notin begun
  <2> DEFINE j == <<i, t>>
  <2>1. j \in MainJobs /\ j \in Jobs /\ j \notin RelationJobs
    BY JobShapes DEF Jobs
  <2>2. sealed[j] = None /\ terminal[j[1]] = None
    BY <1>1 DEF IsNext, IsNextTurn, Pending
  <2>3. Open(p, j) /\ UNCHANGED <<diskVars, tries, charge, answer, exhausted, calls, historyVars>>
    BY <1>1, <1>2, <1>4
  <2> HIDE DEF j
  <2> QED BY <1>2, <1>4, <2>1, <2>2, <2>3, OpenStep DEF j
<1> QED BY <1>3, <1>4

LEMMA FindRelationStep ==
  ASSUME IInv, NEW p \in Procs, FindRelation(p)
  PROVE  IInv'
<1> USE DEF historyVars, diskVars, budgetVars
<1>1. PICK j \in Prepared \ begun : Open(p, j)
  BY DEF FindRelation
<1>2. /\ stage[p] = "relations"
      /\ UNCHANGED <<diskVars, tries, charge, answer, exhausted, calls, historyVars>>
  BY DEF FindRelation
<1>3. j \in RelationJobs /\ j \in Jobs /\ j \notin MainJobs
  BY JobShapes DEF Prepared, RelationJobs, Jobs
<1>4. sealed[j] = None
  BY <1>1, <1>3 DEF IInv, DiskInv
<1> QED BY <1>1, <1>2, <1>3, <1>4, OpenStep

\* With the request on disk, the job is open, and is the only one.
LEMMA BeginStep ==
  ASSUME IInv, NEW p \in Procs, Begin(p)
  PROVE  IInv'
<1> USE DEF gatewayVars, budgetVars, historyVars
<1> DEFINE j == job[p]
<1>1. /\ stage[p] = "opening"
      /\ begun' = begun \cup {j}
      /\ stage' = [stage EXCEPT ![p] = "gateway"]
      /\ UNCHANGED <<lock, sealed, terminal, batch, relations, receipt, job, tries, charge, answer,
                     committed, exhausted, calls, asked, paid, excess, stopped>>
  BY DEF Begin, GoTo
<1>2. /\ \A q \in Procs : q # p => stage[q] = "idle" /\ stage'[q] = "idle"
      /\ stage'[p] = "gateway"
      /\ lock = TRUE
  BY <1>1, OthersIdle DEF IInv, RunTypeOK
<1>3. /\ j \in Jobs /\ sealed[j] = None /\ j \notin begun
      /\ j \in MainJobs => terminal[j[1]] = None
      /\ j \in RelationJobs => j \in Prepared /\ Pending = {} /\ batch = terminal
  BY <1>1 DEF IInv, JobInv, StageInv, PastBatch, Holds
<1>4. receipt = None /\ \A k \in MainJobs : Unfinished(k) => k = j
  BY <1>1 DEF IInv, StageInv
<1>5. RunTypeOK'
  BY <1>1, <1>3 DEF IInv, RunTypeOK
<1>6. OneExecution' /\ ReceiptIsWhole'
  BY <1>1, <1>2, <1>4 DEF OneExecution, ReceiptIsWhole
<1>7. /\ Pending' = Pending /\ Prepared' = Prepared
      /\ (AllSealed' <=> AllSealed) /\ Results' = Results
  BY <1>1 DEF Pending, Prepared, AllSealed, Results
<1>8. DiskInv'
  BY <1>1, <1>3, <1>7 DEF IInv, DiskInv
<1>9. TerminalsFollowTurns'
  <2> SUFFICES ASSUME NEW k \in Logical, terminal'[k] # None
               PROVE  /\ Decided(k)'
                      /\ terminal'[k] = StatusOf(k)'
                      /\ \A t \in 1..Turns[k] : ~Unfinished(<<k, t>>)'
    BY DEF TerminalsFollowTurns
  <2>1. FailedSelection(k)' <=> FailedSelection(k)
    BY <1>1 DEF FailedSelection, Good
  <2>2. (Decided(k)' <=> Decided(k)) /\ StatusOf(k)' = StatusOf(k)
    BY <1>1, <2>1 DEF Decided, StatusOf
  <2>3. ASSUME NEW t \in 1..Turns[k]
        PROVE  ~Unfinished(<<k, t>>)'
    <3>1. ~Unfinished(<<k, t>>)
      BY <1>1 DEF IInv, TerminalsFollowTurns
    <3>2. <<k, t>> # j
      <4>1. <<k, t>> \in MainJobs
        BY JobShapes
      <4>2. <<k, t>>[1] = k
        OBVIOUS
      <4> QED BY <1>1, <1>3, <4>1, <4>2
    <3> QED BY <1>1, <3>1, <3>2 DEF Unfinished
  <2> QED BY <1>1, <2>2, <2>3 DEF IInv, TerminalsFollowTurns
<1>10. StageInv(p)' /\ JobInv(p)'
  <2>1. \A k \in MainJobs : Unfinished(k)' => k = j
    BY <1>1, <1>4 DEF Unfinished
  <2>2. StageInv(p)'
    BY <1>1, <1>2, <1>3, <1>4, <1>7, <2>1 DEF StageInv, PastBatch, Holds
  <2>3. JobInv(p)'
    BY <1>1, <1>2, <1>3, <1>7 DEF JobInv, Holds
  <2> QED BY <2>2, <2>3
<1>11. AttemptInv(p)'
  <2>1. tries'[p] = 0 /\ 0 < MaxAttempts
    BY <1>1, PipelineAssumption DEF IInv, AttemptInv
  <2>2. \A o \in Ordinals : asked'[<<j, o>>] = 0 /\ \A c \in calls' : c.job # j
    BY <1>1, <1>3 DEF IInv, CallInv
  <2> QED BY <1>1, <1>2, <2>1, <2>2 DEF AttemptInv, Holds
<1>12. \A q \in Procs : StageInv(q)' /\ JobInv(q)' /\ AttemptInv(q)'
  <2> SUFFICES ASSUME NEW q \in Procs, q # p
               PROVE  StageInv(q)' /\ JobInv(q)' /\ AttemptInv(q)'
    BY <1>10, <1>11
  <2>1. StageInv(q)' /\ JobInv(q)'
    BY <1>2 DEF StageInv, JobInv, PastBatch, Holds
  <2>2. AttemptInv(q)'
    BY <1>1, <1>2 DEF IInv, AttemptInv, Holds
  <2> QED BY <2>1, <2>2
<1>13. CallInv' /\ NeverReplayed'
  BY <1>1 DEF IInv, CallInv, NeverReplayed
<1> QED BY <1>5, <1>6, <1>8, <1>9, <1>12, <1>13 DEF IInv

----------------------------------------------------------------------------
\* Attempts and calls

\* What a step of the gateway keeps of the other parts: it changes the process' own stage, within
\* a job, its records and its calls.
LEMMA GatewayKeeps ==
  ASSUME IInv, NEW p \in Procs, stage[p] \in {"gateway", "waiting"},
         NEW s \in {"gateway", "waiting", "sealing"}, stage' = [stage EXCEPT ![p] = s],
         UNCHANGED <<diskVars, job, asked>>,
         \A c \in calls' : c.proc = p
  PROVE  /\ stage'[p] = s
         /\ OneExecution' /\ DiskInv' /\ TerminalsFollowTurns' /\ ReceiptIsWhole' /\ NeverReplayed'
         /\ \A q \in Procs : StageInv(q)' /\ JobInv(q)'
         /\ \A q \in Procs : q # p => stage[q] = "idle" /\ stage'[q] = "idle"
         /\ job[p] \in Jobs /\ job[p] \in begun
<1> USE DEF diskVars
<1>1. /\ \A q \in Procs : q # p => stage[q] = "idle" /\ stage'[q] = "idle"
      /\ stage'[p] = s
      /\ lock = TRUE
  BY OthersIdle DEF IInv, RunTypeOK
<1>2. OneExecution'
  BY <1>1 DEF OneExecution
<1>3. DiskInv' /\ TerminalsFollowTurns' /\ ReceiptIsWhole' /\ NeverReplayed'
  BY DiskKept, ReceiptKept DEF IInv, NeverReplayed
<1>4. \A k \in Jobs : Unfinished(k)' <=> Unfinished(k)
  BY DEF Unfinished
<1>5. Prepared' = Prepared /\ Pending' = Pending
  BY SameDisk
<1>6. StageInv(p)' /\ JobInv(p)'
  <2>1. StageInv(p)'
    BY <1>1, <1>4, <1>5 DEF IInv, StageInv, PastBatch, Holds, Jobs
  <2>2. JobInv(p)'
    BY <1>1, <1>5 DEF IInv, JobInv, Holds
  <2> QED BY <2>1, <2>2
<1>7. \A q \in Procs : q # p => StageInv(q)' /\ JobInv(q)'
  BY <1>1 DEF StageInv, JobInv, PastBatch, Holds
<1>8. job[p] \in Jobs /\ job[p] \in begun
  BY DEF IInv, JobInv, Holds
<1> QED BY <1>1, <1>2, <1>3, <1>6, <1>7, <1>8

\* An attempt goes on record: no call is added.
LEMMA RecordStep ==
  ASSUME IInv, NEW p \in Procs, stage[p] \in {"gateway", "waiting"},
         NEW cost \in Nat, NEW a \in Answers,
         LastAttempt(p, cost, a) \/ RetriedAttempt(p, cost),
         UNCHANGED <<diskVars, asked>>, calls' \subseteq calls,
         exhausted' \in [Procs -> BOOLEAN], stopped' \in BOOLEAN
  PROVE  IInv'
<1> USE DEF diskVars
<1>1. PICK z \in {"gateway", "sealing"} :
        /\ stage' = [stage EXCEPT ![p] = z]
        /\ z = "gateway" => tries[p] + 1 < MaxAttempts
  BY DEF LastAttempt, RetriedAttempt, GoTo
<1>2. /\ tries' = [tries EXCEPT ![p] = @ + 1]
      /\ charge' = [charge EXCEPT ![p] = @ + cost]
      /\ job' = job
      /\ \E b \in Answers : answer' = [answer EXCEPT ![p] = b]
  BY DEF LastAttempt, RetriedAttempt, Answers
<1>3. \A c \in calls' : c.proc = p
  BY OthersIdle
<1>4. /\ stage'[p] = z
      /\ OneExecution' /\ DiskInv' /\ TerminalsFollowTurns' /\ ReceiptIsWhole' /\ NeverReplayed'
      /\ \A q \in Procs : StageInv(q)' /\ JobInv(q)'
      /\ \A q \in Procs : q # p => stage[q] = "idle" /\ stage'[q] = "idle"
      /\ job[p] \in Jobs /\ job[p] \in begun
  BY <1>1, <1>2, <1>3, GatewayKeeps
<1>5. /\ MaxAttempts \in Nat
      /\ tries[p] \in Nat /\ tries[p] < MaxAttempts
      /\ tries'[p] = tries[p] + 1
  BY <1>2, PipelineAssumption DEF IInv, RunTypeOK, AttemptInv
<1>6. RunTypeOK'
  <2>1. tries' \in [Procs -> 0..MaxAttempts]
    BY <1>2, <1>5 DEF IInv, RunTypeOK
  <2>2. charge' \in [Procs -> Nat]
    BY <1>2 DEF IInv, RunTypeOK
  <2>3. answer' \in [Procs -> Answers]
    BY <1>2 DEF IInv, RunTypeOK
  <2>4. stage' \in [Procs -> {"idle", "restoring", "batch", "opening", "gateway", "waiting",
                             "sealing", "scoring", "relations", "publishing"}]
    BY <1>1 DEF IInv, RunTypeOK
  <2>5. calls' \subseteq Calls
    BY DEF IInv, RunTypeOK
  <2> QED BY <1>2, <2>1, <2>2, <2>3, <2>4, <2>5 DEF IInv, RunTypeOK
<1>7. AttemptInv(p)'
  <2>1. Used(p)' = tries[p] + 1
    BY <1>4, <1>5 DEF Used
  <2>2. \A o \in Ordinals : o > tries[p] + 1 =>
          asked'[<<job[p], o>>] = 0 /\ \A c \in calls' : c.job = job[p] => c.ordinal # o
    <3> SUFFICES ASSUME NEW o \in Ordinals, o > tries[p] + 1
                 PROVE  o > Used(p)
      BY DEF IInv, AttemptInv, Holds
    <3> QED BY <1>5 DEF Used, Ordinals
  <2>3. z = "gateway" => tries'[p] < MaxAttempts
    BY <1>1, <1>5
  <2> QED BY <1>2, <1>4, <2>1, <2>2, <2>3 DEF AttemptInv, Holds
<1>8. \A q \in Procs : q # p => AttemptInv(q)'
  BY <1>2, <1>4 DEF IInv, RunTypeOK, AttemptInv, Holds
<1>9. CallInv'
  BY DEF IInv, CallInv
<1> QED BY <1>4, <1>6, <1>7, <1>8, <1>9 DEF IInv

\* A call is made: it is the next attempt, of which there was none.
LEMMA CallStep ==
  ASSUME IInv, NEW p \in Procs, stage[p] = "gateway",
         NEW call \in Calls, call.proc = p, call.job = job[p], call.ordinal = tries[p] + 1,
         call.sent = FALSE, calls' = calls \cup {call},
         stage' = [stage EXCEPT ![p] = "waiting"],
         UNCHANGED <<diskVars, gatewayVars, exhausted, asked, stopped>>
  PROVE  IInv'
<1> USE DEF diskVars, gatewayVars
<1>1. \A c \in calls' : c.proc = p
  BY OthersIdle
<1>2. /\ stage'[p] = "waiting"
      /\ OneExecution' /\ DiskInv' /\ TerminalsFollowTurns' /\ ReceiptIsWhole' /\ NeverReplayed'
      /\ \A q \in Procs : StageInv(q)' /\ JobInv(q)'
      /\ \A q \in Procs : q # p => stage[q] = "idle" /\ stage'[q] = "idle"
      /\ job[p] \in Jobs /\ job[p] \in begun
  BY <1>1, GatewayKeeps
<1>3. /\ MaxAttempts \in Nat
      /\ tries[p] \in Nat /\ tries[p] < MaxAttempts
      /\ tries[p] + 1 \in Ordinals /\ tries[p] + 1 > tries[p]
  BY PipelineAssumption DEF IInv, RunTypeOK, AttemptInv, Ordinals
<1>4. /\ asked[<<job[p], tries[p] + 1>>] = 0
      /\ \A c \in calls : c.job = job[p] => c.ordinal # tries[p] + 1
  BY <1>3 DEF IInv, AttemptInv, Holds, Used
<1>5. RunTypeOK'
  <2>1. stage' \in [Procs -> {"idle", "restoring", "batch", "opening", "gateway", "waiting",
                             "sealing", "scoring", "relations", "publishing"}]
    BY DEF IInv, RunTypeOK
  <2>2. calls' \subseteq Calls
    BY DEF IInv, RunTypeOK
  <2> QED BY <2>1, <2>2 DEF IInv, RunTypeOK
<1>6. AttemptInv(p)'
  <2>1. Used(p)' = tries[p] + 1
    BY <1>2 DEF Used
  <2>2. \A o \in Ordinals : o > tries[p] + 1 =>
          asked'[<<job[p], o>>] = 0 /\ \A c \in calls' : c.job = job[p] => c.ordinal # o
    <3> SUFFICES ASSUME NEW o \in Ordinals, o > tries[p] + 1
                 PROVE  /\ asked[<<job[p], o>>] = 0
                        /\ \A c \in calls : c.job = job[p] => c.ordinal # o
                        /\ tries[p] + 1 # o
      OBVIOUS
    <3>1. o > Used(p)
      BY <1>3 DEF Used, Ordinals
    <3>2. tries[p] + 1 # o
      BY <1>3 DEF Ordinals
    <3> QED BY <3>1, <3>2 DEF IInv, AttemptInv, Holds
  <2> QED BY <1>2, <1>3, <2>1, <2>2 DEF AttemptInv, Holds
<1>7. \A q \in Procs : q # p => AttemptInv(q)'
  BY <1>2 DEF IInv, AttemptInv, Holds
<1>8. CallInv'
  <2>1. \A j \in Jobs : j \notin begun' => \A o \in Ordinals : asked'[<<j, o>>] = 0
    BY DEF IInv, CallInv
  <2>2. ASSUME NEW c \in calls', NEW d \in calls'
        PROVE  /\ c.job \in begun'
               /\ asked'[<<c.job, c.ordinal>>] = IF c.sent THEN 1 ELSE 0
               /\ d.job = c.job /\ d.ordinal = c.ordinal => d = c
    <3>1. CASE c = call
      BY <1>2, <1>4, <3>1
    <3>2. CASE c # call
      BY <1>4, <3>2 DEF IInv, CallInv
    <3> QED BY <3>1, <3>2
  <2> QED BY <2>1, <2>2 DEF CallInv
<1> QED BY <1>2, <1>5, <1>6, <1>7, <1>8 DEF IInv

LEMMA AttemptStep ==
  ASSUME IInv, NEW p \in Procs, Attempt(p)
  PROVE  IInv'
<1> USE DEF diskVars, gatewayVars
<1>0. stage[p] = "gateway" /\ UNCHANGED <<diskVars, asked>>
  BY DEF Attempt
<1>1. job[p] \in Jobs
  BY <1>0 DEF IInv, JobInv, Holds
<1>2. Reservation[job[p]] \in Nat
  BY <1>1, PipelineAssumption
<1>3. CASE Admits(p, job[p])
  <2> DEFINE Call(cost, known) == [proc |-> p, job |-> job[p], ordinal |-> tries[p] + 1,
                                   cost |-> cost, known |-> known, sent |-> FALSE]
  <2>1. /\ stage' = [stage EXCEPT ![p] = "waiting"]
        /\ UNCHANGED <<gatewayVars, exhausted, stopped>>
    BY <1>3 DEF Attempt, GoTo
  <2>2. PICK cost \in 1..(Reservation[job[p]] + Overrun), known \in BOOLEAN :
          calls' = calls \cup {Call(cost, known)}
    BY <1>3 DEF Attempt
  <2>3. tries[p] + 1 \in Ordinals
    BY <1>0, PipelineAssumption DEF IInv, RunTypeOK, AttemptInv, Ordinals
  <2>4. cost \in Nat
    BY <1>2, PipelineAssumption
  <2>5. Call(cost, known) \in Calls
    BY <1>1, <2>3, <2>4 DEF Calls
  <2> QED BY <1>0, <2>1, <2>2, <2>5, CallStep
<1>4. CASE ~Admits(p, job[p])
  <2>1. /\ exhausted' = [exhausted EXCEPT ![p] = TRUE]
        /\ stopped' = TRUE
        /\ LastAttempt(p, Reservation[job[p]], "failed")
        /\ UNCHANGED calls
    BY <1>4 DEF Attempt
  <2>2. exhausted' \in [Procs -> BOOLEAN]
    BY <2>1 DEF IInv, RunTypeOK
  <2>3. "failed" \in Answers
    BY DEF Answers
  <2> QED BY <1>0, <1>2, <2>1, <2>2, <2>3, RecordStep
<1> QED BY <1>3, <1>4

LEMMA ReturnStep ==
  ASSUME IInv, NEW p \in Procs, NEW c \in calls, Return(p, c) \/ Raise(p, c)
  PROVE  IInv'
<1> USE DEF diskVars, historyVars, budgetVars
<1>1. /\ stage[p] = "waiting" /\ c.job = job[p]
      /\ UNCHANGED <<diskVars, asked, stopped>>
      /\ calls' \subseteq calls
  BY DEF Return, Raise, Awaited
<1>2. job[p] \in Jobs
  BY <1>1 DEF IInv, JobInv, Holds
<1>3. Reservation[job[p]] \in Nat /\ c.cost \in Nat
  BY <1>2, PipelineAssumption DEF IInv, RunTypeOK, Calls
<1>4. exhausted' \in [Procs -> BOOLEAN] /\ stopped' \in BOOLEAN
  BY <1>1 DEF Return, Raise, Settle, IInv, RunTypeOK
<1>5. Outputs(c.job) \cup {"failed"} \subseteq Answers
  BY DEF Outputs, Answers
<1>6. \E cost \in Nat : \E a \in Answers : LastAttempt(p, cost, a) \/ RetriedAttempt(p, cost)
  <2> DEFINE reported == IF c.known THEN c.cost ELSE Reservation[c.job]
  <2>1. reported \in Nat /\ "failed" \in Answers
    BY <1>1, <1>3 DEF Answers
  <2>2. CASE \E a \in Outputs(c.job) \cup {"failed"} : LastAttempt(p, reported, a)
    BY <1>5, <2>1, <2>2
  <2>3. CASE \/ LastAttempt(p, Reservation[c.job], "failed")
             \/ RetriedAttempt(p, Reservation[c.job])
    BY <1>1, <1>3, <2>1, <2>3
  <2> QED BY <2>2, <2>3 DEF Return, Raise
<1> QED BY <1>1, <1>4, <1>6, RecordStep

LEMMA TimeOutStep ==
  ASSUME IInv, NEW p \in Procs, TimeOut(p)
  PROVE  IInv'
<1>1. /\ stage[p] = "waiting"
      /\ RetriedAttempt(p, Reservation[job[p]])
      /\ UNCHANGED <<diskVars, asked, calls, exhausted, stopped>>
  BY DEF TimeOut, historyVars, budgetVars
<1>2. Reservation[job[p]] \in Nat
  BY <1>1, PipelineAssumption DEF IInv, JobInv, Holds
<1>3. "failed" \in Answers
  BY DEF Answers
<1>4. exhausted' \in [Procs -> BOOLEAN] /\ stopped' \in BOOLEAN /\ calls' \subseteq calls
  BY <1>1 DEF IInv, RunTypeOK
<1> QED BY <1>1, <1>2, <1>3, <1>4, RecordStep

\* Whatever of the calls changes, the parts of the invariant that do not look at them stay.
LEMMA CallsApart ==
  ASSUME IInv, UNCHANGED <<diskVars, stage, job, tries>>
  PROVE  /\ OneExecution' /\ DiskInv' /\ TerminalsFollowTurns' /\ ReceiptIsWhole'
         /\ \A q \in Procs : StageInv(q)' /\ JobInv(q)'
<1> USE DEF diskVars
<1>1. OneExecution'
  BY DEF IInv, OneExecution
<1>2. DiskInv' /\ TerminalsFollowTurns' /\ ReceiptIsWhole'
  BY DiskKept, ReceiptKept DEF IInv
<1>3. Prepared' = Prepared /\ Pending' = Pending /\ Results' = Results /\ (AllSealed' <=> AllSealed)
  BY SameDisk
<1>4. ASSUME NEW q \in Procs
      PROVE  StageInv(q)' /\ JobInv(q)'
  <2>1. StageInv(q)'
    BY <1>3 DEF IInv, StageInv, PastBatch, Holds, Unfinished
  <2>2. JobInv(q)'
    BY <1>3 DEF IInv, JobInv, Holds
  <2> QED BY <2>1, <2>2
<1> QED BY <1>1, <1>2, <1>4

LEMMA SendStep ==
  ASSUME IInv, NEW c \in calls, Send(c)
  PROVE  IInv'
<1> DEFINE a == <<c.job, c.ordinal>>
           s == [c EXCEPT !.sent = TRUE]
<1>1. /\ ~c.sent
      /\ calls' = (calls \ {c}) \cup {s}
      /\ asked' = [asked EXCEPT ![a] = @ + 1]
      /\ UNCHANGED <<diskVars, stage, gatewayVars, budgetVars, stopped>>
  BY DEF Send
<1>2. /\ OneExecution' /\ DiskInv' /\ TerminalsFollowTurns' /\ ReceiptIsWhole'
      /\ \A q \in Procs : StageInv(q)' /\ JobInv(q)'
  BY <1>1, CallsApart DEF gatewayVars
<1>3. /\ c \in Calls /\ s \in Calls
      /\ s.job = c.job /\ s.ordinal = c.ordinal /\ s.proc = c.proc /\ s.sent = TRUE
      /\ a \in Jobs \X Ordinals
  BY DEF IInv, RunTypeOK, Calls
<1>4. c.job \in begun /\ asked[a] = 0
  BY <1>1 DEF IInv, CallInv
<1>5. /\ asked'[a] = 1
      /\ \A b \in Jobs \X Ordinals : b # a => asked'[b] = asked[b]
      /\ asked' \in [Jobs \X Ordinals -> Nat]
  BY <1>1, <1>3, <1>4 DEF IInv, RunTypeOK
<1>6. RunTypeOK'
  BY <1>1, <1>3, <1>5 DEF IInv, RunTypeOK, diskVars, gatewayVars, budgetVars
<1>7. ASSUME NEW q \in Procs
      PROVE  AttemptInv(q)'
  <2>1. Used(q)' = Used(q)
    BY <1>1 DEF Used, gatewayVars
  <2>2. ASSUME Holds(q), NEW o \in Ordinals, o > Used(q)
        PROVE  asked'[<<job[q], o>>] = 0 /\ \A d \in calls' : d.job = job[q] => d.ordinal # o
    <3>1. asked[<<job[q], o>>] = 0 /\ \A d \in calls : d.job = job[q] => d.ordinal # o
      BY <2>2 DEF IInv, AttemptInv
    <3>2. <<job[q], o>> \in Jobs \X Ordinals /\ <<job[q], o>> # a
      BY <2>2, <3>1 DEF IInv, JobInv
    <3>3. asked'[<<job[q], o>>] = 0
      <4> HIDE DEF a, s
      <4> QED BY <1>5, <3>1, <3>2
    <3>4. \A d \in calls' : d \in calls \/ d = s
      BY <1>1
    <3>5. \A d \in calls' : d.job = job[q] => d.ordinal # o
      <4> HIDE DEF a, s
      <4> QED BY <1>3, <3>1, <3>4
    <3> QED BY <3>3, <3>5
  <2>3. stage[q] = "idle" => \A d \in calls' : d.proc # q
    <3>1. \A d \in calls' : d \in calls \/ d = s
      BY <1>1
    <3>2. stage[q] = "idle" => \A d \in calls : d.proc # q
      BY DEF IInv, AttemptInv
    <3> HIDE DEF a, s
    <3> QED BY <1>3, <3>1, <3>2
  <2>4. /\ Holds(q)' <=> Holds(q)
        /\ stage' = stage /\ tries' = tries /\ job' = job
    BY <1>1 DEF Holds, gatewayVars
  <2>5. /\ stage[q] \in {"gateway", "waiting"} => tries[q] < MaxAttempts
        /\ stage[q] \notin {"gateway", "waiting", "sealing"} => tries[q] = 0
    BY DEF IInv, AttemptInv
  <2> HIDE DEF a, s
  <2> QED BY <2>1, <2>2, <2>3, <2>4, <2>5 DEF AttemptInv
<1>8. CallInv'
  <2>1. begun' = begun
    BY <1>1 DEF diskVars
  <2>2. ASSUME NEW j \in Jobs, j \notin begun, NEW o \in Ordinals
        PROVE  asked'[<<j, o>>] = 0
    <3>1. <<j, o>> \in Jobs \X Ordinals /\ <<j, o>> # a /\ asked[<<j, o>>] = 0
      BY <1>4, <2>2 DEF IInv, CallInv
    <3> QED BY <1>5, <3>1
  <2>3. ASSUME NEW x \in calls', NEW y \in calls'
        PROVE  /\ x.job \in begun
               /\ asked'[<<x.job, x.ordinal>>] = IF x.sent THEN 1 ELSE 0
               /\ y.job = x.job /\ y.ordinal = x.ordinal => y = x
    <3>1. \A d \in calls : d # c => <<d.job, d.ordinal>> # a
      BY DEF IInv, CallInv
    <3>2. \A d \in calls : <<d.job, d.ordinal>> \in Jobs \X Ordinals
      BY DEF IInv, RunTypeOK, Calls
    <3>3. CASE x = s
      BY <1>1, <1>3, <1>4, <1>5, <3>1, <3>3
    <3>4. CASE x # s
      <4>1. x \in calls /\ x # c
        BY <1>1, <3>4
      <4>2. asked'[<<x.job, x.ordinal>>] = IF x.sent THEN 1 ELSE 0
        BY <1>5, <3>1, <3>2, <4>1 DEF IInv, CallInv
      <4>3. y.job = x.job /\ y.ordinal = x.ordinal => y = x
        <5>1. CASE y = s
          BY <1>3, <3>1, <4>1, <5>1
        <5>2. CASE y # s
          <6>1. y \in calls
            BY <1>1, <5>2
          <6> QED BY <4>1, <6>1 DEF IInv, CallInv
        <5> QED BY <5>1, <5>2
      <4> QED BY <4>1, <4>2, <4>3 DEF IInv, CallInv
    <3> QED BY <3>3, <3>4
  <2> QED BY <2>1, <2>2, <2>3 DEF CallInv
<1>9. NeverReplayed'
  <2> SUFFICES ASSUME NEW b \in Jobs \X Ordinals
               PROVE  asked'[b] <= 1
    BY DEF NeverReplayed
  <2>1. asked[b] <= 1
    BY DEF IInv, NeverReplayed
  <2> HIDE DEF a
  <2> QED BY <1>5, <2>1
<1> QED BY <1>2, <1>6, <1>7, <1>8, <1>9 DEF IInv

LEMMA ReturnLateStep ==
  ASSUME IInv, NEW c \in calls, ReturnLate(c)
  PROVE  IInv'
<1>1. /\ calls' = calls \ {c}
      /\ UNCHANGED <<diskVars, stage, gatewayVars, historyVars>>
      /\ Settle(c.proc, c) \/ UNCHANGED budgetVars
  BY DEF ReturnLate
<1>2. /\ OneExecution' /\ DiskInv' /\ TerminalsFollowTurns' /\ ReceiptIsWhole'
      /\ \A q \in Procs : StageInv(q)' /\ JobInv(q)'
  BY <1>1, CallsApart DEF gatewayVars
<1>3. RunTypeOK'
  <2>1. exhausted' \in [Procs -> BOOLEAN]
    BY <1>1 DEF Settle, budgetVars, IInv, RunTypeOK
  <2>2. calls' \subseteq Calls
    BY <1>1 DEF IInv, RunTypeOK
  <2> QED BY <1>1, <2>1, <2>2 DEF IInv, RunTypeOK, diskVars, gatewayVars, historyVars
<1>4. \A q \in Procs : AttemptInv(q)'
  BY <1>1 DEF IInv, AttemptInv, Holds, Used, gatewayVars, historyVars
<1>5. CallInv' /\ NeverReplayed'
  BY <1>1 DEF IInv, CallInv, NeverReplayed, diskVars, historyVars
<1> QED BY <1>2, <1>3, <1>4, <1>5 DEF IInv

\* The job's result goes on disk: it was the only open one, and the terminal of its request is
\* not there yet, or the batch is over.
LEMMA SealStep ==
  ASSUME IInv, NEW p \in Procs, Seal(p)
  PROVE  IInv'
<1> USE DEF historyVars, budgetVars
<1> DEFINE j == job[p]
           result == [answer |-> answer[p], charge |-> charge[p]]
<1>1. stage[p] = "sealing" /\ sealed[j] = None /\ j \in Jobs /\ j \in begun
  BY DEF Seal, IInv, JobInv, Holds
<1>2. /\ sealed' = [sealed EXCEPT ![j] = result]
      /\ stage' = [stage EXCEPT ![p] = IF j \in MainJobs THEN "batch" ELSE "relations"]
      /\ job' = [job EXCEPT ![p] = None]
      /\ tries' = [tries EXCEPT ![p] = 0]
      /\ charge' = [charge EXCEPT ![p] = 0]
      /\ answer' = [answer EXCEPT ![p] = "failed"]
      /\ UNCHANGED <<lock, begun, terminal, batch, relations, receipt, committed, exhausted, calls,
                     asked, stopped>>
  BY <1>1 DEF Seal, GoTo
<1>3. /\ \A q \in Procs : q # p => stage[q] = "idle" /\ stage'[q] = "idle"
      /\ stage'[p] = IF j \in MainJobs THEN "batch" ELSE "relations"
      /\ lock = TRUE
  BY <1>1, <1>2, OthersIdle DEF IInv, RunTypeOK
<1>4. /\ j \in MainJobs => terminal[j[1]] = None
      /\ j \in RelationJobs => j \in Prepared /\ Pending = {} /\ batch = terminal
      /\ receipt = None
      /\ \A k \in MainJobs : Unfinished(k) => k = j
  BY <1>1 DEF IInv, JobInv, StageInv, PastBatch, Holds
<1>5. /\ result \in [answer : Answers, charge : Nat]
      /\ sealed' \in [Jobs -> [answer : Answers, charge : Nat] \cup {None}]
      /\ \A k \in Jobs : k # j => sealed'[k] = sealed[k]
      /\ sealed'[j] = result
  BY <1>1, <1>2 DEF IInv, RunTypeOK
<1>6. RunTypeOK'
  <2>1. stage' \in [Procs -> {"idle", "restoring", "batch", "opening", "gateway", "waiting",
                             "sealing", "scoring", "relations", "publishing"}]
    BY <1>2 DEF IInv, RunTypeOK
  <2>2. /\ job' \in [Procs -> Jobs \cup {None}]
        /\ tries' \in [Procs -> 0..MaxAttempts]
        /\ charge' \in [Procs -> Nat]
        /\ answer' \in [Procs -> Answers]
    BY <1>2, PipelineAssumption DEF IInv, RunTypeOK, Answers
  <2> QED BY <1>2, <1>5, <2>1, <2>2 DEF IInv, RunTypeOK
<1>7. OneExecution' /\ ReceiptIsWhole'
  BY <1>2, <1>3, <1>4 DEF OneExecution, ReceiptIsWhole
<1>8. ASSUME NEW i \in Logical, terminal[i] # None
      PROVE  \A t \in 1..Turns[i] :
               <<i, t>> \in Jobs /\ <<i, t>> # j /\ sealed'[<<i, t>>] = sealed[<<i, t>>]
  <2> SUFFICES ASSUME NEW t \in 1..Turns[i]
               PROVE  <<i, t>> \in Jobs /\ <<i, t>> # j
    BY <1>5
  <2>1. <<i, t>> \in MainJobs /\ <<i, t>> \in Jobs /\ <<i, t>>[1] = i
    BY JobShapes DEF Jobs
  <2> QED BY <1>4, <1>8, <2>1
<1>9. ASSUME NEW i \in Logical, terminal[i] # None
      PROVE  /\ Decided(i)' <=> Decided(i)
             /\ StatusOf(i)' = StatusOf(i)
  <2>1. \A t \in 1..Turns[i] : sealed'[<<i, t>>] = sealed[<<i, t>>]
    BY <1>8, <1>9
  <2>2. FailedSelection(i)' <=> FailedSelection(i)
    BY <2>1 DEF FailedSelection, Good
  <2>3. Turns[i] > 0 => Turns[i] \in 1..Turns[i]
    BY JobShapes
  <2>4. CASE Turns[i] = 0
    BY <2>4 DEF Decided, StatusOf
  <2>5. CASE Turns[i] # 0
    <3>1. sealed'[<<i, Turns[i]>>] = sealed[<<i, Turns[i]>>]
      BY <2>1, <2>3, <2>5, JobShapes
    <3> QED BY <2>2, <3>1 DEF Decided, StatusOf
  <2> QED BY <2>4, <2>5
<1>10. TerminalsFollowTurns'
  <2> SUFFICES ASSUME NEW i \in Logical, terminal[i] # None
               PROVE  /\ Decided(i)'
                      /\ terminal[i] = StatusOf(i)'
                      /\ \A t \in 1..Turns[i] : ~Unfinished(<<i, t>>)'
    BY <1>2 DEF TerminalsFollowTurns
  <2>1. \A t \in 1..Turns[i] : ~Unfinished(<<i, t>>)'
    BY <1>2, <1>8 DEF IInv, TerminalsFollowTurns, Unfinished
  <2> QED BY <1>9, <2>1 DEF IInv, TerminalsFollowTurns
<1>11. Pending' = Pending
  BY <1>2 DEF Pending
<1>12. Pending = {} => Prepared' = Prepared
  <2> SUFFICES ASSUME Pending = {}, NEW i \in Logical
               PROVE  Turns[i] > 0 => sealed'[<<i, Turns[i]>>] = sealed[<<i, Turns[i]>>]
    BY <1>2 DEF Prepared
  <2>1. terminal[i] # None
    BY DEF Pending
  <2> QED BY <1>8, <2>1, JobShapes
<1>13. AllSealed => j \notin Prepared
  BY <1>1 DEF AllSealed
<1>14. DiskInv'
  <2>1. \A k \in Jobs : sealed'[k] # None => k \in begun'
    BY <1>1, <1>2, <1>5 DEF IInv, DiskInv
  <2>2. \A k \in RelationJobs : k \in begun' => Pending' = {} /\ k \in Prepared'
    BY <1>2, <1>11, <1>12 DEF IInv, DiskInv
  <2>3. batch' # None => Pending' = {} /\ batch' = terminal'
    BY <1>2, <1>11 DEF IInv, DiskInv
  <2>4. ASSUME relations # None
        PROVE  Pending' = {} /\ AllSealed' /\ relations' = Results'
    <3>1. Pending = {} /\ AllSealed /\ relations = Results
      BY <2>4 DEF IInv, DiskInv
    <3>2. Prepared' = Prepared /\ Prepared \subseteq Jobs
      BY <1>12, <3>1 DEF Prepared, Jobs, RelationJobs
    <3>3. \A k \in Prepared : sealed'[k] = sealed[k]
      BY <1>5, <1>13, <3>1, <3>2
    <3> QED BY <1>2, <1>11, <3>1, <3>2, <3>3 DEF AllSealed, Results
  <2> QED BY <1>2, <2>1, <2>2, <2>3, <2>4 DEF DiskInv
<1>15. StageInv(p)' /\ JobInv(p)'
  <2>1. \A k \in MainJobs : ~Unfinished(k)'
    <3> SUFFICES ASSUME NEW k \in MainJobs, Unfinished(k)'
                 PROVE  FALSE
      OBVIOUS
    <3>1. k \in Jobs
      BY DEF Jobs
    <3>2. k # j
      <4>1. sealed'[j] # None
        BY <1>5, NoneAssumption
      <4> QED BY <4>1 DEF Unfinished
    <3> QED BY <1>2, <1>4, <1>5, <3>1, <3>2 DEF Unfinished
  <2>2. ~Holds(p)'
    BY <1>3 DEF Holds
  <2>3. PastBatch(p)' => Pending' = {} /\ batch' = terminal'
    <3>1. PastBatch(p)' => j \notin MainJobs
      BY <1>3, <2>2 DEF PastBatch
    <3> QED BY <1>1, <1>2, <1>4, <1>11, <3>1 DEF Jobs
  <2>4. StageInv(p)'
    BY <1>2, <1>3, <1>4, <2>1, <2>3 DEF StageInv
  <2> QED BY <2>2, <2>4 DEF JobInv
<1>16. AttemptInv(p)'
  <2>1. tries'[p] = 0
    BY <1>2 DEF IInv, RunTypeOK
  <2> QED BY <1>3, <2>1 DEF AttemptInv, Holds
<1>17. \A q \in Procs : StageInv(q)' /\ JobInv(q)' /\ AttemptInv(q)'
  <2> SUFFICES ASSUME NEW q \in Procs, q # p
               PROVE  StageInv(q)' /\ JobInv(q)' /\ AttemptInv(q)'
    BY <1>15, <1>16
  <2>1. StageInv(q)' /\ JobInv(q)'
    BY <1>3 DEF StageInv, JobInv, PastBatch, Holds
  <2>2. AttemptInv(q)'
    BY <1>2, <1>3 DEF IInv, RunTypeOK, AttemptInv, Holds
  <2> QED BY <2>1, <2>2
<1>18. CallInv' /\ NeverReplayed'
  BY <1>2 DEF IInv, CallInv, NeverReplayed
<1> QED BY <1>6, <1>7, <1>10, <1>14, <1>17, <1>18 DEF IInv

----------------------------------------------------------------------------
\* The invariant, and what it is for

LEMMA WorkStep ==
  ASSUME IInv, NEW p \in Procs, Work(p) \/ Receive(p) \/ Abort(p) \/ Crash(p)
  PROVE  IInv'
<1>1. ASSUME VerifyCompleted(p) \/ Abort(p)
      PROVE  IInv'
  <2>1. /\ stage[p] # "idle" /\ Leave(p)
        /\ UNCHANGED <<begun, sealed, terminal, batch, relations, receipt, asked, stopped>>
    BY <1>1 DEF VerifyCompleted, Abort, historyVars
  <2>2. stopped' \in BOOLEAN
    BY <2>1 DEF IInv, RunTypeOK
  <2> QED BY <2>1, <2>2, LeaveStep
<1>2. ASSUME Crash(p)
      PROVE  IInv'
  <2>1. /\ stage[p] # "idle" /\ Exit(p)
        /\ UNCHANGED <<lock, begun, sealed, terminal, batch, relations, receipt, asked, stopped>>
    BY <1>2 DEF Crash, diskVars, historyVars
  <2>2. ReceiptIsWhole'
    BY <2>1, ReceiptKept DEF IInv
  <2>3. /\ stopped' \in BOOLEAN /\ lock' \in {lock, FALSE}
        /\ receipt' = None \/ DOMAIN receipt' = {"batch", "relations", "cost"}
    BY <2>1 DEF IInv, RunTypeOK
  <2> QED BY <2>1, <2>2, <2>3, ExitStep
<1>3. ASSUME Receive(p)
      PROVE  IInv'
  BY <1>3, ReturnStep DEF Receive
<1> QED BY <1>1, <1>2, <1>3, RestoreStep, FindTurnStep, BeginStep, ConcludeStep, FinishBatchStep,
           ScoreStep, FindRelationStep, FinishRelationsStep, CompleteStep, AttemptStep, TimeOutStep,
           SealStep DEF Work

LEMMA NextKeeps == IInv /\ [Next]_vars => IInv'
<1> SUFFICES ASSUME IInv, [Next]_vars PROVE IInv'
  OBVIOUS
<1>1. ASSUME UNCHANGED vars
      PROVE  IInv'
  <2>1. UNCHANGED <<diskVars, stage, job, tries, charge, answer, exhausted, calls, asked, stopped>>
    BY <1>1 DEF vars, gatewayVars, budgetVars, historyVars
  <2>2. /\ OneExecution' /\ DiskInv' /\ TerminalsFollowTurns' /\ ReceiptIsWhole'
        /\ \A q \in Procs : StageInv(q)' /\ JobInv(q)'
    BY <2>1, CallsApart
  <2>3. RunTypeOK'
    BY <2>1 DEF IInv, RunTypeOK, diskVars
  <2>4. (\A q \in Procs : AttemptInv(q)') /\ CallInv' /\ NeverReplayed'
    BY <2>1 DEF IInv, AttemptInv, Holds, Used, CallInv, NeverReplayed, diskVars
  <2> QED BY <2>2, <2>3, <2>4 DEF IInv
<1>2. ASSUME Next
      PROVE  IInv'
  BY <1>2, StartStep, WorkStep, SendStep, ReturnLateStep, RemoveLockStep DEF Next
<1> QED BY <1>1, <1>2

LEMMA Invariance == Spec => []IInv
BY InitEstablishes, NextKeeps, PTL DEF Spec

\* Only the owner of the lock works on the run, whatever dies and is started again.
THEOREM RunsExclude == Spec => []OneExecution
<1>1. IInv => OneExecution
  BY DEF IInv
<1> QED BY <1>1, Invariance, PTL

\* However often runs are interrupted and started again, no attempt of a request reaches the
\* provider twice.
THEOREM AttemptsAreNotReplayed == Spec => []NeverReplayed
<1>1. IInv => NeverReplayed
  BY DEF IInv
<1> QED BY <1>1, Invariance, PTL

\* A terminal is the one that the sealed turns of its request call for.
THEOREM TerminalsAreTrue == Spec => []TerminalsFollowTurns
<1>1. IInv => TerminalsFollowTurns
  BY DEF IInv
<1> QED BY <1>1, Invariance, PTL

\* A receipt is over the whole run, of which nothing is open.
THEOREM ReceiptsAreWhole == Spec => []ReceiptIsWhole
<1>1. IInv => ReceiptIsWhole
  BY DEF IInv
<1> QED BY <1>1, Invariance, PTL

\* A resumed run is never at odds with what an earlier one has published.
THEOREM RunsCanResume == Spec => []ResumeNeverConflicts
<1>1. IInv => ResumeNeverConflicts
  <2> SUFFICES ASSUME IInv PROVE ResumeNeverConflicts
    OBVIOUS
  <2>1. \A p \in Procs : stage[p] = "sealing" => sealed[job[p]] = None
    BY DEF IInv, JobInv, Holds
  <2>2. \A p \in Procs : stage[p] = "publishing" => receipt = None
    BY DEF IInv, StageInv
  <2> QED BY <2>1, <2>2 DEF IInv, DiskInv, ResumeNeverConflicts
<1> QED BY <1>1, Invariance, PTL

----------------------------------------------------------------------------
\* Sums over finite sets.  The library's induction theorems are about operators, which no
\* installed prover instantiates; the well-founded orders they come from are sets, and an argument
\* by a smallest counterexample needs no more.

Total(f, S) == SumFunctionOnSet(f, S)

\* The element of a set that the sum takes first.
Chosen(s) == CHOOSE x \in s : TRUE

\* The function g adds up f over the subsets of X.
AddsUp(g, f, X) ==
  g = [s \in SUBSET X |-> IF s = {} THEN 0 ELSE f[Chosen(s)] + g[s \ {Chosen(s)}]]

\* Naturals add up to a natural.
LEMMA NatPlus == \A k, l \in Nat : k + l \in Nat
OBVIOUS

\* A set of naturals has a smallest one.
LEMMA SmallestOf ==
  ASSUME NEW C, C \subseteq Nat, C # {}
  PROVE  \E m \in C : \A n \in C : m <= n
<1> DEFINE R == OpToRel(<, Nat)
<1>1. IsWellFoundedOn(R, Nat)
  BY NatLessThanWellFounded
<1>2. \A m, n \in Nat : m < n => <<m, n>> \in R
  BY DEF OpToRel
<1> HIDE DEF R
<1>3. PICK m \in C : \A n \in C : <<n, m>> \notin R
  BY <1>1, WFMin
<1>4. m \in Nat /\ \A n \in C : n \in Nat /\ ~(n < m)
  BY <1>2, <1>3
<1>5. \A n \in C : m <= n
  BY <1>4
<1> QED BY <1>5

\* A set that has 0 and with each natural the next has all of them.
LEMMA InductionOnNat ==
  ASSUME NEW G, 0 \in G, \A n \in Nat : n \in G => n + 1 \in G
  PROVE  Nat \subseteq G
<1> SUFFICES ASSUME Nat \ G # {} PROVE FALSE
  OBVIOUS
<1> PICK m \in Nat \ G : \A n \in Nat \ G : m <= n
  BY SmallestOf
<1>1. m # 0 /\ m - 1 \in Nat /\ m - 1 < m
  OBVIOUS
<1>2. m - 1 \in G
  BY <1>1
<1> QED BY <1>1, <1>2

\* Of subsets of a finite set, there is one of which no element can be left out.
LEMMA SmallestSubset ==
  ASSUME NEW S, IsFiniteSet(S), NEW C, C \subseteq SUBSET S, C # {}
  PROVE  \E T \in C : \A x \in T : T \ {x} \notin C
<1> DEFINE R == StrictSubsetOrdering(S)
<1>1. IsWellFoundedOn(R, SUBSET S)
  BY FS_FiniteSubsetsOfFinite, FS_StrictSubsetOrderingWellFounded
<1>2. \A T \in SUBSET S : \A x \in T : <<T \ {x}, T>> \in R
  BY DEF StrictSubsetOrdering
<1> HIDE DEF R
<1>3. PICK T \in C : \A U \in C : <<U, T>> \notin R
  BY <1>1, WFMin
<1> QED BY <1>2, <1>3

\* The recursion that the sum is defined by has a solution, by induction on the size of the
\* subsets it is asked for.
LEMMA TotalByRecursion ==
  ASSUME NEW f, NEW S, IsFiniteSet(S)
  PROVE  \E g : AddsUp(g, f, S) /\ Total(f, S) = g[S]
<1> DEFINE Step(g, s) == IF s = {} THEN 0 ELSE f[Chosen(s)] + g[s \ {Chosen(s)}]
           Sets(n) == {s \in SUBSET S : Cardinality(s) <= n}
           Solves(g, n) == g = [s \in Sets(n) |-> Step(g, s)]
           G == {n \in Nat : \E g : Solves(g, n)}
<1>1. \A s \in SUBSET S :
        IsFiniteSet(s) /\ Cardinality(s) \in Nat /\ Cardinality(s) <= Cardinality(S)
  BY FS_Subset, FS_CardinalityType
<1>2. \A s \in SUBSET S : s # {} => /\ Chosen(s) \in s
                                   /\ s \ {Chosen(s)} \in SUBSET S
                                   /\ Cardinality(s \ {Chosen(s)}) = Cardinality(s) - 1
  BY <1>1, FS_RemoveElement DEF Chosen
<1>3. \A s \in SUBSET S : Cardinality(s) = 0 => s = {}
  BY <1>1, FS_EmptySet
<1>4. 0 \in G
  <2> DEFINE z == [s \in Sets(0) |-> 0]
  <2>1. \A s \in Sets(0) : s = {}
    BY <1>1, <1>3
  <2>2. Solves(z, 0)
    BY <2>1
  <2> QED BY <2>2
<1>5. ASSUME NEW n \in Nat, n \in G
      PROVE  n + 1 \in G
  <2> PICK g : Solves(g, n)
    BY <1>5
  <2> DEFINE h == [s \in Sets(n + 1) |-> Step(g, s)]
  <2>1. Sets(n) \subseteq Sets(n + 1)
    BY <1>1
  <2>2. \A s \in Sets(n + 1) : s # {} => s \ {Chosen(s)} \in Sets(n)
    BY <1>1, <1>2
  <2>3. \A s \in Sets(n) : h[s] = g[s]
    BY <2>1
  <2>4. \A s \in Sets(n + 1) : s # {} => h[s \ {Chosen(s)}] = g[s \ {Chosen(s)}]
    BY <2>2, <2>3
  <2>5. Solves(h, n + 1)
    BY <2>4, Zenon
  <2> HIDE DEF h, Solves
  <2>6. \E x : Solves(x, n + 1)
    BY <2>5
  <2> QED BY <2>6
<1>6. Nat \subseteq G
  <2> HIDE DEF G
  <2> QED BY <1>4, <1>5, InductionOnNat
<1>7. PICK g : Solves(g, Cardinality(S))
  BY <1>1, <1>6
<1>8. Sets(Cardinality(S)) = SUBSET S
  BY <1>1
<1>9. \E h : AddsUp(h, f, S)
  BY <1>7, <1>8 DEF AddsUp
<1> DEFINE r == CHOOSE h : AddsUp(h, f, S)
<1>10. AddsUp(r, f, S)
  BY <1>9
<1>11. Total(f, S) = r[S]
  BY DEF Total, SumFunctionOnSet, FoldFunctionOnSet, MapThenFoldSet, AddsUp, Chosen
<1> HIDE DEF r
<1> QED BY <1>10, <1>11

\* The sum over nothing.
LEMMA TotalOfNone ==
  ASSUME NEW f
  PROVE  Total(f, {}) = 0
<1>1. IsFiniteSet({})
  BY FS_EmptySet
<1> QED BY <1>1, TotalByRecursion DEF AddsUp

\* The recursion, which has one solution: two that differ would first do so at a smallest subset.
LEMMA TotalOfChosen ==
  ASSUME NEW f, NEW S, IsFiniteSet(S), S # {}
  PROVE  /\ Chosen(S) \in S
         /\ Total(f, S) = f[Chosen(S)] + Total(f, S \ {Chosen(S)})
<1> DEFINE T == S \ {Chosen(S)}
<1>1. \A s : s # {} => Chosen(s) \in s
  BY DEF Chosen
<1>2. T \in SUBSET S /\ IsFiniteSet(T)
  BY FS_Subset
<1>3. PICK g : AddsUp(g, f, S) /\ Total(f, S) = g[S]
  BY TotalByRecursion
<1>4. PICK h : AddsUp(h, f, T) /\ Total(f, T) = h[T]
  BY <1>2, TotalByRecursion
<1>5. \A s \in SUBSET T : g[s] = h[s]
  <2> DEFINE C == {s \in SUBSET T : g[s] # h[s]}
  <2> SUFFICES ASSUME C # {} PROVE FALSE
    OBVIOUS
  <2>1. PICK s \in C : \A x \in s : s \ {x} \notin C
    <3> HIDE DEF C
    <3>1. C \subseteq SUBSET T BY DEF C
    <3> QED BY <1>2, <3>1, SmallestSubset
  <2>2. s \in SUBSET T /\ s \in SUBSET S
    BY <1>2
  <2>3. CASE s = {}
    BY <1>3, <1>4, <2>2, <2>3 DEF AddsUp
  <2>4. CASE s # {}
    <3>1. Chosen(s) \in s /\ s \ {Chosen(s)} \in SUBSET T
      BY <1>1, <2>2, <2>4
    <3>2. g[s \ {Chosen(s)}] = h[s \ {Chosen(s)}]
      BY <2>1, <3>1
    <3>3. g[s] = f[Chosen(s)] + g[s \ {Chosen(s)}]
      BY <1>3, <2>2, <2>4 DEF AddsUp
    <3>4. h[s] = f[Chosen(s)] + h[s \ {Chosen(s)}]
      BY <1>4, <2>2, <2>4 DEF AddsUp
    <3> QED BY <3>2, <3>3, <3>4
  <2> QED BY <2>3, <2>4
<1>6. g[S] = f[Chosen(S)] + g[T]
  BY <1>3 DEF AddsUp
<1> QED BY <1>1, <1>3, <1>4, <1>5, <1>6

\* A sum of naturals is one.
LEMMA TotalIsNat ==
  ASSUME NEW f, NEW S, IsFiniteSet(S), \A x \in S : f[x] \in Nat
  PROVE  Total(f, S) \in Nat
<1> DEFINE C == {T \in SUBSET S : Total(f, T) \notin Nat}
<1> SUFFICES ASSUME C # {} PROVE FALSE
  OBVIOUS
<1>1. PICK T \in C : \A x \in T : T \ {x} \notin C
  <2> HIDE DEF C
  <2>1. C \subseteq SUBSET S BY DEF C
  <2> QED BY <2>1, SmallestSubset
<1>2. T \in SUBSET S /\ IsFiniteSet(T) /\ T # {}
  <2>1. Total(f, {}) \in Nat
    BY TotalOfNone
  <2> QED BY <2>1, FS_Subset
<1> DEFINE x == Chosen(T)
<1>3. x \in T /\ Total(f, T) = f[x] + Total(f, T \ {x})
  BY <1>2, TotalOfChosen
<1>4. T \ {x} \in SUBSET S /\ f[x] \in Nat
  BY <1>2, <1>3
<1>5. Total(f, T \ {x}) \in Nat
  BY <1>1, <1>3, <1>4
<1> QED BY <1>3, <1>4, <1>5

\* Any element may be taken first: addition commutes.
LEMMA TotalWithout ==
  ASSUME NEW f, NEW S, IsFiniteSet(S), \A y \in S : f[y] \in Nat, NEW x \in S
  PROVE  Total(f, S) = f[x] + Total(f, S \ {x})
<1> DEFINE C == {T \in SUBSET S : \E y \in T : Total(f, T) # f[y] + Total(f, T \ {y})}
<1> SUFFICES ASSUME C # {} PROVE FALSE
  OBVIOUS
<1>1. PICK T \in C : \A y \in T : T \ {y} \notin C
  <2> HIDE DEF C
  <2>1. C \subseteq SUBSET S BY DEF C
  <2> QED BY <2>1, SmallestSubset
<1>2. PICK y \in T : Total(f, T) # f[y] + Total(f, T \ {y})
  OBVIOUS
<1>3. T \in SUBSET S /\ IsFiniteSet(T) /\ T # {}
  BY <1>2, FS_Subset
<1> DEFINE z == Chosen(T)
<1>4. z \in T /\ Total(f, T) = f[z] + Total(f, T \ {z})
  BY <1>3, TotalOfChosen
<1> HIDE DEF z
<1>5. y # z
  BY <1>2, <1>4
<1>6. \A U \in SUBSET S : Total(f, U) \in Nat
  BY FS_Subset, TotalIsNat
<1>7. Total(f, T \ {z}) = f[y] + Total(f, (T \ {z}) \ {y})
  <2>1. T \ {z} \notin C
    BY <1>1, <1>4
  <2> QED BY <1>2, <1>3, <1>5, <2>1
<1>8. Total(f, T \ {y}) = f[z] + Total(f, (T \ {y}) \ {z})
  <2>1. T \ {y} \notin C
    BY <1>1, <1>2
  <2> QED BY <1>3, <1>4, <1>5, <2>1
<1>9. Total(f, (T \ {y}) \ {z}) = Total(f, (T \ {z}) \ {y})
  <2>1. (T \ {y}) \ {z} = (T \ {z}) \ {y}
    OBVIOUS
  <2> QED BY <2>1
<1>10. (T \ {z}) \ {y} \in SUBSET S /\ f[y] \in Nat /\ f[z] \in Nat
  BY <1>2, <1>3, <1>4
<1>11. Total(f, (T \ {z}) \ {y}) \in Nat
  BY <1>6, <1>10
<1> HIDE DEF C
<1> QED BY <1>2, <1>4, <1>7, <1>8, <1>9, <1>10, <1>11

\* One more element adds no more than its own summand; it may have been there.
LEMMA TotalWith ==
  ASSUME NEW f, NEW S, IsFiniteSet(S), NEW x, \A y \in S \cup {x} : f[y] \in Nat
  PROVE  Total(f, S \cup {x}) <= f[x] + Total(f, S)
<1>1. Total(f, S) \in Nat /\ f[x] \in Nat
  BY TotalIsNat
<1>2. CASE x \in S
  <2>1. S \cup {x} = S
    BY <1>2
  <2>2. Total(f, S \cup {x}) = Total(f, S)
    BY <2>1
  <2> QED BY <1>1, <2>2
<1>3. CASE x \notin S
  <2>1. IsFiniteSet(S \cup {x}) /\ (S \cup {x}) \ {x} = S
    BY <1>3, FS_AddElement
  <2>2. Total(f, S \cup {x}) = f[x] + Total(f, (S \cup {x}) \ {x})
    BY <2>1, TotalWithout
  <2> QED BY <1>1, <2>1, <2>2
<1> QED BY <1>2, <1>3

\* Functions that agree have the same sum.
LEMMA TotalOfSame ==
  ASSUME NEW f, NEW g, NEW S, IsFiniteSet(S), \A x \in S : g[x] = f[x]
  PROVE  Total(f, S) = Total(g, S)
<1> DEFINE C == {T \in SUBSET S : Total(f, T) # Total(g, T)}
<1> SUFFICES ASSUME C # {} PROVE FALSE
  OBVIOUS
<1>1. PICK T \in C : \A x \in T : T \ {x} \notin C
  <2> HIDE DEF C
  <2>1. C \subseteq SUBSET S BY DEF C
  <2> QED BY <2>1, SmallestSubset
<1>2. T \in SUBSET S /\ IsFiniteSet(T) /\ T # {}
  BY FS_Subset, TotalOfNone
<1> DEFINE x == Chosen(T)
<1>3. /\ x \in T
      /\ Total(f, T) = f[x] + Total(f, T \ {x})
      /\ Total(g, T) = g[x] + Total(g, T \ {x})
  BY <1>2, TotalOfChosen
<1> QED BY <1>1, <1>2, <1>3

\* Summands that are zero add nothing.
LEMMA TotalOfZeros ==
  ASSUME NEW f, NEW S, IsFiniteSet(S), \A x \in S : f[x] = 0
  PROVE  Total(f, S) = 0
<1> DEFINE C == {T \in SUBSET S : Total(f, T) # 0}
<1> SUFFICES ASSUME C # {} PROVE FALSE
  OBVIOUS
<1>1. PICK T \in C : \A x \in T : T \ {x} \notin C
  <2> HIDE DEF C
  <2>1. C \subseteq SUBSET S BY DEF C
  <2> QED BY <2>1, SmallestSubset
<1>2. T \in SUBSET S /\ IsFiniteSet(T) /\ T # {}
  BY FS_Subset, TotalOfNone
<1> DEFINE x == Chosen(T)
<1>3. x \in T /\ Total(f, T) = f[x] + Total(f, T \ {x})
  BY <1>2, TotalOfChosen
<1> QED BY <1>1, <1>2, <1>3

\* The sum over a set is that over a part of it and that over the rest.
LEMMA TotalOfParts ==
  ASSUME NEW f, NEW S, IsFiniteSet(S), NEW U, U \subseteq S, \A x \in S : f[x] \in Nat
  PROVE  Total(f, S) = Total(f, U) + Total(f, S \ U)
<1> DEFINE V == S \ U
           C == {T \in SUBSET V : Total(f, U \cup T) # Total(f, U) + Total(f, T)}
<1>1. IsFiniteSet(V) /\ S = U \cup V
  BY FS_Subset
<1>2. \A T \in SUBSET S : IsFiniteSet(T) /\ Total(f, T) \in Nat
  BY FS_Subset, TotalIsNat
<1>3. C = {}
  <2> SUFFICES ASSUME C # {} PROVE FALSE
    OBVIOUS
  <2>1. PICK T \in C : \A x \in T : T \ {x} \notin C
    <3> HIDE DEF C
    <3>1. C \subseteq SUBSET V BY DEF C
    <3> QED BY <1>1, <3>1, SmallestSubset
  <2>2. T \in SUBSET V /\ T \in SUBSET S /\ U \cup T \in SUBSET S
    OBVIOUS
  <2>3. T # {}
    <3> SUFFICES ASSUME T = {} PROVE FALSE
      OBVIOUS
    <3>1. U \cup T = U /\ U \in SUBSET S
      OBVIOUS
    <3>2. Total(f, U) \in Nat /\ Total(f, T) = 0
      BY <1>2, TotalOfNone
    <3> QED BY <2>1, <3>1, <3>2
  <2>4. PICK x : x \in T
    BY <2>3
  <2>5. Total(f, T) = f[x] + Total(f, T \ {x})
    BY <1>2, <2>2, <2>4, TotalWithout
  <2>6. Total(f, U \cup T) = f[x] + Total(f, (U \cup T) \ {x})
    BY <1>2, <2>2, <2>4, TotalWithout
  <2>7. (U \cup T) \ {x} = U \cup (T \ {x})
    BY <2>2, <2>4
  <2>8. Total(f, (U \cup T) \ {x}) = Total(f, U \cup (T \ {x}))
    BY <2>7
  <2>9. Total(f, U \cup (T \ {x})) = Total(f, U) + Total(f, T \ {x})
    BY <2>1, <2>2, <2>4
  <2>10. f[x] \in Nat /\ Total(f, U) \in Nat /\ Total(f, T \ {x}) \in Nat
    BY <1>2, <2>2, <2>4
  <2>11. Total(f, U \cup T) # Total(f, U) + Total(f, T)
    BY <2>1
  <2> HIDE DEF C
  <2> QED BY <2>5, <2>6, <2>8, <2>9, <2>10, <2>11
<1> QED BY <1>1, <1>3

----------------------------------------------------------------------------
\* The budget

\* The gateway executes a job for process p.
Executes(p) == stage[p] \in {"gateway", "waiting", "sealing"}

\* Process p has restored its budget.
Works(p) == stage[p] \notin {"idle", "restoring"}

\* Process p has restored the cost of the relation requests too.
Relates(p) ==
  \/ stage[p] \in {"relations", "publishing"}
  \/ Holds(p) /\ job[p] \in RelationJobs

\* What a call has reserved, and how much of it the provider has not been paid.
Booked == [c \in Calls |-> Reservation[c.job]]
Unspent == [c \in Calls |-> IF ~c.sent THEN Reservation[c.job]
                            ELSE IF c.cost > Reservation[c.job] THEN 0
                            ELSE Reservation[c.job] - c.cost]
Reserved == Total(Booked, calls)
Outstanding == Total(Unspent, calls)

\* No cost is lost to process p: only its own job is open.
OnlyOwn(p) == \A j \in Jobs : Unfinished(j) => Holds(p) /\ j = job[p]

\* The budget of process p holds the reservation of every call; what a restart would restore, with
\* what the job at hand will be recorded to have cost, covers what was paid and may yet be paid;
\* and so does the budget, unless the cost of an open job was lost.
AccountInv(p) ==
  /\ ~Executes(p) => charge[p] = 0
  /\ Relates(p) => \A j \in RelationJobs : Unfinished(j) => Holds(p) /\ j = job[p]
  /\ Works(p) => Reserved <= committed[p]
  /\ Executes(p) =>
       paid + Outstanding <=
         excess + RestoredCost(Jobs) + charge[p]
           + (IF stage[p] = "waiting" THEN Reservation[job[p]] ELSE 0)
  /\ Works(p) /\ OnlyOwn(p) =>
       paid + Outstanding <=
         excess + committed[p] + (IF Relates(p) THEN 0 ELSE RestoredCost(RelationJobs))

BudgetTypeOK == committed \in [Procs -> Nat] /\ paid \in Nat /\ excess \in Nat

BudgetInv ==
  /\ BudgetTypeOK
  /\ IsFiniteSet(calls)
  /\ \A c \in calls : Works(c.proc)
  /\ paid + Outstanding <= Ceiling + excess
  /\ (\A j \in Jobs : ~Unfinished(j)) => paid + Outstanding <= excess + RestoredCost(Jobs)
  /\ ReceiptCoversCost
  /\ \A p \in Procs : AccountInv(p)

\* The jobs of a census are finitely many.
LEMMA JobsAreFinite == IsFiniteSet(Jobs)
<1>1. ASSUME NEW i \in Logical
      PROVE  IsFiniteSet({<<i, t>> : t \in 1..Turns[i]})
  <2> DEFINE T == {<<i, t>> : t \in 1..Turns[i]}
             f == [t \in 1..Turns[i] |-> <<i, t>>]
  <2>1. IsFiniteSet(1..Turns[i])
    BY JobShapes, FS_Interval
  <2>2. f \in Surjection(1..Turns[i], T)
    BY DEF Surjection
  <2> HIDE DEF f, T
  <2>3. IsFiniteSet(T)
    BY <2>1, <2>2, FS_Surjection
  <2> QED BY <2>3 DEF T
<1>2. IsFiniteSet(MainJobs)
  <2> DEFINE T == {{<<i, t>> : t \in 1..Turns[i]} : i \in Logical}
             f == [i \in Logical |-> {<<i, t>> : t \in 1..Turns[i]}]
  <2>1. f \in Surjection(Logical, T)
    BY DEF Surjection
  <2>2. \A S \in T : IsFiniteSet(S)
    BY <1>1
  <2>3. MainJobs = UNION T
    BY DEF MainJobs
  <2> HIDE DEF f, T
  <2>4. IsFiniteSet(T)
    BY <2>1, FS_Surjection, PipelineAssumption
  <2> QED BY <2>2, <2>3, <2>4, FS_UNION
<1>3. IsFiniteSet(RelationJobs)
  <2> DEFINE L == {i \in Logical : Turns[i] > 0}
             f == [i \in L |-> <<i, 0>>]
  <2>1. IsFiniteSet(L)
    BY FS_Subset, PipelineAssumption
  <2>2. f \in Surjection(L, RelationJobs)
    BY DEF Surjection, RelationJobs
  <2> HIDE DEF f, L
  <2> QED BY <2>1, <2>2, FS_Surjection
<1> QED BY <1>2, <1>3, FS_Union DEF Jobs

\* What a restart restores is the sum over the main jobs, and that over the relations.
LEMMA RestoredCosts ==
  ASSUME RunTypeOK
  PROVE  /\ \A j \in Jobs : SealedCharge[j] \in Nat
         /\ \A J \in SUBSET Jobs : IsFiniteSet(J) /\ RestoredCost(J) = Total(SealedCharge, J)
         /\ \A J \in SUBSET Jobs : RestoredCost(J) \in Nat
         /\ MainJobs \in SUBSET Jobs /\ RelationJobs \in SUBSET Jobs
         /\ RestoredCost(Jobs) = RestoredCost(MainJobs) + RestoredCost(RelationJobs)
<1>1. \A j \in Jobs : SealedCharge[j] \in Nat
  <2> SUFFICES ASSUME NEW j \in Jobs
               PROVE  sealed[j] # None => sealed[j].charge \in Nat
    BY DEF SealedCharge
  <2> QED BY DEF RunTypeOK
<1>2. \A J \in SUBSET Jobs : IsFiniteSet(J) /\ RestoredCost(J) = Total(SealedCharge, J)
  BY JobsAreFinite, FS_Subset DEF RestoredCost, Total
<1>3. \A J \in SUBSET Jobs : RestoredCost(J) \in Nat
  BY <1>1, <1>2, TotalIsNat
<1>4. /\ MainJobs \in SUBSET Jobs /\ RelationJobs \in SUBSET Jobs
      /\ Jobs \ MainJobs = RelationJobs
  BY JobShapes DEF Jobs
<1>5. Total(SealedCharge, Jobs) =
        Total(SealedCharge, MainJobs) + Total(SealedCharge, Jobs \ MainJobs)
  BY <1>1, <1>4, JobsAreFinite, TotalOfParts
<1>6. RestoredCost(Jobs) = RestoredCost(MainJobs) + RestoredCost(RelationJobs)
  BY <1>2, <1>4, <1>5
<1> QED BY <1>1, <1>2, <1>3, <1>4, <1>6

\* Every sealed relation is of a claim that was made.
LEMMA RelationCost ==
  ASSUME IInv
  PROVE  Prepared \in SUBSET RelationJobs /\ RestoredCost(Prepared) = RestoredCost(RelationJobs)
<1>1. RunTypeOK
  BY DEF IInv
<1>2. Prepared \in SUBSET RelationJobs /\ Prepared \in SUBSET Jobs
  BY DEF Prepared, RelationJobs, Jobs
<1> DEFINE Rest == RelationJobs \ Prepared
<1>3. \A j \in Rest : SealedCharge[j] = 0
  BY RestoredCosts DEF IInv, DiskInv, SealedCharge, Jobs
<1>4. IsFiniteSet(RelationJobs) /\ IsFiniteSet(Rest)
  BY <1>1, RestoredCosts, FS_Subset
<1>5. Total(SealedCharge, Rest) = 0
  BY <1>3, <1>4, TotalOfZeros
<1>6. \A j \in RelationJobs : SealedCharge[j] \in Nat
  BY <1>1, RestoredCosts
<1>7. Total(SealedCharge, RelationJobs) = Total(SealedCharge, Prepared) + Total(SealedCharge, Rest)
  BY <1>2, <1>4, <1>6, TotalOfParts
<1>8. /\ RestoredCost(Prepared) = Total(SealedCharge, Prepared)
      /\ RestoredCost(RelationJobs) = Total(SealedCharge, RelationJobs)
      /\ RestoredCost(Prepared) \in Nat
  BY <1>1, <1>2, RestoredCosts
<1> HIDE DEF Rest
<1> QED BY <1>2, <1>5, <1>7, <1>8

\* It changes with what is sealed alone.
LEMMA CostKept ==
  ASSUME UNCHANGED sealed, NEW J
  PROVE  RestoredCost(J)' = RestoredCost(J)
BY DEF RestoredCost, SealedCharge

\* A job that is sealed adds its charge.
LEMMA CostOfSeal ==
  ASSUME RunTypeOK, RunTypeOK', NEW j \in Jobs, NEW r, sealed[j] = None,
         sealed' = [sealed EXCEPT ![j] = r], r # None, NEW J \in SUBSET Jobs
  PROVE  RestoredCost(J)' = RestoredCost(J) + IF j \in J THEN r.charge ELSE 0
<1> DEFINE f == SealedCharge
           g == SealedCharge'
<1>1. /\ f[j] = 0 /\ g[j] = r.charge
      /\ \A k \in Jobs : k # j => g[k] = f[k]
  BY DEF SealedCharge, RunTypeOK
<1>2. (\A k \in Jobs : f[k] \in Nat) /\ (\A k \in Jobs : g[k] \in Nat)
  BY RestoredCosts, JobsAreFinite DEF SealedCharge, RunTypeOK
<1>3. IsFiniteSet(J) /\ RestoredCost(J) = Total(f, J)
  BY RestoredCosts
<1>4. RestoredCost(J)' = Total(g, J)
  BY DEF RestoredCost, Total
<1> HIDE DEF f, g
<1>5. CASE j \in J
  <2>1. Total(f, J) = f[j] + Total(f, J \ {j}) /\ Total(g, J) = g[j] + Total(g, J \ {j})
    BY <1>2, <1>3, <1>5, TotalWithout
  <2>2. IsFiniteSet(J \ {j})
    BY <1>3, FS_Subset
  <2>3. Total(f, J \ {j}) = Total(g, J \ {j})
    BY <1>1, <2>2, TotalOfSame
  <2>4. Total(f, J \ {j}) \in Nat
    BY <1>2, <2>2, TotalIsNat
  <2>5. g[j] \in Nat
    BY <1>2
  <2> QED BY <1>1, <1>3, <1>4, <1>5, <2>1, <2>3, <2>4, <2>5
<1>6. CASE j \notin J
  <2>1. Total(f, J) = Total(g, J)
    BY <1>1, <1>3, <1>6, TotalOfSame
  <2>2. Total(f, J) \in Nat
    BY <1>2, <1>3, TotalIsNat
  <2> QED BY <1>3, <1>4, <1>6, <2>1, <2>2
<1> QED BY <1>5, <1>6

\* What a call has reserved and not spent.
LEMMA CallCost ==
  ASSUME NEW c \in Calls
  PROVE  /\ c.job \in Jobs /\ c.cost \in Nat /\ Reservation[c.job] \in Nat
         /\ Booked[c] = Reservation[c.job]
         /\ Unspent[c] \in Nat /\ Unspent[c] <= Reservation[c.job]
         /\ ~c.sent => Unspent[c] = Reservation[c.job]
         /\ c.sent => Reservation[c.job] <= Unspent[c] + c.cost
         /\ c.sent /\ c.cost <= Reservation[c.job] => Reservation[c.job] = Unspent[c] + c.cost
         /\ c.sent /\ c.cost > Reservation[c.job] => Unspent[c] = 0
<1>1. c.job \in Jobs /\ c.cost \in Nat /\ c.sent \in BOOLEAN
  BY DEF Calls
<1>2. Reservation[c.job] \in Nat
  BY <1>1, PipelineAssumption
<1> QED BY <1>1, <1>2 DEF Booked, Unspent

\* And what a set of calls has.
LEMMA CallCosts ==
  ASSUME NEW K, K \subseteq Calls, IsFiniteSet(K)
  PROVE  /\ Total(Booked, K) \in Nat /\ Total(Unspent, K) \in Nat
         /\ \A c \in K :
              /\ IsFiniteSet(K \ {c})
              /\ Total(Booked, K) = Booked[c] + Total(Booked, K \ {c})
              /\ Total(Unspent, K) = Unspent[c] + Total(Unspent, K \ {c})
         /\ \A c \in Calls :
              /\ IsFiniteSet(K \cup {c})
              /\ Total(Booked, K \cup {c}) <= Booked[c] + Total(Booked, K)
              /\ Total(Unspent, K \cup {c}) <= Unspent[c] + Total(Unspent, K)
<1>1. \A c \in Calls : Booked[c] \in Nat /\ Unspent[c] \in Nat
  BY CallCost
<1>2. Total(Booked, K) \in Nat /\ Total(Unspent, K) \in Nat
  BY <1>1, TotalIsNat
<1>3. ASSUME NEW c \in K
      PROVE  /\ IsFiniteSet(K \ {c})
             /\ Total(Booked, K) = Booked[c] + Total(Booked, K \ {c})
             /\ Total(Unspent, K) = Unspent[c] + Total(Unspent, K \ {c})
  <2>1. \A y \in K : Booked[y] \in Nat /\ Unspent[y] \in Nat
    BY <1>1
  <2>2. IsFiniteSet(K \ {c})
    BY FS_RemoveElement
  <2>3. Total(Booked, K) = Booked[c] + Total(Booked, K \ {c})
    BY <2>1, TotalWithout
  <2>4. Total(Unspent, K) = Unspent[c] + Total(Unspent, K \ {c})
    BY <2>1, TotalWithout
  <2> QED BY <2>2, <2>3, <2>4
<1>4. ASSUME NEW c \in Calls
      PROVE  /\ IsFiniteSet(K \cup {c})
             /\ Total(Booked, K \cup {c}) <= Booked[c] + Total(Booked, K)
             /\ Total(Unspent, K \cup {c}) <= Unspent[c] + Total(Unspent, K)
  <2>1. \A y \in K \cup {c} : Booked[y] \in Nat /\ Unspent[y] \in Nat
    BY <1>1
  <2> QED BY <2>1, TotalWith, FS_AddElement
<1> QED BY <1>2, <1>3, <1>4

\* The parts of the budget's invariant do not concern a process that is idle.
LEMMA OthersAccount ==
  ASSUME IInv, BudgetInv, NEW p \in Procs, stage[p] # "idle", NEW q \in Procs, q # p,
         stage'[q] = stage[q], charge'[q] = charge[q]
  PROVE  AccountInv(q)'
<1>1. stage[q] = "idle"
  BY OthersIdle
<1>2. charge[q] = 0
  BY <1>1 DEF BudgetInv, AccountInv, Executes
<1>3. /\ stage'[q] = "idle" /\ charge'[q] = 0
      /\ ~Executes(q)' /\ ~Relates(q)' /\ ~Works(q)'
  BY <1>1, <1>2 DEF Executes, Relates, Holds, Works
<1> QED BY <1>3 DEF AccountInv

\* While a process has a job, or has come to the relations, no other job is open: main jobs are
\* done before the first relation is asked for.
LEMMA OwnJobOnly ==
  ASSUME IInv, BudgetInv, NEW p \in Procs, Holds(p) \/ Relates(p)
  PROVE  OnlyOwn(p)
<1> SUFFICES ASSUME NEW j \in Jobs, Unfinished(j)
             PROVE  Holds(p) /\ j = job[p]
  BY DEF OnlyOwn
<1>1. CASE j \in MainJobs
  BY <1>1 DEF IInv, StageInv, Holds, Relates
<1>2. CASE j \in RelationJobs
  <2>1. CASE Relates(p)
    BY <1>2, <2>1 DEF BudgetInv, AccountInv
  <2>2. CASE ~Relates(p)
    <3>1. Holds(p) /\ job[p] \in MainJobs /\ terminal[job[p][1]] = None
      BY <2>2 DEF Relates, Jobs, IInv, JobInv
    <3>2. job[p][1] \in Logical
      BY <3>1, JobShapes
    <3>3. Pending # {}
      BY <3>1, <3>2 DEF Pending
    <3> QED BY <1>2, <3>3 DEF IInv, DiskInv, Unfinished
  <2> QED BY <2>1, <2>2
<1> QED BY <1>1, <1>2 DEF Jobs

\* A call is outstanding within its type.
LEMMA OutstandingIsNat ==
  ASSUME IInv, BudgetInv
  PROVE  /\ calls \subseteq Calls /\ IsFiniteSet(calls)
         /\ Reserved \in Nat /\ Outstanding \in Nat
BY CallCosts DEF IInv, RunTypeOK, BudgetInv, Reserved, Outstanding

\* At first there is nothing to pay for.
LEMMA InitialBudget == Init => BudgetInv
<1> SUFFICES ASSUME Init PROVE BudgetInv
  OBVIOUS
<1>1. Outstanding = 0
  BY TotalOfNone DEF Init, Outstanding
<1>2. RestoredCost(Jobs) \in Nat
  BY InitEstablishes, RestoredCosts DEF IInv
<1>3. IsFiniteSet(calls)
  BY FS_EmptySet DEF Init
<1>4. BudgetTypeOK /\ ReceiptCoversCost
  BY DEF Init, BudgetTypeOK, ReceiptCoversCost
<1>5. \A p \in Procs : AccountInv(p)
  BY DEF Init, AccountInv, Executes, Relates, Holds, Works
<1>6. paid = 0 /\ excess = 0 /\ calls = {}
  BY DEF Init
<1>7. Ceiling \in Nat
  BY PipelineAssumption
<1> QED BY <1>1, <1>2, <1>3, <1>4, <1>5, <1>6, <1>7 DEF BudgetInv

\* A process that ends takes its calls with it: what was to be spent will not be.
LEMMA ExitKeepsBudget ==
  ASSUME IInv, BudgetInv, NEW p \in Procs, stage[p] # "idle", Exit(p),
         UNCHANGED <<begun, sealed, paid, excess>>, ReceiptCoversCost'
  PROVE  BudgetInv'
<1>1. \A q \in Procs : stage'[q] = "idle"
  BY OthersIdle DEF IInv, RunTypeOK, Exit
<1>2. calls' = {}
  BY OthersIdle DEF Exit
<1>3. BudgetTypeOK'
  BY DEF BudgetInv, BudgetTypeOK, Exit
<1>4. Outstanding' = 0
  BY <1>2, TotalOfNone DEF Outstanding
<1>5. \A q \in Procs : AccountInv(q)'
  <2> SUFFICES ASSUME NEW q \in Procs PROVE AccountInv(q)'
    OBVIOUS
  <2>1. CASE q = p
    <3>1. charge'[q] = 0
      BY <2>1 DEF Exit, IInv, RunTypeOK
    <3> QED BY <1>1, <3>1 DEF AccountInv, Executes, Relates, Holds, Works
  <2>2. CASE q # p
    <3>1. stage'[q] = stage[q] /\ charge'[q] = charge[q]
      BY <2>2 DEF Exit, IInv, RunTypeOK
    <3> QED BY <2>2, <3>1, OthersAccount
  <2> QED BY <2>1, <2>2
<1>6. Outstanding \in Nat /\ paid \in Nat /\ excess \in Nat
  BY OutstandingIsNat DEF BudgetInv, BudgetTypeOK
<1>7. Ceiling \in Nat /\ RestoredCost(Jobs) \in Nat
  BY PipelineAssumption, RestoredCosts DEF IInv
<1>8. (\A j \in Jobs : ~Unfinished(j)') => paid' + Outstanding' <= excess' + RestoredCost(Jobs)'
  <2> SUFFICES ASSUME \A j \in Jobs : ~Unfinished(j)'
               PROVE  paid + 0 <= excess + RestoredCost(Jobs)
    BY <1>4, CostKept
  <2>1. \A j \in Jobs : ~Unfinished(j)
    BY DEF Unfinished
  <2> QED BY <1>6, <1>7, <2>1 DEF BudgetInv
<1>9. paid' + Outstanding' <= Ceiling + excess'
  BY <1>4, <1>6, <1>7 DEF BudgetInv
<1>10. IsFiniteSet(calls') /\ \A c \in calls' : Works(c.proc)'
  BY <1>2, FS_EmptySet
<1> QED BY <1>3, <1>5, <1>8, <1>9, <1>10 DEF BudgetInv

\* And so with one that ends in order.
LEMMA LeaveKeepsBudget ==
  ASSUME IInv, BudgetInv, NEW p \in Procs, stage[p] # "idle", Leave(p),
         UNCHANGED <<begun, sealed, receipt, paid, excess>>
  PROVE  BudgetInv'
<1>1. ReceiptCoversCost'
  BY DEF BudgetInv, ReceiptCoversCost
<1> QED BY <1>1, ExitKeepsBudget DEF Leave

\* The receipt is published with the budget that covers what was paid.
LEMMA CompleteKeepsBudget ==
  ASSUME IInv, BudgetInv, NEW p \in Procs, Complete(p)
  PROVE  BudgetInv'
<1>1. stage[p] = "publishing"
  BY DEF Complete
<1>2. Relates(p) /\ Works(p) /\ OnlyOwn(p)
  BY <1>1, OwnJobOnly DEF Relates, Works
<1>3. paid + Outstanding <= excess + committed[p]
  <2>1. paid + Outstanding <= excess + committed[p] + 0
    BY <1>2 DEF BudgetInv, AccountInv
  <2> QED BY <2>1 DEF BudgetInv, BudgetTypeOK
<1>4. /\ Outstanding \in Nat /\ paid \in Nat /\ excess \in Nat /\ committed[p] \in Nat
  BY OutstandingIsNat DEF BudgetInv, BudgetTypeOK
<1>5. paid <= committed[p] + excess
  BY <1>3, <1>4
<1>6. ReceiptCoversCost'
  BY <1>5 DEF Complete, ReceiptCoversCost, historyVars
<1> QED BY <1>1, <1>6, ExitKeepsBudget DEF Complete, Leave, historyVars

\* Runs begin, and locks go, without a call.
LEMMA IdleKeepsBudget ==
  ASSUME IInv, BudgetInv, (\E p \in Procs : Start(p)) \/ RemoveLock
  PROVE  BudgetInv'
<1>1. UNCHANGED <<begun, sealed, receipt, charge, committed, calls, paid, excess>>
  BY DEF Start, RemoveLock, gatewayVars, budgetVars, historyVars
<1>2. \A q \in Procs : stage[q] = "idle" /\ stage'[q] \in {"idle", "restoring"}
  BY DEF Start, RemoveLock, GoTo, IInv, RunTypeOK, StageInv
<1>3. calls = {}
  BY <1>2 DEF BudgetInv, Works, IInv, RunTypeOK, Calls
<1>4. Outstanding' = Outstanding /\ RestoredCost(Jobs)' = RestoredCost(Jobs)
  BY <1>1, CostKept DEF Outstanding
<1>5. \A q \in Procs : AccountInv(q)'
  BY <1>1, <1>2 DEF BudgetInv, AccountInv, Executes, Relates, Holds, Works
<1>6. BudgetTypeOK' /\ ReceiptCoversCost'
  BY <1>1 DEF BudgetInv, BudgetTypeOK, ReceiptCoversCost
<1>7. \A j \in Jobs : Unfinished(j)' <=> Unfinished(j)
  BY <1>1 DEF Unfinished
<1> QED BY <1>1, <1>3, <1>4, <1>5, <1>6, <1>7 DEF BudgetInv

\* The run goes on without a call and without an answer.
LEMMA MoveKeepsBudget ==
  ASSUME IInv, BudgetInv, NEW p \in Procs, Works(p), ~Holds(p),
         NEW s \in {"batch", "opening", "scoring", "relations", "publishing"}, GoTo(p, s),
         UNCHANGED <<begun, sealed, receipt, charge, committed, calls, paid, excess>>,
         Relates(p)' <=> Relates(p), Holds(p)' => OnlyOwn(p)
  PROVE  BudgetInv'
<1>1. stage[p] # "idle" /\ stage'[p] = s /\ \A q \in Procs : q # p => stage'[q] = stage[q]
  BY DEF Works, GoTo, IInv, RunTypeOK
<1>2. /\ Outstanding' = Outstanding /\ Reserved' = Reserved
      /\ RestoredCost(Jobs)' = RestoredCost(Jobs)
      /\ RestoredCost(RelationJobs)' = RestoredCost(RelationJobs)
  BY CostKept DEF Outstanding, Reserved
<1>3. \A j \in Jobs : Unfinished(j)' <=> Unfinished(j)
  BY DEF Unfinished
<1>4. Works(p)' /\ ~Executes(p)' /\ ~Executes(p)
  BY <1>1 DEF Works, Executes, Holds
<1>5. OnlyOwn(p)' => OnlyOwn(p)
  BY <1>3 DEF OnlyOwn
<1>6. AccountInv(p)'
  <2>1. charge'[p] = 0
    BY <1>4 DEF BudgetInv, AccountInv
  <2>2. Relates(p)' => \A j \in RelationJobs : ~Unfinished(j)'
    BY <1>3 DEF BudgetInv, AccountInv, Jobs
  <2>3. Reserved' <= committed'[p]
    BY <1>2 DEF BudgetInv, AccountInv
  <2>4. OnlyOwn(p)' => paid' + Outstanding' <= excess' + committed'[p]
                         + (IF Relates(p)' THEN 0 ELSE RestoredCost(RelationJobs)')
    BY <1>2, <1>5 DEF BudgetInv, AccountInv
  <2> QED BY <1>4, <2>1, <2>2, <2>3, <2>4 DEF AccountInv
<1>7. \A q \in Procs : AccountInv(q)'
  BY <1>1, <1>6, OthersAccount
<1>8. \A c \in calls' : Works(c.proc)'
  BY <1>1, OthersIdle DEF BudgetInv, Works
<1>9. BudgetTypeOK' /\ ReceiptCoversCost'
  BY DEF BudgetInv, BudgetTypeOK, ReceiptCoversCost
<1> QED BY <1>2, <1>3, <1>7, <1>8, <1>9 DEF BudgetInv

\* A process that begins to work restores what all main jobs are recorded to have cost.
LEMMA RestoreKeepsBudget ==
  ASSUME IInv, BudgetInv, NEW p \in Procs, Restore(p)
  PROVE  BudgetInv'
<1> DEFINE cost == RestoredCost(MainJobs)
<1>0. /\ stage[p] = "restoring"
      /\ UNCHANGED <<begun, sealed, receipt, paid, excess>>
  BY DEF Restore
<1>1. CASE Leave(p)
  BY <1>0, <1>1, LeaveKeepsBudget
<1>2. CASE ~Leave(p)
  <2>1. /\ committed' = [committed EXCEPT ![p] = cost]
        /\ GoTo(p, "batch")
        /\ UNCHANGED <<gatewayVars, calls>>
        /\ \A j \in MainJobs : ~Unfinished(j)
    BY <1>2 DEF Restore
  <2>2. stage'[p] = "batch" /\ \A q \in Procs : q # p => stage'[q] = stage[q]
    BY <2>1 DEF GoTo, IInv, RunTypeOK
  <2>3. charge' = charge
    BY <2>1 DEF gatewayVars
  <2>4. calls = {}
    BY <1>0, OthersIdle DEF BudgetInv, Works
  <2>5. Reserved' = 0 /\ Outstanding' = 0 /\ Outstanding = 0
    BY <2>1, <2>4, TotalOfNone DEF Reserved, Outstanding
  <2>6. \A J \in SUBSET Jobs : RestoredCost(J)' = RestoredCost(J)
    BY <1>0, CostKept
  <2>7. /\ cost \in Nat /\ RestoredCost(RelationJobs) \in Nat
        /\ RestoredCost(Jobs) = cost + RestoredCost(RelationJobs)
        /\ RelationJobs \in SUBSET Jobs /\ Jobs \in SUBSET Jobs
    BY RestoredCosts DEF IInv
  <2>8. committed'[p] = cost /\ committed' \in [Procs -> Nat]
    BY <2>1, <2>7 DEF BudgetInv, BudgetTypeOK
  <2>9. \A j \in Jobs : Unfinished(j)' <=> Unfinished(j)
    BY <1>0 DEF Unfinished
  <2>10. paid \in Nat /\ excess \in Nat /\ Ceiling \in Nat
    BY PipelineAssumption DEF BudgetInv, BudgetTypeOK
  <2> HIDE DEF cost
  <2>11. OnlyOwn(p)' => paid + 0 <= excess + cost + RestoredCost(RelationJobs)
    <3> SUFFICES ASSUME OnlyOwn(p)'
                 PROVE  paid + 0 <= excess + cost + RestoredCost(RelationJobs)
      OBVIOUS
    <3>1. \A j \in Jobs : ~Unfinished(j)
      BY <2>2, <2>9 DEF OnlyOwn, Holds
    <3>2. paid + 0 <= excess + RestoredCost(Jobs)
      BY <2>5, <3>1 DEF BudgetInv
    <3> QED BY <2>7, <2>10, <3>2
  <2>12. AccountInv(p)'
    <3>1. charge'[p] = 0
      BY <1>0, <2>3 DEF BudgetInv, AccountInv, Executes
    <3>2. ~Executes(p)' /\ ~Relates(p)'
      BY <2>2 DEF Executes, Relates, Holds
    <3>3. Reserved' <= committed'[p]
      BY <2>5, <2>7, <2>8
    <3>4. OnlyOwn(p)' =>
            paid' + Outstanding' <= excess' + committed'[p] + RestoredCost(RelationJobs)'
      BY <1>0, <2>5, <2>6, <2>7, <2>8, <2>11
    <3> QED BY <3>1, <3>2, <3>3, <3>4 DEF AccountInv
  <2>13. \A q \in Procs : AccountInv(q)'
    BY <1>0, <2>2, <2>3, <2>12, OthersAccount
  <2>14. (\A j \in Jobs : ~Unfinished(j)') => paid' + Outstanding' <= excess' + RestoredCost(Jobs)'
    BY <1>0, <2>5, <2>6, <2>7, <2>9 DEF BudgetInv
  <2>15. paid' + Outstanding' <= Ceiling + excess'
    BY <1>0, <2>5 DEF BudgetInv
  <2>16. BudgetTypeOK' /\ ReceiptCoversCost'
    BY <1>0, <2>8 DEF BudgetInv, BudgetTypeOK, ReceiptCoversCost
  <2> QED BY <2>1, <2>4, <2>13, <2>14, <2>15, <2>16 DEF BudgetInv
<1> QED BY <1>1, <1>2

\* It looks for the next turn.
LEMMA FindTurnKeepsBudget ==
  ASSUME IInv, BudgetInv, NEW p \in Procs, FindTurn(p)
  PROVE  BudgetInv'
<1>0. /\ stage[p] = "batch"
      /\ UNCHANGED <<begun, sealed, receipt, paid, excess>>
  BY DEF FindTurn, historyVars
<1>1. CASE Leave(p)
  BY <1>0, <1>1, LeaveKeepsBudget
<1>2. CASE ~Leave(p)
  <2>0. PICK i \in Logical : \E t \in 1..Turns[i] :
          /\ IsNext(i)
          /\ <<i, t>> \notin begun
          /\ Open(p, <<i, t>>)
          /\ UNCHANGED <<charge, committed, calls>>
    BY <1>2 DEF FindTurn, budgetVars
  <2>1. PICK t \in 1..Turns[i] :
          /\ IsNext(i)
          /\ <<i, t>> \notin begun
          /\ Open(p, <<i, t>>)
          /\ UNCHANGED <<charge, committed, calls>>
    BY <2>0
  <2>2. GoTo(p, "opening") /\ stage'[p] = "opening" /\ job'[p] = <<i, t>>
    BY <2>1 DEF Open, GoTo, IInv, RunTypeOK
  <2>3. <<i, t>> \in MainJobs /\ <<i, t>> \notin RelationJobs
    BY <2>1, JobShapes
  <2>4. ~Relates(p) /\ ~Relates(p)' /\ Works(p) /\ ~Holds(p)
    BY <1>0, <2>2, <2>3 DEF Relates, Holds, Works
  <2>5. OnlyOwn(p)
    <3>1. \A j \in MainJobs : ~Unfinished(j)
      BY <2>4 DEF IInv, StageInv, Works
    <3>2. Pending # {}
      BY <2>1 DEF IsNext
    <3>3. \A j \in RelationJobs : ~Unfinished(j)
      BY <3>2 DEF IInv, DiskInv, Unfinished
    <3> QED BY <3>1, <3>3 DEF OnlyOwn, Jobs
  <2> QED BY <1>0, <2>1, <2>2, <2>4, <2>5, MoveKeepsBudget
<1> QED BY <1>1, <1>2

\* And for a relation that was not asked for.
LEMMA FindRelationKeepsBudget ==
  ASSUME IInv, BudgetInv, NEW p \in Procs, FindRelation(p)
  PROVE  BudgetInv'
<1>1. PICK j \in Prepared : Open(p, j)
  BY DEF FindRelation
<1>2. /\ stage[p] = "relations" /\ GoTo(p, "opening")
      /\ UNCHANGED <<begun, sealed, receipt, charge, committed, calls, paid, excess>>
  BY <1>1 DEF FindRelation, Open, diskVars, budgetVars, historyVars
<1>3. stage'[p] = "opening" /\ job'[p] = j /\ j \in RelationJobs
  BY <1>1, RelationCost DEF Open, GoTo, IInv, RunTypeOK
<1>4. Works(p) /\ ~Holds(p) /\ Relates(p) /\ Relates(p)'
  BY <1>2, <1>3 DEF Works, Holds, Relates
<1> QED BY <1>2, <1>4, OwnJobOnly, MoveKeepsBudget

\* A terminal is no matter of the budget.
LEMMA ConcludeKeepsBudget ==
  ASSUME IInv, BudgetInv, NEW p \in Procs, Conclude(p)
  PROVE  BudgetInv'
<1>1. /\ stage[p] = "batch"
      /\ UNCHANGED <<begun, sealed, receipt, stage, job, charge, committed, calls, paid, excess>>
  BY DEF Conclude, gatewayVars, budgetVars, historyVars
<1>2. GoTo(p, "batch")
  BY <1>1 DEF GoTo, IInv, RunTypeOK
<1>3. Works(p) /\ ~Holds(p) /\ ~Holds(p)' /\ ~Relates(p) /\ ~Relates(p)'
  BY <1>1 DEF Works, Holds, Relates
<1> QED BY <1>1, <1>2, <1>3, MoveKeepsBudget

\* Nor is the result of the batch.
LEMMA FinishBatchKeepsBudget ==
  ASSUME IInv, BudgetInv, NEW p \in Procs, FinishBatch(p)
  PROVE  BudgetInv'
<1>0. stage[p] = "batch" /\ UNCHANGED <<begun, sealed, receipt, paid, excess>>
  BY DEF FinishBatch
<1>1. CASE Leave(p)
  BY <1>0, <1>1, LeaveKeepsBudget
<1>2. CASE ~Leave(p)
  <2>1. GoTo(p, "scoring") /\ UNCHANGED <<charge, committed, calls>>
    BY <1>2 DEF FinishBatch, gatewayVars, budgetVars
  <2>2. stage'[p] = "scoring"
    BY <2>1 DEF GoTo, IInv, RunTypeOK
  <2>3. Works(p) /\ ~Holds(p) /\ ~Holds(p)' /\ ~Relates(p) /\ ~Relates(p)'
    BY <1>0, <2>2 DEF Works, Holds, Relates
  <2> QED BY <1>0, <2>1, <2>3, MoveKeepsBudget
<1> QED BY <1>1, <1>2

\* Nor are the results of the relations.
LEMMA FinishRelationsKeepsBudget ==
  ASSUME IInv, BudgetInv, NEW p \in Procs, FinishRelations(p)
  PROVE  BudgetInv'
<1>0. stage[p] = "relations" /\ UNCHANGED <<begun, sealed, receipt, paid, excess>>
  BY DEF FinishRelations
<1>1. CASE Leave(p)
  BY <1>0, <1>1, LeaveKeepsBudget
<1>2. CASE ~Leave(p)
  <2>1. GoTo(p, "publishing") /\ UNCHANGED <<charge, committed, calls>>
    BY <1>2 DEF FinishRelations, gatewayVars, budgetVars
  <2>2. stage'[p] = "publishing"
    BY <2>1 DEF GoTo, IInv, RunTypeOK
  <2>3. Works(p) /\ ~Holds(p) /\ ~Holds(p)' /\ Relates(p) /\ Relates(p)'
    BY <1>0, <2>2 DEF Works, Holds, Relates
  <2> QED BY <1>0, <2>1, <2>3, MoveKeepsBudget
<1> QED BY <1>1, <1>2

\* The cost of the sealed relations is restored, when none is open.
LEMMA ScoreKeepsBudget ==
  ASSUME IInv, BudgetInv, NEW p \in Procs, Score(p)
  PROVE  BudgetInv'
<1> DEFINE more == RestoredCost(RelationJobs)
<1>0. /\ stage[p] = "scoring"
      /\ UNCHANGED <<begun, sealed, receipt, paid, excess>>
  BY DEF Score
<1>1. CASE Leave(p)
  BY <1>0, <1>1, LeaveKeepsBudget
<1>2. CASE ~Leave(p)
  <2>1. /\ committed' = [committed EXCEPT ![p] = committed[p] + more]
        /\ GoTo(p, "relations")
        /\ UNCHANGED <<gatewayVars, calls>>
        /\ \A j \in Prepared : ~Unfinished(j)
    BY <1>2, RelationCost DEF Score
  <2>2. stage'[p] = "relations" /\ \A q \in Procs : q # p => stage'[q] = stage[q]
    BY <2>1 DEF GoTo, IInv, RunTypeOK
  <2>3. charge' = charge
    BY <2>1 DEF gatewayVars
  <2>4. Reserved' = Reserved /\ Outstanding' = Outstanding
    BY <2>1 DEF Reserved, Outstanding
  <2>5. RestoredCost(Jobs)' = RestoredCost(Jobs)
    BY <1>0, CostKept
  <2>6. more \in Nat /\ committed[p] \in Nat /\ paid \in Nat /\ excess \in Nat
    BY RestoredCosts DEF IInv, BudgetInv, BudgetTypeOK
  <2>7. Reserved \in Nat /\ Outstanding \in Nat
    BY OutstandingIsNat
  <2> HIDE DEF more
  <2>8. committed'[p] = committed[p] + more /\ committed' \in [Procs -> Nat]
    BY <2>1, <2>6 DEF BudgetInv, BudgetTypeOK
  <2>9. \A j \in Jobs : Unfinished(j)' <=> Unfinished(j)
    BY <1>0 DEF Unfinished
  <2>10. AccountInv(p)'
    <3>1. charge'[p] = 0
      BY <1>0, <2>3 DEF BudgetInv, AccountInv, Executes
    <3>2. ~Executes(p)' /\ Relates(p)'
      BY <2>2 DEF Executes, Relates, Holds
    <3>3. Works(p) /\ ~Relates(p) /\ ~Holds(p) /\ ~Holds(p)'
      BY <1>0, <2>2 DEF Works, Relates, Holds
    <3>4. \A j \in RelationJobs : ~Unfinished(j)'
      BY <2>1, <2>9 DEF IInv, DiskInv, Unfinished, Jobs
    <3>5. Reserved' <= committed'[p]
      <4>1. Reserved <= committed[p]
        BY <3>3 DEF BudgetInv, AccountInv
      <4> QED BY <2>4, <2>6, <2>7, <2>8, <4>1
    <3>6. OnlyOwn(p)' => paid' + Outstanding' <= excess' + committed'[p] + 0
      <4>1. OnlyOwn(p)' => OnlyOwn(p)
        BY <2>9, <3>3 DEF OnlyOwn
      <4>2. OnlyOwn(p) => paid + Outstanding <= excess + committed[p] + more
        BY <3>3 DEF BudgetInv, AccountInv, more
      <4> QED BY <1>0, <2>4, <2>6, <2>7, <2>8, <4>1, <4>2
    <3> QED BY <3>1, <3>2, <3>4, <3>5, <3>6 DEF AccountInv
  <2>11. \A q \in Procs : AccountInv(q)'
    BY <1>0, <2>2, <2>3, <2>10, OthersAccount
  <2>12. \A c \in calls' : Works(c.proc)'
    BY <1>0, <2>1, <2>2, OthersIdle DEF Works
  <2>13. BudgetTypeOK' /\ ReceiptCoversCost'
    BY <1>0, <2>8 DEF BudgetInv, BudgetTypeOK, ReceiptCoversCost
  <2> QED BY <1>0, <2>1, <2>4, <2>5, <2>9, <2>11, <2>12, <2>13 DEF BudgetInv
<1> QED BY <1>1, <1>2

\* The request is put on disk: from here on its job is open, and nothing was paid for it yet.
LEMMA BeginKeepsBudget ==
  ASSUME IInv, BudgetInv, NEW p \in Procs, Begin(p)
  PROVE  BudgetInv'
<1>1. /\ stage[p] = "opening" /\ begun' = begun \cup {job[p]} /\ GoTo(p, "gateway")
      /\ UNCHANGED <<sealed, receipt, job, charge, committed, calls, paid, excess>>
  BY DEF Begin, gatewayVars, budgetVars, historyVars
<1>2. stage'[p] = "gateway" /\ \A q \in Procs : q # p => stage'[q] = stage[q]
  BY <1>1 DEF GoTo, IInv, RunTypeOK
<1>3. job[p] \in Jobs /\ job[p] \notin begun /\ sealed[job[p]] = None
  BY <1>1 DEF IInv, JobInv, Holds
<1>4. OnlyOwn(p) /\ Works(p) /\ Works(p)' /\ Executes(p)' /\ ~Executes(p)
  BY <1>1, <1>2, OwnJobOnly DEF Holds, Works, Executes
<1>5. \A j \in Jobs : ~Unfinished(j)
  BY <1>3, <1>4 DEF OnlyOwn, Unfinished
<1>6. Unfinished(job[p])' /\ \A j \in Jobs : Unfinished(j)' => j = job[p]
  BY <1>1, <1>3, <1>5 DEF Unfinished
<1>7. /\ Outstanding' = Outstanding /\ Reserved' = Reserved
      /\ RestoredCost(Jobs)' = RestoredCost(Jobs)
      /\ RestoredCost(RelationJobs)' = RestoredCost(RelationJobs)
  BY <1>1, CostKept DEF Outstanding, Reserved
<1>8. /\ excess \in Nat /\ RestoredCost(Jobs) \in Nat
      /\ charge[p] = 0
  BY <1>4, RestoredCosts DEF IInv, BudgetInv, BudgetTypeOK, AccountInv
<1>9. AccountInv(p)'
  <2>1. Relates(p)' <=> Relates(p)
    BY <1>1, <1>2 DEF Relates, Holds
  <2>2. Holds(p)' /\ job'[p] = job[p]
    BY <1>1, <1>2 DEF Holds
  <2>3. \A j \in RelationJobs : Unfinished(j)' => Holds(p)' /\ j = job'[p]
    BY <1>6, <2>2 DEF Jobs
  <2>4. Reserved' <= committed'[p]
    BY <1>1, <1>4, <1>7 DEF BudgetInv, AccountInv
  <2>5. paid' + Outstanding' <= excess' + RestoredCost(Jobs)' + charge'[p] + 0
    <3>1. paid + Outstanding <= excess + RestoredCost(Jobs)
      BY <1>5 DEF BudgetInv
    <3> QED BY <1>1, <1>7, <1>8, <3>1
  <2>6. paid' + Outstanding' <= excess' + committed'[p]
          + (IF Relates(p)' THEN 0 ELSE RestoredCost(RelationJobs)')
    BY <1>1, <1>4, <1>7, <2>1 DEF BudgetInv, AccountInv
  <2> QED BY <1>2, <1>4, <2>3, <2>4, <2>5, <2>6 DEF AccountInv
<1>10. \A q \in Procs : AccountInv(q)'
  BY <1>1, <1>2, <1>9, OthersAccount
<1>11. \A c \in calls' : Works(c.proc)'
  BY <1>1, <1>2, OthersIdle DEF BudgetInv, Works
<1>12. BudgetTypeOK' /\ ReceiptCoversCost'
  BY <1>1 DEF BudgetInv, BudgetTypeOK, ReceiptCoversCost
<1> QED BY <1>1, <1>3, <1>6, <1>7, <1>10, <1>11, <1>12 DEF BudgetInv

\* While a main job is executed, no relation was ever asked for, so the budget is all there is.
LEMMA BudgetIsAll ==
  ASSUME IInv, BudgetInv, NEW p \in Procs, Executes(p)
  PROVE  paid + Outstanding <= excess + committed[p]
<1>1. Holds(p) /\ Works(p)
  BY DEF Executes, Holds, Works
<1>2. OnlyOwn(p)
  BY <1>1, OwnJobOnly
<1>3. committed[p] \in Nat /\ excess \in Nat
  BY DEF BudgetInv, BudgetTypeOK
<1>4. CASE Relates(p)
  <2>1. paid + Outstanding <= excess + committed[p] + 0
    BY <1>1, <1>2, <1>4 DEF BudgetInv, AccountInv
  <2> QED BY <1>3, <2>1
<1>5. CASE ~Relates(p)
  <2>1. job[p] \in MainJobs /\ terminal[job[p][1]] = None
    BY <1>1, <1>5 DEF Relates, Jobs, IInv, JobInv
  <2>2. job[p][1] \in Logical
    BY <2>1, JobShapes
  <2>3. Pending # {}
    BY <2>1, <2>2 DEF Pending
  <2>4. \A j \in RelationJobs : sealed[j] = None
    BY <2>3 DEF IInv, DiskInv, Jobs
  <2>5. \A j \in RelationJobs : SealedCharge[j] = 0
    BY <2>4 DEF SealedCharge, Jobs
  <2>6. IsFiniteSet(RelationJobs) /\ RestoredCost(RelationJobs) = Total(SealedCharge, RelationJobs)
    BY RestoredCosts DEF IInv
  <2>7. RestoredCost(RelationJobs) = 0
    BY <2>5, <2>6, TotalOfZeros
  <2>8. paid + Outstanding <= excess + committed[p] + RestoredCost(RelationJobs)
    BY <1>1, <1>2, <1>5 DEF BudgetInv, AccountInv
  <2> QED BY <1>3, <2>7, <2>8
<1> QED BY <1>4, <1>5

\* A step of the gateway: what it makes of the budget and of the record.
LEMMA GatewayKeepsBudget ==
  ASSUME IInv, IInv', BudgetInv, NEW p \in Procs, stage[p] \in {"gateway", "waiting"},
         NEW s \in {"gateway", "waiting", "sealing"}, stage' = [stage EXCEPT ![p] = s],
         UNCHANGED <<begun, sealed, receipt, job, paid, excess>>,
         NEW cost \in Nat, charge' = [charge EXCEPT ![p] = @ + cost],
         NEW n \in Nat, committed' = [committed EXCEPT ![p] = n],
         IsFiniteSet(calls'), Reserved' <= n,
         Outstanding' + committed[p] <= Outstanding + n,
         Outstanding' + (IF stage[p] = "waiting" THEN Reservation[job[p]] ELSE 0)
           <= Outstanding + cost + (IF s = "waiting" THEN Reservation[job[p]] ELSE 0),
         paid + Outstanding' <= Ceiling + excess
  PROVE  BudgetInv'
<1>1. stage'[p] = s /\ \A q \in Procs : q # p => stage'[q] = stage[q]
  BY DEF IInv, RunTypeOK
<1>2. /\ Executes(p) /\ Executes(p)' /\ Works(p) /\ Works(p)' /\ Holds(p) /\ Holds(p)'
      /\ Relates(p)' <=> Relates(p)
  BY <1>1 DEF Executes, Works, Relates, Holds
<1>3. /\ Outstanding \in Nat /\ paid \in Nat /\ excess \in Nat /\ committed[p] \in Nat
      /\ charge[p] \in Nat /\ RestoredCost(Jobs) \in Nat /\ RestoredCost(RelationJobs) \in Nat
  BY OutstandingIsNat, RestoredCosts DEF BudgetInv, BudgetTypeOK, IInv, RunTypeOK
<1>4. calls' \subseteq Calls /\ Outstanding' \in Nat
  BY CallCosts DEF IInv, RunTypeOK, Outstanding
<1>5. /\ RestoredCost(Jobs)' = RestoredCost(Jobs)
      /\ RestoredCost(RelationJobs)' = RestoredCost(RelationJobs)
  BY CostKept
<1>6. \A j \in Jobs : Unfinished(j)' <=> Unfinished(j)
  BY DEF Unfinished
<1>7. /\ committed'[p] = n /\ charge'[p] = charge[p] + cost
      /\ \A q \in Procs : q # p => charge'[q] = charge[q]
      /\ BudgetTypeOK'
  BY DEF BudgetInv, BudgetTypeOK, IInv, RunTypeOK
<1>8. /\ job[p] \in Jobs /\ Unfinished(job[p]) /\ OnlyOwn(p) /\ Reservation[job[p]] \in Nat
  BY <1>2, OwnJobOnly, PipelineAssumption DEF IInv, JobInv, Unfinished, Holds
<1>9. AccountInv(p)'
  <2>1. \A j \in RelationJobs : Unfinished(j)' => Holds(p)' /\ j = job'[p]
    BY <1>2, <1>6, <1>8 DEF OnlyOwn, Jobs
  <2>2. Reserved' <= committed'[p]
    BY <1>7
  <2>3. paid' + Outstanding' <= excess' + RestoredCost(Jobs)' + charge'[p]
          + (IF stage'[p] = "waiting" THEN Reservation[job'[p]] ELSE 0)
    <3>1. paid + Outstanding <= excess + RestoredCost(Jobs) + charge[p]
            + (IF stage[p] = "waiting" THEN Reservation[job[p]] ELSE 0)
      BY <1>2 DEF BudgetInv, AccountInv
    <3> QED BY <1>1, <1>3, <1>4, <1>5, <1>7, <1>8, <3>1
  <2>4. paid' + Outstanding' <= excess' + committed'[p]
          + (IF Relates(p)' THEN 0 ELSE RestoredCost(RelationJobs)')
    <3>1. paid + Outstanding <= excess + committed[p]
            + (IF Relates(p) THEN 0 ELSE RestoredCost(RelationJobs))
      BY <1>2, <1>8 DEF BudgetInv, AccountInv
    <3> QED BY <1>2, <1>3, <1>4, <1>5, <1>7, <3>1
  <2> QED BY <1>2, <2>1, <2>2, <2>3, <2>4 DEF AccountInv
<1>10. \A q \in Procs : AccountInv(q)'
  BY <1>1, <1>7, <1>9, OthersAccount
<1>11. \A c \in calls' : Works(c.proc)'
  <2>1. stage'[p] # "idle"
    BY <1>1
  <2>2. \A c \in calls' : c.proc \in Procs /\ stage'[c.proc] # "idle"
    BY <1>4 DEF IInv, AttemptInv, Calls
  <2>3. \A c \in calls' : c.proc = p
    BY <2>1, <2>2 DEF IInv, OneExecution
  <2> QED BY <1>2, <2>3
<1>12. ReceiptCoversCost'
  BY DEF BudgetInv, ReceiptCoversCost
<1> QED BY <1>6, <1>7, <1>8, <1>10, <1>11, <1>12 DEF BudgetInv

\* A call reserves its cost, or is refused.
LEMMA AttemptKeepsBudget ==
  ASSUME IInv, IInv', BudgetInv, NEW p \in Procs, Attempt(p)
  PROVE  BudgetInv'
<1> DEFINE j == job[p]
<1>1. /\ stage[p] = "gateway"
      /\ UNCHANGED <<begun, sealed, receipt, job, paid, excess>>
  BY DEF Attempt, diskVars, gatewayVars, LastAttempt
<1>2. /\ Outstanding \in Nat /\ Reserved \in Nat /\ IsFiniteSet(calls) /\ calls \subseteq Calls
      /\ paid \in Nat /\ excess \in Nat /\ committed[p] \in Nat /\ Ceiling \in Nat
  BY OutstandingIsNat, PipelineAssumption DEF BudgetInv, BudgetTypeOK
<1>3. j \in Jobs /\ Reservation[j] \in Nat
  BY <1>1, PipelineAssumption DEF IInv, JobInv, Holds
<1>4. Reserved <= committed[p] /\ paid + Outstanding <= excess + committed[p]
  BY <1>1, BudgetIsAll DEF BudgetInv, AccountInv, Works, Executes
<1>5. CASE Admits(p, j)
  <2>1. /\ committed' = [committed EXCEPT ![p] = committed[p] + Reservation[j]]
        /\ stage' = [stage EXCEPT ![p] = "waiting"]
        /\ UNCHANGED gatewayVars
    BY <1>5 DEF Attempt, GoTo
  <2>2. PICK cost \in 1..(Reservation[j] + Overrun), known \in BOOLEAN :
          calls' = calls \cup {[proc |-> p, job |-> j, ordinal |-> tries[p] + 1,
                                cost |-> cost, known |-> known, sent |-> FALSE]}
    BY <1>5 DEF Attempt
  <2> DEFINE call == [proc |-> p, job |-> j, ordinal |-> tries[p] + 1,
                      cost |-> cost, known |-> known, sent |-> FALSE]
  <2>3. call \in Calls
    BY <2>2 DEF IInv, RunTypeOK
  <2>4. Booked[call] = Reservation[j] /\ Unspent[call] = Reservation[j]
    BY <2>3, CallCost
  <2>5. calls' = calls \cup {call}
    BY <2>2
  <2> HIDE DEF call
  <2>6. /\ IsFiniteSet(calls')
        /\ Reserved' <= Reservation[j] + Reserved
        /\ Outstanding' <= Reservation[j] + Outstanding
    BY <1>2, <2>3, <2>4, <2>5, CallCosts DEF Reserved, Outstanding
  <2>7. calls' \subseteq Calls /\ Reserved' \in Nat /\ Outstanding' \in Nat
    BY <2>6, CallCosts DEF IInv, RunTypeOK, Reserved, Outstanding
  <2>8. committed[p] + Reservation[j] <= Ceiling
    BY <1>5 DEF Admits
  <2>9. charge' = [charge EXCEPT ![p] = @ + 0]
    BY <2>1 DEF gatewayVars, IInv, RunTypeOK
  <2>10. committed[p] + Reservation[j] \in Nat /\ Reserved' <= committed[p] + Reservation[j]
    BY <1>2, <1>3, <1>4, <2>6, <2>7
  <2>11. Outstanding' + committed[p] <= Outstanding + (committed[p] + Reservation[j])
    BY <1>2, <1>3, <2>6, <2>7
  <2>12. paid + Outstanding' <= Ceiling + excess
    <3> HIDE DEF j
    <3>1. paid + Outstanding' <= (paid + Outstanding) + Reservation[j]
      BY <1>2, <1>3, <2>6, <2>7
    <3>2. (paid + Outstanding) + Reservation[j] <= (excess + committed[p]) + Reservation[j]
      BY <1>2, <1>3, <1>4
    <3>3. (excess + committed[p]) + Reservation[j] <= Ceiling + excess
      BY <1>2, <1>3, <2>8
    <3>4. /\ paid + Outstanding' \in Nat /\ (paid + Outstanding) + Reservation[j] \in Nat
          /\ (excess + committed[p]) + Reservation[j] \in Nat /\ Ceiling + excess \in Nat
      BY <1>2, <1>3, <2>7, NatPlus
    <3>5. \A k, l, m, n \in Nat : k <= l /\ l <= m /\ m <= n => k <= n
      OBVIOUS
    <3> QED BY <3>1, <3>2, <3>3, <3>4, <3>5
  <2>13. Outstanding' + 0 <= Outstanding + 0 + Reservation[j]
    BY <1>2, <1>3, <2>6, <2>7
  <2> QED BY <1>1, <2>1, <2>6, <2>9, <2>10, <2>11, <2>12, <2>13, GatewayKeepsBudget
<1>6. CASE ~Admits(p, j)
  <2>1. LastAttempt(p, Reservation[j], "failed") /\ UNCHANGED <<committed, calls>>
    BY <1>6 DEF Attempt
  <2>2. /\ stage' = [stage EXCEPT ![p] = "sealing"]
        /\ charge' = [charge EXCEPT ![p] = @ + Reservation[j]]
    BY <2>1 DEF LastAttempt, GoTo
  <2>3. committed' = [committed EXCEPT ![p] = committed[p]]
    BY <2>1 DEF BudgetInv, BudgetTypeOK
  <2>4. Reserved' = Reserved /\ Outstanding' = Outstanding /\ IsFiniteSet(calls')
    BY <1>2, <2>1 DEF Reserved, Outstanding
  <2>5. Outstanding' + committed[p] <= Outstanding + committed[p]
    BY <1>2, <2>4
  <2>6. Outstanding' + 0 <= Outstanding + Reservation[j] + 0
    BY <1>2, <1>3, <2>4
  <2>7. paid + Outstanding' <= Ceiling + excess /\ Reserved' <= committed[p]
    BY <1>4, <2>4 DEF BudgetInv
  <2> QED BY <1>1, <1>2, <1>3, <2>2, <2>3, <2>4, <2>5, <2>6, <2>7, GatewayKeepsBudget
<1> QED BY <1>5, <1>6

\* An attempt that is waited for goes on record with its reservation, and the budget keeps it.
LEMMA RecordKeepsBudget ==
  ASSUME IInv, IInv', BudgetInv, NEW p \in Procs, stage[p] = "waiting",
         NEW cost \in Nat,
         (\E a \in Answers : LastAttempt(p, cost, a)) \/ RetriedAttempt(p, cost),
         UNCHANGED <<begun, sealed, receipt, paid, excess>>,
         NEW n \in Nat, committed' = [committed EXCEPT ![p] = n],
         IsFiniteSet(calls'), Reserved' <= n,
         Outstanding' + committed[p] <= Outstanding + n,
         Outstanding' + Reservation[job[p]] <= Outstanding + cost,
         Outstanding' <= Outstanding
  PROVE  BudgetInv'
<1>1. PICK z \in {"gateway", "sealing"} : stage' = [stage EXCEPT ![p] = z]
  BY DEF LastAttempt, RetriedAttempt, GoTo
<1>2. charge' = [charge EXCEPT ![p] = @ + cost] /\ UNCHANGED job
  BY DEF LastAttempt, RetriedAttempt
<1>3. /\ Outstanding \in Nat /\ paid \in Nat /\ excess \in Nat /\ Ceiling \in Nat
      /\ calls' \subseteq Calls
  BY OutstandingIsNat, PipelineAssumption DEF BudgetInv, BudgetTypeOK, IInv, RunTypeOK
<1>4. Outstanding' \in Nat
  BY <1>3, CallCosts DEF Outstanding
<1>5. paid + Outstanding' <= Ceiling + excess
  <2>1. paid + Outstanding <= Ceiling + excess
    BY DEF BudgetInv
  <2> QED BY <1>3, <1>4, <2>1
<1>6. Outstanding' + Reservation[job[p]] <= Outstanding + cost + 0
  BY <1>3
<1> QED BY <1>1, <1>2, <1>5, <1>6, GatewayKeepsBudget

\* A call is gone: what it had reserved and not spent is outstanding no more.
LEMMA CallGone ==
  ASSUME IInv, BudgetInv, NEW c \in calls, calls' = calls \ {c}
  PROVE  /\ c \in Calls /\ IsFiniteSet(calls')
         /\ Reserved' \in Nat /\ Outstanding' \in Nat
         /\ Reserved = Reservation[c.job] + Reserved'
         /\ Outstanding = Unspent[c] + Outstanding'
<1>1. calls \subseteq Calls /\ IsFiniteSet(calls)
  BY OutstandingIsNat
<1>2. calls' \subseteq Calls /\ IsFiniteSet(calls')
  BY <1>1, CallCosts
<1>3. Reserved' \in Nat /\ Outstanding' \in Nat
  BY <1>2, CallCosts DEF Reserved, Outstanding
<1>4. /\ Total(Booked, calls) = Booked[c] + Total(Booked, calls \ {c})
      /\ Total(Unspent, calls) = Unspent[c] + Total(Unspent, calls \ {c})
  BY <1>1, CallCosts
<1>5. Booked[c] = Reservation[c.job]
  BY <1>1, CallCost
<1> QED BY <1>1, <1>2, <1>3, <1>4, <1>5 DEF Reserved, Outstanding

\* An answer is settled and put on record, with or without its usage.
LEMMA ReturnKeepsBudget ==
  ASSUME IInv, IInv', BudgetInv, NEW p \in Procs, NEW c \in calls, Return(p, c) \/ Raise(p, c)
  PROVE  BudgetInv'
<1> DEFINE R == Reservation[c.job]
           settled == IF Return(p, c) /\ c.known THEN (committed[p] + c.cost) - R ELSE committed[p]
           reported == IF c.known THEN c.cost ELSE R
<1>1. /\ stage[p] = "waiting" /\ c.job = job[p] /\ c.sent /\ calls' = calls \ {c}
      /\ UNCHANGED <<begun, sealed, receipt, paid, excess>>
  BY DEF Return, Raise, Awaited, diskVars, historyVars
<1>2. /\ IsFiniteSet(calls') /\ Reserved' \in Nat /\ Outstanding' \in Nat
      /\ Reserved = R + Reserved'
      /\ Outstanding = Unspent[c] + Outstanding'
      /\ c \in Calls
  BY <1>1, CallGone
<1>3. /\ c.cost \in Nat /\ R \in Nat /\ Unspent[c] \in Nat /\ Unspent[c] <= R
      /\ R <= Unspent[c] + c.cost
  BY <1>1, <1>2, CallCost
<1>4. committed[p] \in Nat /\ Reserved <= committed[p]
  BY <1>1 DEF BudgetInv, BudgetTypeOK, AccountInv, Works
<1>5. committed' = [committed EXCEPT ![p] = settled]
  <2>1. committed' = [committed EXCEPT ![p] = IF Return(p, c) THEN
          (IF c.known THEN (@ + c.cost) - R ELSE @) ELSE @]
    BY DEF Return, Raise, Settle, budgetVars, BudgetInv, BudgetTypeOK
  <2> QED BY <2>1
<1>6. settled \in Nat /\ Reserved' <= settled
  BY <1>2, <1>3, <1>4
<1>7. Outstanding' + committed[p] <= Outstanding + settled
  BY <1>2, <1>3, <1>4
<1>8. Outstanding' <= Outstanding
  BY <1>2, <1>3
<1>9. "failed" \in Answers /\ Outputs(c.job) \cup {"failed"} \subseteq Answers
  BY DEF Outputs, Answers
<1>10. CASE (\E a \in Answers : LastAttempt(p, R, a)) \/ RetriedAttempt(p, R)
  <2>1. Outstanding' + R <= Outstanding + R
    BY <1>2, <1>3
  <2> HIDE DEF settled
  <2> QED BY <1>1, <1>2, <1>3, <1>5, <1>6, <1>7, <1>8, <1>10, <2>1, RecordKeepsBudget
<1>11. CASE \E a \in Answers : LastAttempt(p, reported, a)
  <2>1. reported \in Nat /\ Outstanding' + R <= Outstanding + reported
    BY <1>2, <1>3
  <2> HIDE DEF settled, reported
  <2> QED BY <1>1, <1>2, <1>5, <1>6, <1>7, <1>8, <1>11, <2>1, RecordKeepsBudget
<1>12. \/ \E a \in Answers : LastAttempt(p, R, a)
       \/ RetriedAttempt(p, R)
       \/ \E a \in Answers : LastAttempt(p, reported, a)
  BY <1>9 DEF Return, Raise
<1> HIDE DEF settled, reported
<1> QED BY <1>10, <1>11, <1>12

\* An attempt is given up; its call stays.
LEMMA TimeOutKeepsBudget ==
  ASSUME IInv, IInv', BudgetInv, NEW p \in Procs, TimeOut(p)
  PROVE  BudgetInv'
<1>1. /\ stage[p] = "waiting" /\ RetriedAttempt(p, Reservation[job[p]])
      /\ UNCHANGED <<begun, sealed, receipt, paid, excess, committed, calls>>
  BY DEF TimeOut, diskVars, budgetVars, historyVars
<1>2. /\ Outstanding \in Nat /\ Reserved \in Nat /\ IsFiniteSet(calls)
      /\ committed[p] \in Nat /\ Reserved <= committed[p]
      /\ committed' = [committed EXCEPT ![p] = committed[p]]
  BY <1>1, OutstandingIsNat DEF BudgetInv, BudgetTypeOK, AccountInv, Works
<1>3. Reservation[job[p]] \in Nat
  BY <1>1, PipelineAssumption DEF IInv, JobInv, Holds
<1>4. Reserved' = Reserved /\ Outstanding' = Outstanding
  BY <1>1 DEF Reserved, Outstanding
<1>5. /\ Outstanding' + committed[p] <= Outstanding + committed[p]
      /\ Outstanding' + Reservation[job[p]] <= Outstanding + Reservation[job[p]]
      /\ Outstanding' <= Outstanding /\ Reserved' <= committed[p]
  BY <1>2, <1>3, <1>4
<1> QED BY <1>1, <1>2, <1>3, <1>5, RecordKeepsBudget

\* When what was paid and may yet be paid grows by no more than the excess does, a bound that lies
\* over the excess is kept.
LEMMA BoundKept ==
  ASSUME NEW a \in Nat, NEW e \in Nat, NEW a1 \in Nat, NEW e1 \in Nat, NEW b \in Nat,
         a <= e + b, a1 + e <= a + e1
  PROVE  a1 <= e1 + b
OBVIOUS

\* And so is one that grows with the budget.
LEMMA BoundMoved ==
  ASSUME NEW a \in Nat, NEW e \in Nat, NEW a1 \in Nat, NEW e1 \in Nat, NEW b \in Nat,
         NEW k \in Nat, NEW l \in Nat, a <= e + k + b, a1 + e + k <= a + e1 + l
  PROVE  a1 <= e1 + l + b
OBVIOUS

\* What was paid and may yet be paid has grown by no more than the excess, and what l has more
\* than k.
NoDearer(k, l) == paid' + Outstanding' + excess + k <= paid + Outstanding + excess' + l

\* Whatever calls do without the gateway: the stage and the record are as they were, and what was
\* paid and may yet be paid has not grown by more than was reported beyond reservations.
LEMMA CallsKeepBudget ==
  ASSUME IInv, IInv', BudgetInv, NEW p \in Procs, stage[p] # "idle", Works(p),
         UNCHANGED <<begun, sealed, receipt, stage, job, charge>>,
         NEW n \in Nat, committed' = [committed EXCEPT ![p] = n],
         paid' \in Nat, excess' \in Nat, IsFiniteSet(calls'),
         \A c \in calls' : c.proc = p, Reserved' <= n,
         NoDearer(0, 0), NoDearer(committed[p], n)
  PROVE  BudgetInv'
<1>1. /\ Works(p)' /\ (Executes(p)' <=> Executes(p)) /\ (Relates(p)' <=> Relates(p))
      /\ (OnlyOwn(p)' <=> OnlyOwn(p))
      /\ \A j \in Jobs : Unfinished(j)' <=> Unfinished(j)
  BY DEF Works, Executes, Relates, Holds, OnlyOwn, Unfinished
<1>2. /\ Outstanding \in Nat /\ paid \in Nat /\ excess \in Nat /\ committed[p] \in Nat
      /\ charge[p] \in Nat /\ RestoredCost(Jobs) \in Nat /\ RestoredCost(RelationJobs) \in Nat
      /\ Ceiling \in Nat
  BY OutstandingIsNat, RestoredCosts, PipelineAssumption
     DEF BudgetInv, BudgetTypeOK, IInv, RunTypeOK
<1>3. Outstanding' \in Nat
  BY CallCosts DEF IInv, RunTypeOK, Outstanding
<1>4. /\ RestoredCost(Jobs)' = RestoredCost(Jobs)
      /\ RestoredCost(RelationJobs)' = RestoredCost(RelationJobs)
  BY CostKept
<1>5. committed'[p] = n /\ BudgetTypeOK'
  BY DEF BudgetInv, BudgetTypeOK
<1>6. ASSUME Executes(p)
      PROVE  Reservation[job[p]] \in Nat
  BY <1>6, PipelineAssumption DEF Executes, IInv, JobInv, Holds
<1> DEFINE a == paid + Outstanding
           a1 == paid' + Outstanding'
<1>13. a \in Nat /\ a1 \in Nat
  BY <1>2, <1>3, NatPlus
<1>14. a1 + excess <= a + excess'
  BY <1>2, <1>13 DEF NoDearer
<1>15. a1 + excess + committed[p] <= a + excess' + n
  BY DEF NoDearer
<1> HIDE DEF a, a1
<1>7. AccountInv(p)'
  <2>1. ~Executes(p)' => charge'[p] = 0
    BY <1>1 DEF BudgetInv, AccountInv
  <2>2. Relates(p)' => \A j \in RelationJobs : Unfinished(j)' => Holds(p)' /\ j = job'[p]
    BY <1>1 DEF BudgetInv, AccountInv, Holds, Jobs
  <2>3. Executes(p)' =>
          paid' + Outstanding' <= excess' + RestoredCost(Jobs)' + charge'[p]
            + (IF stage'[p] = "waiting" THEN Reservation[job'[p]] ELSE 0)
    <3> SUFFICES ASSUME Executes(p)
                 PROVE  paid' + Outstanding' <= excess' + RestoredCost(Jobs) + charge[p]
                          + (IF stage[p] = "waiting" THEN Reservation[job[p]] ELSE 0)
      BY <1>1, <1>4
    <3> DEFINE more == RestoredCost(Jobs) + charge[p]
                         + (IF stage[p] = "waiting" THEN Reservation[job[p]] ELSE 0)
    <3>1. more \in Nat
      BY <1>2, <1>6
    <3>2. paid + Outstanding <= excess + more
      <4>1. paid + Outstanding <= excess + RestoredCost(Jobs) + charge[p]
              + (IF stage[p] = "waiting" THEN Reservation[job[p]] ELSE 0)
        BY DEF BudgetInv, AccountInv
      <4> QED BY <1>2, <1>6, <4>1
    <3>3. paid' + Outstanding' <= excess' + more
      <4> HIDE DEF more
      <4> QED BY <1>2, <1>13, <1>14, <3>1, <3>2, BoundKept DEF a, a1
    <3> QED BY <1>2, <1>6, <3>3
  <2>4. Works(p)' /\ OnlyOwn(p)' =>
          paid' + Outstanding' <= excess' + committed'[p]
            + (IF Relates(p)' THEN 0 ELSE RestoredCost(RelationJobs)')
    <3> DEFINE more == IF Relates(p) THEN 0 ELSE RestoredCost(RelationJobs)
    <3> SUFFICES ASSUME OnlyOwn(p)
                 PROVE  paid' + Outstanding' <= excess' + n + more
      BY <1>1, <1>4, <1>5
    <3>1. more \in Nat /\ paid + Outstanding <= excess + committed[p] + more
      BY <1>2 DEF BudgetInv, AccountInv
    <3> HIDE DEF more
    <3>2. a <= excess + committed[p] + more
      BY <3>1 DEF a
    <3>3. a1 <= excess' + n + more
      <4> DEFINE e1 == excess'
                 k == committed[p]
      <4>1. /\ excess \in Nat /\ e1 \in Nat /\ k \in Nat
            /\ a <= excess + k + more /\ a1 + excess + k <= a + e1 + n
        BY <1>2, <1>15, <3>2
      <4> HIDE DEF e1, k
      <4>2. \A x, e, y, f, b, u, v \in Nat :
              x <= e + u + b /\ y + e + u <= x + f + v => y <= f + v + b
        BY BoundMoved
      <4>3. more \in Nat
        BY <3>1
      <4>4. a1 <= e1 + n + more
        BY <1>13, <4>1, <4>2, <4>3
      <4> QED BY <4>4 DEF e1
    <3> QED BY <3>3 DEF a1
  <2>5. Reserved' <= committed'[p]
    BY <1>5
  <2> QED BY <2>1, <2>2, <2>3, <2>4, <2>5 DEF AccountInv
<1>8. \A q \in Procs : AccountInv(q)'
  BY <1>7, OthersAccount
<1>9. paid' + Outstanding' <= Ceiling + excess'
  <2>1. a <= excess + Ceiling
    BY <1>2 DEF BudgetInv, a
  <2>2. a1 <= excess' + Ceiling
    BY <1>2, <1>13, <1>14, <2>1, BoundKept
  <2> QED BY <1>2, <2>2 DEF a1
<1>10. (\A j \in Jobs : ~Unfinished(j)') => paid' + Outstanding' <= excess' + RestoredCost(Jobs)'
  <2> SUFFICES ASSUME \A j \in Jobs : ~Unfinished(j)
               PROVE  paid' + Outstanding' <= excess' + RestoredCost(Jobs)
    BY <1>1, <1>4
  <2>1. paid + Outstanding <= excess + RestoredCost(Jobs)
    BY DEF BudgetInv
  <2> QED BY <1>2, <1>13, <1>14, <2>1, BoundKept DEF a, a1
<1>11. receipt = None
  BY DEF IInv, StageInv, Works
<1>12. ReceiptCoversCost' /\ \A c \in calls' : Works(c.proc)'
  BY <1>1, <1>11 DEF ReceiptCoversCost
<1> QED BY <1>5, <1>8, <1>9, <1>10, <1>12 DEF BudgetInv

\* The provider is paid what was outstanding, up to the reservation; the rest is excess.
LEMMA SendKeepsBudget ==
  ASSUME IInv, IInv', BudgetInv, NEW c \in calls, Send(c)
  PROVE  BudgetInv'
<1> DEFINE s == [c EXCEPT !.sent = TRUE]
           p == c.proc
           R == Reservation[c.job]
           others == calls \ {c}
<1>1. /\ ~c.sent /\ calls' = others \cup {s} /\ paid' = paid + c.cost
      /\ excess' = IF c.cost > R THEN excess + (c.cost - R) ELSE excess
      /\ UNCHANGED <<begun, sealed, receipt, stage, job, charge, committed>>
  BY DEF Send, diskVars, gatewayVars, budgetVars
<1>2. /\ calls \subseteq Calls /\ IsFiniteSet(calls)
      /\ Reserved \in Nat /\ Outstanding \in Nat
      /\ paid \in Nat /\ excess \in Nat
  BY OutstandingIsNat DEF BudgetInv, BudgetTypeOK
<1>3. c \in Calls /\ s \in Calls /\ s.job = c.job /\ s.cost = c.cost /\ s.proc = p /\ s.sent = TRUE
  BY <1>2 DEF Calls
<1>4. p \in Procs /\ Works(p) /\ stage[p] # "idle"
  BY <1>3 DEF BudgetInv, Works, Calls
<1>5. /\ R \in Nat /\ c.cost \in Nat
      /\ Unspent[c] = R /\ Booked[c] = R /\ Booked[s] = R /\ Unspent[s] \in Nat
      /\ c.cost <= R => R = Unspent[s] + c.cost
      /\ c.cost > R => Unspent[s] = 0
  <2> HIDE DEF s
  <2>1. R \in Nat /\ c.cost \in Nat /\ Unspent[c] = R /\ Booked[c] = R
    BY <1>1, <1>3, CallCost
  <2>2. /\ Booked[s] = Reservation[s.job] /\ Unspent[s] \in Nat
        /\ s.cost <= Reservation[s.job] => Reservation[s.job] = Unspent[s] + s.cost
        /\ s.cost > Reservation[s.job] => Unspent[s] = 0
    BY <1>3, CallCost
  <2> QED BY <1>3, <2>1, <2>2
<1>6. /\ IsFiniteSet(others) /\ others \subseteq Calls
      /\ Total(Booked, others) \in Nat /\ Total(Unspent, others) \in Nat
      /\ Reserved = R + Total(Booked, others)
      /\ Outstanding = R + Total(Unspent, others)
  <2>1. IsFiniteSet(others) /\ others \subseteq Calls
    BY <1>2, CallCosts
  <2>2. Total(Booked, others) \in Nat /\ Total(Unspent, others) \in Nat
    BY <2>1, CallCosts
  <2>3. /\ Total(Booked, calls) = Booked[c] + Total(Booked, calls \ {c})
        /\ Total(Unspent, calls) = Unspent[c] + Total(Unspent, calls \ {c})
    BY <1>2, CallCosts
  <2> QED BY <1>5, <2>1, <2>2, <2>3 DEF Reserved, Outstanding
<1>7. /\ IsFiniteSet(calls') /\ calls' \subseteq Calls
      /\ Reserved' <= R + Total(Booked, others)
      /\ Outstanding' <= Unspent[s] + Total(Unspent, others)
  <2> HIDE DEF s, others
  <2> QED BY <1>1, <1>3, <1>5, <1>6, CallCosts DEF Reserved, Outstanding
<1>8. Reserved' \in Nat /\ Outstanding' \in Nat
  BY <1>7, CallCosts DEF Reserved, Outstanding
<1> DEFINE rest == Total(Unspent, others)
<1>9. paid' \in Nat /\ excess' \in Nat
  BY <1>1, <1>2, <1>5
<1>10. paid' + Outstanding' + excess <= paid + Outstanding + excess'
  <2>1. rest \in Nat /\ Outstanding = R + rest /\ Outstanding' <= Unspent[s] + rest
    BY <1>6, <1>7
  <2>2. Unspent[s] \in Nat /\ R \in Nat /\ c.cost \in Nat
    BY <1>5
  <2> HIDE DEF s, R, rest
  <2>3. CASE c.cost <= R
    <3>1. excess' = excess /\ R = Unspent[s] + c.cost /\ paid' = paid + c.cost
      BY <1>1, <1>5, <2>2, <2>3
    <3> QED BY <1>2, <1>8, <2>1, <2>2, <3>1
  <2>4. CASE c.cost > R
    <3>1. excess' = excess + (c.cost - R) /\ Unspent[s] = 0 /\ paid' = paid + c.cost
      BY <1>1, <1>5, <2>2, <2>4
    <3> QED BY <1>2, <1>8, <2>1, <2>2, <2>4, <3>1
  <2> QED BY <2>2, <2>3, <2>4
<1>11. committed[p] \in Nat /\ committed' = [committed EXCEPT ![p] = committed[p]]
  BY <1>1, <1>4 DEF BudgetInv, BudgetTypeOK
<1>12. Reserved' <= committed[p]
  <2>1. Reserved <= committed[p]
    BY <1>4 DEF BudgetInv, AccountInv
  <2>2. Reserved' <= Reserved
    BY <1>5, <1>6, <1>7, <1>8
  <2> QED BY <1>2, <1>8, <1>11, <2>1, <2>2
<1>13. paid' + Outstanding' + excess + committed[p] <= paid + Outstanding + excess' + committed[p]
  BY <1>2, <1>8, <1>9, <1>10, <1>11
<1>14. \A d \in calls' : d.proc = p
  <2>1. \A d \in calls : d.proc = p
    BY <1>4, OthersIdle
  <2> QED BY <1>1, <1>3, <2>1
<1>15. NoDearer(0, 0) /\ NoDearer(committed[p], committed[p])
  BY <1>2, <1>8, <1>9, <1>10, <1>13 DEF NoDearer
<1> HIDE DEF p
<1> QED BY <1>1, <1>4, <1>7, <1>9, <1>11, <1>12, <1>14, <1>15, CallsKeepBudget

\* A late report is settled in the budget, though its attempt is on record with its reservation.
LEMMA ReturnLateKeepsBudget ==
  ASSUME IInv, IInv', BudgetInv, NEW c \in calls, ReturnLate(c)
  PROVE  BudgetInv'
<1> DEFINE p == c.proc
           R == Reservation[c.job]
           n == committed'[p]
<1>1. /\ c.sent /\ calls' = calls \ {c}
      /\ UNCHANGED <<begun, sealed, receipt, stage, job, charge, paid, excess>>
      /\ Settle(p, c) \/ UNCHANGED budgetVars
  BY DEF ReturnLate, diskVars, gatewayVars, historyVars
<1>2. /\ c \in Calls /\ IsFiniteSet(calls')
      /\ Reserved' \in Nat /\ Outstanding' \in Nat
      /\ Reserved = R + Reserved'
      /\ Outstanding = Unspent[c] + Outstanding'
  BY <1>1, CallGone
<1>3. p \in Procs /\ Works(p) /\ stage[p] # "idle"
  BY <1>2 DEF BudgetInv, Works, Calls
<1>4. /\ R \in Nat /\ c.cost \in Nat /\ Unspent[c] \in Nat /\ R <= Unspent[c] + c.cost
  BY <1>1, <1>2, CallCost
<1>5. /\ committed[p] \in Nat /\ Reserved <= committed[p] /\ paid \in Nat /\ excess \in Nat
  BY <1>3 DEF BudgetInv, BudgetTypeOK, AccountInv
<1>6. /\ n = committed[p] \/ n = (committed[p] + c.cost) - R
      /\ committed' = [committed EXCEPT ![p] = n]
  BY <1>1, <1>3 DEF Settle, budgetVars, BudgetInv, BudgetTypeOK
<1> HIDE DEF n, p, R
<1>7. n \in Nat /\ Reserved' <= n /\ Outstanding' + committed[p] <= Outstanding + n
  BY <1>2, <1>4, <1>5, <1>6
<1>8. paid' + Outstanding' + excess <= paid + Outstanding + excess'
  BY <1>1, <1>2, <1>4, <1>5
<1>9. paid' + Outstanding' + excess + committed[p] <= paid + Outstanding + excess' + n
  BY <1>1, <1>2, <1>4, <1>5, <1>7
<1>10. \A d \in calls' : d.proc = p
  BY <1>1, <1>3, OthersIdle
<1>11. NoDearer(0, 0) /\ NoDearer(committed[p], n)
  BY <1>1, <1>2, <1>5, <1>8, <1>9 DEF NoDearer
<1> QED BY <1>1, <1>2, <1>3, <1>5, <1>6, <1>7, <1>10, <1>11, CallsKeepBudget

\* What the record of the attempts says is sealed: it covers what was paid for them, and what their
\* calls may yet be paid.
LEMMA SealKeepsBudget ==
  ASSUME IInv, IInv', BudgetInv, NEW p \in Procs, Seal(p)
  PROVE  BudgetInv'
<1> DEFINE j == job[p]
           result == [answer |-> answer[p], charge |-> charge[p]]
           s == IF j \in MainJobs THEN "batch" ELSE "relations"
<1>1. stage[p] = "sealing" /\ UNCHANGED <<begun, receipt, paid, excess>>
  BY DEF Seal, historyVars
<1>2. j \in Jobs /\ sealed[j] = None /\ Holds(p) /\ Executes(p) /\ Works(p)
  BY <1>1 DEF IInv, JobInv, Holds, Executes, Works
<1>3. /\ sealed' = [sealed EXCEPT ![j] = result]
      /\ stage' = [stage EXCEPT ![p] = s]
      /\ charge' = [charge EXCEPT ![p] = 0]
      /\ UNCHANGED <<committed, calls>>
  BY <1>2 DEF Seal, GoTo, budgetVars
<1>4. charge[p] \in Nat /\ result # None /\ result.charge = charge[p]
  BY NoneAssumption DEF IInv, RunTypeOK
<1>5. MainJobs \in SUBSET Jobs /\ RelationJobs \in SUBSET Jobs /\ MainJobs \cap RelationJobs = {}
  BY JobShapes DEF Jobs
<1> HIDE DEF result
<1>6. /\ RestoredCost(Jobs)' = RestoredCost(Jobs) + charge[p]
      /\ RestoredCost(RelationJobs)' =
           RestoredCost(RelationJobs) + (IF j \in RelationJobs THEN charge[p] ELSE 0)
  <2>1. RunTypeOK /\ RunTypeOK'
    BY DEF IInv
  <2> HIDE DEF j
  <2>2. \A J \in SUBSET Jobs :
          RestoredCost(J)' = RestoredCost(J) + IF j \in J THEN result.charge ELSE 0
    BY <1>2, <1>3, <1>4, <2>1, CostOfSeal
  <2>3. RestoredCost(Jobs)' = RestoredCost(Jobs) + result.charge
    BY <1>2, <2>2
  <2>4. RestoredCost(RelationJobs)' =
          RestoredCost(RelationJobs) + IF j \in RelationJobs THEN result.charge ELSE 0
    BY <1>5, <2>2
  <2> QED BY <1>4, <2>3, <2>4
<1>7. /\ stage'[p] = s /\ charge'[p] = 0
      /\ \A q \in Procs : q # p => stage'[q] = stage[q] /\ charge'[q] = charge[q]
  BY <1>3 DEF IInv, RunTypeOK
<1>8. /\ ~Executes(p)' /\ ~Holds(p)' /\ Works(p)'
      /\ Relates(p)' <=> Relates(p)
      /\ Relates(p) <=> j \in RelationJobs
  BY <1>1, <1>2, <1>5, <1>7 DEF Executes, Holds, Works, Relates, Jobs
<1>9. OnlyOwn(p)
  BY <1>2, OwnJobOnly
<1>10. \A k \in Jobs : ~Unfinished(k)'
  <2> SUFFICES ASSUME NEW k \in Jobs, Unfinished(k)' PROVE FALSE
    OBVIOUS
  <2>1. CASE k = j
    BY <1>3, <1>4, <2>1 DEF Unfinished, IInv, RunTypeOK
  <2>2. CASE k # j
    <3>1. Unfinished(k)
      BY <1>1, <1>3, <2>2 DEF Unfinished, IInv, RunTypeOK
    <3> QED BY <1>9, <2>2, <3>1 DEF OnlyOwn
  <2> QED BY <2>1, <2>2
<1>11. /\ excess \in Nat /\ RestoredCost(Jobs) \in Nat /\ RestoredCost(RelationJobs) \in Nat
       /\ committed[p] \in Nat
  BY RestoredCosts DEF IInv, BudgetInv, BudgetTypeOK
<1>12. Outstanding' = Outstanding /\ Reserved' = Reserved
  BY <1>3 DEF Outstanding, Reserved
<1>13. AccountInv(p)'
  <2>1. Reserved' <= committed'[p]
    BY <1>2, <1>3, <1>12 DEF BudgetInv, AccountInv
  <2>2. paid' + Outstanding' <= excess' + committed'[p]
          + (IF Relates(p)' THEN 0 ELSE RestoredCost(RelationJobs)')
    <3>1. paid + Outstanding <= excess + committed[p]
            + (IF Relates(p) THEN 0 ELSE RestoredCost(RelationJobs))
      BY <1>2, <1>9 DEF BudgetInv, AccountInv
    <3>2. ~Relates(p) => RestoredCost(RelationJobs)' = RestoredCost(RelationJobs)
      BY <1>6, <1>8, <1>11
    <3> QED BY <1>1, <1>3, <1>8, <1>12, <3>1, <3>2
  <2> QED BY <1>5, <1>7, <1>8, <1>10, <2>1, <2>2 DEF AccountInv
<1>14. \A q \in Procs : AccountInv(q)'
  BY <1>1, <1>7, <1>13, OthersAccount
<1>15. paid' + Outstanding' <= excess' + RestoredCost(Jobs)'
  <2>1. paid + Outstanding <= excess + RestoredCost(Jobs) + charge[p] + 0
    BY <1>1, <1>2 DEF BudgetInv, AccountInv
  <2> QED BY <1>1, <1>4, <1>6, <1>11, <1>12, <2>1
<1>16. \A c \in calls' : Works(c.proc)'
  BY <1>1, <1>3, <1>8, OthersIdle DEF BudgetInv, Works
<1>17. /\ BudgetTypeOK' /\ ReceiptCoversCost' /\ IsFiniteSet(calls')
       /\ paid' + Outstanding' <= Ceiling + excess'
  BY <1>1, <1>3, <1>12 DEF BudgetInv, BudgetTypeOK, ReceiptCoversCost
<1> QED BY <1>14, <1>15, <1>16, <1>17 DEF BudgetInv

\* No step breaks the invariant of the budget.
LEMMA NextKeepsBudget == IInv /\ IInv' /\ BudgetInv /\ [Next]_vars => BudgetInv'
<1> SUFFICES ASSUME IInv, IInv', BudgetInv, [Next]_vars PROVE BudgetInv'
  OBVIOUS
<1>1. ASSUME UNCHANGED vars
      PROVE  BudgetInv'
  <2>1. UNCHANGED <<begun, sealed, receipt, stage, job, charge, committed, calls, paid, excess>>
    BY <1>1 DEF vars, diskVars, gatewayVars, budgetVars, historyVars
  <2>2. /\ Outstanding' = Outstanding /\ Reserved' = Reserved
        /\ RestoredCost(Jobs)' = RestoredCost(Jobs)
        /\ RestoredCost(RelationJobs)' = RestoredCost(RelationJobs)
    BY <2>1, CostKept DEF Outstanding, Reserved
  <2>3. \A q \in Procs : AccountInv(q)'
    BY <2>1, <2>2 DEF BudgetInv, AccountInv, Executes, Relates, Holds, Works, OnlyOwn, Unfinished
  <2>4. /\ BudgetTypeOK' /\ IsFiniteSet(calls') /\ ReceiptCoversCost'
        /\ \A c \in calls' : Works(c.proc)'
        /\ \A j \in Jobs : Unfinished(j)' <=> Unfinished(j)
    BY <2>1 DEF BudgetInv, BudgetTypeOK, ReceiptCoversCost, Works, Unfinished
  <2> QED BY <2>1, <2>2, <2>3, <2>4 DEF BudgetInv
<1>2. ASSUME NEW p \in Procs, VerifyCompleted(p) \/ Abort(p)
      PROVE  BudgetInv'
  <2>1. stage[p] # "idle" /\ Leave(p) /\ UNCHANGED <<begun, sealed, receipt, paid, excess>>
    BY <1>2 DEF VerifyCompleted, Abort, historyVars
  <2> QED BY <2>1, LeaveKeepsBudget
<1>3. ASSUME NEW p \in Procs, Crash(p)
      PROVE  BudgetInv'
  <2>1. /\ stage[p] # "idle" /\ Exit(p)
        /\ UNCHANGED <<begun, sealed, receipt, paid, excess>>
    BY <1>3 DEF Crash, diskVars, historyVars
  <2>2. ReceiptCoversCost'
    BY <2>1 DEF BudgetInv, ReceiptCoversCost
  <2> QED BY <2>1, <2>2, ExitKeepsBudget
<1>4. ASSUME NEW p \in Procs, Work(p)
      PROVE  BudgetInv'
  BY <1>2, <1>4, RestoreKeepsBudget, FindTurnKeepsBudget, BeginKeepsBudget, ConcludeKeepsBudget,
     FinishBatchKeepsBudget, ScoreKeepsBudget, FindRelationKeepsBudget, FinishRelationsKeepsBudget,
     CompleteKeepsBudget, AttemptKeepsBudget, TimeOutKeepsBudget, SealKeepsBudget DEF Work
<1>5. ASSUME NEW p \in Procs, Receive(p)
      PROVE  BudgetInv'
  BY <1>5, ReturnKeepsBudget DEF Receive
<1>6. ASSUME Next
      PROVE  BudgetInv'
  BY <1>2, <1>3, <1>4, <1>5, <1>6, IdleKeepsBudget, SendKeepsBudget, ReturnLateKeepsBudget DEF Next
<1> QED BY <1>1, <1>6

\* So it holds throughout.
LEMMA BudgetHolds == Spec => [](IInv /\ BudgetInv)
<1>1. Init => IInv /\ BudgetInv
  BY InitEstablishes, InitialBudget
<1>2. (IInv /\ BudgetInv) /\ [Next]_vars => (IInv /\ BudgetInv)'
  BY NextKeeps, NextKeepsBudget
<1> QED BY <1>1, <1>2, PTL DEF Spec

\* Every variable of a run has its type, its budget among them: the settlement of a call takes no
\* more from the budget than was reserved for it.
THEOREM RunsAreTyped == Spec => []TypeOK
<1>1. IInv /\ BudgetInv => TypeOK
  BY DEF IInv, BudgetInv, BudgetTypeOK, TypeOK
<1> QED BY <1>1, BudgetHolds, PTL

\* All calls of all runs together, those that nobody waited for among them, cost no more than the
\* operator approved, but for what providers report beyond the reservation.
THEOREM SpendingIsBounded == Spec => []PaidWithinCeiling
<1>1. IInv /\ BudgetInv => PaidWithinCeiling
  <2> SUFFICES ASSUME IInv, BudgetInv PROVE paid <= Ceiling + excess
    BY DEF PaidWithinCeiling
  <2>1. Outstanding \in Nat /\ paid \in Nat /\ excess \in Nat /\ Ceiling \in Nat
    BY OutstandingIsNat, PipelineAssumption DEF BudgetInv, BudgetTypeOK
  <2>2. paid + Outstanding <= Ceiling + excess
    BY DEF BudgetInv
  <2> QED BY <2>1, <2>2
<1> QED BY <1>1, BudgetHolds, PTL

\* The cost that a receipt states covers all that was paid, but for the same.
THEOREM ReceiptsCoverCosts == Spec => []ReceiptCoversCost
<1>1. BudgetInv => ReceiptCoversCost
  BY DEF BudgetInv
<1> QED BY <1>1, BudgetHolds, PTL

----------------------------------------------------------------------------
\* The budget that providers keep to: none reports more than was reserved for its call

\* What will be on record when the attempts of process p's job are: what its budget must not be
\* ahead of.
Recorded(p) ==
  (IF Relates(p) THEN RestoredCost(Jobs) ELSE RestoredCost(MainJobs)) + charge[p]
    + (IF stage[p] = "waiting" THEN Reservation[job[p]] ELSE 0)

\* The budget of process p holds no more than that, and once it is latched it is on record, or
\* about to be, that the ceiling is passed.
LatchInv(p) ==
  /\ Works(p) => committed[p] <= Recorded(p)
  /\ exhausted[p] => Works(p) /\ stage[p] \notin {"waiting", "publishing"} /\ Recorded(p) > Ceiling

\* A job is open and nobody has it at hand: no run will ever be complete.
Lost == \E j \in Jobs : Unfinished(j) /\ \A p \in Procs : ~(Holds(p) /\ job[p] = j)

\* The record stops every run: when it restores the main jobs, or when it adds the relations.
Spent ==
  \/ RestoredCost(MainJobs) > Ceiling
  \/ Pending = {} /\ RestoredCost(Jobs) > Ceiling

\* Process p has not come so far.
Barred(p) ==
  \/ stage[p] \in {"idle", "restoring"}
  \/ /\ stage[p] \in {"batch", "scoring"}
     /\ Pending = {}
     /\ committed[p] = RestoredCost(MainJobs)

\* What keeps a stopped study from its receipt.
Obstacle ==
  \/ Lost
  \/ \E p \in Procs : exhausted[p]
  \/ Spent /\ calls = {} /\ \A p \in Procs : Barred(p)

CallsWithin == \A c \in calls : c.cost <= Reservation[c.job]

StopInv ==
  /\ CallsWithin
  /\ excess = 0
  /\ \A p \in Procs : LatchInv(p)
  /\ stopped => receipt = None /\ Obstacle

\* What was not restored is nobody's: the budget of a process that is idle is not latched.
LEMMA OthersLatched ==
  ASSUME IInv, StopInv, NEW p \in Procs, stage[p] # "idle", NEW q \in Procs, q # p,
         stage'[q] = stage[q], exhausted'[q] = exhausted[q]
  PROVE  ~exhausted[q] /\ LatchInv(q)'
<1>1. stage[q] = "idle"
  BY OthersIdle
<1>2. ~Works(q) /\ ~Works(q)'
  BY <1>1 DEF Works
<1>3. ~exhausted[q]
  BY <1>2 DEF StopInv, LatchInv
<1> QED BY <1>2, <1>3 DEF LatchInv

\* What is recorded is a number.
LEMMA RecordedIsNat ==
  ASSUME IInv, NEW p \in Procs
  PROVE  /\ Recorded(p) \in Nat /\ charge[p] \in Nat /\ Ceiling \in Nat
         /\ RestoredCost(Jobs) \in Nat /\ RestoredCost(MainJobs) \in Nat
         /\ \A j \in Jobs : Reservation[j] \in Nat
<1>1. /\ charge[p] \in Nat /\ RestoredCost(Jobs) \in Nat /\ RestoredCost(MainJobs) \in Nat
      /\ \A j \in Jobs : Reservation[j] \in Nat
      /\ Ceiling \in Nat
  BY RestoredCosts, PipelineAssumption DEF IInv, RunTypeOK
<1>2. stage[p] = "waiting" => Reservation[job[p]] \in Nat
  BY <1>1 DEF IInv, JobInv, Holds
<1> DEFINE main == IF Relates(p) THEN RestoredCost(Jobs) ELSE RestoredCost(MainJobs)
           more == IF stage[p] = "waiting" THEN Reservation[job[p]] ELSE 0
<1>3. main \in Nat /\ more \in Nat
  BY <1>1, <1>2
<1>4. Recorded(p) = main + charge[p] + more
  BY DEF Recorded
<1> HIDE DEF main, more
<1> QED BY <1>1, <1>3, <1>4

\* When the process at work has a latched budget and no job in the gateway, the record alone stops
\* the runs that follow.
LEMMA LatchedIsSpent ==
  ASSUME IInv, BudgetInv, StopInv, NEW p \in Procs, exhausted[p], ~Executes(p)
  PROVE  Spent
<1>1. Recorded(p) > Ceiling
  BY DEF StopInv, LatchInv
<1>2. charge[p] = 0 /\ stage[p] # "waiting"
  BY DEF BudgetInv, AccountInv, Executes
<1>3. RestoredCost(Jobs) \in Nat /\ RestoredCost(MainJobs) \in Nat
  BY RecordedIsNat
<1>4. Recorded(p) = IF Relates(p) THEN RestoredCost(Jobs) ELSE RestoredCost(MainJobs)
  BY <1>2, <1>3 DEF Recorded
<1>5. Relates(p) => Pending = {}
  <2>1. Relates(p) => PastBatch(p)
    BY DEF Relates, PastBatch
  <2> QED BY <2>1 DEF IInv, StageInv
<1> QED BY <1>1, <1>4, <1>5 DEF Spent

\* A run that ends leaves an obstacle behind when it was stopped for the budget: the job that it
\* had open, or the record.
LEMMA ExitStops ==
  ASSUME IInv, BudgetInv, StopInv, NEW p \in Procs, stage[p] # "idle", Exit(p),
         UNCHANGED <<begun, sealed, terminal, excess>>,
         stopped' => receipt' = None /\ (stopped \/ Spent)
  PROVE  StopInv'
<1>1. /\ \A q \in Procs : stage'[q] = "idle"
      /\ calls' = {}
      /\ \A q \in Procs : ~Holds(q)' /\ ~Works(q)' /\ Barred(q)'
  <2>1. stage'[p] = "idle" /\ \A q \in Procs : q # p => stage'[q] = stage[q]
    BY DEF IInv, RunTypeOK, Exit
  <2>2. \A q \in Procs : q # p => stage[q] = "idle"
    BY OthersIdle
  <2>3. \A q \in Procs : stage'[q] = "idle"
    BY <2>1, <2>2
  <2>4. calls' = {}
    BY OthersIdle DEF Exit
  <2> QED BY <2>3, <2>4 DEF Holds, Works, Barred
<1>2. \A q \in Procs : ~exhausted'[q]
  <2>1. \A q \in Procs : q # p => ~Works(q) /\ exhausted'[q] = exhausted[q]
    BY OthersIdle DEF Works, Exit, IInv, RunTypeOK
  <2>2. ~exhausted'[p]
    BY DEF Exit, IInv, RunTypeOK
  <2> QED BY <2>1, <2>2 DEF StopInv, LatchInv
<1>3. \A q \in Procs : LatchInv(q)'
  BY <1>1, <1>2 DEF LatchInv
<1>4. Spent' <=> Spent
  BY SameDisk, CostKept DEF Spent
<1>5. \A j \in Jobs : Unfinished(j)' <=> Unfinished(j)
  BY DEF Unfinished
<1>6. ASSUME stopped'
      PROVE  Lost' \/ Spent'
  <2>1. CASE Spent
    BY <1>4, <2>1
  <2>2. CASE Lost
    BY <1>1, <1>5, <2>2 DEF Lost
  <2>3. CASE \E q \in Procs : exhausted[q]
    <3>1. PICK q \in Procs : exhausted[q]
      BY <2>3
    <3>2. CASE Executes(q)
      <4>1. job[q] \in Jobs /\ sealed[job[q]] = None /\ job[q] \in begun
        BY <3>2 DEF Executes, Holds, IInv, JobInv
      <4>2. PICK j \in Jobs : j = job[q]
        BY <4>1
      <4>3. Unfinished(j)'
        BY <4>1, <4>2 DEF Unfinished
      <4> QED BY <1>1, <4>3 DEF Lost
    <3>3. CASE ~Executes(q)
      BY <1>4, <3>1, <3>3, LatchedIsSpent
    <3> QED BY <3>2, <3>3
  <2> QED BY <1>6, <2>1, <2>2, <2>3 DEF StopInv, Obstacle
<1>7. stopped' => receipt' = None /\ Obstacle'
  BY <1>1, <1>6 DEF Obstacle
<1>8. CallsWithin' /\ excess' = 0
  BY <1>1 DEF CallsWithin, StopInv
<1> QED BY <1>3, <1>7, <1>8 DEF StopInv

\* Every other step of a process keeps the obstacle, or is the refusal that puts one there.
LEMMA StepStops ==
  ASSUME IInv, BudgetInv, StopInv, NEW p \in Procs, stage[p] # "idle",
         \A q \in Procs : q # p =>
           stage'[q] = stage[q] /\ job'[q] = job[q] /\ exhausted'[q] = exhausted[q],
         begun \subseteq begun',
         \A j \in Jobs : Unfinished(j) /\ ~(Holds(p) /\ job[p] = j) =>
           sealed'[j] = None /\ ~(Holds(p)' /\ job'[p] = j),
         receipt = None, receipt' = None, CallsWithin', excess' = excess,
         exhausted[p] => exhausted'[p], LatchInv(p)',
         stopped' => stopped \/ exhausted'[p],
         Spent /\ calls = {} /\ Barred(p) => Spent' /\ calls' = {} /\ Barred(p)'
  PROVE  StopInv'
<1>1. \A q \in Procs : q # p => stage[q] = "idle" /\ ~exhausted[q] /\ LatchInv(q)'
  BY OthersIdle, OthersLatched
<1>2. ASSUME stopped'
      PROVE  Obstacle'
  <2>1. CASE exhausted'[p]
    BY <2>1 DEF Obstacle
  <2>2. CASE Lost
    <3>1. PICK j \in Jobs : Unfinished(j) /\ \A q \in Procs : ~(Holds(q) /\ job[q] = j)
      BY <2>2 DEF Lost
    <3>2. Unfinished(j)' /\ ~(Holds(p)' /\ job'[p] = j)
      BY <3>1 DEF Unfinished
    <3>3. \A q \in Procs : q # p => ~Holds(q)'
      BY <1>1 DEF Holds
    <3> QED BY <3>2, <3>3 DEF Lost, Obstacle
  <2>3. CASE Spent /\ calls = {} /\ \A q \in Procs : Barred(q)
    <3>1. \A q \in Procs : q # p => Barred(q)'
      BY <1>1 DEF Barred
    <3> QED BY <2>3, <3>1 DEF Obstacle
  <2>4. (\E q \in Procs : exhausted[q]) => exhausted'[p]
    BY <1>1
  <2> QED BY <1>2, <2>1, <2>2, <2>3, <2>4 DEF StopInv, Obstacle
<1> QED BY <1>1, <1>2 DEF StopInv

\* A step that is neither the gateway's nor an answer's moves a process within what it has
\* restored.
LEMMA MoveLatches ==
  ASSUME IInv, BudgetInv, StopInv, NEW p \in Procs, Works(p), ~Executes(p),
         NEW s \in {"batch", "opening", "gateway", "scoring", "relations", "publishing"},
         stage' = [stage EXCEPT ![p] = s], s = "publishing" => ~exhausted[p],
         UNCHANGED <<sealed, charge, committed, exhausted>>, Relates(p)' <=> Relates(p)
  PROVE  LatchInv(p)'
<1>1. stage'[p] = s
  BY DEF IInv, RunTypeOK
<1>2. RestoredCost(Jobs)' = RestoredCost(Jobs) /\ RestoredCost(MainJobs)' = RestoredCost(MainJobs)
  BY CostKept
<1>3. stage[p] # "waiting" /\ stage'[p] # "waiting" /\ Works(p)'
  BY <1>1 DEF Executes, Works
<1>4. Recorded(p)' = Recorded(p)
  BY <1>2, <1>3 DEF Recorded
<1> QED BY <1>1, <1>3, <1>4 DEF StopInv, LatchInv

\* An attempt begins, is refused or is on record: what its budget grows by is recorded.
LEMMA GatewayLatches ==
  ASSUME IInv, BudgetInv, StopInv, NEW p \in Procs, stage[p] \in {"gateway", "waiting"},
         NEW s \in {"gateway", "waiting", "sealing"}, stage' = [stage EXCEPT ![p] = s],
         UNCHANGED <<sealed, job>>,
         NEW cost \in Nat, charge' = [charge EXCEPT ![p] = @ + cost],
         committed' \in [Procs -> Nat],
         committed'[p] + (IF stage[p] = "waiting" THEN Reservation[job[p]] ELSE 0)
           <= committed[p] + cost + (IF s = "waiting" THEN Reservation[job[p]] ELSE 0),
         exhausted'[p] =>
           s # "waiting" /\ stage[p] = "gateway" /\ (exhausted[p] \/ committed[p] + cost > Ceiling)
  PROVE  LatchInv(p)'
<1>1. stage'[p] = s /\ charge'[p] = charge[p] + cost
  BY DEF IInv, RunTypeOK
<1>2. RestoredCost(Jobs)' = RestoredCost(Jobs) /\ RestoredCost(MainJobs)' = RestoredCost(MainJobs)
  BY CostKept
<1>3. Works(p) /\ Works(p)' /\ (Relates(p)' <=> Relates(p)) /\ s # "publishing"
  BY <1>1 DEF Works, Relates, Holds
<1>4. job[p] \in Jobs
  BY DEF IInv, JobInv, Holds
<1> DEFINE main == IF Relates(p) THEN RestoredCost(Jobs) ELSE RestoredCost(MainJobs)
           before == IF stage[p] = "waiting" THEN Reservation[job[p]] ELSE 0
           after == IF s = "waiting" THEN Reservation[job[p]] ELSE 0
<1>5. main \in Nat /\ before \in Nat /\ after \in Nat /\ charge[p] \in Nat /\ Ceiling \in Nat
  BY <1>4, RecordedIsNat
<1>6. committed[p] \in Nat /\ committed'[p] \in Nat
  BY DEF BudgetInv, BudgetTypeOK
<1>7. Recorded(p) = main + charge[p] + before
  BY DEF Recorded
<1>8. Recorded(p)' = main + (charge[p] + cost) + after
  BY <1>1, <1>2, <1>3 DEF Recorded
<1>9. committed'[p] + before <= committed[p] + cost + after
  OBVIOUS
<1>10. stage[p] = "gateway" => before = 0
  OBVIOUS
<1> HIDE DEF main, before, after
<1>11. committed[p] <= Recorded(p) /\ (exhausted[p] => Recorded(p) > Ceiling)
  BY <1>3 DEF StopInv, LatchInv
<1>12. committed'[p] <= Recorded(p)'
  BY <1>5, <1>6, <1>7, <1>8, <1>9, <1>11
<1>13. exhausted'[p] => Recorded(p)' > Ceiling
  BY <1>5, <1>6, <1>7, <1>8, <1>10, <1>11
<1> QED BY <1>1, <1>3, <1>12, <1>13 DEF LatchInv

\* The process restores what the main jobs are recorded to have cost, or is stopped by it.
LEMMA RestoreStops ==
  ASSUME IInv, BudgetInv, StopInv, NEW p \in Procs, Restore(p)
  PROVE  StopInv'
<1> DEFINE cost == RestoredCost(MainJobs)
<1>0. /\ stage[p] = "restoring" /\ receipt = None
      /\ UNCHANGED <<begun, sealed, terminal, receipt, excess>>
  BY DEF Restore
<1>1. CASE Leave(p)
  <2>1. stopped' => stopped \/ cost > Ceiling
    BY <1>1 DEF Restore
  <2>2. stopped' => receipt' = None /\ (stopped \/ Spent)
    BY <1>0, <2>1 DEF Spent
  <2> QED BY <1>0, <1>1, <2>2, ExitStops DEF Leave
<1>2. CASE ~Leave(p)
  <2>1. /\ committed' = [committed EXCEPT ![p] = cost]
        /\ GoTo(p, "batch") /\ ~(cost > Ceiling)
        /\ UNCHANGED <<job, charge, exhausted, calls, stopped>>
    BY <1>2 DEF Restore, gatewayVars
  <2>2. stage'[p] = "batch" /\ \A q \in Procs : q # p => stage'[q] = stage[q]
    BY <2>1 DEF GoTo, IInv, RunTypeOK
  <2>3. cost \in Nat /\ committed'[p] = cost
    BY <2>1, RecordedIsNat DEF BudgetInv, BudgetTypeOK
  <2>4. ~exhausted[p] /\ charge[p] = 0
    BY <1>0 DEF StopInv, LatchInv, Works, BudgetInv, AccountInv, Executes
  <2>5. ~Relates(p)' /\ ~Holds(p) /\ ~Holds(p)'
    BY <1>0, <2>2 DEF Relates, Holds
  <2>6. RestoredCost(MainJobs)' = cost /\ RestoredCost(Jobs)' = RestoredCost(Jobs)
    BY <1>0, CostKept
  <2> HIDE DEF cost
  <2>7. Recorded(p)' = cost
    BY <2>1, <2>2, <2>3, <2>4, <2>5, <2>6 DEF Recorded
  <2>8. LatchInv(p)'
    BY <2>1, <2>3, <2>4, <2>7 DEF LatchInv
  <2>9. Spent => Spent' /\ Barred(p)'
    <3>1. Pending' = Pending
      BY <1>0, SameDisk
    <3>2. Spent => Pending = {} /\ RestoredCost(Jobs) > Ceiling
      BY <2>1 DEF Spent, cost
    <3>3. Pending = {} => Barred(p)'
      BY <2>2, <2>3, <2>6, <3>1 DEF Barred
    <3> QED BY <2>6, <3>1, <3>2, <3>3 DEF Spent
  <2>10. CallsWithin'
    BY <2>1 DEF StopInv, CallsWithin
  <2>11. \A j \in Jobs : Unfinished(j) => sealed'[j] = None
    BY <1>0 DEF Unfinished
  <2> QED BY <1>0, <2>1, <2>2, <2>4, <2>5, <2>8, <2>9, <2>10, <2>11, StepStops
<1> QED BY <1>1, <1>2

\* The steps of a run that goes on: nothing that it had restored changes.
LEMMA MoveStops ==
  ASSUME IInv, BudgetInv, StopInv, NEW p \in Procs, Works(p), ~Executes(p),
         NEW s \in {"batch", "opening", "gateway", "scoring", "relations", "publishing"},
         stage' = [stage EXCEPT ![p] = s], s = "publishing" => ~exhausted[p],
         \A q \in Procs : q # p => job'[q] = job[q],
         begun \subseteq begun',
         UNCHANGED <<sealed, receipt, charge, committed, exhausted, calls, excess, stopped>>,
         Relates(p)' <=> Relates(p),
         \A j \in Jobs : Unfinished(j) => ~(Holds(p)' /\ job'[p] = j),
         Barred(p) => Pending = {} /\ UNCHANGED terminal /\ s = "scoring"
  PROVE  StopInv'
<1>1. /\ stage[p] # "idle" /\ receipt = None
      /\ stage'[p] = s /\ \A q \in Procs : q # p => stage'[q] = stage[q]
  BY DEF Works, IInv, RunTypeOK, StageInv
<1>2. LatchInv(p)'
  BY MoveLatches
<1>3. RestoredCost(Jobs)' = RestoredCost(Jobs) /\ RestoredCost(MainJobs)' = RestoredCost(MainJobs)
  BY CostKept
<1>4. ASSUME Spent, Barred(p)
      PROVE  Spent' /\ Barred(p)'
  <2>1. Pending = {} /\ Pending' = {} /\ s = "scoring"
    BY <1>4 DEF Pending
  <2>2. Spent'
    BY <1>3, <1>4, <2>1 DEF Spent
  <2>3. committed'[p] = RestoredCost(MainJobs)'
    BY <1>1, <1>3, <1>4 DEF Barred, Works
  <2> QED BY <1>1, <2>1, <2>2, <2>3 DEF Barred
<1>5. CallsWithin'
  BY DEF StopInv, CallsWithin
<1>6. \A j \in Jobs : Unfinished(j) => sealed'[j] = None
  BY DEF Unfinished
<1> QED BY <1>1, <1>2, <1>4, <1>5, <1>6, StepStops

\* The next turn was not asked for yet, or the run ends.
LEMMA FindTurnStops ==
  ASSUME IInv, BudgetInv, StopInv, NEW p \in Procs, FindTurn(p)
  PROVE  StopInv'
<1>0. /\ stage[p] = "batch"
      /\ UNCHANGED <<begun, sealed, terminal, receipt, excess, stopped>>
  BY DEF FindTurn, historyVars
<1>1. CASE Leave(p)
  BY <1>0, <1>1, ExitStops DEF Leave, StopInv
<1>2. CASE ~Leave(p)
  <2>0. PICK i \in Logical : \E t \in 1..Turns[i] :
          /\ IsNext(i)
          /\ <<i, t>> \notin begun
          /\ Open(p, <<i, t>>)
          /\ UNCHANGED <<charge, committed, exhausted, calls>>
    BY <1>2 DEF FindTurn, budgetVars
  <2>1. PICK t \in 1..Turns[i] :
          /\ IsNext(i)
          /\ <<i, t>> \notin begun
          /\ Open(p, <<i, t>>)
          /\ UNCHANGED <<charge, committed, exhausted, calls>>
    BY <2>0
  <2>2. /\ stage' = [stage EXCEPT ![p] = "opening"] /\ stage'[p] = "opening"
        /\ job'[p] = <<i, t>> /\ \A q \in Procs : q # p => job'[q] = job[q]
    BY <2>1 DEF Open, GoTo, IInv, RunTypeOK
  <2>3. <<i, t>> \in MainJobs /\ <<i, t>> \notin RelationJobs
    BY <2>1, JobShapes
  <2>4. Works(p) /\ ~Executes(p) /\ ~Relates(p) /\ ~Relates(p)'
    BY <1>0, <2>2, <2>3 DEF Works, Executes, Relates, Holds
  <2>5. \A j \in Jobs : Unfinished(j) => job'[p] # j
    BY <2>1, <2>2 DEF Unfinished
  <2>6. Pending # {}
    BY <2>1 DEF IsNext
  <2> QED BY <1>0, <2>1, <2>2, <2>4, <2>5, <2>6, MoveStops DEF Barred
<1> QED BY <1>1, <1>2

\* Nor was the next relation.
LEMMA FindRelationStops ==
  ASSUME IInv, BudgetInv, StopInv, NEW p \in Procs, FindRelation(p)
  PROVE  StopInv'
<1>1. PICK j \in Prepared \ begun : Open(p, j)
  BY DEF FindRelation
<1>2. /\ stage[p] = "relations" /\ stage' = [stage EXCEPT ![p] = "opening"]
      /\ UNCHANGED <<begun, sealed, receipt, charge, committed, exhausted, calls, excess, stopped>>
  BY <1>1 DEF FindRelation, Open, GoTo, diskVars, budgetVars, historyVars
<1>3. /\ stage'[p] = "opening" /\ job'[p] = j /\ j \in RelationJobs
      /\ \A q \in Procs : q # p => job'[q] = job[q]
  BY <1>1, <1>2, RelationCost DEF Open, IInv, RunTypeOK
<1>4. Works(p) /\ ~Executes(p) /\ Relates(p) /\ Relates(p)' /\ ~Barred(p)
  BY <1>2, <1>3 DEF Works, Executes, Relates, Holds, Barred
<1>5. \A k \in Jobs : Unfinished(k) => job'[p] # k
  BY <1>1, <1>3 DEF Unfinished
<1> QED BY <1>2, <1>3, <1>4, <1>5, MoveStops

\* The job that is begun was nobody's.
LEMMA BeginStops ==
  ASSUME IInv, BudgetInv, StopInv, NEW p \in Procs, Begin(p)
  PROVE  StopInv'
<1>1. /\ stage[p] = "opening" /\ stage' = [stage EXCEPT ![p] = "gateway"]
      /\ begun \subseteq begun'
      /\ UNCHANGED <<sealed, receipt, job, charge, committed, exhausted, calls, excess, stopped>>
  BY DEF Begin, GoTo, gatewayVars, budgetVars, historyVars
<1>2. stage'[p] = "gateway"
  BY <1>1 DEF IInv, RunTypeOK
<1>3. Works(p) /\ ~Executes(p) /\ (Relates(p)' <=> Relates(p)) /\ ~Barred(p)
  BY <1>1, <1>2 DEF Works, Executes, Relates, Holds, Barred
<1>4. job[p] \notin begun
  BY <1>1 DEF IInv, JobInv, Holds
<1>5. \A j \in Jobs : Unfinished(j) => job'[p] # j
  BY <1>1, <1>4 DEF Unfinished
<1> QED BY <1>1, <1>3, <1>5, MoveStops

\* A terminal is published.
LEMMA ConcludeStops ==
  ASSUME IInv, BudgetInv, StopInv, NEW p \in Procs, Conclude(p)
  PROVE  StopInv'
<1>1. /\ stage[p] = "batch" /\ Pending # {} /\ begun \subseteq begun'
      /\ UNCHANGED <<sealed, receipt, stage, job, charge, committed, exhausted, calls, excess,
                     stopped>>
  BY DEF Conclude, IsNext, gatewayVars, budgetVars, historyVars
<1>2. stage' = [stage EXCEPT ![p] = "batch"]
  BY <1>1 DEF IInv, RunTypeOK
<1>3. /\ Works(p) /\ ~Executes(p) /\ ~Relates(p) /\ ~Relates(p)' /\ ~Barred(p) /\ ~Holds(p)'
  BY <1>1 DEF Works, Executes, Relates, Holds, Barred
<1> QED BY <1>1, <1>2, <1>3, MoveStops

\* The batch is over, and its result published unless the budget is latched.
LEMMA FinishBatchStops ==
  ASSUME IInv, BudgetInv, StopInv, NEW p \in Procs, FinishBatch(p)
  PROVE  StopInv'
<1>0. /\ stage[p] = "batch" /\ Pending = {} /\ receipt = None
      /\ UNCHANGED <<begun, sealed, terminal, receipt, excess>>
  BY DEF FinishBatch, IInv, StageInv
<1>1. CASE Leave(p)
  <2>1. stopped' => stopped \/ exhausted[p]
    BY <1>1 DEF FinishBatch
  <2>2. exhausted[p] => Spent
    BY <1>0, LatchedIsSpent DEF Executes
  <2> QED BY <1>0, <1>1, <2>1, <2>2, ExitStops DEF Leave
<1>2. CASE ~Leave(p)
  <2>1. /\ stage' = [stage EXCEPT ![p] = "scoring"] /\ begun \subseteq begun'
        /\ UNCHANGED <<sealed, job, charge, committed, exhausted, calls, stopped>>
    BY <1>0, <1>2 DEF FinishBatch, GoTo, gatewayVars, budgetVars
  <2>2. stage'[p] = "scoring"
    BY <2>1 DEF IInv, RunTypeOK
  <2>3. Works(p) /\ ~Executes(p) /\ ~Relates(p) /\ ~Relates(p)' /\ ~Holds(p)'
    BY <1>0, <2>2 DEF Works, Executes, Relates, Holds
  <2> QED BY <1>0, <2>1, <2>3, MoveStops
<1> QED BY <1>1, <1>2

\* The results of the relations likewise.
LEMMA FinishRelationsStops ==
  ASSUME IInv, BudgetInv, StopInv, NEW p \in Procs, FinishRelations(p)
  PROVE  StopInv'
<1>0. /\ stage[p] = "relations" /\ receipt = None
      /\ UNCHANGED <<begun, sealed, terminal, receipt, excess>>
  BY DEF FinishRelations, IInv, StageInv
<1>1. CASE Leave(p)
  <2>1. stopped' => stopped \/ exhausted[p]
    BY <1>1 DEF FinishRelations
  <2>2. exhausted[p] => Spent
    BY <1>0, LatchedIsSpent DEF Executes
  <2> QED BY <1>0, <1>1, <2>1, <2>2, ExitStops DEF Leave
<1>2. CASE ~Leave(p)
  <2>1. /\ stage' = [stage EXCEPT ![p] = "publishing"] /\ begun \subseteq begun' /\ ~exhausted[p]
        /\ UNCHANGED <<sealed, job, charge, committed, exhausted, calls, stopped>>
    BY <1>0, <1>2 DEF FinishRelations, GoTo, gatewayVars, budgetVars
  <2>2. stage'[p] = "publishing"
    BY <2>1 DEF IInv, RunTypeOK
  <2>3. Works(p) /\ ~Executes(p) /\ Relates(p) /\ Relates(p)' /\ ~Holds(p)' /\ ~Barred(p)
    BY <1>0, <2>2 DEF Works, Executes, Relates, Holds, Barred
  <2> QED BY <1>0, <2>1, <2>3, MoveStops
<1> QED BY <1>1, <1>2

\* The cost of the relations is added, and stops the run when that is too much.
LEMMA ScoreStops ==
  ASSUME IInv, BudgetInv, StopInv, NEW p \in Procs, Score(p)
  PROVE  StopInv'
<1> DEFINE more == RestoredCost(RelationJobs)
<1>0. /\ stage[p] = "scoring" /\ Pending = {} /\ receipt = None
      /\ UNCHANGED <<begun, sealed, terminal, receipt, excess>>
  BY DEF Score, IInv, StageInv, PastBatch
<1>1. /\ more \in Nat /\ committed[p] \in Nat /\ RestoredCost(MainJobs) \in Nat
      /\ RestoredCost(Jobs) = RestoredCost(MainJobs) + more
      /\ Ceiling \in Nat
  BY RestoredCosts, PipelineAssumption DEF IInv, BudgetInv, BudgetTypeOK
<1>2. ~Relates(p) /\ ~Executes(p) /\ ~Holds(p) /\ Works(p) /\ charge[p] = 0
  BY <1>0 DEF Relates, Executes, Holds, Works, BudgetInv, AccountInv
<1>3. RestoredCost(Prepared) = more
  BY RelationCost
<1> HIDE DEF more
<1>4. Recorded(p) = RestoredCost(MainJobs)
  BY <1>0, <1>1, <1>2 DEF Recorded
<1>5. committed[p] <= RestoredCost(MainJobs)
  BY <1>2, <1>4 DEF StopInv, LatchInv
<1>6. CASE Leave(p)
  <2>1. stopped' => stopped \/ exhausted[p] \/ committed[p] + more > Ceiling
    BY <1>3, <1>6 DEF Score
  <2>2. exhausted[p] => Spent
    BY <1>2, LatchedIsSpent
  <2>3. committed[p] + more > Ceiling => RestoredCost(Jobs) > Ceiling
    BY <1>1, <1>5
  <2> QED BY <1>0, <1>6, <2>1, <2>2, <2>3, ExitStops DEF Leave, Spent
<1>7. CASE ~Leave(p)
  <2>1. /\ committed' = [committed EXCEPT ![p] = committed[p] + more]
        /\ stage' = [stage EXCEPT ![p] = "relations"]
        /\ UNCHANGED <<job, charge, exhausted, calls, stopped>>
        /\ ~exhausted[p] /\ ~(committed[p] + more > Ceiling)
    BY <1>3, <1>7 DEF Score, GoTo, gatewayVars
  <2>2. /\ stage'[p] = "relations" /\ committed'[p] = committed[p] + more
        /\ \A q \in Procs : q # p => stage'[q] = stage[q]
    BY <2>1 DEF IInv, RunTypeOK, BudgetInv, BudgetTypeOK
  <2>3. Relates(p)' /\ ~Holds(p)'
    BY <2>2 DEF Relates, Holds
  <2>4. RestoredCost(Jobs)' = RestoredCost(Jobs) /\ RestoredCost(Jobs) \in Nat
    BY <1>0, <1>1, CostKept
  <2>5. Recorded(p)' = RestoredCost(Jobs)
    BY <1>2, <2>1, <2>2, <2>3, <2>4 DEF Recorded
  <2>6. committed'[p] <= Recorded(p)'
    BY <1>1, <1>5, <2>2, <2>5
  <2>7. LatchInv(p)'
    BY <2>1, <2>6 DEF LatchInv
  <2>8. ~(Spent /\ Barred(p))
    <3> SUFFICES ASSUME Spent, committed[p] = RestoredCost(MainJobs) PROVE FALSE
      BY <1>0 DEF Barred
    <3>1. committed[p] + more = RestoredCost(Jobs)
      BY <1>1
    <3>2. ~(RestoredCost(Jobs) > Ceiling)
      BY <2>1, <3>1
    <3> QED BY <1>1, <3>2 DEF Spent
  <2>9. CallsWithin'
    BY <2>1 DEF StopInv, CallsWithin
  <2>10. \A j \in Jobs : Unfinished(j) => sealed'[j] = None
    BY <1>0 DEF Unfinished
  <2>11. stage[p] # "idle" /\ begun \subseteq begun'
    BY <1>0
  <2> QED BY <1>0, <2>1, <2>2, <2>3, <2>7, <2>8, <2>9, <2>10, <2>11, StepStops
<1> QED BY <1>6, <1>7

\* A receipt is published by a run that nothing has stopped, nor any before it.
LEMMA CompleteStops ==
  ASSUME IInv, BudgetInv, StopInv, NEW p \in Procs, Complete(p)
  PROVE  StopInv'
<1>1. /\ stage[p] = "publishing" /\ Exit(p)
      /\ UNCHANGED <<begun, sealed, terminal, excess, stopped>>
  BY DEF Complete, Leave, historyVars
<1>2. ~Lost
  <2>1. Relates(p) /\ ~Holds(p)
    BY <1>1 DEF Relates, Holds
  <2> QED BY <2>1, OwnJobOnly DEF OnlyOwn, Lost
<1>3. \A q \in Procs : ~exhausted[q]
  <2>1. \A q \in Procs : q # p => ~Works(q)
    BY <1>1, OthersIdle DEF Works
  <2> QED BY <1>1, <2>1 DEF StopInv, LatchInv
<1>4. ~Barred(p)
  BY <1>1 DEF Barred
<1>5. ~stopped'
  BY <1>1, <1>2, <1>3, <1>4 DEF StopInv, Obstacle
<1> QED BY <1>1, <1>5, ExitStops

\* The gateway's steps keep what is open: the job at hand stays at hand.
LEMMA GatewayStops ==
  ASSUME IInv, BudgetInv, StopInv, NEW p \in Procs, stage[p] \in {"gateway", "waiting"},
         NEW s \in {"gateway", "waiting", "sealing"}, stage' = [stage EXCEPT ![p] = s],
         UNCHANGED <<begun, sealed, receipt, job, excess>>, CallsWithin', LatchInv(p)',
         \A q \in Procs : q # p => exhausted'[q] = exhausted[q],
         exhausted[p] => exhausted'[p], stopped' => stopped \/ exhausted'[p]
  PROVE  StopInv'
<1>1. /\ stage'[p] = s /\ \A q \in Procs : q # p => stage'[q] = stage[q]
      /\ stage[p] # "idle" /\ receipt = None /\ receipt' = None /\ begun \subseteq begun'
  BY DEF IInv, RunTypeOK, StageInv
<1>2. Holds(p) /\ Holds(p)' /\ ~Barred(p)
  BY <1>1 DEF Holds, Barred
<1>3. \A j \in Jobs : Unfinished(j) /\ ~(Holds(p) /\ job[p] = j) =>
        sealed'[j] = None /\ ~(Holds(p)' /\ job'[p] = j)
  BY <1>2 DEF Unfinished
<1> QED BY <1>1, <1>2, <1>3, StepStops

\* A refusal latches the budget, and its reservation, which goes on record, is what passes the
\* ceiling.
LEMMA AttemptStops ==
  ASSUME Overrun = 0, IInv, IInv', BudgetInv, BudgetInv', StopInv, NEW p \in Procs, Attempt(p)
  PROVE  StopInv'
<1> DEFINE j == job[p]
<1>1. /\ stage[p] = "gateway"
      /\ UNCHANGED <<begun, sealed, receipt, job, excess>>
  BY DEF Attempt, diskVars, gatewayVars, LastAttempt
<1>2. /\ j \in Jobs /\ Reservation[j] \in Nat /\ committed[p] \in Nat /\ Ceiling \in Nat
      /\ committed' \in [Procs -> Nat]
  BY <1>1, RecordedIsNat DEF IInv, JobInv, Holds, BudgetInv, BudgetTypeOK
<1>3. CASE Admits(p, j)
  <2>1. /\ committed' = [committed EXCEPT ![p] = committed[p] + Reservation[j]]
        /\ stage' = [stage EXCEPT ![p] = "waiting"]
        /\ UNCHANGED <<charge, exhausted, stopped>>
    BY <1>3 DEF Attempt, GoTo, gatewayVars
  <2>2. PICK cost \in 1..(Reservation[j] + Overrun), known \in BOOLEAN :
          calls' = calls \cup {[proc |-> p, job |-> j, ordinal |-> tries[p] + 1,
                                cost |-> cost, known |-> known, sent |-> FALSE]}
    BY <1>3 DEF Attempt
  <2>3. CallsWithin'
    <3>1. cost <= Reservation[j]
      BY <1>2, <2>2
    <3> QED BY <2>2, <3>1 DEF StopInv, CallsWithin
  <2>4. ~exhausted'[p]
    BY <1>3, <2>1 DEF Admits
  <2>5. committed'[p] = committed[p] + Reservation[j]
    BY <2>1 DEF BudgetInv, BudgetTypeOK
  <2>6. charge' = [charge EXCEPT ![p] = @ + 0]
    BY <2>1 DEF IInv, RunTypeOK
  <2>7. committed'[p] + 0 <= committed[p] + 0 + Reservation[j]
    <3> HIDE DEF j
    <3> QED BY <1>2, <2>5
  <2>8. LatchInv(p)'
    BY <1>1, <1>2, <2>1, <2>4, <2>6, <2>7, GatewayLatches
  <2> QED BY <1>1, <2>1, <2>3, <2>4, <2>8, GatewayStops
<1>4. CASE ~Admits(p, j)
  <2>1. /\ LastAttempt(p, Reservation[j], "failed")
        /\ exhausted' = [exhausted EXCEPT ![p] = TRUE]
        /\ UNCHANGED <<committed, calls>>
    BY <1>4 DEF Attempt
  <2>2. /\ stage' = [stage EXCEPT ![p] = "sealing"]
        /\ charge' = [charge EXCEPT ![p] = @ + Reservation[j]]
    BY <2>1 DEF LastAttempt, GoTo
  <2>3. exhausted'[p] /\ \A q \in Procs : q # p => exhausted'[q] = exhausted[q]
    BY <2>1 DEF IInv, RunTypeOK
  <2>4. exhausted[p] \/ committed[p] + Reservation[j] > Ceiling
    <3> HIDE DEF j
    <3> QED BY <1>2, <1>4 DEF Admits
  <2>5. committed'[p] + 0 <= committed[p] + Reservation[j] + 0
    <3> HIDE DEF j
    <3> QED BY <1>2, <2>1
  <2>6. LatchInv(p)'
    BY <1>1, <1>2, <2>1, <2>2, <2>4, <2>5, GatewayLatches
  <2>7. CallsWithin'
    BY <2>1 DEF StopInv, CallsWithin
  <2> QED BY <1>1, <2>2, <2>3, <2>6, <2>7, GatewayStops
<1> QED BY <1>3, <1>4

\* An attempt that was waited for goes on record.
LEMMA RecordStops ==
  ASSUME IInv, BudgetInv, StopInv, NEW p \in Procs, stage[p] = "waiting",
         NEW cost \in Nat,
         (\E a \in Answers : LastAttempt(p, cost, a)) \/ RetriedAttempt(p, cost),
         UNCHANGED <<begun, sealed, receipt, excess, exhausted, stopped>>, CallsWithin',
         committed' \in [Procs -> Nat],
         committed'[p] + Reservation[job[p]] <= committed[p] + cost
  PROVE  StopInv'
<1>1. PICK z \in {"gateway", "sealing"} : stage' = [stage EXCEPT ![p] = z]
  BY DEF LastAttempt, RetriedAttempt, GoTo
<1>2. charge' = [charge EXCEPT ![p] = @ + cost] /\ UNCHANGED job
  BY DEF LastAttempt, RetriedAttempt
<1>3. ~exhausted'[p]
  BY DEF StopInv, LatchInv
<1>4. committed[p] \in Nat
  BY DEF BudgetInv, BudgetTypeOK
<1>5. committed'[p] + Reservation[job[p]] <= committed[p] + cost + 0
  BY <1>4
<1>6. LatchInv(p)'
  BY <1>1, <1>2, <1>3, <1>5, GatewayLatches
<1> QED BY <1>1, <1>2, <1>3, <1>6, GatewayStops

\* What a call is settled with is no more than its reservation: it latches nothing.
LEMMA SettleWithin ==
  ASSUME IInv, BudgetInv, StopInv, NEW p \in Procs, NEW c \in calls, Settle(p, c)
  PROVE  /\ exhausted' = exhausted
         /\ committed' = [committed EXCEPT ![p] =
              IF c.known THEN (committed[p] + c.cost) - Reservation[c.job] ELSE committed[p]]
         /\ c.cost \in Nat /\ Reservation[c.job] \in Nat /\ c.cost <= Reservation[c.job]
<1>1. c \in Calls
  BY DEF IInv, RunTypeOK
<1>2. c.cost \in Nat /\ Reservation[c.job] \in Nat /\ c.cost <= Reservation[c.job]
  BY <1>1, CallCost DEF StopInv, CallsWithin
<1>3. ~(c.cost > Reservation[c.job])
  BY <1>2
<1>4. exhausted' = [exhausted EXCEPT ![p] = exhausted[p]]
  BY <1>3 DEF Settle, IInv, RunTypeOK
<1>5. exhausted' = exhausted
  BY <1>4 DEF IInv, RunTypeOK
<1> QED BY <1>2, <1>5 DEF Settle

\* An answer is settled and put on record.
LEMMA ReturnStops ==
  ASSUME IInv, BudgetInv, BudgetInv', StopInv, NEW p \in Procs, NEW c \in calls,
         Return(p, c) \/ Raise(p, c)
  PROVE  StopInv'
<1> DEFINE R == Reservation[c.job]
           reported == IF c.known THEN c.cost ELSE R
<1>1. /\ stage[p] = "waiting" /\ c.job = job[p] /\ calls' = calls \ {c}
      /\ UNCHANGED <<begun, sealed, receipt, excess, stopped>>
  BY DEF Return, Raise, Awaited, diskVars, historyVars
<1>2. CallsWithin'
  BY <1>1 DEF StopInv, CallsWithin
<1>3. c \in Calls
  BY DEF IInv, RunTypeOK
<1>4. /\ c.cost \in Nat /\ R \in Nat /\ c.cost <= R
      /\ committed[p] \in Nat /\ committed' \in [Procs -> Nat]
  BY <1>3, CallCost DEF StopInv, CallsWithin, BudgetInv, BudgetTypeOK
<1>5. /\ exhausted' = exhausted
      /\ \/ committed'[p] = committed[p]
         \/ Return(p, c) /\ c.known /\ committed'[p] = (committed[p] + c.cost) - R
  BY SettleWithin DEF Return, Raise, budgetVars, BudgetInv, BudgetTypeOK
<1>6. "failed" \in Answers /\ Outputs(c.job) \cup {"failed"} \subseteq Answers
  BY DEF Outputs, Answers
<1>7. CASE (\E a \in Answers : LastAttempt(p, R, a)) \/ RetriedAttempt(p, R)
  <2>1. committed'[p] + R <= committed[p] + R
    <3> HIDE DEF R
    <3> QED BY <1>4, <1>5
  <2> QED BY <1>1, <1>2, <1>4, <1>5, <1>7, <2>1, RecordStops
<1>8. CASE Return(p, c) /\ \E a \in Answers : LastAttempt(p, reported, a)
  <2>1. reported \in Nat /\ committed'[p] + R <= committed[p] + reported
    <3>1. committed'[p] = IF c.known THEN (committed[p] + c.cost) - R ELSE committed[p]
      BY <1>8, SettleWithin DEF Return, BudgetInv, BudgetTypeOK
    <3> HIDE DEF R
    <3> QED BY <1>4, <3>1
  <2> HIDE DEF reported
  <2> QED BY <1>1, <1>2, <1>4, <1>5, <1>8, <2>1, RecordStops
<1>9. \/ \E a \in Answers : LastAttempt(p, R, a)
      \/ RetriedAttempt(p, R)
      \/ Return(p, c) /\ \E a \in Answers : LastAttempt(p, reported, a)
  BY <1>6 DEF Return, Raise
<1> QED BY <1>7, <1>8, <1>9

\* An attempt is given up; its call stays.
LEMMA TimeOutStops ==
  ASSUME IInv, BudgetInv, StopInv, NEW p \in Procs, TimeOut(p)
  PROVE  StopInv'
<1>1. /\ stage[p] = "waiting" /\ RetriedAttempt(p, Reservation[job[p]])
      /\ UNCHANGED <<begun, sealed, receipt, excess, stopped, committed, exhausted, calls>>
  BY DEF TimeOut, diskVars, budgetVars, historyVars
<1>2. /\ committed[p] \in Nat /\ committed' \in [Procs -> Nat] /\ Reservation[job[p]] \in Nat
  BY <1>1, RecordedIsNat DEF BudgetInv, BudgetTypeOK, IInv, JobInv, Holds
<1>3. committed'[p] + Reservation[job[p]] <= committed[p] + Reservation[job[p]]
  BY <1>1, <1>2
<1>4. CallsWithin'
  BY <1>1 DEF StopInv, CallsWithin
<1> QED BY <1>1, <1>2, <1>3, <1>4, RecordStops

\* A call is sent, or comes back when nobody waits for it: neither latches a budget.
LEMMA CallStops ==
  ASSUME IInv, BudgetInv, BudgetInv', StopInv, NEW c \in calls, Send(c) \/ ReturnLate(c)
  PROVE  StopInv'
<1> DEFINE p == c.proc
<1>1. /\ UNCHANGED <<begun, sealed, receipt, stage, job, charge, stopped>>
      /\ \/ Send(c) /\ UNCHANGED <<committed, exhausted>>
         \/ /\ ReturnLate(c) /\ excess' = excess
            /\ Settle(p, c) \/ UNCHANGED <<committed, exhausted>>
  BY DEF Send, ReturnLate, diskVars, gatewayVars, budgetVars, historyVars
<1>2. c \in Calls /\ p \in Procs /\ Works(p)
  BY DEF IInv, RunTypeOK, BudgetInv, Calls
<1>3. c.cost \in Nat /\ Reservation[c.job] \in Nat /\ c.cost <= Reservation[c.job]
  BY <1>2, CallCost DEF StopInv, CallsWithin
<1>4. CallsWithin' /\ excess' = excess
  <2>1. CASE Send(c)
    <3>1. excess' = excess
      BY <1>3, <2>1 DEF Send
    <3>2. [c EXCEPT !.sent = TRUE].cost = c.cost /\ [c EXCEPT !.sent = TRUE].job = c.job
      BY <1>2 DEF Calls
    <3> QED BY <1>3, <2>1, <3>1, <3>2 DEF Send, StopInv, CallsWithin
  <2>2. CASE ReturnLate(c)
    BY <1>1, <2>2 DEF ReturnLate, Send, StopInv, CallsWithin, historyVars
  <2> QED BY <1>1, <2>1, <2>2
<1>5. /\ exhausted' = exhausted
      /\ committed[p] \in Nat /\ committed'[p] \in Nat /\ committed'[p] <= committed[p]
  <2>1. committed[p] \in Nat /\ committed'[p] \in Nat
    BY <1>2 DEF BudgetInv, BudgetTypeOK
  <2>2. CASE Settle(p, c)
    <3>1. /\ exhausted' = exhausted
          /\ \/ committed'[p] = committed[p]
             \/ committed'[p] = (committed[p] + c.cost) - Reservation[c.job]
      BY <1>2, <2>2, SettleWithin DEF BudgetInv, BudgetTypeOK
    <3> HIDE DEF p
    <3> QED BY <1>3, <2>1, <3>1
  <2> QED BY <1>1, <2>1, <2>2
<1> HIDE DEF p
<1>6. Recorded(p)' = Recorded(p)
  BY <1>1, CostKept DEF Recorded, Relates, Holds
<1>7. committed[p] <= Recorded(p) /\ Recorded(p) \in Nat
  BY <1>2, RecordedIsNat DEF StopInv, LatchInv
<1>8. committed'[p] <= Recorded(p)'
  BY <1>5, <1>6, <1>7
<1>9. LatchInv(p)'
  BY <1>1, <1>2, <1>5, <1>6, <1>8 DEF StopInv, LatchInv, Works
<1>10. \A j \in Jobs : Unfinished(j) => sealed'[j] = None
  BY <1>1 DEF Unfinished
<1>11. Holds(p)' <=> Holds(p)
  BY <1>1 DEF Holds
<1>12. stage[p] # "idle" /\ receipt = None /\ receipt' = None /\ begun \subseteq begun'
  BY <1>1, <1>2 DEF Works, IInv, StageInv
<1> QED BY <1>1, <1>2, <1>4, <1>5, <1>9, <1>10, <1>11, <1>12, StepStops

\* The record of a job is sealed: what was to be on record is.
LEMMA SealStops ==
  ASSUME IInv, IInv', BudgetInv, StopInv, NEW p \in Procs, Seal(p)
  PROVE  StopInv'
<1> DEFINE result == [answer |-> answer[p], charge |-> charge[p]]
           s == IF job[p] \in MainJobs THEN "batch" ELSE "relations"
<1>1. /\ stage[p] = "sealing" /\ receipt = None
      /\ UNCHANGED <<begun, receipt, excess, stopped>>
  BY DEF Seal, IInv, StageInv, historyVars
<1>2. /\ job[p] \in Jobs /\ sealed[job[p]] = None
      /\ Holds(p) /\ Works(p) /\ ~Barred(p)
  BY <1>1 DEF IInv, JobInv, Holds, Works, Barred
<1>3. PICK j \in Jobs : j = job[p]
  BY <1>2
<1>4. /\ sealed' = [sealed EXCEPT ![j] = result]
      /\ stage' = [stage EXCEPT ![p] = s]
      /\ job' = [job EXCEPT ![p] = None]
      /\ charge' = [charge EXCEPT ![p] = 0]
      /\ UNCHANGED <<committed, exhausted, calls>>
  BY <1>2, <1>3 DEF Seal, GoTo, budgetVars
<1>5. charge[p] \in Nat /\ result # None /\ result.charge = charge[p]
  BY NoneAssumption DEF IInv, RunTypeOK
<1>6. MainJobs \in SUBSET Jobs /\ Jobs \in SUBSET Jobs /\ MainJobs \cap RelationJobs = {}
  BY JobShapes DEF Jobs
<1>7. /\ stage'[p] = s /\ charge'[p] = 0
      /\ \A q \in Procs : q # p => stage'[q] = stage[q] /\ job'[q] = job[q]
      /\ \A k \in Jobs : k # j => sealed'[k] = sealed[k]
  BY <1>4 DEF IInv, RunTypeOK
<1>8. /\ ~Holds(p)' /\ Works(p)'
      /\ Relates(p)' <=> Relates(p)
      /\ Relates(p) <=> j \notin MainJobs
  BY <1>1, <1>2, <1>3, <1>6, <1>7 DEF Holds, Works, Relates, Jobs
<1> HIDE DEF result
<1>9. \A J \in SUBSET Jobs :
        RestoredCost(J)' = RestoredCost(J) + IF j \in J THEN result.charge ELSE 0
  <2>1. RunTypeOK /\ RunTypeOK'
    BY DEF IInv
  <2> QED BY <1>2, <1>3, <1>4, <1>5, <2>1, CostOfSeal
<1>10. /\ RestoredCost(Jobs)' = RestoredCost(Jobs) + charge[p]
       /\ j \in MainJobs => RestoredCost(MainJobs)' = RestoredCost(MainJobs) + charge[p]
  BY <1>3, <1>5, <1>6, <1>9
<1>11. RestoredCost(Jobs) \in Nat /\ RestoredCost(MainJobs) \in Nat
  BY RecordedIsNat
<1>12. Recorded(p)' = Recorded(p)
  <2>1. stage[p] # "waiting" /\ stage'[p] # "waiting"
    BY <1>1, <1>7
  <2>2. CASE Relates(p)
    BY <1>5, <1>7, <1>8, <1>10, <1>11, <2>1, <2>2 DEF Recorded
  <2>3. CASE ~Relates(p)
    BY <1>5, <1>7, <1>8, <1>10, <1>11, <2>1, <2>3 DEF Recorded
  <2> QED BY <2>2, <2>3
<1>13. LatchInv(p)'
  <2>1. stage'[p] \notin {"waiting", "publishing"}
    BY <1>7
  <2> QED BY <1>2, <1>4, <1>8, <1>12, <2>1 DEF StopInv, LatchInv
<1>14. \A k \in Jobs : Unfinished(k) /\ ~(Holds(p) /\ job[p] = k) => sealed'[k] = None
  BY <1>2, <1>3, <1>7 DEF Unfinished
<1>15. CallsWithin'
  BY <1>4 DEF StopInv, CallsWithin
<1> QED BY <1>1, <1>2, <1>4, <1>7, <1>8, <1>13, <1>14, <1>15, StepStops DEF Works

\* Runs begin, and locks go.
LEMMA IdleStops ==
  ASSUME IInv, BudgetInv, StopInv, (\E p \in Procs : Start(p)) \/ RemoveLock
  PROVE  StopInv'
<1>1. UNCHANGED <<begun, sealed, terminal, receipt, committed, exhausted, calls, excess, stopped>>
  BY DEF Start, RemoveLock, budgetVars, historyVars
<1>2. \A q \in Procs : stage[q] = "idle" /\ stage'[q] \in {"idle", "restoring"}
  BY DEF Start, RemoveLock, GoTo, IInv, RunTypeOK, StageInv
<1>3. \A q \in Procs : ~exhausted[q] /\ ~Works(q)' /\ ~Holds(q)' /\ Barred(q)'
  BY <1>2 DEF StopInv, LatchInv, Works, Holds, Barred
<1>4. \A q \in Procs : LatchInv(q)'
  BY <1>1, <1>3 DEF LatchInv
<1>5. (Spent' <=> Spent) /\ \A j \in Jobs : Unfinished(j)' <=> Unfinished(j)
  BY <1>1, SameDisk, CostKept DEF Spent
<1>6. Obstacle => Obstacle'
  BY <1>1, <1>3, <1>5 DEF Obstacle, Lost
<1>7. CallsWithin'
  BY <1>1 DEF StopInv, CallsWithin
<1> QED BY <1>1, <1>4, <1>6, <1>7 DEF StopInv

\* At first nothing has stopped a run.
LEMMA InitialStop == Init => StopInv
<1> SUFFICES ASSUME Init PROVE StopInv
  OBVIOUS
<1>1. \A p \in Procs : ~Works(p) /\ ~exhausted[p]
  BY DEF Init, Works
<1> QED BY <1>1 DEF Init, StopInv, CallsWithin, LatchInv

\* No step breaks the invariant, as long as no provider reports more than was reserved.
LEMMA NextStops ==
  ASSUME Overrun = 0, IInv, IInv', BudgetInv, BudgetInv', StopInv, [Next]_vars
  PROVE  StopInv'
<1>1. ASSUME UNCHANGED vars
      PROVE  StopInv'
  <2>1. UNCHANGED <<begun, sealed, terminal, receipt, stage, job, charge, committed, exhausted,
                    calls, excess, stopped>>
    BY <1>1 DEF vars, diskVars, gatewayVars, budgetVars, historyVars
  <2>2. /\ RestoredCost(Jobs)' = RestoredCost(Jobs)
        /\ RestoredCost(MainJobs)' = RestoredCost(MainJobs)
        /\ Pending' = Pending
    BY <2>1, CostKept, SameDisk
  <2>3. \A q \in Procs : LatchInv(q)'
    BY <2>1, <2>2 DEF StopInv, LatchInv, Recorded, Relates, Holds, Works
  <2>4. Obstacle => Obstacle'
    BY <2>1, <2>2 DEF Obstacle, Lost, Spent, Barred, Unfinished, Holds
  <2> QED BY <2>1, <2>3, <2>4 DEF StopInv, CallsWithin
<1>2. ASSUME NEW p \in Procs, VerifyCompleted(p) \/ Abort(p) \/ Crash(p)
      PROVE  StopInv'
  <2>1. /\ stage[p] # "idle" /\ Exit(p)
        /\ UNCHANGED <<begun, sealed, terminal, receipt, excess, stopped>>
    BY <1>2 DEF VerifyCompleted, Abort, Crash, Leave, diskVars, historyVars
  <2> QED BY <2>1, ExitStops DEF StopInv
<1>3. ASSUME NEW p \in Procs, Work(p)
      PROVE  StopInv'
  BY <1>2, <1>3, RestoreStops, FindTurnStops, BeginStops, ConcludeStops, FinishBatchStops,
     ScoreStops, FindRelationStops, FinishRelationsStops, CompleteStops, AttemptStops,
     TimeOutStops, SealStops DEF Work
<1>4. ASSUME NEW p \in Procs, Receive(p)
      PROVE  StopInv'
  BY <1>4, ReturnStops DEF Receive
<1>5. ASSUME Next
      PROVE  StopInv'
  BY <1>2, <1>3, <1>4, <1>5, IdleStops, CallStops DEF Next
<1> QED BY <1>1, <1>5

\* So it holds throughout.
LEMMA StopHolds ==
  ASSUME Overrun = 0
  PROVE  Spec => [](IInv /\ BudgetInv /\ StopInv)
<1>1. Init => IInv /\ BudgetInv /\ StopInv
  BY InitEstablishes, InitialBudget, InitialStop
<1>2. (IInv /\ BudgetInv /\ StopInv) /\ [Next]_vars => (IInv /\ BudgetInv /\ StopInv)'
  BY NextKeeps, NextKeepsBudget, NextStops
<1> QED BY <1>1, <1>2, PTL DEF Spec

\* "Budget exhaustion stops result publication": so it does, in whatever run, as long as providers
\* report no more than was reserved.  The refused call's own reservation goes on record, and that
\* stops every run that follows.  What breaks the property (section 4 of README.md) is therefore
\* only a report above the reservation, which latches the budget and is not on record as such.
THEOREM ExhaustionStopsUnlessOverrun ==
  ASSUME Overrun = 0
  PROVE  Spec => []ExhaustionStopsPublication
<1>1. IInv /\ BudgetInv /\ StopInv => ExhaustionStopsPublication
  BY DEF StopInv, ExhaustionStopsPublication
<1> QED BY <1>1, StopHolds, PTL

\* And then all calls of all runs cost no more than the operator approved, without exception.
THEOREM CeilingIsKeptUnlessOverrun ==
  ASSUME Overrun = 0
  PROVE  Spec => [](paid <= Ceiling)
<1>1. IInv /\ BudgetInv /\ StopInv => paid <= Ceiling
  <2> SUFFICES ASSUME IInv, BudgetInv, StopInv PROVE paid <= Ceiling
    OBVIOUS
  <2>1. Outstanding \in Nat /\ paid \in Nat /\ Ceiling \in Nat /\ excess = 0
    BY OutstandingIsNat, PipelineAssumption DEF BudgetInv, BudgetTypeOK, StopInv
  <2>2. paid + Outstanding <= Ceiling + excess
    BY DEF BudgetInv
  <2> QED BY <2>1, <2>2
<1> QED BY <1>1, StopHolds, PTL

=============================================================================
