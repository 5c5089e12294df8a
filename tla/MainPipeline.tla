----------------------------- MODULE MainPipeline -----------------------------
(***************************************************************************)
(* The authorized run of the diagnosis main study                          *)
(* (src/src/aletheia_lab/diagnosis/main_pipeline.py): it asks a provider   *)
(* for the turns of every logical request, seals a terminal for each, asks *)
(* for the relation of every claim that was made, and publishes a receipt. *)
(* A run may be interrupted anywhere and started again: what is sealed is  *)
(* read back, and what is open, a request without a result, stops it.      *)
(*                                                                         *)
(* One budget covers all calls of a process.  A call reserves the most it  *)
(* can cost, and what the provider reports settles it, perhaps long after  *)
(* the gateway gave the attempt up: its thread runs on.  A restarted run   *)
(* restores the budget from the sealed attempts.                           *)
(*                                                                         *)
(* A valid final turn makes a claim or none.  The relation of a claim is   *)
(* the job <<i, 0>>, the turns of request i are <<i, 1>>, <<i, 2>> ...     *)
(***************************************************************************)
EXTENDS Naturals, FiniteSets, Functions

CONSTANTS
  Procs,        \* processes that run `execute`
  Turns,        \* provider turns of each logical request, by its place in the census
  MaxAttempts,  \* the runtime policy's limit
  Reservation,  \* the most a call of each job can cost, by the size of its texts
  Ceiling,      \* what the operator approved
  Overrun,      \* how much more than that a provider may report: 0 if never
  None

Logical == DOMAIN Turns
MainJobs == UNION {{<<i, t>> : t \in 1..Turns[i]} : i \in Logical}
RelationJobs == {<<i, 0>> : i \in {k \in Logical : Turns[k] > 0}}
Jobs == MainJobs \cup RelationJobs
Ordinals == 1..MaxAttempts

ASSUME PipelineAssumption ==
  /\ Turns \in [Logical -> Nat]
  /\ Logical \subseteq Nat
  /\ IsFiniteSet(Logical)
  /\ MaxAttempts \in Nat \ {0}
  /\ Reservation \in [Jobs -> Nat \ {0}]
  /\ Ceiling \in Nat
  /\ Overrun \in Nat

VARIABLES
  lock,       \* the directory active-execution exists
  begun,      \* jobs whose request is on disk
  sealed,     \* the sealed result of each job, or None
  terminal,   \* the terminal of each logical request, or None
  batch,      \* main-batch-result.json: the terminals it was made of, or None
  relations,  \* relation-results.json: the answers it was made of, or None
  receipt,    \* receipt.json, or None
  stage,      \* where each process is
  job,        \* the job its gateway executes
  tries,      \* attempts of that execution on record
  charge,     \* their cost, as a restart will restore it
  answer,     \* and what came of it
  committed,  \* the budget of each process: cost and reservations
  exhausted,  \* the budget of each process is latched
  calls,      \* threads that call the provider
  asked,      \* how often each attempt of each job reached the provider
  paid,       \* what all of those cost
  excess,     \* what they cost beyond their reservations
  stopped     \* a request was refused, or a run was stopped, for the budget

diskVars == <<lock, begun, sealed, terminal, batch, relations, receipt>>
gatewayVars == <<job, tries, charge, answer>>
budgetVars == <<committed, exhausted>>
historyVars == <<asked, paid, excess, stopped>>
vars == <<diskVars, stage, gatewayVars, budgetVars, calls, historyVars>>

Answers == {"failed", "invalid", "valid", "claim"}
Statuses == {"completed", "selection_failure", "technical_failure", "semantic_failure",
             "deterministic_completed"}

ASSUME NoneAssumption == None \notin [answer : Answers, charge : Nat]

Calls == [proc : Procs, job : Jobs, ordinal : Ordinals, cost : Nat, known : BOOLEAN, sent : BOOLEAN]

RunTypeOK ==
  /\ lock \in BOOLEAN
  /\ begun \subseteq Jobs
  /\ sealed \in [Jobs -> [answer : Answers, charge : Nat] \cup {None}]
  /\ terminal \in [Logical -> Statuses \cup {None}]
  /\ batch = None \/ batch \in [Logical -> Statuses]
  /\ relations = None \/ \E J \in SUBSET RelationJobs : relations \in [J -> Answers]
  /\ receipt = None \/ DOMAIN receipt = {"batch", "relations", "cost"}
  /\ stage \in [Procs -> {"idle", "restoring", "batch", "opening", "gateway", "waiting", "sealing",
                          "scoring", "relations", "publishing"}]
  /\ job \in [Procs -> Jobs \cup {None}]
  /\ tries \in [Procs -> 0..MaxAttempts]
  /\ charge \in [Procs -> Nat]
  /\ answer \in [Procs -> Answers]
  /\ exhausted \in [Procs -> BOOLEAN]
  /\ calls \subseteq Calls
  /\ asked \in [Jobs \X Ordinals -> Nat]
  /\ stopped \in BOOLEAN

TypeOK ==
  /\ RunTypeOK
  /\ committed \in [Procs -> Nat]
  /\ paid \in Nat
  /\ excess \in Nat

Init ==
  /\ lock = FALSE
  /\ begun = {}
  /\ sealed = [j \in Jobs |-> None]
  /\ terminal = [i \in Logical |-> None]
  /\ batch = None
  /\ relations = None
  /\ receipt = None
  /\ stage = [p \in Procs |-> "idle"]
  /\ job = [p \in Procs |-> None]
  /\ tries = [p \in Procs |-> 0]
  /\ charge = [p \in Procs |-> 0]
  /\ answer = [p \in Procs |-> "failed"]
  /\ committed = [p \in Procs |-> 0]
  /\ exhausted = [p \in Procs |-> FALSE]
  /\ calls = {}
  /\ asked = [a \in Jobs \X Ordinals |-> 0]
  /\ paid = 0
  /\ excess = 0
  /\ stopped = FALSE

----------------------------------------------------------------------------
\* The process exits, and its threads with it.
Exit(p) ==
  /\ stage' = [stage EXCEPT ![p] = "idle"]
  /\ job' = [job EXCEPT ![p] = None]
  /\ tries' = [tries EXCEPT ![p] = 0]
  /\ charge' = [charge EXCEPT ![p] = 0]
  /\ answer' = [answer EXCEPT ![p] = "failed"]
  /\ committed' = [committed EXCEPT ![p] = 0]
  /\ exhausted' = [exhausted EXCEPT ![p] = FALSE]
  /\ calls' = {c \in calls : c.proc # p}

\* It ends by itself, with a receipt or an error, and releases the lock.
Leave(p) == Exit(p) /\ lock' = FALSE

GoTo(p, s) == stage' = [stage EXCEPT ![p] = s]

\* Mutant: the lock is taken whether or not it is held.
StartAnyway(p) ==
  /\ stage[p] = "idle"
  /\ lock' = TRUE
  /\ GoTo(p, "restoring")
  /\ UNCHANGED <<begun, sealed, terminal, batch, relations, receipt, gatewayVars, budgetVars, calls,
                 historyVars>>

\* _exclusive_execution: the lock's directory is made, or the process gives up.
Start(p) ==
  /\ stage[p] = "idle"
  /\ ~lock
  /\ lock' = TRUE
  /\ GoTo(p, "restoring")
  /\ UNCHANGED <<begun, sealed, terminal, batch, relations, receipt, gatewayVars, budgetVars, calls,
                 historyVars>>

\* A completed run is only verified.
VerifyCompleted(p) ==
  /\ stage[p] = "restoring"
  /\ receipt # None
  /\ Leave(p)
  /\ UNCHANGED <<begun, sealed, terminal, batch, relations, receipt, historyVars>>

\* A job with a request and no result.
Unfinished(j) == j \in begun /\ sealed[j] = None

\* What the sealed attempts of each job cost, and those of some jobs.
SealedCharge == [j \in Jobs |-> IF sealed[j] = None THEN 0 ELSE sealed[j].charge]
RestoredCost(J) == SumFunctionOnSet(SealedCharge, J)

\* _restore_main_budget, and the first look at the budget.
Restore(p) ==
  LET cost == RestoredCost(MainJobs) IN
  /\ stage[p] = "restoring"
  /\ receipt = None
  /\ IF \E j \in MainJobs : Unfinished(j) THEN Leave(p) /\ UNCHANGED stopped
     ELSE IF cost > Ceiling THEN Leave(p) /\ stopped' = TRUE
     ELSE /\ committed' = [committed EXCEPT ![p] = cost]
          /\ GoTo(p, "batch")
          /\ UNCHANGED <<lock, gatewayVars, exhausted, calls, stopped>>
  /\ UNCHANGED <<begun, sealed, terminal, batch, relations, receipt, asked, paid, excess>>

----------------------------------------------------------------------------
\* The batch: logical requests in the order of the census

Pending == {i \in Logical : terminal[i] = None}
IsNext(i) == i \in Pending /\ \A k \in Pending : i <= k

Good(j) == sealed[j] # None /\ sealed[j].answer \in {"valid", "claim"}
FailedSelection(i) ==
  \E t \in 1..Turns[i] : t < Turns[i] /\ sealed[<<i, t>>] # None /\ ~Good(<<i, t>>)

\* Nothing is left to ask for request i: it has no turns, a selection failed, or the last turn
\* is sealed.
Decided(i) ==
  \/ Turns[i] = 0
  \/ FailedSelection(i)
  \/ Turns[i] > 0 /\ sealed[<<i, Turns[i]>>] # None

\* Then this is how it ended.
StatusOf(i) ==
  IF Turns[i] = 0 THEN "deterministic_completed"
  ELSE IF FailedSelection(i) THEN "selection_failure"
  ELSE CASE sealed[<<i, Turns[i]>>].answer = "failed" -> "technical_failure"
         [] sealed[<<i, Turns[i]>>].answer = "invalid" -> "semantic_failure"
         [] OTHER -> "completed"

\* Turn t of request i is the first that is not sealed.
IsNextTurn(i, t) == sealed[<<i, t>>] = None /\ \A u \in 1..(t - 1) : sealed[<<i, u>>] # None

\* Job j has neither request nor result: its request is to be put on disk.
Open(p, j) ==
  /\ job' = [job EXCEPT ![p] = j]
  /\ GoTo(p, "opening")

\* begin_or_resume_turn looks for the request of the next turn.
FindTurn(p) ==
  /\ stage[p] = "batch"
  /\ \E i \in Logical : \E t \in 1..Turns[i] :
       /\ IsNext(i)
       /\ ~Decided(i)
       /\ IsNextTurn(i, t)
       /\ IF <<i, t>> \in begun
            THEN Leave(p)
            ELSE Open(p, <<i, t>>) /\ UNCHANGED <<lock, tries, charge, answer, budgetVars, calls>>
  /\ UNCHANGED <<begun, sealed, terminal, batch, relations, receipt, historyVars>>

\* The request is put on disk, be it there by now or not, and the gateway is to execute it.
Begin(p) ==
  /\ stage[p] = "opening"
  /\ begun' = begun \cup {job[p]}
  /\ GoTo(p, "gateway")
  /\ UNCHANGED <<lock, sealed, terminal, batch, relations, receipt, gatewayVars, budgetVars, calls,
                 historyVars>>

\* Mutant: the terminal of a request is that of its last turn, whatever its selections were.
ConcludeByLast(p) ==
  /\ stage[p] = "batch"
  /\ \E i \in Logical :
       /\ IsNext(i)
       /\ Decided(i)
       /\ terminal' = [terminal EXCEPT ![i] =
            IF FailedSelection(i) THEN "technical_failure" ELSE StatusOf(i)]
  /\ UNCHANGED <<lock, begun, sealed, batch, relations, receipt, stage, gatewayVars, budgetVars,
                 calls, historyVars>>

\* publish_terminal
Conclude(p) ==
  /\ stage[p] = "batch"
  /\ \E i \in Logical :
       /\ IsNext(i)
       /\ Decided(i)
       /\ terminal' = [terminal EXCEPT ![i] = StatusOf(i)]
  /\ UNCHANGED <<lock, begun, sealed, batch, relations, receipt, stage, gatewayVars, budgetVars,
                 calls, historyVars>>

\* The batch is over: its result is published, or is already there.
FinishBatch(p) ==
  /\ stage[p] = "batch"
  /\ Pending = {}
  /\ IF exhausted[p] THEN Leave(p) /\ stopped' = TRUE /\ UNCHANGED batch
     ELSE IF batch \notin {None, terminal} THEN Leave(p) /\ UNCHANGED <<batch, stopped>>
     ELSE /\ batch' = terminal
          /\ GoTo(p, "scoring")
          /\ UNCHANGED <<lock, gatewayVars, budgetVars, calls, stopped>>
  /\ UNCHANGED <<begun, sealed, terminal, relations, receipt, asked, paid, excess>>

----------------------------------------------------------------------------
\* The relation stage

\* The relation requests of the claims that the completed requests make.
Prepared ==
  {<<i, 0>> : i \in {k \in Logical : /\ terminal[k] = "completed"
                                     /\ Turns[k] > 0
                                     /\ sealed[<<k, Turns[k]>>].answer = "claim"}}

\* Each of them has a result.
AllSealed == \A j \in Prepared : sealed[j] # None
Results == [j \in Prepared |-> sealed[j].answer]

\* prepare_main_scoring accepts the store: each terminal is that of its sealed turns.
StoreReconciles == \A i \in Logical : Decided(i) /\ terminal[i] = StatusOf(i)

\* Mutant: the relation cost of an earlier run is not restored.
ScoreWithoutRestoring(p) ==
  /\ stage[p] = "scoring"
  /\ IF exhausted[p] THEN Leave(p) /\ stopped' = TRUE
     ELSE IF ~StoreReconciles \/ \E j \in Prepared : Unfinished(j) THEN Leave(p) /\ UNCHANGED stopped
     ELSE GoTo(p, "relations") /\ UNCHANGED <<lock, gatewayVars, budgetVars, calls, stopped>>
  /\ UNCHANGED <<begun, sealed, terminal, batch, relations, receipt, asked, paid, excess>>

\* The claims are prepared, the cost of sealed relation requests is restored, and no request may
\* be open: prepare_main_scoring, restore_relation_budget, execute_pipeline_relation_stage.
Score(p) ==
  LET cost == committed[p] + RestoredCost(Prepared) IN
  /\ stage[p] = "scoring"
  /\ IF ~StoreReconciles THEN Leave(p) /\ UNCHANGED stopped
     ELSE IF exhausted[p] \/ cost > Ceiling THEN Leave(p) /\ stopped' = TRUE
     ELSE IF \E j \in Prepared : Unfinished(j) THEN Leave(p) /\ UNCHANGED stopped
     ELSE /\ committed' = [committed EXCEPT ![p] = cost]
          /\ GoTo(p, "relations")
          /\ UNCHANGED <<lock, gatewayVars, exhausted, calls, stopped>>
  /\ UNCHANGED <<begun, sealed, terminal, batch, relations, receipt, asked, paid, excess>>

\* A relation request that its store does not know is to be prepared and started there.
FindRelation(p) ==
  /\ stage[p] = "relations"
  /\ \E j \in Prepared \ begun : Open(p, j)
  /\ UNCHANGED <<diskVars, tries, charge, answer, budgetVars, calls, historyVars>>

\* Mutant: a relation request without a result is left out of the results.
FinishRelationsPartly(p) ==
  LET results == [j \in {k \in Prepared : sealed[k] # None} |-> sealed[j].answer] IN
  /\ stage[p] = "relations"
  /\ IF exhausted[p] THEN Leave(p) /\ stopped' = TRUE /\ UNCHANGED relations
     ELSE IF relations \notin {None, results} THEN Leave(p) /\ UNCHANGED <<relations, stopped>>
     ELSE /\ relations' = results
          /\ GoTo(p, "publishing")
          /\ UNCHANGED <<lock, gatewayVars, budgetVars, calls, stopped>>
  /\ UNCHANGED <<begun, sealed, terminal, batch, receipt, asked, paid, excess>>

\* All are sealed: their results are published, or already there.
FinishRelations(p) ==
  /\ stage[p] = "relations"
  /\ AllSealed
  /\ IF exhausted[p] THEN Leave(p) /\ stopped' = TRUE /\ UNCHANGED relations
     ELSE IF relations \notin {None, Results} THEN Leave(p) /\ UNCHANGED <<relations, stopped>>
     ELSE /\ relations' = Results
          /\ GoTo(p, "publishing")
          /\ UNCHANGED <<lock, gatewayVars, budgetVars, calls, stopped>>
  /\ UNCHANGED <<begun, sealed, terminal, batch, receipt, asked, paid, excess>>

\* The analysis and, last, the receipt.
Complete(p) ==
  /\ stage[p] = "publishing"
  /\ receipt' = [batch |-> batch, relations |-> relations, cost |-> committed[p]]
  /\ Leave(p)
  /\ UNCHANGED <<begun, sealed, terminal, batch, relations, historyVars>>

----------------------------------------------------------------------------
\* The gateway executes a job

\* What a valid answer to job j can be.
Outputs(j) ==
  IF j[2] # 0 /\ j[2] = Turns[j[1]] THEN {"invalid", "valid", "claim"} ELSE {"invalid", "valid"}

\* Mutant: only what is committed so far counts, not the reservation of the call itself.
AdmitsWithout(p, j) == ~exhausted[p] /\ committed[p] < Ceiling
\* reserve: the call fits into what is left.
Admits(p, j) == ~exhausted[p] /\ committed[p] + Reservation[j] <= Ceiling

\* An attempt is on record, with what a restart will take it to have cost, and is the last.
LastAttempt(p, cost, a) ==
  /\ tries' = [tries EXCEPT ![p] = @ + 1]
  /\ charge' = [charge EXCEPT ![p] = @ + cost]
  /\ answer' = [answer EXCEPT ![p] = a]
  /\ GoTo(p, "sealing")
  /\ UNCHANGED job

\* Mutant: one attempt too many.
RetriedOnceMore(p, cost) ==
  /\ tries' = [tries EXCEPT ![p] = @ + 1]
  /\ charge' = [charge EXCEPT ![p] = @ + cost]
  /\ GoTo(p, IF tries[p] + 1 <= MaxAttempts THEN "gateway" ELSE "sealing")
  /\ answer' = [answer EXCEPT ![p] = "failed"]
  /\ UNCHANGED job

\* Or there is another one, if the policy allows it.
RetriedAttempt(p, cost) ==
  /\ tries' = [tries EXCEPT ![p] = @ + 1]
  /\ charge' = [charge EXCEPT ![p] = @ + cost]
  /\ GoTo(p, IF tries[p] + 1 < MaxAttempts THEN "gateway" ELSE "sealing")
  /\ answer' = [answer EXCEPT ![p] = "failed"]
  /\ UNCHANGED job

\* A thread reserves the call's cost, or is refused: the attempt fails for good, on record
\* without usage.
Attempt(p) ==
  LET j == job[p] IN
  /\ stage[p] = "gateway"
  /\ IF Admits(p, j)
       THEN /\ committed' = [committed EXCEPT ![p] = @ + Reservation[j]]
            /\ \E cost \in 1..(Reservation[j] + Overrun), known \in BOOLEAN :
                 calls' = calls \cup {[proc |-> p, job |-> j, ordinal |-> tries[p] + 1,
                                       cost |-> cost, known |-> known, sent |-> FALSE]}
            /\ GoTo(p, "waiting")
            /\ UNCHANGED <<gatewayVars, exhausted, stopped>>
       ELSE /\ exhausted' = [exhausted EXCEPT ![p] = TRUE]
            /\ stopped' = TRUE
            /\ LastAttempt(p, Reservation[j], "failed")
            /\ UNCHANGED <<committed, calls>>
  /\ UNCHANGED <<diskVars, asked, paid, excess>>

\* PacedProviderAdapter: of the relation calls of a process one at a time is with the provider.
Paced(c) ==
  c.job \in RelationJobs => \A d \in calls : d.job \in RelationJobs /\ d.proc = c.proc => ~d.sent

\* The call reaches the provider, who will be paid for it.
Send(c) ==
  /\ c \in calls
  /\ ~c.sent
  /\ Paced(c)
  /\ calls' = (calls \ {c}) \cup {[c EXCEPT !.sent = TRUE]}
  /\ asked' = [asked EXCEPT ![<<c.job, c.ordinal>>] = @ + 1]
  /\ paid' = paid + c.cost
  /\ excess' = IF c.cost > Reservation[c.job] THEN excess + (c.cost - Reservation[c.job]) ELSE excess
  /\ UNCHANGED <<diskVars, stage, gatewayVars, budgetVars, stopped>>

\* settle: the report replaces the reservation, and one above it latches the budget.
Settle(p, c) ==
  /\ committed' = [committed EXCEPT ![p] =
       IF c.known THEN (@ + c.cost) - Reservation[c.job] ELSE @]
  /\ exhausted' = [exhausted EXCEPT ![p] = @ \/ (c.known /\ c.cost > Reservation[c.job])]

\* The call of the attempt that process p waits for.
Awaited(p, c) ==
  /\ c \in calls
  /\ c.proc = p
  /\ stage[p] = "waiting"
  /\ c.job = job[p]
  /\ c.ordinal = tries[p] + 1
  /\ c.sent

\* An envelope comes back.  One that is not the request's, or came too late by the gateway's
\* clock, leaves a record without the usage.
Return(p, c) ==
  LET reported == IF c.known THEN c.cost ELSE Reservation[c.job] IN
  /\ Awaited(p, c)
  /\ Settle(p, c)
  /\ calls' = calls \ {c}
  /\ \/ \E a \in Outputs(c.job) \cup {"failed"} : LastAttempt(p, reported, a)
     \/ LastAttempt(p, Reservation[c.job], "failed")
     \/ RetriedAttempt(p, Reservation[c.job])
  /\ UNCHANGED <<diskVars, historyVars>>

\* The adapter raises: the reservation is kept.
Raise(p, c) ==
  /\ Awaited(p, c)
  /\ calls' = calls \ {c}
  /\ \/ LastAttempt(p, Reservation[c.job], "failed")
     \/ RetriedAttempt(p, Reservation[c.job])
  /\ UNCHANGED <<diskVars, budgetVars, historyVars>>

\* Mutant: the gateway waits for the provider once it has been asked.
TimeOutUnlessSent(p) ==
  /\ stage[p] = "waiting"
  /\ \A c \in calls : ~Awaited(p, c)
  /\ RetriedAttempt(p, Reservation[job[p]])
  /\ UNCHANGED <<diskVars, budgetVars, calls, historyVars>>

\* The gateway gives the attempt up; its thread runs on, or still waits for its turn.
TimeOut(p) ==
  /\ stage[p] = "waiting"
  /\ RetriedAttempt(p, Reservation[job[p]])
  /\ UNCHANGED <<diskVars, budgetVars, calls, historyVars>>

\* A call that nobody waits for comes back: it settles all the same, unless it raised.
ReturnLate(c) ==
  /\ c \in calls
  /\ c.sent
  /\ ~Awaited(c.proc, c)
  /\ calls' = calls \ {c}
  /\ Settle(c.proc, c) \/ UNCHANGED budgetVars
  /\ UNCHANGED <<diskVars, stage, gatewayVars, historyVars>>

\* The result is put on disk: complete_turn, or the shard's terminal.  A different one that is
\* there already stops the run.
Seal(p) ==
  LET result == [answer |-> answer[p], charge |-> charge[p]] IN
  /\ stage[p] = "sealing"
  /\ IF sealed[job[p]] \notin {None, result}
       THEN Leave(p) /\ UNCHANGED sealed
       ELSE /\ sealed' = [sealed EXCEPT ![job[p]] = result]
            /\ GoTo(p, IF job[p] \in MainJobs THEN "batch" ELSE "relations")
            /\ job' = [job EXCEPT ![p] = None]
            /\ tries' = [tries EXCEPT ![p] = 0]
            /\ charge' = [charge EXCEPT ![p] = 0]
            /\ answer' = [answer EXCEPT ![p] = "failed"]
            /\ UNCHANGED <<lock, budgetVars, calls>>
  /\ UNCHANGED <<begun, terminal, batch, relations, receipt, historyVars>>

----------------------------------------------------------------------------
\* Any step of a run may raise: the run leaves in order.
Abort(p) ==
  /\ stage[p] # "idle"
  /\ Leave(p)
  /\ UNCHANGED <<begun, sealed, terminal, batch, relations, receipt, historyVars>>

\* The process dies: the lock stays.
Crash(p) ==
  /\ stage[p] # "idle"
  /\ Exit(p)
  /\ UNCHANGED <<diskVars, historyVars>>

\* The operator has seen that the lock's owner is gone, and removes it.
RemoveLock ==
  /\ lock
  /\ \A p \in Procs : stage[p] = "idle"
  /\ lock' = FALSE
  /\ UNCHANGED <<begun, sealed, terminal, batch, relations, receipt, stage, gatewayVars, budgetVars,
                 calls, historyVars>>

\* The main thread of a run: what it does by itself, and what it does with an answer.
Work(p) ==
  \/ VerifyCompleted(p) \/ Restore(p) \/ FindTurn(p) \/ Begin(p) \/ Conclude(p) \/ FinishBatch(p)
  \/ Score(p) \/ FindRelation(p) \/ FinishRelations(p) \/ Complete(p) \/ Attempt(p) \/ TimeOut(p)
  \/ Seal(p)

Receive(p) == \E c \in calls : Return(p, c) \/ Raise(p, c)

Next ==
  \/ \E p \in Procs : Start(p) \/ Work(p) \/ Receive(p) \/ Abort(p) \/ Crash(p)
  \/ \E c \in calls : Send(c) \/ ReturnLate(c)
  \/ RemoveLock

Spec == Init /\ [][Next]_vars

\* A run is scheduled.  The provider need not ever answer, nor is the lock ever removed.
FairSpec == Spec /\ \A p \in Procs : WF_vars(Work(p))

----------------------------------------------------------------------------
\* Properties

\* Whatever is interrupted and started again, no attempt of a request reaches the provider twice.
NeverReplayed == \A a \in Jobs \X Ordinals : asked[a] <= 1

\* All calls of all runs together cost no more than the operator approved, but for what providers
\* report beyond the reservation, which was meant to be an upper bound.
PaidWithinCeiling == paid <= Ceiling + excess

\* Only the owner of the lock works on the run.
OneExecution ==
  \A p, q \in Procs : stage[p] # "idle" /\ stage[q] # "idle" => p = q /\ lock

\* A terminal is the one that the sealed turns of its request call for, and nothing of a request
\* with a terminal is open.
TerminalsFollowTurns ==
  \A i \in Logical : terminal[i] # None =>
    /\ Decided(i)
    /\ terminal[i] = StatusOf(i)
    /\ \A t \in 1..Turns[i] : ~Unfinished(<<i, t>>)

\* A receipt is over the whole run: the batch result is of the terminals there are, none is
\* missing, every claim has a sealed relation, and nothing is open.
ReceiptIsWhole ==
  receipt # None =>
    /\ Pending = {}
    /\ receipt.batch = terminal
    /\ AllSealed
    /\ receipt.relations = Results
    /\ \A j \in Jobs : ~Unfinished(j)

\* The cost that a receipt states covers all that was paid, also for calls nobody waited for.
ReceiptCoversCost == receipt # None => paid <= receipt.cost + excess

\* Budget exhaustion stops result publication.
ExhaustionStopsPublication == stopped => receipt = None

\* A run never fails for what an earlier one has published: the place of a result that it is about
\* to publish is free, or holds what it computes again.
ResumeNeverConflicts ==
  /\ \A p \in Procs : stage[p] = "sealing" => sealed[job[p]] = None
  /\ batch # None => batch = terminal
  /\ relations # None => AllSealed /\ relations = Results
  /\ \A p \in Procs : stage[p] = "publishing" => receipt = None

\* A run that has begun ends, even when no call is ever answered.
RunsEnd == \A p \in Procs : stage[p] # "idle" ~> stage[p] = "idle"
=============================================================================
