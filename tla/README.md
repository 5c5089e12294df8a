# Aletheia Lab: TLA+ models, model checks and proofs

Aletheia Lab is a Python program that imports machine-learning projects, keeps immutable
evidence about them, asks model providers questions under strict accounting rules and publishes
what it found.  Nearly everything it stores is immutable, so its correctness is about *who wins*
when two writers meet, *what is left* when a process dies, and *what may be said* about a
provider call that nobody can take back.  This directory models those parts in TLA+, checks them
with TLC on small instances and proves the most important statements with TLAPS for all.

Paths below are relative to `src/src/aletheia_lab/` unless they begin with `docs/`.

## 1. The system's components

| Component | State | Operations | What is hard | Modelled |
|---|---|---|---|---|
| Immutable publication (`filesystem.py`) | one path in a directory, private stages beside it | `publish_immutable_file`, `publish_staged_directory` | races on the path, scanners that deny the link, crashes, power loss | yes |
| P3 project store (`project/persistence.py`) | object files by digest, SQLite index and records | `persist`, purge plan / commit / unlink, verify | files and rows are changed at different times | yes |
| Product lifecycle (`product/lifecycle.py`, `lifecycle_schema.py`) | previews, states, results, pointers, confirmations, tombstones | put/confirm/refresh/list | stale reads committed late | yes |
| Product deletion (`product/deletion.py`) | the tombstone of a project | plan, commit, unlink, complete, resume | dies anywhere and is resumed, perhaps twice | yes |
| Product service (`product/service.py`, `imports.py`, `refresh.py`, `results.py`) | none of its own | preview, confirm, refresh, analyse, delete | composes the three above in long calls | yes |
| Dashboard bridge (`dashboard/bridge.py`) | one HTTP server | one service call at a time | - | as the constant `OneAtATime` |
| Attempt store (`evaluation/_attempt_store/`) | one ledger per request, objects, terminal index | prepare, start, attempt, response, outcome, closeout, terminal | several runs, replays, crashes between events | yes, but for `record_failure` |
| Live execution (`evaluation/claim_corpus_live.py`) | none of its own | check the request's state, call the gateway, record | being started again after a crash | the store operations of one request |
| Model gateway (`model_gateway/runtime.py`) | attempts of one execution, adapter threads | `execute_gateway_request` | threads that cannot be stopped, cancellation | yes |
| Provider adapters (`model_gateway/openai.py`, `fake.py`) | network | `invoke` | late, wrong or no answers | as the gateway's environment |
| Diagnosis main pipeline (`diagnosis/main_pipeline.py`, `main_runtime.py`, `_main_runtime_store.py`, `_main_pipeline_budget.py`, `_main_pipeline_relations.py`) | one run directory with a lock, turns, terminals and results; a budget in memory shared by threads | execute: restore, ask for turns, seal, score, publish a receipt | dies anywhere and is started again; calls that nobody waits for any more still cost money | yes, but for authorization and reports |
| Technical recovery (`diagnosis/main_technical_recovery.py`, `main_recovery_scoring.py`) | a second run directory | one more round over failed requests | as above, without a lock | planned |
| Load receipts (`evaluation/model_load_attempt_retention.py`, `model_load_contract.py`, `model_load_evidence_analysis.py`) | receipts in SQLite, their life in memory | register, submit, release, settle, drain, snapshot; two deciders | deliveries late, again and contradictory; transactions that fail; what a selection may drop | yes |
| Load harnesses (`evaluation/model_load_runtime.py`, ..., `audit_stage_journal.py`) | journals | drivers and reports | threads | planned |
| Development store (`diagnosis/_development/store.py`, `runner.py`) | one directory per run, failure receipts, stages beside both | open, list, publish, record a failure | nobody locks: stages come and go while others look; deaths, power loss | yes, but for the audit |
| Evidence store (`evidence/store.py`) | one directory of bundles | publish, load | staged directory | planned |
| Project import and comparison, product analysis and reports | none | functions of loaded records | - | no: pure |
| Evaluation and benchmark studies | frozen protocols, leases | validation and reporting | leases | no; their leases rest on `SingleCreator` |
| Data, baseline, governance, reporting | none worth speaking of | sequential scripts | - | no |

How they interact: the product service calls the lifecycle store and the P3 store, which share
one SQLite file and hence transactions; both use `publish_immutable_file` for object files.  The
live execution calls the attempt store and the gateway; the attempt store publishes every entry,
object and terminal through `publish_immutable_file`; the gateway calls an adapter in a thread of
its own and talks to it through a queue.  The diagnosis pipeline calls the gateway once per turn,
through an adapter that reserves and settles the budget, and keeps its turns in files of its own
and its relation requests in an attempt store.  There are no other messages between processes: all
concurrency is about the file system, SQLite's write lock, threads and queues.

What makes each correct: publication is *write once*; the product store never lets a deleted
project come back, keeps its index equal to what its records refer to and never loses a file that
another project uses; the attempt ledger is one legal chain of one run's result, each attempt
counted once; the gateway always returns, with a result that accounts for every call it made; the
diagnosis run never pays for a request twice, stays within what was approved and publishes only
what is complete, however often it is interrupted; the receipt store answers every registered
question as all receipts would, until it expires them exactly at the horizon; a published
development run is whole and stays what it is, and executing its plan again comes to it.

## 2. Modules

| Module | Role |
|---|---|
| `WriteOnceFile` | abstract: a value that is installed once per boot, and true answers about it |
| `ImmutablePublication` | `publish_immutable_file`, step by step; implements `WriteOnceFile` |
| `ImmutablePublicationProofs` | its theorems |
| `ProjectStore` | state and operations of the P3 store |
| `ProductLifecycle` | state and operations of the product tables, on top of `ProjectStore` |
| `ProductService` | the service's calls, interleaved over both; composes the two modules above |
| `ProductServiceProofs` | its theorems |
| `ProjectLife` | abstract: a project is imported once, refreshed in a line, deleted for good |
| `AttemptLedger` | abstract: a request's events come one at a time, in order, of one run |
| `AttemptStore` | the store's operations and the runs that use them; implements `AttemptLedger` |
| `AttemptStoreProofs` | its theorems |
| `ModelGateway` | one execution, its attempts and their threads |
| `ModelGatewayProofs` | its theorems |
| `MainPipeline` | runs of the diagnosis study, their calls, the budget and what is on disk |
| `MainPipelineProofs` | its theorems |
| `LoadEvidence` | receipts, contracts, and the two deciders, as operators |
| `LoadEvidenceProofs` | the deciders agree; verdicts stand when receipts are added |
| `AttemptReceipts` | the receipt store and its static selection, on top of `LoadEvidence` |
| `AttemptReceiptsProofs` | its theorems |
| `DevelopmentStore` | the development store, `publish_staged_directory`, and processes that use them |
| `DevelopmentStoreProofs` | its theorems |
| `MC...` | instances for TLC: symmetry sets and the contents of the two example projects |

Definitions whose comment begins with "Mutant:" are wrong on purpose.  They are not used: each is
a plausible slip in the definition after it, and replacing that definition by it makes the
property listed beside it in `PROJECT.json` fail.

### 2.1 Publication

`pc[c]` is the line a call of `publish_immutable_file` has reached: *idle* (the first look at the
path), *staging* (bytes written, `os.fsync` next), *linking* (`_link_staged_file`), *unstaging*
(the `finally` clause), *verifying* (the read-back).  A stage and the final path are names of one
inode, so the model keeps one inode per call (`inode`) and lets `dest` name one.  `LinkCreates`,
`LinkFindsExisting`, `LinkRetries` and `LinkRefused` are the outcomes of `os.link`;
`MaxDelays = 0` is POSIX, where an access denial is raised at once.  `Crash` may happen between
any two steps.  `PowerLoss` stops everybody, tears bytes that were not fsynced and may lose the
directory entry, since the code fsyncs the file but never the directory: whatever is promised
about a path is promised *per boot*.

### 2.2 The product store

One record of the model, a *generation*, stands for the import bundle, snapshot and comparison
records that one import or refresh commits together, and for the product state that names them.
Its artifacts are the imported files, which other generations may share.  Each service call is cut
where the code releases SQLite's write lock or touches object files:

* confirm: `ConfirmBegin` (reads), `OpenToPersist` (open, which verifies), one `PublishObject` per
  file (no transaction), `ConfirmCommit` (the transaction with all its guards), `VerifyCommit`;
* refresh: the same shape, `RefreshBegin` to `VerifyCommit`;
* analyse and follow up: `AnswerBegin` (reads a state), `PutResult` (one transaction);
* delete: `DeleteBegin` (scope, or resume from a tombstone), `PlanPurge`, `CommitPurge` (one
  transaction), `VerifyPurge`, `ReconcileFiles` (unlinks under the write lock; `DieUnlinking`
  is a death half way), `FinishCheck` (the reads) and `CompleteDeletion` (the writes);
* `Preview` is a single transaction.

`Abandon` ends a call at any of these points: its process dies, or a check on the source tree, the
mapping or the lease refuses, or an I/O error is raised.  What has been committed stays.

Simplifications, each without effect on what is claimed: capture timestamps of different calls
differ, so a call's name is its timestamp; leases are a reason to abandon and not a clock; the
tombstone's `deleted_count` is determined by its purge list and is left out; the reads of
`FinishCheck` are one step, because nothing can add rows to a project that has a tombstone
(`NoResurrection`); object files left by a refused or dead persist are in no purge list, so
`CompletedWhenAbsent` says nothing about them.

### 2.3 The attempt store

One request.  `ledger` is the sequence of published entries, `terminal` the terminal index,
`objects` the referenced files, `dir` the two nested directories.  Each run walks through the
events of `Chain`, and for each event through the stages of `Route`: verify the whole store, list
and load (`List`, then `Guard` or `AppendEvent`, which look for the terminal only now), write the
object, list again, make the directory, publish at the number after the listed entries, look again
if somebody else was faster, and verify once more for the receipt.  `Execute` is the provider call
after `started`.  A run that is not `Checked` may also record the result of another run again:
that is a replay.  `Checked` is the live execution, which first looks at the request's state.

Simplifications: an entry's time stamps are left out (the store answers an identical and a
conflicting file alike: it loads again and looks for the event); parsed payload and issue stand
with the result object, which is written in the same operation; a live shard holds one request, so
the store is modelled for one; objects of different runs differ.  `record_failure` has no caller.
Other drivers of the store (`evaluation/claim_corpus_recovery_run.py:260`, guarded by a lease, and
`evaluation/claim_relation_execution.py:526`) use the same operations in the same order.

### 2.4 The gateway

`stage` is the position of `execute_gateway_request`; `calls` are the adapter threads, `outbox`
their queues.  `CallAdapter` starts a thread, `Reply` is the thread putting its answer, at any
later time or never, `TakeReply`, `DeadlinePasses` and `CancelWhileWaiting` are the three ends of
`_invoke_with_deadline`; `AdapterRaised`, `CheckResponse`, `Accept` and `Backoff` are the branches
after it.  Times are abstracted: any call's deadline may pass at any step, and a response may be
found late by the gateway's clock (`slow`).  `Cancel` is the caller, at any step.

### 2.5 The diagnosis pipeline

`stage[p]` is where the main thread of a process is: *restoring* (lock taken, budget restored),
*batch* (`_run_batch` and `run_main_logical_request`), *opening* (a request is about to be put on
disk), *gateway*, *waiting*, *sealing*, *scoring*, *relations*, *publishing*.  A job `<<i, t>>` is
turn `t` of logical request `i`, `<<i, 0>>` the relation request of the claim it made.  What is on
disk is kept by name: `begun` (requests), `sealed` (results), `terminal`, `batch`, `relations`,
`receipt` and `lock`.  `calls` are the adapter threads: `Attempt` reserves and starts one, `Send`
is the moment the provider has the call and will be paid, `Return`, `Raise` and `TimeOut` are how
the gateway learns of it, `ReturnLate` is a call that nobody waits for.  `Abort` is an exception
anywhere, which releases the lock, `Crash` a death, which does not, and `RemoveLock` the operator.
`asked`, `paid`, `excess` and `stopped` are history: they count what really happened, also in
processes that are gone.

Simplifications: the gateway appears here by what it records of an attempt and with what cost
(`ModelGateway` has its inside); reserving and starting the thread are one step; an envelope that
is refused (late, foreign) leaves a record without usage, which a restart charges with the full
reservation; the exception of `main_pipeline.py:724`, the budget check between the relation results
and the receipt, is in `FinishRelations`; files published half way by a dying process are
`ImmutablePublication`'s subject.

### 2.6 Load receipts

`LoadEvidence` has receipts as records, and everything `admit` does as predicates over a set of
them: `Contradictory`, `OutOfBounds`, `Misjoined` and `RootProblem` are its ways to a problem,
`Expected` and `RuleViolation` its frame.  `ReceiptChecker` is `receipt_checker` and
`CompletionMonitor` is `completion_monitor`, which quantifies over the histories of `Completions`.
Reasons, which nobody branches on, and cache hits, which decide nothing, are left out.

`AttemptReceipts` has one action per method of `AttemptReceiptStore`, and a second one for each
that can fail at SQLite: `SubmitFails`, `ReleaseFails` and `DrainFails` change the memory the code
has changed by then, and leave the table alone.  `Snapshot` is what `snapshot` returns.
`delivered` is history: what producers were told has arrived.  The clauses with `failures = 0` say
what holds as long as no transaction fails; the others hold always.

### 2.7 The development store

`at[p]` is where a process is: *listed* and *looked* are the halves of `verify_integrity`, which
opens the store and begins `list_runs`; *executing* is `run_development_pilot` in memory; *staging*
(`WriteFile`, then `SyncAndLook`), *moving*, *comparing* and *verifying* are `publish`; *failing*,
*linking* and *unlinking* are `record_failure`.  `runs[r]` is the directory that plan `r` is
published as: a run's name is the digest of its manifest and the executor is deterministic, so a
plan stands for its run.  `listed` and `vanished` remember which stages a process has listed, and
that one of them is gone.  `Move`, `MoveFindsExisting` and `MoveDenied` are the outcomes of the
rename: `windows`, which a behaviour chooses at its start, says how an existing destination is
reported, whether there are retries, and whether `fsync_directory_tree` does anything.  `Fault` is
an error of any step, whose clean-up may fail as well, `Crash` a death or an interruption, which
`publish` does not catch, `PowerLoss` as in 2.1.

Simplifications: the objects of a run are one file of the model; a plan has one failure receipt,
though receipts of different errors have different names; a receipt's publication, modelled in full
by `ImmutablePublication`, appears by what it leaves in `failures/`; a run that a power loss has
damaged stays damaged, as nothing in the code repairs it.

## 3. Runs

| Run | Instance | What it checks |
|---|---|---|
| `publication` | 3 calls for the same bytes, or one of them for others (`Requests`), 1 delay, 2 boots, `FairSpec` | whole bytes, one creator, true answers, implements `WriteOnceFile`; a call that has begun ends or its process dies |
| `product_concurrent` | 2 projects sharing a file, 2 versions, 3 calls of any kind, several processes | deletions final, index equals references, scopes reconcile, linear histories, implements `ProjectLife` |
| `product_serial` | the same, 5 calls, one at a time | no indexed file is lost, one deletion record, complete only when files are absent |
| `product_lost_object` | 3 calls, several processes | **violated**: finding 1 |
| `attempts` | 2 runs, 2 attempts, checked or replaying, side by side or one after the other | chain legal, attempts counted once, one result, implements `AttemptLedger`; runs that do not overlap make one provider call |
| `attempts_replay` | 2 runs, one at a time | **violated**: finding 2 |
| `attempts_crash` | 2 checked runs, one at a time | **violated**: finding 3 |
| `gateway` | 3 attempts, `FairSpec` | results valid, responses own, calls recorded, cancellation stops calls, returns |
| `diagnosis_pipeline` | 2 processes, 2 requests (two turns; none), 2 attempts, `FairSpec` | no attempt twice, cost within the ceiling, terminals and receipt true and whole, runs can resume, runs end |
| `diagnosis_budget` | 1 process, 1 attempt | **violated**: finding 4 |
| `load_receipts` | 2 requests, 7 deliveries, 4 submissions, 1 failure, horizon 1, 3 contracts | selection keeps decisions, deciders agree, retirement exact, verdicts stand, audits repeat |
| `development` | 2 processes, 1 plan, 2 delays, 3 boots, both platforms, `FairSpec` | published runs are whole and stay, repeated executions resolve, executions end |

Why the bounds are enough to make the interesting cases happen:

* Publication: two calls race, the third agrees with one and differs from the other; one denial
  reaches both the retry and the last delay; two boots cover "created again after the entry was
  lost".  The theorems remove all of these bounds.
* Product: `SharedContents` gives both projects one file; later versions add and exchange files, so
  a purge has files to unlink, to retain and to retain only because of a late commit.  Three calls
  are a writer, its rival and the project both depend on; five in a row are import, import,
  delete that dies, refresh or import, delete resumed.
* Attempts: two attempts tell a first, a last and a repeated one apart; two runs race or replay.
  (Three runs of one attempt pass as well: 1.9 million states.)
* Diagnosis: one request with a selection and a final turn, so that a selection can fail, a final
  turn can make a claim and the claim has a relation, and one without turns.  `Ceiling = 5` pays
  for all calls answered at once (2 + 2 + 1) and refuses one as soon as an attempt is repeated at
  full reservation; `Overrun = 1` lets a provider report too much.  Two processes race for the lock;
  each may die and start any number of times.
* Load receipts: the deliveries are two contradicting selections of the root, an inheriting retry,
  loads of either artifact and closures with and without a load; four submissions are enough for a
  compliant history, or for a witness, its contradiction and a duplicate.  The second request
  expires the first.  One delivery waits at a time and one transaction fails.
* Development store: a run is built, moved and found by processes of the *same* plan; other plans
  only add directories that are whole as well.  Two processes race, or one opens what the other is
  building; two power losses meet a run that was on disk and one that was not.  Two delays are a
  first and a last.  The theorems remove these bounds.
* Gateway: with three attempts two abandoned calls run beside the third.

Deadlock is checked in `diagnosis_pipeline` and for the development store: a process can always be
started again.  Everywhere
else it is not (`CHECK_DEADLOCK FALSE`), because those systems are a finite number of calls that
end: the final states are meant to have no successor.  (The receipt store ends with all requests
drained or with its budget of submissions used up.)

### Fairness

* `publication` assumes weak fairness of the steps of a call that has begun: a thread in
  the middle of a sequential function is scheduled.  No call has to begin, and a process may die.
* `gateway` assumes weak fairness of `Execute`, the gateway's own thread: its waits have
  timeouts, so it can always go on.  Nothing is assumed of adapters, which may never reply, nor of
  the caller.
* `diagnosis_pipeline` assumes weak fairness of `Work(p)`, the main thread of a process, whose only
  wait is the gateway's, with a deadline.  The provider need never answer, a call need never reach
  it, and nobody need ever start a run or remove a lock.
* `development` assumes weak fairness of `Work(p)`, a process in the middle of opening,
  publishing or recording; nobody has to open the store or execute a plan.
* The product, attempt and receipt stores get no liveness properties: nothing in the code retries a call
  that died, a user starts it again or not.

## 4. Findings

1. **Lost object** (`product_lost_object`).  A confirmation publishes its files, then opens its
   transaction.  In between, another process's deletion of a project that shared a file purges
   it: no row claims it yet.  The confirmation then commits a row without a file, and the store
   refuses to open.  With one call at a time (`product_serial`) this cannot happen.
2. **Replays are refused** (`attempts_replay`).  Documents promise that replaying identical
   events is idempotent; several operations ask what the last entry is before they look whether
   theirs is on record, and refuse.
3. **A crash makes the store unreadable** (`attempts_crash`).  A run that dies between making the
   request's directory and the ledger in it leaves a store that fails verification for good.
4. **Exhaustion is forgotten** (`diagnosis_budget`).  A provider that reports more than was
   reserved marks the budget exhausted and stops the run, as documented.  The mark is not stored: a
   run that is started again restores a cost within the ceiling, finishes and publishes a receipt
   that says the budget was not exhausted.  The ceiling itself is kept, and where no provider reports
   more than was reserved the promise is too (`ExhaustionStopsUnlessOverrun`).

Each is given with the lines of code and the text it departs from in `PROJECT.json`.

Four more disagreements were met while modelling, and are kept as notes:

* Two processes can leave two deletion records of one project.  `_complete_deletion` compares the
  stored record with the pending one (`product/deletion.py:330`) before the write transaction has
  begun (332); two resumed deletions that counted different numbers of retained files both write.
  `OneTombstone` is therefore checked for one call at a time.
* On POSIX the slower of two identical development executions can fail.  `publish_staged_directory`
  looks for the destination (`filesystem.py:176`) and then moves the stage (180): onto a directory
  that appeared in between this raises `OSError`, which is not the `FileExistsError` that `publish`
  handles (`_development/store.py:108`), and a failure is recorded for a plan whose run is published,
  where `docs/diagnosis-development-validation.md:90` promises that it resolves to that run.
  `MoveFindsExisting` models it, and `RepeatsResolve` is stated for Windows.
* An undamaged development store can be refused.  Whoever lists a stage that is moved or removed
  before he looks at it (`_development/store.py:234-237`) refuses the store; a process that dies while
  it publishes a failure receipt leaves a file in `failures/` that makes everybody refuse it
  (240-247).  `LookAtRuns` and `LookAtReceipts` model both.
* When an adapter *raises* while the caller cancels, `execute_gateway_request` reports the provider's
  failure with its metadata (`model_gateway/runtime.py:240-286`), whereas
  `docs/evaluation-readiness.md:201` promises one canonical cancelled result for every such race.
  `ModelGateway` models the code.

## 5. Theorems

All are proved by TLAPS for every value of the constants that satisfies the named assumption of
its module: reserved values (`NoFile`, `Torn`, `None`) differ from ordinary ones, limits are
natural numbers, and a source tree has finitely many files.  TLC evaluates the same assumptions in
every run.

**Publication** (`ImmutablePublicationProofs`: `TypeCorrectness`, `NeverTorn`,
`OneCreatorPerBoot`, `AnswersAreTrue`, `PublishedStays`, `Refinement`).  The properties are not
inductive: that the path never names torn bytes depends on every call being past its fsync when it
links.  `IInv` adds `InodeInv` (an inode that is named, or about to be linked, is synced, and stays
so through a power loss), `PhaseInv` (what each `pc` says about a call's disposition and outcome)
and `TruthInv` (the disposition a running call carries, or an outcome of this boot, is true of
the path now).  `Refinement` maps the link that creates to `Install`, the end of a call to
`Answer`, a power loss to `Lose`, everything else to a stutter.

**Product service** (`ProductServiceProofs`: `TypeCorrectness`, `DeletionIsFinal`,
`IndexIsExact`, `ScopesReconcile`, `HistoryIsLinear`, `Refinement`), for overlapping calls as well
as for one at a time.  The difficulty is that a call holds what it read long before it commits.
`IInv` has four parts: `IndexInv` (the index is finite and equals what the records refer to),
`RowsInv` (the two stores agree, and each project is in one of three conditions: nothing, a
deletable project, or a deletion record and nothing else), `LineInv` (the histories) and
`CallsInv`, which says what of a call's local variables is *still* true: its capture is nobody's
yet, the preview it confirms is there or its project has a deletion record, and the project whose
deletion it resumes has one for ever.  `RowsStay` shows that no step of another call can disturb
that; the rest follows from what each transaction checks again.  `Refinement` maps a
confirmation's commit to `Import`, a refresh's to `Refresh`, the purge to `BeginDeletion` and the
first completion to `FinishDeletion`.

One call at a time (`ObjectsStayOnDisk`, `OneRecordPerDeletion`, `CompletionIsTrue`, under
`OneAtATime`, which is how the dashboard calls the service).  `SerialInv` adds that one call is
running (`Alone`) and what it has done so far (`InHand`): the object files it has published are
still there, the deletion record it holds is the project's only one, and of the files it was to
purge only those are left that the index lists.  `OthersAtRest` is where the assumption is used;
without it `product_lost_object` refutes the first of the three.

**Gateway** (`ModelGatewayProofs`: `TypeCorrectness`, `ResultsAreConsistent`, `ResponsesAreOwn`,
`EveryCallIsRecorded`, `CancellationStopsCalls`).  `IInv` adds `RecordsFollow` (the records so far
are of failures that allow a retry, `ordinal - 1` of them until the attempt ends), `CallsFollow`
(which calls have begun at each stage), `ReplyIsOwn` (the reply in hand is the current
attempt's), `ResultFollows` and `LateCallIsLast` (at most one call slips past a cancellation).

**Diagnosis pipeline** (`MainPipelineProofs`: `RunsExclude`, `AttemptsAreNotReplayed`,
`TerminalsAreTrue`, `ReceiptsAreWhole`, `RunsCanResume`, and on the budget below).  The assumption is a finite census of
requests with any numbers of turns.  `IInv` says of the disk (`DiskInv`) that a sealed result has a
request before it, that a terminal is the one its sealed turns call for, and that each published
result is of the one before it; of the processes, that the one at work owns the lock and what its
`stage` says about the disk; and of the calls (`CallInv`), that each attempt has one thread or none,
and that an attempt which was sent belongs to a request on disk.  `NeverReplayed` follows because a
new attempt either has a higher ordinal than all before it or belongs to a job that had no request
at all: after a crash, the open request is never gone back to.

The budget (`RunsAreTyped`, `SpendingIsBounded`, `ReceiptsCoverCosts`) is about two sums: the charges
of the sealed attempts, which a restart adds up, and the reservations of the calls that are still
out.  What a sum over a finite set does when an element comes or goes (`TotalWithout`, `TotalWith`,
`TotalOfParts`), and that it is a recursion at all (`TotalByRecursion`), is proved by the smallest
counterexample: the library's induction theorems take operators, which no installed prover
instantiates, but the well-founded orders on numbers and subsets beneath them are sets (`WFMin`).
`BudgetInv` then says that what was paid and may yet be paid is covered three times: by the ceiling;
by what a restart would restore, with what the job at hand will be recorded to have cost; and by the
budget of the process at work.  The last fails once the cost of an open job was lost in a crash,
which is why `AccountInv` states it for a process whose own job is the only open one: others no
receipt will ever cover, since a run with an open request ends.

`ExhaustionStopsUnlessOverrun` and `CeilingIsKeptUnlessOverrun` delimit the fourth finding: with
`Overrun = 0` a study that was stopped for its budget never gets a receipt.  `StopInv` says what
stands in the way then (`Obstacle`): a job that is open and nobody's, a latched budget, or a record
whose cost is over the ceiling, which a run meets when it restores the main jobs or the relations.
That a latch leaves such a record behind needs `LatchInv`: a budget holds no more than what is, or
is about to be, on record.

**Load evidence** (`LoadEvidenceProofs`).  `DecidersAgree`: for every contract, attempt and finite
set of receipts, `CompletionMonitor` and `ReceiptChecker` return the same.  `Worlds` and
`RoomForLoads` show that the histories are never empty when the receipts are admitted; the cases of
the checker then follow from `AllBreak`, `NoneBreaks` and `SomeBreakSomeDoNot`, where two artifacts
in the domain give the wrong history that keeps a verdict unknown.  `VerdictsStay` shows what more
receipts can do to a verdict, from `ProblemsStay`, `ViolationsStay` and `ComplianceStays`.

**Load receipts** (`AttemptReceiptsProofs`: `TypesHold`, `DrainsAreComplete`, `RetirementHolds`,
`DecisionsSurviveSelection`, `SAgreesWithTAlways`, `VerdictsStand`, `AuditsRepeatable`).  `IInv`
adds to the types `Known` (rows, deliveries and settled attempts are of registered requests),
`Faithful` (as long as nothing failed, the visible rows of a live or unexpired request are exactly
the delivered receipts that the selection keeps), `Completed` (what is drained is settled and waits
for nothing), `Ranked` (drains are numbered without gaps) and `Retirement` (a number is expired
when the horizon has passed it).  `SelectorIsSufficient` shows that the frame of a question does not
change when receipts are left out that the selection would drop; the deciders read nothing else.

**Attempt store** (`AttemptStoreProofs`: `TypeCorrect`, `LedgerAlwaysReconciles`,
`AttemptsCountedOnce`, `ResultsNeverMix`, `TerminalsAreWhole`, `ProviderCalledOnce`,
`StoreImplementsLedger`, `OnlyTheEmptyDirectoryIsUnreadable`). Nothing locks the ledger between the listing a run validates against and
the link that takes the event's place, so validating is not enough. `IInv` says what makes it
enough: `LedgerInv` (the ledger is the first events of the chain of *one* result, and the terminal
stands only over a whole chain), `ObjectsInv` (each event has its object on disk), `ProgramInv`
(the events before a run's place in its own chain are in the ledger) and `StageInv` (what a run
has listed or written at each stage; where it publishes, the place it takes is the next after what
it saw, by `NextInLine`). `HistoryIs` and `StartReconciles` turn the filtered, recounted form that
the reader checks into positions of the chain. `Claims` and `Orderly` add that among runs started
one after the other only one passes the start check. `StoreImplementsLedger` maps the publication
that takes its place to `Record`, everything else to a stutter.
`OnlyTheEmptyDirectoryIsUnreadable` marks the limit of finding 3: with `DirInv` (whoever publishes
has the ledger's directory), the gap between the two `mkdir`s of a request's first event is the only
place where a death leaves a store that cannot be read.

**Development store** (`DevelopmentStoreProofs`: `TypeCorrect`, `RunsAlwaysWhole`,
`RunsNeverReplaced`, `RepeatsAlwaysResolve`).  That a published run is whole is not inductive: what
is moved must be whole, and what a power loss leaves of it too.  `IInv` adds `StageInv` (a stage that
is about to be moved is whole and, on POSIX, fsynced), `PlanInv` (whoever compares or verifies finds
a run there), `DiskInv` (on POSIX, published runs are whole and fsynced), `OpenInv` (a store that
has been opened has whole runs only, on Windows too, where a power loss may have damaged some) and
`FailInv` (on Windows only an error makes an execution fail).  `RunsAreWhole` is about POSIX and
`RepeatsResolve` about Windows: the other halves are false (a power loss where directories cannot be
fsynced, and the second note in section 4).

`TypeOK` of `MainPipeline` is checked by a run, too; the other type invariants are only proved.

Only model-checked: liveness (`CallsEnd`, `Returns`, `RunsEnd`, `ExecutionsEnd`), which is out of the
prover's reach.  Every other property of a passing run is stated by a theorem.

## 6. Not modelled, and why

* The evidence store and the other users of `publish_staged_directory`: planned.  Some
  of them, the evidence store too, do without the fsync of the tree: `RunsAreWhole` says nothing of
  those.
* Migrations, two processes that create one schema, and hash columns: one-time conversions and
  redundancy checks.
* The clock of a preview's lease (`product/imports.py:301`): an expired lease is one of the refusals
  of `Abandon`.
* A project store that is verified while a purge unlinks (`project/persistence.py:670`) may raise
  spuriously.  The model verifies in one step; only the answer of one call is affected.
* Detection of altered bytes: nobody alters bytes in these models; the checks that would notice
  are modelled only where the code's own steps can make them fail.
* Sequential, pure parts (import, comparison, analysis, reports, studies): unit tests reach them.
* HTTP, sessions, the web client and provider networking: I/O.
* Two concurrent live executions of one request call the provider twice, as nothing in the code
  excludes it (`prepare` and `start` answer both).  `OneProviderCall` is therefore stated for
  behaviours whose runs do not overlap (`orderly`); the store still keeps a single result
  (`OneResult`).
* Technical recovery of the main study and the stage journals: next in the plan.
* The frozen studies, benchmarks and reports, by far the largest part of the sources, are sequential
  validation and reporting over immutable inputs: they have no interleaving, and what they compute
  from data is the subject of their unit tests.

## 7. Plan

Done, in the order of importance: publication (everything rests on it), the product store, the
attempt store, the gateway, the diagnosis pipeline with its budget, the load receipts, the
development store with the publication of directories.  Next:

1. Technical recovery: `main_recovery_scoring.py` on top of `MainPipeline`'s budget, with two
   operators and no lock.
2. The evidence store, on the publication of directories in `DevelopmentStore`.
3. `StageJournal` (`audit_stage_journal.py`).
