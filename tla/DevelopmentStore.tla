--------------------------- MODULE DevelopmentStore ---------------------------
(***************************************************************************)
(* The store of the diagnosis development pilot                            *)
(* (src/src/aletheia_lab/diagnosis/_development/store.py), and processes   *)
(* that open it, execute a plan and publish the run.                       *)
(*                                                                         *)
(* A run is one directory.  It is built beside the published ones under a  *)
(* name that starts with .stage-, its files and directories are fsynced,   *)
(* and publish_staged_directory moves it to its name, which is the digest  *)
(* of its manifest: what a plan gives is always the same run.  A failed    *)
(* execution leaves a receipt, published by publish_immutable_file.        *)
(*                                                                         *)
(* There is no lock.  Whoever opens the store lists its directories and    *)
(* then looks at what it has listed; others publish in the meantime.  A    *)
(* stage whose process is dead is a directory, and nobody minds it.        *)
(***************************************************************************)
EXTENDS Naturals

CONSTANTS
  Procs,      \* processes that use the store
  Plans,      \* plans they may execute, which are as good as the runs they give
  MaxDelays,  \* length of _WINDOWS_DIRECTORY_PUBLISH_DELAYS: 5
  MaxBoots,   \* bound: power losses explored, plus one
  None

Files == {"objects", "terminal"}
Directory == [owner : Procs, files : SUBSET Files, synced : BOOLEAN]

ASSUME StoreAssumption ==
  /\ MaxDelays \in Nat
  /\ MaxBoots \in Nat
  /\ None \notin Directory \cup Plans

VARIABLES
  runs,      \* the directory each run is published as, or None
  onDisk,    \* runs whose name has reached the disk
  receipts,  \* plans with a failure receipt
  leftover,  \* a stage of publish_immutable_file lies among the receipts
  at,        \* where each process is
  plan,      \* the plan it executes
  stage,     \* the directory it builds, or None
  listed,    \* the processes whose stage it has listed, as long as that is there
  vanished,  \* processes that have listed a stage which is gone
  delays,    \* access denials a process has slept through
  faulty,    \* processes whose execution has met an error
  outcome,   \* how a process last ended
  boot,      \* boots of the machine so far
  windows    \* _IS_WINDOWS: os.rename with its retries, instead of os.replace

diskVars == <<runs, onDisk, receipts, leftover>>
viewVars == <<listed, vanished>>
machine == <<boot, windows>>
vars == <<diskVars, at, plan, stage, viewVars, delays, faulty, outcome, machine>>

Places == {"idle", "listed", "looked", "open", "executing", "staging", "moving", "comparing",
           "verifying", "failing", "linking", "unlinking"}
Outcomes == {"none", "refused", "resolved", "failed"}

TypeOK ==
  /\ runs \in [Plans -> Directory \cup {None}]
  /\ onDisk \subseteq Plans
  /\ receipts \subseteq Plans
  /\ leftover \in BOOLEAN
  /\ at \in [Procs -> Places]
  /\ plan \in [Procs -> Plans \cup {None}]
  /\ stage \in [Procs -> Directory \cup {None}]
  /\ listed \in [Procs -> SUBSET Procs]
  /\ vanished \subseteq Procs
  /\ delays \in [Procs -> 0..MaxDelays]
  /\ faulty \subseteq Procs
  /\ outcome \in [Procs -> Outcomes]
  /\ boot \in Nat
  /\ windows \in BOOLEAN

Init ==
  /\ runs = [r \in Plans |-> None]
  /\ onDisk = {}
  /\ receipts = {}
  /\ leftover = FALSE
  /\ at = [p \in Procs |-> "idle"]
  /\ plan = [p \in Procs |-> None]
  /\ stage = [p \in Procs |-> None]
  /\ listed = [p \in Procs |-> {}]
  /\ vanished = {}
  /\ delays = [p \in Procs |-> 0]
  /\ faulty = {}
  /\ outcome = [p \in Procs |-> "none"]
  /\ boot = 1
  /\ windows \in BOOLEAN

GoTo(p, place) == at' = [at EXCEPT ![p] = place]

\* The process leaves; it holds nothing any more.
End(p, how) ==
  /\ at' = [at EXCEPT ![p] = "idle"]
  /\ plan' = [plan EXCEPT ![p] = None]
  /\ listed' = [listed EXCEPT ![p] = {}]
  /\ vanished' = vanished \ {p}
  /\ delays' = [delays EXCEPT ![p] = 0]
  /\ faulty' = faulty \ {p}
  /\ outcome' = [outcome EXCEPT ![p] = how]

----------------------------------------------------------------------------
\* Opening the store, and list_runs: verify_integrity

\* A directory holds a whole run: verify_run finds the terminal, the manifest and every object.
Whole(d) == d.files = Files

\* The directory of the runs is listed.  A process may do that again, in list_runs.
List(p) ==
  /\ at[p] \in {"idle", "open"}
  /\ listed' = [listed EXCEPT ![p] = {q \in Procs : stage[q] # None}]
  /\ GoTo(p, "listed")
  /\ outcome' = [outcome EXCEPT ![p] = "none"]
  /\ UNCHANGED <<diskVars, plan, stage, vanished, delays, faulty, machine>>

\* Each entry is looked at: a stage must be a directory, a run must be whole.
LookAtRuns(p) ==
  /\ at[p] = "listed"
  /\ IF p \in vanished \/ \E r \in Plans : runs[r] # None /\ ~Whole(runs[r])
       THEN End(p, "refused")
       ELSE /\ GoTo(p, "looked")
            /\ listed' = [listed EXCEPT ![p] = {}]
            /\ UNCHANGED <<plan, vanished, delays, faulty, outcome>>
  /\ UNCHANGED <<diskVars, stage, machine>>

\* A file that is to become a receipt, or never will: it has no receipt's name.
Temporary == leftover \/ \E p \in Procs : at[p] \in {"linking", "unlinking"}

\* The receipts are listed and read.
LookAtReceipts(p) ==
  /\ at[p] = "looked"
  /\ IF Temporary
       THEN End(p, "refused")
       ELSE GoTo(p, "open") /\ UNCHANGED <<plan, listed, vanished, delays, faulty, outcome>>
  /\ UNCHANGED <<diskVars, stage, machine>>

\* The process has what it wants: a run to audit.
Close(p) ==
  /\ at[p] = "open"
  /\ End(p, "none")
  /\ UNCHANGED <<diskVars, stage, machine>>

----------------------------------------------------------------------------
\* run_development_pilot and publish

\* The whole matrix of a plan is executed, in memory.
Execute(p, r) ==
  /\ at[p] = "open"
  /\ plan' = [plan EXCEPT ![p] = r]
  /\ GoTo(p, "executing")
  /\ UNCHANGED <<diskVars, stage, viewVars, delays, faulty, outcome, machine>>

\* mkdtemp
MakeStage(p) ==
  /\ at[p] = "executing"
  /\ stage' = [stage EXCEPT ![p] = [owner |-> p, files |-> {}, synced |-> FALSE]]
  /\ GoTo(p, "staging")
  /\ UNCHANGED <<diskVars, plan, viewVars, delays, faulty, outcome, machine>>

\* The objects are written, then the terminal.
WriteFile(p, f) ==
  /\ at[p] = "staging"
  /\ f \notin stage[p].files
  /\ f = "terminal" => "objects" \in stage[p].files
  /\ stage' = [stage EXCEPT ![p].files = @ \cup {f}]
  /\ UNCHANGED <<diskVars, at, plan, viewVars, delays, faulty, outcome, machine>>

\* The stage has got another name, or is removed: who has listed it will miss it.
StageGone(p) ==
  /\ stage' = [stage EXCEPT ![p] = None]
  /\ vanished' = vanished \cup {q \in Procs : p \in listed[q]}
  /\ listed' = [q \in Procs |-> listed[q] \ {p}]

\* Mutant: the directories of the stage are not fsynced.
LookUnsynced(p) ==
  /\ at[p] = "staging"
  /\ Whole(stage[p])
  /\ IF runs[plan[p]] = None
       THEN GoTo(p, "moving") /\ UNCHANGED <<stage, viewVars>>
       ELSE GoTo(p, "comparing") /\ StageGone(p)
  /\ UNCHANGED <<diskVars, plan, delays, faulty, outcome, machine>>

\* fsync_directory_tree, which does nothing on Windows; then publish_staged_directory looks for
\* the destination.
SyncAndLook(p) ==
  /\ at[p] = "staging"
  /\ Whole(stage[p])
  /\ IF runs[plan[p]] = None
       THEN /\ GoTo(p, "moving")
            /\ stage' = [stage EXCEPT ![p].synced = ~windows]
            /\ UNCHANGED viewVars
       ELSE GoTo(p, "comparing") /\ StageGone(p)
  /\ UNCHANGED <<diskVars, plan, delays, faulty, outcome, machine>>

\* Or it stays, and nobody works on it any more.
StageStays(p) ==
  /\ stage' = [stage EXCEPT ![p] = None]
  /\ listed' = [q \in Procs |-> listed[q] \ {p}]
  /\ UNCHANGED vanished

\* Mutant: what is there by now is replaced, as it would be if it were a file.
MoveOver(p) ==
  /\ at[p] = "moving"
  /\ runs' = [runs EXCEPT ![plan[p]] = stage[p]]
  /\ onDisk' = onDisk \ {plan[p]}
  /\ StageGone(p)
  /\ GoTo(p, "verifying")
  /\ UNCHANGED <<receipts, leftover, plan, delays, faulty, outcome, machine>>

\* The stage gets the name of its run.
Move(p) ==
  /\ at[p] = "moving"
  /\ runs[plan[p]] = None
  /\ runs' = [runs EXCEPT ![plan[p]] = stage[p]]
  /\ onDisk' = onDisk \ {plan[p]}
  /\ StageGone(p)
  /\ GoTo(p, "verifying")
  /\ UNCHANGED <<receipts, leftover, plan, delays, faulty, outcome, machine>>

\* Mutant: the destination is there, and that is an error on every platform.
MoveFailsOnExisting(p) ==
  /\ at[p] = "moving"
  /\ runs[plan[p]] # None
  /\ StageGone(p)
  /\ GoTo(p, "failing")
  /\ UNCHANGED <<diskVars, plan, delays, faulty, outcome, machine>>

\* Another process was faster.  Windows says FileExistsError; os.replace says that the directory
\* is not empty, which is none, and the publication fails.
MoveFindsExisting(p) ==
  /\ at[p] = "moving"
  /\ runs[plan[p]] # None
  /\ StageGone(p)
  /\ GoTo(p, IF windows THEN "comparing" ELSE "failing")
  /\ UNCHANGED <<diskVars, plan, delays, faulty, outcome, machine>>

\* Mutant: once used up, the delays start again from the first.
DelayForEver(p) ==
  /\ at[p] = "moving"
  /\ windows
  /\ runs[plan[p]] = None
  /\ delays' = [delays EXCEPT ![p] = (@ + 1) % (MaxDelays + 1)]
  /\ UNCHANGED <<diskVars, at, plan, stage, viewVars, faulty, outcome, machine>>

\* A transient access denial, while a delay is left.
MoveDenied(p) ==
  /\ at[p] = "moving"
  /\ windows
  /\ runs[plan[p]] = None
  /\ delays[p] < MaxDelays
  /\ delays' = [delays EXCEPT ![p] = @ + 1]
  /\ UNCHANGED <<diskVars, at, plan, stage, viewVars, faulty, outcome, machine>>

\* The run that is there has this terminal: it is of the same manifest.
Compare(p) ==
  /\ at[p] = "comparing"
  /\ GoTo(p, IF "terminal" \in runs[plan[p]].files THEN "verifying" ELSE "failing")
  /\ UNCHANGED <<diskVars, plan, stage, viewVars, delays, faulty, outcome, machine>>

\* verify_run, before the terminal is returned.
Verify(p) ==
  /\ at[p] = "verifying"
  /\ IF Whole(runs[plan[p]])
       THEN End(p, "resolved")
       ELSE GoTo(p, "failing") /\ UNCHANGED <<plan, viewVars, delays, faulty, outcome>>
  /\ UNCHANGED <<diskVars, stage, machine>>

\* A step of the execution raises, the last denied move included.  The stage is removed, unless
\* that fails too.
Fault(p) ==
  /\ at[p] \in {"executing", "staging", "moving", "comparing", "verifying"}
  /\ faulty' = faulty \cup {p}
  /\ StageGone(p) \/ StageStays(p)
  /\ GoTo(p, "failing")
  /\ UNCHANGED <<diskVars, plan, delays, outcome, machine>>

----------------------------------------------------------------------------
\* record_failure

\* The receipt is there already, or is written to a file beside it.
Record(p) ==
  /\ at[p] = "failing"
  /\ \/ plan[p] \in receipts /\ End(p, "failed")
     \/ GoTo(p, "linking") /\ UNCHANGED <<plan, viewVars, delays, faulty, outcome>>
  /\ UNCHANGED <<diskVars, stage, machine>>

\* The file is linked to the receipt's name.
Link(p) ==
  /\ at[p] = "linking"
  /\ receipts' = receipts \cup {plan[p]}
  /\ GoTo(p, "unlinking")
  /\ UNCHANGED <<runs, onDisk, leftover, plan, stage, viewVars, delays, faulty, outcome, machine>>

\* Its first name is removed.
Unlink(p) ==
  /\ at[p] = "unlinking"
  /\ End(p, "failed")
  /\ UNCHANGED <<diskVars, stage, machine>>

\* Recording the failure fails.  The file is removed, unless that is what failed.
RecordFault(p) ==
  /\ at[p] \in {"failing", "linking", "unlinking"}
  /\ leftover' = (leftover \/ at[p] = "unlinking")
  /\ End(p, "failed")
  /\ UNCHANGED <<runs, onDisk, receipts, stage, machine>>

----------------------------------------------------------------------------
\* A process dies, or is interrupted: publish does not catch that.  A stage stays, and so does
\* the file beside the receipts.
Crash(p) ==
  /\ at[p] # "idle"
  /\ leftover' = (leftover \/ at[p] \in {"linking", "unlinking"})
  /\ at' = [at EXCEPT ![p] = "idle"]
  /\ plan' = [plan EXCEPT ![p] = None]
  /\ stage' = [stage EXCEPT ![p] = None]
  /\ listed' = [q \in Procs |-> IF q = p THEN {} ELSE listed[q] \ {p}]
  /\ vanished' = vanished \ {p}
  /\ delays' = [delays EXCEPT ![p] = 0]
  /\ faulty' = faulty \ {p}
  /\ outcome' = [outcome EXCEPT ![p] = "none"]
  /\ UNCHANGED <<runs, onDisk, receipts, machine>>

\* The operating system writes the directory of the runs back, whenever it likes.
WriteBack(r) ==
  /\ runs[r] # None
  /\ r \notin onDisk
  /\ onDisk' = onDisk \cup {r}
  /\ UNCHANGED <<runs, receipts, leftover, at, plan, stage>>
  /\ UNCHANGED <<viewVars, delays, faulty, outcome, machine>>

\* What a power loss may leave of a directory: what was not fsynced may be gone.
Remains(d) == {[d EXCEPT !.files = F] : F \in IF d.synced THEN {d.files} ELSE SUBSET d.files}

\* A power loss: every process ends, and names that were not on disk may be lost.
PowerLoss ==
  /\ boot < MaxBoots
  /\ boot' = boot + 1
  /\ UNCHANGED windows
  /\ runs' \in [Plans -> Directory \cup {None}]
  /\ \A r \in Plans :
       \/ runs[r] = None /\ runs'[r] = None
       \/ runs[r] # None /\ runs'[r] \in Remains(runs[r])
       \/ r \notin onDisk /\ runs'[r] = None
  /\ onDisk' = {r \in Plans : runs'[r] # None}
  /\ receipts' \in SUBSET receipts
  /\ leftover' \in {leftover, Temporary}
  /\ at' = [p \in Procs |-> "idle"]
  /\ plan' = [p \in Procs |-> None]
  /\ stage' = [p \in Procs |-> None]
  /\ listed' = [p \in Procs |-> {}]
  /\ vanished' = {}
  /\ delays' = [p \in Procs |-> 0]
  /\ faulty' = {}
  /\ outcome' = [p \in Procs |-> "none"]

\* What a process does by itself.
Work(p) ==
  \/ LookAtRuns(p) \/ LookAtReceipts(p)
  \/ MakeStage(p) \/ (\E f \in Files : WriteFile(p, f)) \/ SyncAndLook(p)
  \/ Move(p) \/ MoveFindsExisting(p) \/ MoveDenied(p) \/ Compare(p) \/ Verify(p)
  \/ Record(p) \/ Link(p) \/ Unlink(p)

Next ==
  \/ \E p \in Procs :
       \/ List(p) \/ Close(p) \/ (\E r \in Plans : Execute(p, r)) \/ Work(p)
       \/ Fault(p) \/ RecordFault(p) \/ Crash(p)
  \/ \E r \in Plans : WriteBack(r)
  \/ PowerLoss

Spec == Init /\ [][Next]_vars

\* A process is scheduled, unless it dies.
FairSpec == Spec /\ \A p \in Procs : WF_vars(Work(p))

----------------------------------------------------------------------------
\* Properties

\* Whatever is published is whole, however processes overlap and die, and after a power loss where
\* directories can be fsynced: a store never has to be repaired for one of its runs.
RunsAreWhole == ~windows => \A r \in Plans : runs[r] # None => Whole(runs[r])

\* "It ... cannot overwrite a conflicting directory": within a boot a published run stays the
\* directory it is, although the look for the destination and the move are two steps.
RunsStay == [][\A r \in Plans : runs[r] # None /\ boot' = boot => runs'[r] = runs[r]]_vars

\* "Repeated execution with identical authorities is idempotent: it resolves to the same run
\* identifier": an execution fails only if one of its steps met an error, at least where a move
\* says what it has found.
RepeatsResolve == windows => \A p \in Procs : at[p] = "failing" => p \in faulty

\* An execution that has begun ends.
ExecutionsEnd == \A p \in Procs : at[p] = "executing" ~> at[p] = "idle"
=============================================================================
