------------------------ MODULE DevelopmentStoreProofs ------------------------
(***************************************************************************)
(* The development store, for any number of processes, plans and power     *)
(* losses: only a whole stage is ever moved, and where directories can be  *)
(* fsynced only one that is on disk, so that whoever comes second, or      *)
(* later, finds a whole run.                                               *)
(***************************************************************************)
EXTENDS DevelopmentStore, TLAPS

\* A process has a stage while it builds one, and moves it only when it is whole and, where that
\* can be, on disk.
StageInv(p) ==
  /\ stage[p] # None <=> at[p] \in {"staging", "moving"}
  /\ at[p] = "moving" => Whole(stage[p]) /\ stage[p].synced = ~windows

\* It executes a plan from then on, and compares or verifies a run that is there.
PlanInv(p) ==
  /\ at[p] \in {"executing", "staging", "moving", "comparing", "verifying", "failing", "linking",
                "unlinking"} => plan[p] # None
  /\ at[p] \in {"comparing", "verifying"} => runs[plan[p]] # None

\* Where os.rename says what it has found, only an error makes an execution fail.
FailInv(p) == windows /\ at[p] = "failing" => p \in faulty

AllWhole == \A r \in Plans : runs[r] # None => Whole(runs[r])

\* A store that has been opened has whole runs only, even after a power loss.
OpenInv(p) == at[p] \notin {"idle", "listed"} => AllWhole

DiskInv == ~windows => \A r \in Plans : runs[r] # None => Whole(runs[r]) /\ runs[r].synced

\* The inductive invariant.
IInv ==
  /\ TypeOK
  /\ DiskInv
  /\ \A p \in Procs : StageInv(p) /\ PlanInv(p) /\ OpenInv(p) /\ FailInv(p)

----------------------------------------------------------------------------
\* The invariant holds at the start.
LEMMA Starts == Init => IInv
<1> SUFFICES ASSUME Init PROVE IInv
  OBVIOUS
<1>1. TypeOK
  <2>1. delays \in [Procs -> 0..MaxDelays]
    BY StoreAssumption DEF Init
  <2>2. at \in [Procs -> Places] /\ outcome \in [Procs -> Outcomes]
    BY DEF Init, Places, Outcomes
  <2>3. leftover \in BOOLEAN /\ boot \in Nat
    BY DEF Init
  <2>4. QED
    BY <2>1, <2>2, <2>3 DEF Init, TypeOK
<1>2. DiskInv
  BY DEF Init, DiskInv
<1>3. \A p \in Procs : StageInv(p) /\ PlanInv(p) /\ OpenInv(p) /\ FailInv(p)
  BY DEF Init, StageInv, PlanInv, OpenInv, AllWhole, FailInv
<1>4. QED
  BY <1>1, <1>2, <1>3 DEF IInv

\* Listing the runs keeps the invariant.
LEMMA ListSteps ==
  ASSUME IInv, NEW p \in Procs, List(p)
  PROVE  IInv'
<1> USE StoreAssumption DEF IInv, diskVars, viewVars, machine
<1>1. TypeOK'
  BY DEF TypeOK, StageInv, Places, Outcomes, Directory, List, GoTo
<1>2. DiskInv'
  BY DEF TypeOK, DiskInv, StageInv, PlanInv, List, GoTo
<1>3. \A q \in Procs : StageInv(q)' /\ PlanInv(q)' /\ OpenInv(q)' /\ FailInv(q)'
  BY DEF TypeOK, DiskInv, StageInv, PlanInv, OpenInv, AllWhole, FailInv, Whole, Places,
         Directory, List, GoTo
<1>4. QED
  BY <1>1, <1>2, <1>3

\* Closing the store keeps the invariant.
LEMMA CloseSteps ==
  ASSUME IInv, NEW p \in Procs, Close(p)
  PROVE  IInv'
<1> USE StoreAssumption DEF IInv, diskVars, viewVars, machine
<1>1. TypeOK'
  BY DEF TypeOK, StageInv, Places, Outcomes, Directory, Close, End
<1>2. DiskInv'
  BY DEF TypeOK, DiskInv, StageInv, PlanInv, Close, End
<1>3. \A q \in Procs : StageInv(q)' /\ PlanInv(q)' /\ OpenInv(q)' /\ FailInv(q)'
  BY DEF TypeOK, DiskInv, StageInv, PlanInv, OpenInv, AllWhole, FailInv, Whole, Places,
         Directory, Close, End
<1>4. QED
  BY <1>1, <1>2, <1>3

\* Executing a plan keeps the invariant.
LEMMA ExecuteSteps ==
  ASSUME IInv, NEW p \in Procs, NEW r \in Plans, Execute(p, r)
  PROVE  IInv'
<1> USE StoreAssumption DEF IInv, diskVars, viewVars, machine
<1>1. TypeOK'
  BY DEF TypeOK, StageInv, Places, Outcomes, Directory, Execute, GoTo
<1>2. DiskInv'
  BY DEF TypeOK, DiskInv, StageInv, PlanInv, Execute, GoTo
<1>3. \A q \in Procs : StageInv(q)' /\ PlanInv(q)' /\ OpenInv(q)' /\ FailInv(q)'
  BY DEF TypeOK, DiskInv, StageInv, PlanInv, OpenInv, AllWhole, FailInv, Whole, Places,
         Directory, Execute, GoTo
<1>4. QED
  BY <1>1, <1>2, <1>3

\* Looking at the runs keeps the invariant.
LEMMA LookAtRunsSteps ==
  ASSUME IInv, NEW p \in Procs, LookAtRuns(p)
  PROVE  IInv'
<1> USE StoreAssumption DEF IInv, diskVars, viewVars, machine
<1>1. TypeOK'
  BY DEF TypeOK, StageInv, Places, Outcomes, Directory, LookAtRuns, End, GoTo
<1>2. DiskInv'
  BY DEF TypeOK, DiskInv, StageInv, PlanInv, LookAtRuns, End, GoTo
<1>3. \A q \in Procs : StageInv(q)' /\ PlanInv(q)' /\ OpenInv(q)' /\ FailInv(q)'
  BY DEF TypeOK, DiskInv, StageInv, PlanInv, OpenInv, AllWhole, FailInv, Whole, Places,
         Directory, LookAtRuns, End, GoTo
<1>4. QED
  BY <1>1, <1>2, <1>3

\* Looking at the receipts keeps the invariant.
LEMMA LookAtReceiptsSteps ==
  ASSUME IInv, NEW p \in Procs, LookAtReceipts(p)
  PROVE  IInv'
<1> USE StoreAssumption DEF IInv, diskVars, viewVars, machine
<1>1. TypeOK'
  BY DEF TypeOK, StageInv, Places, Outcomes, Directory, LookAtReceipts, End, GoTo
<1>2. DiskInv'
  BY DEF TypeOK, DiskInv, StageInv, PlanInv, LookAtReceipts, End, GoTo
<1>3. \A q \in Procs : StageInv(q)' /\ PlanInv(q)' /\ OpenInv(q)' /\ FailInv(q)'
  BY DEF TypeOK, DiskInv, StageInv, PlanInv, OpenInv, AllWhole, FailInv, Whole, Places,
         Directory, LookAtReceipts, End, GoTo
<1>4. QED
  BY <1>1, <1>2, <1>3

\* Making a stage keeps the invariant.
LEMMA MakeStageSteps ==
  ASSUME IInv, NEW p \in Procs, MakeStage(p)
  PROVE  IInv'
<1> USE StoreAssumption DEF IInv, diskVars, viewVars, machine
<1> DEFINE new == [owner |-> p, files |-> {}, synced |-> FALSE]
<1>1. new \in Directory /\ new # None
  <2>1. new \in Directory
    BY DEF Directory
  <2>2. QED
    BY <2>1
<1> HIDE DEF new
<1>2. stage' = [stage EXCEPT ![p] = new]
  BY DEF MakeStage, new
<1>3. TypeOK'
  BY <1>1, <1>2 DEF TypeOK, Places, MakeStage, GoTo
<1>4. DiskInv'
  BY DEF TypeOK, DiskInv, MakeStage, GoTo
<1>5. \A q \in Procs : StageInv(q)' /\ PlanInv(q)' /\ OpenInv(q)' /\ FailInv(q)'
  BY <1>1, <1>2 DEF TypeOK, StageInv, PlanInv, OpenInv, AllWhole, FailInv, Whole, MakeStage, GoTo
<1>6. QED
  BY <1>3, <1>4, <1>5

\* Writing a file of the stage keeps the invariant.
LEMMA WriteFileSteps ==
  ASSUME IInv, NEW p \in Procs, NEW f \in Files, WriteFile(p, f)
  PROVE  IInv'
<1> USE StoreAssumption DEF IInv, diskVars, viewVars, machine
<1>1. TypeOK'
  BY DEF TypeOK, StageInv, Places, Outcomes, Directory, WriteFile
<1>2. DiskInv'
  BY DEF TypeOK, DiskInv, StageInv, PlanInv, WriteFile
<1>3. \A q \in Procs : StageInv(q)' /\ PlanInv(q)' /\ OpenInv(q)' /\ FailInv(q)'
  BY DEF TypeOK, DiskInv, StageInv, PlanInv, OpenInv, AllWhole, FailInv, Whole, Places,
         Directory, WriteFile
<1>4. QED
  BY <1>1, <1>2, <1>3

\* Syncing the stage and looking for the destination keeps the invariant.
LEMMA SyncAndLookSteps ==
  ASSUME IInv, NEW p \in Procs, SyncAndLook(p)
  PROVE  IInv'
<1> USE StoreAssumption DEF IInv, diskVars, viewVars, machine
<1> DEFINE new == [stage[p] EXCEPT !.synced = ~windows]
<1>1. at[p] = "staging" /\ stage[p] \in Directory /\ Whole(stage[p]) /\ plan[p] \in Plans
  BY DEF TypeOK, StageInv, PlanInv, SyncAndLook
<1>2. new \in Directory /\ new # None /\ Whole(new) /\ new.synced = ~windows
  BY <1>1, StoreAssumption DEF Directory, Whole
<1>3. CASE runs[plan[p]] = None
  <2>1. /\ stage' = [stage EXCEPT ![p] = new]
        /\ at' = [at EXCEPT ![p] = "moving"]
        /\ UNCHANGED <<diskVars, plan, viewVars, delays, faulty, outcome, machine>>
    BY <1>3 DEF SyncAndLook, GoTo
  <2> HIDE DEF new
  <2>2. TypeOK'
    BY <1>2, <2>1 DEF TypeOK, Places
  <2>3. DiskInv'
    BY <2>1 DEF DiskInv
  <2>4. \A q \in Procs : StageInv(q)' /\ PlanInv(q)' /\ OpenInv(q)' /\ FailInv(q)'
    BY <1>1, <1>2, <2>1 DEF TypeOK, StageInv, PlanInv, OpenInv, AllWhole, FailInv, Whole
  <2>5. QED
    BY <2>2, <2>3, <2>4
<1>4. CASE runs[plan[p]] # None
  <2>1. /\ StageGone(p)
        /\ at' = [at EXCEPT ![p] = "comparing"]
        /\ UNCHANGED <<diskVars, plan, delays, faulty, outcome, machine>>
    BY <1>4 DEF SyncAndLook, GoTo
  <2>2. TypeOK'
    BY <2>1 DEF TypeOK, Places, StageGone
  <2>3. DiskInv'
    BY <2>1 DEF DiskInv
  <2>4. \A q \in Procs : StageInv(q)' /\ PlanInv(q)' /\ OpenInv(q)' /\ FailInv(q)'
    BY <1>1, <1>4, <2>1 DEF TypeOK, StageInv, PlanInv, OpenInv, AllWhole, FailInv, StageGone, Whole
  <2>5. QED
    BY <2>2, <2>3, <2>4
<1>5. QED
  BY <1>3, <1>4

\* Moving the stage, which is whole, keeps the invariant.
LEMMA MoveSteps ==
  ASSUME IInv, NEW p \in Procs, Move(p)
  PROVE  IInv'
<1> USE StoreAssumption DEF IInv, diskVars, viewVars, machine
<1>1. TypeOK'
  BY DEF TypeOK, StageInv, Places, Outcomes, Directory, Move, GoTo, StageGone
<1>2. DiskInv'
  BY DEF TypeOK, DiskInv, StageInv, PlanInv, Move, GoTo, StageGone
<1>3. \A q \in Procs : StageInv(q)' /\ PlanInv(q)' /\ OpenInv(q)' /\ FailInv(q)'
  BY DEF TypeOK, DiskInv, StageInv, PlanInv, OpenInv, AllWhole, FailInv, Whole, Places,
         Directory, Move, GoTo, StageGone
<1>4. QED
  BY <1>1, <1>2, <1>3

\* A move that finds its destination keeps the invariant.
LEMMA MoveFindsExistingSteps ==
  ASSUME IInv, NEW p \in Procs, MoveFindsExisting(p)
  PROVE  IInv'
<1> USE StoreAssumption DEF IInv, diskVars, viewVars, machine
<1>1. TypeOK'
  BY DEF TypeOK, StageInv, Places, Outcomes, Directory, MoveFindsExisting, GoTo, StageGone
<1>2. DiskInv'
  BY DEF TypeOK, DiskInv, StageInv, PlanInv, MoveFindsExisting, GoTo, StageGone
<1>3. \A q \in Procs : StageInv(q)' /\ PlanInv(q)' /\ OpenInv(q)' /\ FailInv(q)'
  BY DEF TypeOK, DiskInv, StageInv, PlanInv, OpenInv, AllWhole, FailInv, Whole, Places,
         Directory, MoveFindsExisting, GoTo, StageGone
<1>4. QED
  BY <1>1, <1>2, <1>3

\* A denied move keeps the invariant.
LEMMA MoveDeniedSteps ==
  ASSUME IInv, NEW p \in Procs, MoveDenied(p)
  PROVE  IInv'
<1> USE StoreAssumption DEF IInv, diskVars, viewVars, machine
<1>1. TypeOK'
  BY DEF TypeOK, StageInv, Places, Outcomes, Directory, MoveDenied
<1>2. DiskInv'
  BY DEF TypeOK, DiskInv, StageInv, PlanInv, MoveDenied
<1>3. \A q \in Procs : StageInv(q)' /\ PlanInv(q)' /\ OpenInv(q)' /\ FailInv(q)'
  BY DEF TypeOK, DiskInv, StageInv, PlanInv, OpenInv, AllWhole, FailInv, Whole, Places,
         Directory, MoveDenied
<1>4. QED
  BY <1>1, <1>2, <1>3

\* Comparing with the run that is there, which is whole, keeps the invariant.
LEMMA CompareSteps ==
  ASSUME IInv, NEW p \in Procs, Compare(p)
  PROVE  IInv'
<1> USE StoreAssumption DEF IInv, diskVars, viewVars, machine
<1>1. TypeOK'
  BY DEF TypeOK, StageInv, Places, Outcomes, Directory, Compare, GoTo
<1>2. DiskInv'
  BY DEF TypeOK, DiskInv, StageInv, PlanInv, Compare, GoTo
<1>3. \A q \in Procs : StageInv(q)' /\ PlanInv(q)' /\ OpenInv(q)' /\ FailInv(q)'
  BY DEF TypeOK, DiskInv, StageInv, PlanInv, OpenInv, AllWhole, FailInv, Whole, Files, Places,
         Compare, GoTo
<1>4. QED
  BY <1>1, <1>2, <1>3

\* Verifying the run, which is whole, keeps the invariant.
LEMMA VerifySteps ==
  ASSUME IInv, NEW p \in Procs, Verify(p)
  PROVE  IInv'
<1> USE StoreAssumption DEF IInv, diskVars, viewVars, machine
<1>1. TypeOK'
  BY DEF TypeOK, StageInv, Places, Outcomes, Directory, Verify, End, GoTo
<1>2. DiskInv'
  BY DEF TypeOK, DiskInv, StageInv, PlanInv, Verify, End, GoTo
<1>3. \A q \in Procs : StageInv(q)' /\ PlanInv(q)' /\ OpenInv(q)' /\ FailInv(q)'
  BY DEF TypeOK, DiskInv, StageInv, PlanInv, OpenInv, AllWhole, FailInv, Whole, Places,
         Directory, Verify, End, GoTo
<1>4. QED
  BY <1>1, <1>2, <1>3

\* An error keeps the invariant.
LEMMA FaultSteps ==
  ASSUME IInv, NEW p \in Procs, Fault(p)
  PROVE  IInv'
<1> USE StoreAssumption DEF IInv, diskVars, viewVars, machine
<1>1. TypeOK'
  BY DEF TypeOK, StageInv, Places, Outcomes, Directory, Fault, GoTo, StageGone, StageStays
<1>2. DiskInv'
  BY DEF TypeOK, DiskInv, StageInv, PlanInv, Fault, GoTo, StageGone, StageStays
<1>3. \A q \in Procs : StageInv(q)' /\ PlanInv(q)' /\ OpenInv(q)' /\ FailInv(q)'
  BY DEF TypeOK, DiskInv, StageInv, PlanInv, OpenInv, AllWhole, FailInv, Whole, Places,
         Directory, Fault, GoTo, StageGone, StageStays
<1>4. QED
  BY <1>1, <1>2, <1>3

\* Recording a failure keeps the invariant.
LEMMA RecordSteps ==
  ASSUME IInv, NEW p \in Procs, Record(p)
  PROVE  IInv'
<1> USE StoreAssumption DEF IInv, diskVars, viewVars, machine
<1>1. TypeOK'
  BY DEF TypeOK, StageInv, Places, Outcomes, Directory, Record, GoTo, End
<1>2. DiskInv'
  BY DEF TypeOK, DiskInv, StageInv, PlanInv, Record, GoTo, End
<1>3. \A q \in Procs : StageInv(q)' /\ PlanInv(q)' /\ OpenInv(q)' /\ FailInv(q)'
  BY DEF TypeOK, DiskInv, StageInv, PlanInv, OpenInv, AllWhole, FailInv, Whole, Places,
         Directory, Record, GoTo, End
<1>4. QED
  BY <1>1, <1>2, <1>3

\* Linking a receipt keeps the invariant.
LEMMA LinkSteps ==
  ASSUME IInv, NEW p \in Procs, Link(p)
  PROVE  IInv'
<1> USE StoreAssumption DEF IInv, diskVars, viewVars, machine
<1>1. TypeOK'
  BY DEF TypeOK, PlanInv, Places, Outcomes, Directory, Link, GoTo
<1>2. DiskInv'
  BY DEF TypeOK, DiskInv, StageInv, PlanInv, Link, GoTo
<1>3. \A q \in Procs : StageInv(q)' /\ PlanInv(q)' /\ OpenInv(q)' /\ FailInv(q)'
  BY DEF TypeOK, DiskInv, StageInv, PlanInv, OpenInv, AllWhole, FailInv, Whole, Places,
         Directory, Link, GoTo
<1>4. QED
  BY <1>1, <1>2, <1>3

\* Removing the first name of a receipt keeps the invariant.
LEMMA UnlinkSteps ==
  ASSUME IInv, NEW p \in Procs, Unlink(p)
  PROVE  IInv'
<1> USE StoreAssumption DEF IInv, diskVars, viewVars, machine
<1>1. TypeOK'
  BY DEF TypeOK, StageInv, Places, Outcomes, Directory, Unlink, End
<1>2. DiskInv'
  BY DEF TypeOK, DiskInv, StageInv, PlanInv, Unlink, End
<1>3. \A q \in Procs : StageInv(q)' /\ PlanInv(q)' /\ OpenInv(q)' /\ FailInv(q)'
  BY DEF TypeOK, DiskInv, StageInv, PlanInv, OpenInv, AllWhole, FailInv, Whole, Places,
         Directory, Unlink, End
<1>4. QED
  BY <1>1, <1>2, <1>3

\* An error while recording keeps the invariant.
LEMMA RecordFaultSteps ==
  ASSUME IInv, NEW p \in Procs, RecordFault(p)
  PROVE  IInv'
<1> USE StoreAssumption DEF IInv, diskVars, viewVars, machine
<1>1. TypeOK'
  BY DEF TypeOK, StageInv, Places, Outcomes, Directory, RecordFault, End
<1>2. DiskInv'
  BY DEF TypeOK, DiskInv, StageInv, PlanInv, RecordFault, End
<1>3. \A q \in Procs : StageInv(q)' /\ PlanInv(q)' /\ OpenInv(q)' /\ FailInv(q)'
  BY DEF TypeOK, DiskInv, StageInv, PlanInv, OpenInv, AllWhole, FailInv, Whole, Places,
         Directory, RecordFault, End
<1>4. QED
  BY <1>1, <1>2, <1>3

\* A death keeps the invariant.
LEMMA CrashSteps ==
  ASSUME IInv, NEW p \in Procs, Crash(p)
  PROVE  IInv'
<1> USE StoreAssumption DEF IInv, diskVars, viewVars, machine
<1>1. TypeOK'
  BY DEF TypeOK, StageInv, Places, Outcomes, Directory, Crash
<1>2. DiskInv'
  BY DEF TypeOK, DiskInv, StageInv, PlanInv, Crash
<1>3. \A q \in Procs : StageInv(q)' /\ PlanInv(q)' /\ OpenInv(q)' /\ FailInv(q)'
  BY DEF TypeOK, DiskInv, StageInv, PlanInv, OpenInv, AllWhole, FailInv, Whole, Places,
         Directory, Crash
<1>4. QED
  BY <1>1, <1>2, <1>3

\* Writing a directory back keeps the invariant.
LEMMA WriteBackSteps ==
  ASSUME IInv, NEW r \in Plans, WriteBack(r)
  PROVE  IInv'
<1> USE StoreAssumption DEF IInv, diskVars, viewVars, machine
<1>1. TypeOK'
  BY DEF TypeOK, StageInv, Places, Outcomes, Directory, WriteBack
<1>2. DiskInv'
  BY DEF TypeOK, DiskInv, StageInv, PlanInv, WriteBack
<1>3. \A q \in Procs : StageInv(q)' /\ PlanInv(q)' /\ OpenInv(q)' /\ FailInv(q)'
  BY DEF TypeOK, DiskInv, StageInv, PlanInv, OpenInv, AllWhole, FailInv, Whole, Places,
         Directory, WriteBack
<1>4. QED
  BY <1>1, <1>2, <1>3

\* A power loss leaves of a whole directory that was fsynced all of it.
LEMMA PowerLossSteps ==
  ASSUME IInv, PowerLoss
  PROVE  IInv'
<1> USE StoreAssumption DEF IInv
<1>1. TypeOK'
  <2>1. leftover' \in BOOLEAN
    BY DEF PowerLoss, TypeOK, Temporary
  <2>2. delays' \in [Procs -> 0..MaxDelays]
    BY DEF PowerLoss
  <2>3. at' \in [Procs -> Places] /\ outcome' \in [Procs -> Outcomes]
    BY DEF PowerLoss, Places, Outcomes
  <2>4. QED
    BY <2>1, <2>2, <2>3 DEF PowerLoss, TypeOK
<1>2. DiskInv'
  <2> SUFFICES ASSUME ~windows, NEW r \in Plans, runs'[r] # None
               PROVE  Whole(runs'[r]) /\ runs'[r].synced
    BY DEF DiskInv, PowerLoss
  <2>1. runs[r] # None /\ runs'[r] \in Remains(runs[r])
    BY DEF PowerLoss
  <2>2. runs[r] \in Directory /\ Whole(runs[r]) /\ runs[r].synced
    BY <2>1 DEF TypeOK, DiskInv
  <2>3. runs'[r] = [runs[r] EXCEPT !.files = runs[r].files]
    BY <2>1, <2>2 DEF Remains
  <2>4. runs'[r] = runs[r]
    BY <2>2, <2>3 DEF Directory
  <2>5. QED
    BY <2>2, <2>4
<1>3. \A q \in Procs : StageInv(q)' /\ PlanInv(q)' /\ OpenInv(q)' /\ FailInv(q)'
  BY DEF PowerLoss, StageInv, PlanInv, OpenInv, AllWhole, FailInv
<1>4. QED
  BY <1>1, <1>2, <1>3

\* No step of any process disturbs the invariant.
LEMMA Steps == IInv /\ [Next]_vars => IInv'
<1> SUFFICES ASSUME IInv, [Next]_vars PROVE IInv'
  OBVIOUS
<1>1. ASSUME NEW p \in Procs, Work(p) PROVE IInv'
  BY <1>1, LookAtRunsSteps, LookAtReceiptsSteps, MakeStageSteps, WriteFileSteps, SyncAndLookSteps,
     MoveSteps, MoveFindsExistingSteps, MoveDeniedSteps, CompareSteps, VerifySteps, RecordSteps,
     LinkSteps, UnlinkSteps DEF Work
<1>2. CASE UNCHANGED vars
  BY <1>2 DEF IInv, TypeOK, DiskInv, StageInv, PlanInv, OpenInv, AllWhole, FailInv, vars,
              diskVars, viewVars, machine
<1>3. QED
  BY <1>1, <1>2, ListSteps, CloseSteps, ExecuteSteps, FaultSteps, RecordFaultSteps, CrashSteps,
     WriteBackSteps, PowerLossSteps DEF Next

\* The invariant holds in every reachable state.
THEOREM Invariance == Spec => []IInv
  BY Starts, Steps, PTL DEF Spec

\* The state of the store and of its users is always of its type.
THEOREM TypeCorrect == Spec => []TypeOK
<1>1. IInv => TypeOK
  BY DEF IInv
<1>2. QED
  BY <1>1, Invariance, PTL

\* Where directories can be fsynced, only whole runs are ever published, and a power loss leaves
\* them whole.
THEOREM RunsAlwaysWhole == Spec => []RunsAreWhole
<1>1. IInv => RunsAreWhole
  BY DEF IInv, DiskInv, RunsAreWhole
<1>2. QED
  BY <1>1, Invariance, PTL

\* Within a boot no step replaces or removes a published run.
THEOREM RunsNeverReplaced == Spec => RunsStay
<1>1. ASSUME IInv, [Next]_vars
      PROVE  \A r \in Plans : runs[r] # None /\ boot' = boot => runs'[r] = runs[r]
  <2> USE DEF diskVars, viewVars, machine
  <2>1. CASE UNCHANGED runs
    BY <2>1
  <2>2. ASSUME NEW p \in Procs, Move(p)
        PROVE  \A r \in Plans : runs[r] # None => runs'[r] = runs[r]
    BY <1>1, <2>2 DEF Move, IInv, TypeOK
  <2>3. ASSUME PowerLoss PROVE boot' # boot
    BY <1>1, <2>3 DEF PowerLoss, IInv, TypeOK
  <2>4. ASSUME NEW p \in Procs, Work(p), ~Move(p) PROVE UNCHANGED runs
    BY <2>4 DEF Work, LookAtRuns, LookAtReceipts, MakeStage, WriteFile, SyncAndLook,
                MoveFindsExisting, MoveDenied, Compare, Verify, Record, Link, Unlink
  <2>5. ASSUME Next, ~PowerLoss, \A p \in Procs : ~Work(p) PROVE UNCHANGED runs
    BY <2>5 DEF Next, List, Close, Execute, Fault, RecordFault, Crash, WriteBack
  <2>6. CASE UNCHANGED vars
    BY <2>1, <2>6 DEF vars
  <2>7. QED
    BY <1>1, <2>1, <2>2, <2>3, <2>4, <2>5, <2>6
<1>2. QED
  BY <1>1, Invariance, PTL DEF Spec, RunsStay

\* Where os.rename reports an existing destination as such, repeated executions resolve.
THEOREM RepeatsAlwaysResolve == Spec => []RepeatsResolve
<1>1. IInv => RepeatsResolve
  BY DEF IInv, FailInv, RepeatsResolve
<1>2. QED
  BY <1>1, Invariance, PTL
=============================================================================
