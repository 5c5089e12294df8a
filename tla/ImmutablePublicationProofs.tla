---------------------- MODULE ImmutablePublicationProofs ----------------------
(***************************************************************************)
(* Proofs that publish_immutable_file, as modelled by ImmutablePublication,*)
(* never shows incomplete bytes, has one creator per boot, keeps every     *)
(* answer true, never replaces a published file, and implements the        *)
(* write-once file, for any number of calls, payloads, delays and boots.   *)
(*                                                                         *)
(* The strengthening IInv ties a call's position to its inode and carries  *)
(* the truth of a disposition from the link, where it is decided, to the   *)
(* return, where it is announced: nothing but a power loss can undo it in  *)
(* between, and a power loss ends every running call.                      *)
(***************************************************************************)
EXTENDS ImmutablePublication, TLAPS

\* What a disposition, once decided, says about the final path.
Holds(c, what) ==
  /\ what = "created" => dest = c
  /\ what = "identical" => dest # NoFile /\ payload[dest] = payload[c]
  /\ what = "conflict" => dest # NoFile /\ payload[dest] # payload[c]

\* The linked inode is complete, and so is one that is about to be linked.
InodeInv ==
  /\ \A c \in Calls : pc[c] = "linking" => inode[c] = "synced"
  /\ dest # NoFile => inode[dest] = "synced"

\* Where a call is tells whether it has a disposition and an outcome.
PhaseInv ==
  \A c \in Calls :
    /\ pc[c] \in {"idle", "staging", "linking"} => disposition[c] = "none"
    /\ pc[c] \in {"unstaging", "verifying"} => disposition[c] # "none"
    /\ pc[c] = "verifying" => disposition[c] \in {"created", "identical"}
    /\ pc[c] # "ended" => outcome[c] = "none" /\ endedIn[c] = 0
    /\ pc[c] = "ended" => outcome[c] \notin {"none", "integrity"}
    /\ outcome[c] = "created" => disposition[c] = "created"
    /\ endedIn[c] <= boot

\* A disposition decided by a running call, or an outcome of this boot, is true now.
TruthInv ==
  \A c \in Calls :
    /\ pc[c] \in {"unstaging", "verifying"} => Holds(c, disposition[c])
    /\ endedIn[c] = boot => Holds(c, outcome[c])

BootInv == boot >= 1

\* The inductive invariant.
IInv ==
  /\ TypeOK
  /\ InodeInv
  /\ PhaseInv
  /\ TruthInv
  /\ SingleCreator
  /\ BootInv

----------------------------------------------------------------------------

\* With complete inodes, the final path shows the payload of the call it names.
LEMMA FinalBytesValue ==
  ASSUME TypeOK, InodeInv
  PROVE  FinalBytes = IF dest = NoFile THEN NoFile ELSE payload[dest]
  BY DEF TypeOK, InodeInv, FinalBytes

\* Comparing against an existing file decides a disposition that is true.
LEMMA ExistingDispositionHolds ==
  ASSUME TypeOK, InodeInv, NEW c \in Calls, dest # NoFile
  PROVE  /\ ExistingDisposition(c) \in {"identical", "conflict"}
         /\ Holds(c, ExistingDisposition(c))
  BY FinalBytesValue DEF ExistingDisposition, Holds

\* The initial states satisfy the invariant.
LEMMA InitIInv == Init => IInv
  <1> SUFFICES ASSUME Init PROVE IInv
    OBVIOUS
  <1>1. TypeOK
    <2>1. 0 \in Nat /\ 1 \in Nat /\ 0 \in 0 .. MaxDelays
      BY PublicationAssumption
    <2>2. /\ delays \in [Calls -> 0 .. MaxDelays]
          /\ boot \in Nat /\ endedIn \in [Calls -> Nat]
      BY <2>1, Zenon DEF Init
    <2>3. /\ pc \in [Calls -> Running \cup {"idle", "ended", "crashed"}]
          /\ inode \in [Calls -> {"none", "written", "synced", "torn"}]
          /\ disposition \in [Calls -> Dispositions \cup {"none"}]
          /\ outcome \in [Calls -> Outcomes]
          /\ stage \in SUBSET Calls /\ dest \in Calls \cup {NoFile} /\ entryOnDisk \in BOOLEAN
      BY Zenon DEF Init, Running, Outcomes, Dispositions
    <2>4. payload \in [Calls -> Payloads]
      BY PublicationAssumption DEF Init
    <2>. QED
      BY <2>2, <2>3, <2>4, Zenon DEF Init, TypeOK
  <1>2. InodeInv
    BY DEF Init, InodeInv
  <1>3. PhaseInv
    <2>1. ASSUME NEW c \in Calls
          PROVE  /\ pc[c] = "idle" /\ disposition[c] = "none" /\ outcome[c] = "none"
                 /\ endedIn[c] = 0 /\ boot = 1
      BY Zenon DEF Init
    <2>2. 0 <= 1
      OBVIOUS
    <2>3. ASSUME NEW c \in Calls PROVE endedIn[c] <= boot
      BY <2>1, <2>2, Zenon
    <2>4. ASSUME NEW c \in Calls
          PROVE  /\ pc[c] \notin {"unstaging", "verifying", "ended"}
                 /\ disposition[c] = "none"
                 /\ outcome[c] # "created"
      BY <2>1
    <2>. QED
      BY <2>1, <2>3, <2>4, Zenon DEF PhaseInv
  <1>4. SingleCreator /\ BootInv
    BY DEF Init, SingleCreator, BootInv
  <1>5. TruthInv
    BY DEF Init, TruthInv, Holds
  <1>. QED
    BY <1>1, <1>2, <1>3, <1>4, <1>5 DEF IInv

\* Every step keeps the types.
LEMMA NextTypeOK == ASSUME TypeOK, [Next]_vars PROVE TypeOK'
  <1> USE PublicationAssumption DEF TypeOK, Running, Outcomes, Dispositions
  <1>1. ASSUME NEW c \in Calls, FindExisting(c) PROVE TypeOK'
    BY <1>1 DEF FindExisting, EndWith, ExistingDisposition
  <1>2. ASSUME NEW c \in Calls, MakeStage(c) PROVE TypeOK'
    BY <1>2 DEF MakeStage
  <1>3. ASSUME NEW c \in Calls, SyncStage(c) PROVE TypeOK'
    BY <1>3 DEF SyncStage
  <1>4. ASSUME NEW c \in Calls, StageFails(c) PROVE TypeOK'
    BY <1>4 DEF StageFails, LeaveTry
  <1>5. ASSUME NEW c \in Calls, LinkCreates(c) PROVE TypeOK'
    BY <1>5 DEF LinkCreates, LeaveTry
  <1>6. ASSUME NEW c \in Calls, LinkFindsExisting(c) PROVE TypeOK'
    BY <1>6 DEF LinkFindsExisting, LeaveTry, ExistingDisposition
  <1>7. ASSUME NEW c \in Calls, LinkRetries(c) PROVE TypeOK'
    BY <1>7 DEF LinkRetries
  <1>8. ASSUME NEW c \in Calls, LinkRefused(c) PROVE TypeOK'
    BY <1>8 DEF LinkRefused, LeaveTry
  <1>9. ASSUME NEW c \in Calls, Unstage(c) PROVE TypeOK'
    <2>1. CASE disposition[c] \in {"created", "identical"}
      BY <1>9, <2>1 DEF Unstage
    <2>2. CASE disposition[c] \notin {"created", "identical"}
      BY <1>9, <2>2 DEF Unstage, EndWith
    <2>. QED BY <2>1, <2>2
  <1>10. ASSUME NEW c \in Calls, UnstageFails(c) PROVE TypeOK'
    BY <1>10 DEF UnstageFails, EndWith
  <1>11. ASSUME NEW c \in Calls, VerifyFinalBytes(c) PROVE TypeOK'
    BY <1>11 DEF VerifyFinalBytes, EndWith
  <1>12. ASSUME NEW c \in Calls, Crash(c) PROVE TypeOK'
    BY <1>12 DEF Crash
  <1>13. CASE WriteBack
    BY <1>13 DEF WriteBack
  <1>14. CASE PowerLoss
    BY <1>14 DEF PowerLoss
  <1>15. CASE UNCHANGED vars
    BY <1>15 DEF vars
  <1>. QED
    BY <1>1, <1>2, <1>3, <1>4, <1>5, <1>6, <1>7, <1>8, <1>9, <1>10, <1>11, <1>12, <1>13,
       <1>14, <1>15 DEF Next, Step

\* Every step keeps the inductive invariant.  The link is the only step that gives the
\* final path a name, and it does so when there is none, so what the other calls know
\* about an existing path stays true; a power loss leaves no call that knows anything.
LEMMA NextIInv == ASSUME IInv, [Next]_vars PROVE IInv'
  <1>1. TypeOK'
    BY NextTypeOK DEF IInv
  <1> USE <1>1, PublicationAssumption DEF IInv, TypeOK, Running, Outcomes, Dispositions
  <1>2. ASSUME NEW c \in Calls, FindExisting(c) PROVE IInv'
    <2>1. /\ ExistingDisposition(c) \in {"identical", "conflict"}
          /\ Holds(c, ExistingDisposition(c))
      BY <1>2, ExistingDispositionHolds DEF FindExisting
    <2>2. InodeInv' /\ BootInv'
      BY <1>2 DEF FindExisting, EndWith, InodeInv, BootInv
    <2>3. PhaseInv'
      BY <1>2, <2>1 DEF FindExisting, EndWith, PhaseInv, BootInv
    <2>4. TruthInv'
      BY <1>2, <2>1 DEF FindExisting, EndWith, TruthInv, Holds
    <2>5. SingleCreator'
      BY <1>2, <2>1 DEF FindExisting, EndWith, SingleCreator
    <2>. QED BY <2>2, <2>3, <2>4, <2>5
  <1>3. ASSUME NEW c \in Calls, MakeStage(c) PROVE IInv'
    BY <1>3 DEF MakeStage, InodeInv, PhaseInv, TruthInv, SingleCreator, BootInv, Holds
  <1>4. ASSUME NEW c \in Calls, SyncStage(c) PROVE IInv'
    BY <1>4 DEF SyncStage, InodeInv, PhaseInv, TruthInv, SingleCreator, BootInv, Holds
  <1>5. ASSUME NEW c \in Calls, StageFails(c) PROVE IInv'
    BY <1>5 DEF StageFails, LeaveTry, InodeInv, PhaseInv, TruthInv, SingleCreator,
                BootInv, Holds
  <1>6. ASSUME NEW c \in Calls, LinkCreates(c) PROVE IInv'
    <2>1. InodeInv' /\ BootInv' /\ PhaseInv' /\ SingleCreator'
      BY <1>6 DEF LinkCreates, LeaveTry, InodeInv, PhaseInv, SingleCreator, BootInv
    <2>2. TruthInv'
      BY <1>6 DEF LinkCreates, LeaveTry, PhaseInv, TruthInv, Holds
    <2>. QED BY <2>1, <2>2
  <1>7. ASSUME NEW c \in Calls, LinkFindsExisting(c) PROVE IInv'
    <2>1. /\ ExistingDisposition(c) \in {"identical", "conflict"}
          /\ Holds(c, ExistingDisposition(c))
      BY <1>7, ExistingDispositionHolds DEF LinkFindsExisting
    <2>2. InodeInv' /\ BootInv' /\ PhaseInv' /\ SingleCreator'
      BY <1>7, <2>1 DEF LinkFindsExisting, LeaveTry, InodeInv, PhaseInv, SingleCreator,
                        BootInv
    <2>3. TruthInv'
      BY <1>7, <2>1 DEF LinkFindsExisting, LeaveTry, TruthInv, Holds
    <2>. QED BY <2>2, <2>3
  <1>8. ASSUME NEW c \in Calls, LinkRetries(c) PROVE IInv'
    BY <1>8 DEF LinkRetries, InodeInv, PhaseInv, TruthInv, SingleCreator, BootInv, Holds
  <1>9. ASSUME NEW c \in Calls, LinkRefused(c) PROVE IInv'
    BY <1>9 DEF LinkRefused, LeaveTry, InodeInv, PhaseInv, TruthInv, SingleCreator,
                BootInv, Holds
  <1>10. ASSUME NEW c \in Calls, Unstage(c) PROVE IInv'
    <2>1. CASE disposition[c] \in {"created", "identical"}
      BY <1>10, <2>1 DEF Unstage, InodeInv, PhaseInv, TruthInv, SingleCreator, BootInv, Holds
    <2>2. CASE disposition[c] \notin {"created", "identical"}
      BY <1>10, <2>2 DEF Unstage, EndWith, InodeInv, PhaseInv, TruthInv, SingleCreator,
                         BootInv, Holds
    <2>. QED BY <2>1, <2>2
  <1>11. ASSUME NEW c \in Calls, UnstageFails(c) PROVE IInv'
    BY <1>11 DEF UnstageFails, EndWith, InodeInv, PhaseInv, TruthInv, SingleCreator,
                 BootInv, Holds
  <1>12. ASSUME NEW c \in Calls, VerifyFinalBytes(c) PROVE IInv'
    <2>1. /\ disposition[c] \in {"created", "identical"}
          /\ Holds(c, disposition[c])
      BY <1>12 DEF VerifyFinalBytes, PhaseInv, TruthInv
    <2>2. FinalBytes = payload[c]
      BY <2>1, FinalBytesValue DEF Holds
    <2>3. EndWith(c, disposition[c])
      BY <1>12, <2>2 DEF VerifyFinalBytes
    <2>4. InodeInv' /\ BootInv'
      BY <1>12, <2>3 DEF VerifyFinalBytes, EndWith, InodeInv, BootInv
    <2>5. PhaseInv'
      BY <1>12, <2>1, <2>3 DEF VerifyFinalBytes, EndWith, PhaseInv, BootInv
    <2>6. TruthInv'
      BY <1>12, <2>1, <2>3 DEF VerifyFinalBytes, EndWith, TruthInv, Holds
    <2>7. SingleCreator'
      BY <1>12, <2>1, <2>3 DEF VerifyFinalBytes, EndWith, TruthInv, SingleCreator, Holds
    <2>. QED BY <2>4, <2>5, <2>6, <2>7
  <1>13. ASSUME NEW c \in Calls, Crash(c) PROVE IInv'
    BY <1>13 DEF Crash, InodeInv, PhaseInv, TruthInv, SingleCreator, BootInv, Holds
  <1>14. CASE WriteBack
    BY <1>14 DEF WriteBack, InodeInv, PhaseInv, TruthInv, SingleCreator, BootInv, Holds
  <1>15. CASE PowerLoss
    <2>1. InodeInv' /\ BootInv'
      BY <1>15 DEF PowerLoss, InodeInv, BootInv
    <2>2. PhaseInv' /\ SingleCreator'
      BY <1>15 DEF PowerLoss, PhaseInv, SingleCreator, BootInv
    <2>3. TruthInv'
      BY <1>15 DEF PowerLoss, PhaseInv, TruthInv
    <2>. QED BY <2>1, <2>2, <2>3
  <1>16. CASE UNCHANGED vars
    BY <1>16 DEF vars, InodeInv, PhaseInv, TruthInv, SingleCreator, BootInv, Holds
  <1>. QED
    BY <1>2, <1>3, <1>4, <1>5, <1>6, <1>7, <1>8, <1>9, <1>10, <1>11, <1>12, <1>13, <1>14,
       <1>15, <1>16 DEF Next, Step

----------------------------------------------------------------------------

\* The inductive invariant holds in every reachable state.
LEMMA InvariantHolds == Spec => []IInv
  BY InitIInv, NextIInv, PTL DEF Spec

\* Every variable keeps its type, for any number of calls, payloads, delays and boots.
THEOREM TypeCorrectness == Spec => []TypeOK
  <1>1. IInv => TypeOK
    BY DEF IInv
  <1>. QED BY <1>1, InvariantHolds, PTL

\* publish_immutable_file never lets a reader of the final path see incomplete bytes.
THEOREM NeverTorn == Spec => []NoTornBytes
  <1>1. IInv => NoTornBytes
    BY FinalBytesValue, PublicationAssumption DEF IInv, TypeOK, NoTornBytes
  <1>. QED BY <1>1, InvariantHolds, PTL

\* At most one call per boot is told that it created the file (what a lease relies on).
THEOREM OneCreatorPerBoot == Spec => []SingleCreator
  <1>1. IInv => SingleCreator
    BY DEF IInv
  <1>. QED BY <1>1, InvariantHolds, PTL

\* What publish_immutable_file answered is true for the rest of the boot.
THEOREM AnswersAreTrue == Spec => []AnswersStayTrue
  <1>1. ASSUME IInv PROVE AnswersStayTrue
    <2>1. ASSUME NEW c \in Calls PROVE outcome[c] # "integrity"
      BY <1>1 DEF IInv, PhaseInv
    <2>2. ASSUME NEW c \in Calls, endedIn[c] = boot
          PROVE  /\ outcome[c] \in {"created", "identical"} => FinalBytes = payload[c]
                 /\ outcome[c] = "conflict" => FinalBytes \in Payloads \ {payload[c]}
      <3>1. Holds(c, outcome[c])
        BY <1>1, <2>2 DEF IInv, TruthInv
      <3>2. FinalBytes = IF dest = NoFile THEN NoFile ELSE payload[dest]
        BY <1>1, FinalBytesValue DEF IInv
      <3>. QED
        BY <1>1, <3>1, <3>2, PublicationAssumption DEF IInv, TypeOK, Holds
    <2>. QED BY <2>1, <2>2 DEF AnswersStayTrue
  <1>. QED BY <1>1, InvariantHolds, PTL

\* Within a boot the link of one call is the only thing that ever names the final path.
THEOREM PublishedStays == Spec => NeverReplaced
  <1>1. ASSUME IInv, [Next]_vars PROVE [dest # NoFile /\ boot' = boot => dest' = dest]_vars
    <2> SUFFICES ASSUME Next, boot' = boot, dest # NoFile PROVE dest' = dest
      BY <1>1
    <2>1. ASSUME NEW c \in Calls, FindExisting(c) \/ MakeStage(c) \/ Step(c) \/ Crash(c)
          PROVE  dest' = dest
      BY <2>1 DEF FindExisting, MakeStage, Step, Crash, SyncStage, StageFails, LinkCreates,
                  LinkFindsExisting, LinkRetries, LinkRefused, Unstage, UnstageFails,
                  VerifyFinalBytes
    <2>2. CASE WriteBack
      BY <2>2 DEF WriteBack
    <2>3. CASE PowerLoss
      BY <1>1, <2>3 DEF PowerLoss, IInv, TypeOK
    <2>. QED BY <2>1, <2>2, <2>3 DEF Next
  <1>. QED BY <1>1, InvariantHolds, PTL DEF Spec, NeverReplaced

----------------------------------------------------------------------------

\* A step that leaves the path, the dispositions and the outcomes alone is a stutter of the
\* write-once file.
LEMMA Stutters ==
  ASSUME IInv, IInv', payload' = payload, disposition' = disposition, outcome' = outcome,
         dest' = dest
  PROVE  UNCHANGED Abstract!vars
  <1>1. FinalBytes' = FinalBytes
    <2>1. FinalBytes = IF dest = NoFile THEN NoFile ELSE payload[dest]
      BY FinalBytesValue DEF IInv
    <2>2. FinalBytes' = IF dest' = NoFile THEN NoFile ELSE payload'[dest']
      BY DEF IInv, TypeOK, InodeInv, FinalBytes
    <2>. QED BY <2>1, <2>2
  <1>. QED BY <1>1 DEF Abstract!vars

\* A step that leaves the path alone and gives a call a disposition other than "created"
\* is a stutter too: the answer has not been given yet.
LEMMA Decides ==
  ASSUME IInv, IInv', NEW c \in Calls, disposition[c] = "none",
         disposition' = [disposition EXCEPT ![c] = disposition'[c]],
         disposition'[c] # "created",
         payload' = payload, outcome' = outcome, dest' = dest
  PROVE  UNCHANGED Abstract!vars
  <1>1. FinalBytes' = FinalBytes
    <2>1. FinalBytes = IF dest = NoFile THEN NoFile ELSE payload[dest]
      BY FinalBytesValue DEF IInv
    <2>2. FinalBytes' = IF dest' = NoFile THEN NoFile ELSE payload'[dest']
      BY DEF IInv, TypeOK, InodeInv, FinalBytes
    <2>. QED BY <2>1, <2>2
  <1>2. {d \in Calls : disposition'[d] = "created"} = {d \in Calls : disposition[d] = "created"}
    BY DEF IInv, TypeOK
  <1>. QED BY <1>1, <1>2 DEF Abstract!vars

\* A call that ends gives the write-once file's answer.
LEMMA Answers ==
  ASSUME IInv, IInv', NEW c \in Calls, NEW what \in Outcomes \ {"none"},
         pc[c] # "ended", EndWith(c, what),
         what = "created" => disposition[c] = "created" /\ dest = c,
         what = "identical" => disposition[c] # "created" /\ FinalBytes = payload[c],
         what = "conflict" => FinalBytes \notin {NoFile, payload[c]},
         payload' = payload, dest' = dest, disposition' = disposition
  PROVE  Abstract!Answer(c)
  <1>1. FinalBytes = IF dest = NoFile THEN NoFile ELSE payload[dest]
    BY FinalBytesValue DEF IInv
  <1>2. FinalBytes' = FinalBytes
    <2>1. FinalBytes' = IF dest' = NoFile THEN NoFile ELSE payload'[dest']
      BY DEF IInv, TypeOK, InodeInv, FinalBytes
    <2>. QED BY <1>1, <2>1
  <1> DEFINE Ans == [d \in Calls |-> IF outcome[d] \in {"denied", "io_error", "integrity"}
                                     THEN "error" ELSE outcome[d]]
             Said == IF what \in {"denied", "io_error", "integrity"} THEN "error" ELSE what
             Inst == {d \in Calls : disposition[d] = "created"}
  <1>3. outcome[c] = "none"
    BY DEF IInv, PhaseInv
  <1>4. Ans[c] = "none"
    BY <1>3
  <1>5. Ans' = [Ans EXCEPT ![c] = Said]
    BY DEF EndWith, IInv, TypeOK
  <1>6. Inst' = Inst
    OBVIOUS
  <1>7. \/ Said = "created" /\ c \in Inst /\ FinalBytes = payload[c]
        \/ Said = "identical" /\ c \notin Inst /\ FinalBytes = payload[c]
        \/ Said = "conflict" /\ FinalBytes \notin {NoFile, payload[c]}
        \/ Said = "error"
    <2>1. what \in {"created", "identical", "conflict", "denied", "io_error", "integrity"}
      BY DEF Outcomes, Dispositions
    <2>2. CASE what = "created"
      BY <2>2, <1>1, PublicationAssumption
    <2>. QED BY <2>1, <2>2
  <1>. QED
    BY <1>2, <1>4, <1>5, <1>6, <1>7 DEF Abstract!Answer

\* Every step of the publication protocol is a step of the write-once file or a stutter.
LEMMA StepRefines ==
  ASSUME IInv, IInv', [Next]_vars
  PROVE  [Abstract!Next]_Abstract!vars
  <1>0. FinalBytes = IF dest = NoFile THEN NoFile ELSE payload[dest]
    BY FinalBytesValue DEF IInv
  <1>1. ASSUME NEW c \in Calls, FindExisting(c) PROVE Abstract!Answer(c)
    <2>1. /\ ExistingDisposition(c) \in {"identical", "conflict"}
          /\ Holds(c, ExistingDisposition(c))
      BY <1>1, ExistingDispositionHolds DEF FindExisting, IInv
    <2>2. ExistingDisposition(c) = "identical" => FinalBytes = payload[c]
      BY <1>0, <2>1 DEF Holds
    <2>3. ExistingDisposition(c) = "conflict" => FinalBytes \notin {NoFile, payload[c]}
      BY <1>0, <2>1, PublicationAssumption DEF Holds, IInv, TypeOK
    <2>4. disposition[c] # "created"
      BY <1>1 DEF FindExisting, IInv, PhaseInv
    <2>5. ExistingDisposition(c) \in Outcomes \ {"none"} /\ pc[c] # "ended"
      BY <1>1, <2>1 DEF FindExisting, Outcomes, Dispositions
    <2>. QED
      BY <1>1, <2>1, <2>2, <2>3, <2>4, <2>5, Answers DEF FindExisting
  <1>2. ASSUME NEW c \in Calls, LinkCreates(c) PROVE Abstract!Install(c)
    <2> DEFINE Inst == {d \in Calls : disposition[d] = "created"}
    <2>1. FinalBytes = NoFile
      BY <1>0, <1>2 DEF LinkCreates
    <2>2. disposition[c] = "none"
      BY <1>2 DEF LinkCreates, IInv, PhaseInv
    <2>3. FinalBytes' = payload[c]
      BY <1>2, PublicationAssumption
         DEF LinkCreates, LeaveTry, IInv, InodeInv, TypeOK, FinalBytes
    <2>4. Inst' = Inst \cup {c}
      BY <1>2, <2>2 DEF LinkCreates, LeaveTry, IInv, TypeOK
    <2>. QED
      BY <1>2, <2>1, <2>2, <2>3, <2>4 DEF LinkCreates, LeaveTry, Abstract!Install
  <1>3. ASSUME NEW c \in Calls, StageFails(c) \/ LinkFindsExisting(c) \/ LinkRefused(c)
        PROVE  UNCHANGED Abstract!vars
    <2>1. disposition[c] = "none"
      BY <1>3 DEF StageFails, LinkFindsExisting, LinkRefused, IInv, PhaseInv
    <2>2. PICK what \in {"io_error", "identical", "conflict", "denied"} :
            LeaveTry(c, what) /\ dest' = dest
      BY <1>3 DEF StageFails, LinkFindsExisting, LinkRefused, ExistingDisposition
    <2>3. disposition' = [disposition EXCEPT ![c] = what]
      BY <2>2 DEF LeaveTry
    <2>4. disposition'[c] = what
      BY <2>3 DEF IInv, TypeOK
    <2>. QED
      BY <2>1, <2>2, <2>3, <2>4, Decides DEF LeaveTry
  <1>4. ASSUME NEW c \in Calls, Unstage(c) PROVE [Abstract!Next]_Abstract!vars
    <2>1. CASE disposition[c] \in {"created", "identical"}
      BY <1>4, <2>1, Stutters DEF Unstage
    <2>2. CASE disposition[c] \notin {"created", "identical"}
      <3>1. Holds(c, disposition[c]) /\ disposition[c] # "none" /\ pc[c] # "ended"
        BY <1>4 DEF Unstage, IInv, TruthInv, PhaseInv
      <3>2. disposition[c] = "conflict" => FinalBytes \notin {NoFile, payload[c]}
        BY <1>0, <3>1, PublicationAssumption DEF Holds, IInv, TypeOK
      <3>3. disposition[c] \in Outcomes \ {"none"}
        BY <3>1 DEF IInv, TypeOK, Outcomes
      <3>4. Abstract!Answer(c)
        BY <1>4, <2>2, <3>1, <3>2, <3>3, Answers DEF Unstage
      <3>. QED BY <3>4 DEF Abstract!Next
    <2>. QED BY <2>1, <2>2
  <1>5. ASSUME NEW c \in Calls, UnstageFails(c) PROVE Abstract!Answer(c)
    BY <1>5, Answers DEF UnstageFails, Outcomes, Dispositions
  <1>6. ASSUME NEW c \in Calls, VerifyFinalBytes(c) PROVE Abstract!Answer(c)
    <2>1. /\ disposition[c] \in {"created", "identical"}
          /\ Holds(c, disposition[c])
      BY <1>6 DEF VerifyFinalBytes, IInv, PhaseInv, TruthInv
    <2>2. FinalBytes = payload[c]
      BY <1>0, <2>1, PublicationAssumption DEF Holds
    <2>3. EndWith(c, disposition[c]) /\ pc[c] # "ended"
      BY <1>6, <2>2 DEF VerifyFinalBytes
    <2>4. disposition[c] = "created" => dest = c
      BY <2>1 DEF Holds
    <2>5. disposition[c] \in Outcomes \ {"none"}
      BY <2>1 DEF Outcomes, Dispositions
    <2>. QED
      BY <1>6, <2>1, <2>2, <2>3, <2>4, <2>5, Answers DEF VerifyFinalBytes
  <1>7. ASSUME NEW c \in Calls, MakeStage(c) \/ SyncStage(c) \/ LinkRetries(c) \/ Crash(c)
        PROVE  UNCHANGED Abstract!vars
    BY <1>7, Stutters DEF MakeStage, SyncStage, LinkRetries, Crash
  <1>8. CASE WriteBack
    BY <1>8, Stutters DEF WriteBack
  <1>9. CASE PowerLoss
    <2>1. CASE dest' = dest
      BY <1>9, <2>1, Stutters DEF PowerLoss
    <2>2. CASE dest' # dest
      <3>1. dest' = NoFile
        BY <1>9, <2>2 DEF PowerLoss
      <3>2. FinalBytes' = NoFile
        BY <3>1 DEF FinalBytes
      <3>3. Abstract!Lose
        BY <1>9, <3>2 DEF PowerLoss, Abstract!Lose
      <3>. QED BY <3>3 DEF Abstract!Next
    <2>. QED BY <2>1, <2>2
  <1>10. CASE UNCHANGED vars
    BY <1>10, Stutters DEF vars
  <1>. QED
    BY <1>1, <1>2, <1>3, <1>4, <1>5, <1>6, <1>7, <1>8, <1>9, <1>10
       DEF Next, Step, Abstract!Next

\* publish_immutable_file implements the write-once file, whatever the calls, payloads,
\* delays and boots.
THEOREM Refinement == Spec => ImplementsWriteOnce
  <1>1. Init => Abstract!Init
    BY PublicationAssumption DEF Init, Abstract!Init, FinalBytes
  <1>2. IInv /\ IInv' /\ [Next]_vars => [Abstract!Next]_Abstract!vars
    BY StepRefines
  <1>. QED BY <1>1, <1>2, InvariantHolds, PTL DEF Spec, ImplementsWriteOnce, Abstract!Spec

===============================================================================
