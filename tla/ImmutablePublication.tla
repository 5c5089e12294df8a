------------------------ MODULE ImmutablePublication ------------------------
(***************************************************************************)
(* src/src/aletheia_lab/filesystem.py, publish_immutable_file: concurrent  *)
(* calls that publish bytes under one final path.                          *)
(*                                                                         *)
(* A call looks at the final path, writes and fsyncs a private sibling     *)
(* stage, hard-links the stage to the final path (which never replaces an  *)
(* existing name), removes the stage and reads the final bytes back.  A    *)
(* stage and the final path are two names of one inode, so the model keeps *)
(* one inode per call and lets the final path name an inode.               *)
(*                                                                         *)
(* A process may die between any two steps, leaving its stage behind.  A   *)
(* power loss stops every process, tears the bytes that were not fsynced   *)
(* and may undo a directory entry that had not reached the disk.           *)
(***************************************************************************)
EXTENDS Naturals

CONSTANTS
  Calls,      \* invocations of publish_immutable_file for one destination
  Payloads,   \* the byte strings they may be asked to publish
  Requests,   \* what each of them is asked to publish: any of these functions
  NoFile,     \* the final path does not exist
  Torn,       \* what a reader gets from an inode whose bytes are incomplete
  MaxDelays,  \* length of _WINDOWS_DIRECTORY_PUBLISH_DELAYS: 5; 0 is POSIX
  MaxBoots    \* bound: power losses explored, plus one

ASSUME PublicationAssumption ==
  /\ NoFile \notin Calls \cup Payloads
  /\ Requests \subseteq [Calls -> Payloads]
  /\ Torn \notin Payloads \cup {NoFile}
  /\ MaxDelays \in Nat
  /\ MaxBoots \in Nat

VARIABLES
  pc,           \* where each call is
  payload,      \* the bytes each call was asked to publish
  inode,        \* how far the bytes of each call's stage inode have got
  stage,        \* the calls whose stage name exists in the directory
  dest,         \* the call whose inode the final path names, or NoFile
  entryOnDisk,  \* whether the final directory entry has reached the disk
  delays,       \* transient access denials each call has slept through
  disposition,  \* the disposition, or the error, a call carries to its end
  outcome,      \* what each call returned or raised
  boot,         \* boots of the machine so far
  endedIn       \* the boot in which a call returned or raised, 0 before

vars == <<pc, payload, inode, stage, dest, entryOnDisk, delays, disposition,
          outcome, boot, endedIn>>

Running == {"staging", "linking", "unstaging", "verifying"}
Dispositions == {"created", "identical", "conflict", "denied", "io_error"}
Outcomes == Dispositions \cup {"none", "integrity"}

TypeOK ==
  /\ pc \in [Calls -> Running \cup {"idle", "ended", "crashed"}]
  /\ payload \in [Calls -> Payloads]
  /\ inode \in [Calls -> {"none", "written", "synced", "torn"}]
  /\ stage \in SUBSET Calls
  /\ dest \in Calls \cup {NoFile}
  /\ entryOnDisk \in BOOLEAN
  /\ delays \in [Calls -> 0 .. MaxDelays]
  /\ disposition \in [Calls -> Dispositions \cup {"none"}]
  /\ outcome \in [Calls -> Outcomes]
  /\ boot \in Nat
  /\ endedIn \in [Calls -> Nat]

Init ==
  /\ pc = [c \in Calls |-> "idle"]
  /\ payload \in Requests
  /\ inode = [c \in Calls |-> "none"]
  /\ stage = {}
  /\ dest = NoFile
  /\ entryOnDisk = FALSE
  /\ delays = [c \in Calls |-> 0]
  /\ disposition = [c \in Calls |-> "none"]
  /\ outcome = [c \in Calls |-> "none"]
  /\ boot = 1
  /\ endedIn = [c \in Calls |-> 0]

\* What a reader of the final path sees.
FinalBytes ==
  IF dest = NoFile THEN NoFile
  ELSE IF inode[dest] \in {"written", "synced"} THEN payload[dest] ELSE Torn

\* Mutant: an existing path is taken for the same bytes without reading it.
UncomparedDisposition(c) == "identical"

\* _existing_file_disposition, for a path that exists.
ExistingDisposition(c) == IF FinalBytes = payload[c] THEN "identical" ELSE "conflict"

\* A call returns or raises.
EndWith(c, what) ==
  /\ pc' = [pc EXCEPT ![c] = "ended"]
  /\ outcome' = [outcome EXCEPT ![c] = what]
  /\ endedIn' = [endedIn EXCEPT ![c] = boot]

\* The destination exists before anything is staged: compare and answer.
FindExisting(c) ==
  /\ pc[c] = "idle"
  /\ dest # NoFile
  /\ EndWith(c, ExistingDisposition(c))
  /\ UNCHANGED <<payload, inode, stage, dest, entryOnDisk, delays, disposition, boot>>

\* The destination is absent: mkstemp creates a sibling stage nobody else names, and the
\* bytes are written and flushed to the operating system.
MakeStage(c) ==
  /\ pc[c] = "idle"
  /\ dest = NoFile
  /\ pc' = [pc EXCEPT ![c] = "staging"]
  /\ inode' = [inode EXCEPT ![c] = "written"]
  /\ stage' = stage \cup {c}
  /\ UNCHANGED <<payload, dest, entryOnDisk, delays, disposition, outcome, boot, endedIn>>

\* Mutant: the stage is linked without having been fsynced.
SkipSync(c) ==
  /\ pc[c] = "staging"
  /\ pc' = [pc EXCEPT ![c] = "linking"]
  /\ UNCHANGED <<payload, inode, stage, dest, entryOnDisk, delays, disposition, outcome,
                 boot, endedIn>>

\* os.fsync of the stage, after which _link_staged_file is entered.
SyncStage(c) ==
  /\ pc[c] = "staging"
  /\ inode' = [inode EXCEPT ![c] = "synced"]
  /\ pc' = [pc EXCEPT ![c] = "linking"]
  /\ UNCHANGED <<payload, stage, dest, entryOnDisk, delays, disposition, outcome, boot, endedIn>>

\* A call leaves the try block with a disposition or an exception.
LeaveTry(c, what) ==
  /\ pc' = [pc EXCEPT ![c] = "unstaging"]
  /\ disposition' = [disposition EXCEPT ![c] = what]
  /\ UNCHANGED <<payload, inode, stage, delays, outcome, boot, endedIn>>

\* write, flush or fsync raises (no space, an I/O error).
StageFails(c) ==
  /\ pc[c] = "staging"
  /\ LeaveTry(c, "io_error")
  /\ UNCHANGED <<dest, entryOnDisk>>

\* Mutant: the stage is moved with os.replace, over whatever is there.
ReplaceDestination(c) ==
  /\ pc[c] = "linking"
  /\ dest' = c
  /\ entryOnDisk' = FALSE
  /\ LeaveTry(c, "created")

\* os.link succeeds: the final path appears with all its bytes.
LinkCreates(c) ==
  /\ pc[c] = "linking"
  /\ dest = NoFile
  /\ dest' = c
  /\ entryOnDisk' = FALSE
  /\ LeaveTry(c, "created")

\* FileExistsError, or an access denial with the destination there: compare the bytes.
LinkFindsExisting(c) ==
  /\ pc[c] = "linking"
  /\ dest # NoFile
  /\ LeaveTry(c, ExistingDisposition(c))
  /\ UNCHANGED <<dest, entryOnDisk>>

\* Mutant: once used up, the delays start again from the first.
RetryRound(c) ==
  /\ pc[c] = "linking"
  /\ dest = NoFile
  /\ delays' = [delays EXCEPT ![c] = (@ + 1) % (MaxDelays + 1)]
  /\ UNCHANGED <<pc, payload, inode, stage, dest, entryOnDisk, disposition, outcome,
                 boot, endedIn>>

\* A transient access denial while a delay is left: sleep and try again.
LinkRetries(c) ==
  /\ pc[c] = "linking"
  /\ dest = NoFile
  /\ delays[c] < MaxDelays
  /\ delays' = [delays EXCEPT ![c] = @ + 1]
  /\ UNCHANGED <<pc, payload, inode, stage, dest, entryOnDisk, disposition, outcome,
                 boot, endedIn>>

\* An access denial after the last delay (on POSIX, the first one) is raised.
LinkRefused(c) ==
  /\ pc[c] = "linking"
  /\ dest = NoFile
  /\ delays[c] = MaxDelays
  /\ LeaveTry(c, "denied")
  /\ UNCHANGED <<dest, entryOnDisk>>

\* The finally clause removes the stage; an exception on its way then leaves the call.
Unstage(c) ==
  /\ pc[c] = "unstaging"
  /\ stage' = stage \ {c}
  /\ IF disposition[c] \in {"created", "identical"}
       THEN /\ pc' = [pc EXCEPT ![c] = "verifying"]
            /\ UNCHANGED <<outcome, endedIn>>
       ELSE EndWith(c, disposition[c])
  /\ UNCHANGED <<payload, inode, dest, entryOnDisk, delays, disposition, boot>>

\* Removing the stage itself fails: the call raises although the file may be published.
UnstageFails(c) ==
  /\ pc[c] = "unstaging"
  /\ EndWith(c, "io_error")
  /\ UNCHANGED <<payload, inode, stage, dest, entryOnDisk, delays, disposition, boot>>

\* The final bytes are read back before the disposition is returned.
VerifyFinalBytes(c) ==
  /\ pc[c] = "verifying"
  /\ EndWith(c, IF FinalBytes = payload[c] THEN disposition[c] ELSE "integrity")
  /\ UNCHANGED <<payload, inode, stage, dest, entryOnDisk, delays, disposition, boot>>

\* The process dies; its stage, if any, stays in the directory.
Crash(c) ==
  /\ pc[c] \in Running
  /\ pc' = [pc EXCEPT ![c] = "crashed"]
  /\ UNCHANGED <<payload, inode, stage, dest, entryOnDisk, delays, disposition, outcome,
                 boot, endedIn>>

\* The operating system writes the directory back, whenever it likes.
WriteBack ==
  /\ dest # NoFile
  /\ ~entryOnDisk
  /\ entryOnDisk' = TRUE
  /\ UNCHANGED <<pc, payload, inode, stage, dest, delays, disposition, outcome, boot, endedIn>>

\* A power loss.  Bytes not yet fsynced are torn; names not yet on disk may be lost.
PowerLoss ==
  /\ boot < MaxBoots
  /\ boot' = boot + 1
  /\ pc' = [c \in Calls |-> IF pc[c] \in Running THEN "crashed" ELSE pc[c]]
  /\ inode' = [c \in Calls |-> IF inode[c] = "written" THEN "torn" ELSE inode[c]]
  /\ dest' \in IF entryOnDisk THEN {dest} ELSE {dest, NoFile}
  /\ entryOnDisk' = (dest' # NoFile)
  /\ UNCHANGED <<payload, stage, delays, disposition, outcome, endedIn>>

\* The steps a call takes once it has begun.
Step(c) ==
  \/ SyncStage(c) \/ StageFails(c)
  \/ LinkCreates(c) \/ LinkFindsExisting(c) \/ LinkRetries(c) \/ LinkRefused(c)
  \/ Unstage(c) \/ UnstageFails(c) \/ VerifyFinalBytes(c)

Next ==
  \/ \E c \in Calls : FindExisting(c) \/ MakeStage(c) \/ Step(c) \/ Crash(c)
  \/ WriteBack
  \/ PowerLoss

Spec == Init /\ [][Next]_vars

\* A thread inside the call keeps running unless its process dies.
FairSpec == Spec /\ \A c \in Calls : WF_vars(Step(c))

----------------------------------------------------------------------------

\* A reader of the final path never sees incomplete bytes, not even after a power loss:
\* the stage is complete and fsynced before the link makes it visible.
NoTornBytes == FinalBytes # Torn

\* Lease files are taken by the caller that is told "created": in one boot at most one
\* caller is, however many race, crash or are denied.
SingleCreator ==
  \A c, d \in Calls :
    outcome[c] = "created" /\ outcome[d] = "created" /\ endedIn[c] = endedIn[d] => c = d

\* An answer stays true for the rest of the boot: after "created" or "identical" the path
\* holds the caller's bytes, after a conflict it holds complete other bytes, and the
\* read-back never contradicts a publication ("integrity").
AnswersStayTrue ==
  \A c \in Calls :
    /\ outcome[c] # "integrity"
    /\ endedIn[c] = boot =>
         /\ outcome[c] \in {"created", "identical"} => FinalBytes = payload[c]
         /\ outcome[c] = "conflict" => FinalBytes \in Payloads \ {payload[c]}

\* "It never replaces different bytes" (ADR 0004): within a boot a published path keeps its
\* inode, whatever the other calls do.
NeverReplaced == [][dest # NoFile /\ boot' = boot => dest' = dest]_vars

\* "Windows retries only transient access denials and remains bounded": a call that began
\* ends, or its process dies.
CallsEnd == \A c \in Calls : pc[c] = "staging" ~> pc[c] \in {"ended", "crashed"}

\* The protocol implements the write-once file: the path's bytes are the value, the calls
\* whose link succeeded are the installers, every exception but a conflict is an error.
Abstract == INSTANCE WriteOnceFile WITH
  value     <- FinalBytes,
  installer <- {c \in Calls : disposition[c] = "created"},
  answer    <- [c \in Calls |-> IF outcome[c] \in {"denied", "io_error", "integrity"}
                                THEN "error" ELSE outcome[c]]

\* The refinement as a property of the runs.
ImplementsWriteOnce == Abstract!Spec
=============================================================================
