--------------------------- MODULE WriteOnceFile ---------------------------
(***************************************************************************)
(* What aletheia_lab.filesystem.publish_immutable_file promises about one  *)
(* final path: the path holds nothing or the complete bytes of exactly one *)
(* call, it is never overwritten, and the answer a call gets agrees with   *)
(* what the path holds when the answer is given.                           *)
(*                                                                         *)
(* The promise is about one boot of the machine.  The function fsyncs the  *)
(* bytes but not the directory that names them, so a power loss may take a *)
(* published name away again (Lose); it never exposes incomplete bytes.    *)
(***************************************************************************)
CONSTANTS Calls, Payloads, NoFile

VARIABLES
  value,      \* the bytes the final path shows, or NoFile
  payload,    \* the bytes each call was asked to publish
  installer,  \* the calls that made the path appear
  answer      \* what each call has told its caller

vars == <<value, payload, installer, answer>>

Init ==
  /\ value = NoFile
  /\ payload \in [Calls -> Payloads]
  /\ installer = {}
  /\ answer = [c \in Calls |-> "none"]

\* The path appears, with all the bytes of one call at once.
Install(c) ==
  /\ value = NoFile
  /\ c \notin installer
  /\ value' = payload[c]
  /\ installer' = installer \cup {c}
  /\ UNCHANGED <<payload, answer>>

\* A call answers; a success names bytes that are there, a conflict bytes that differ.
Answer(c) ==
  /\ answer[c] = "none"
  /\ \/ c \in installer /\ value = payload[c] /\ answer' = [answer EXCEPT ![c] = "created"]
     \/ c \notin installer /\ value = payload[c] /\ answer' = [answer EXCEPT ![c] = "identical"]
     \/ value \notin {NoFile, payload[c]} /\ answer' = [answer EXCEPT ![c] = "conflict"]
     \/ answer' = [answer EXCEPT ![c] = "error"]
  /\ UNCHANGED <<value, payload, installer>>

\* A power loss before the directory reached the disk.
Lose ==
  /\ value' = NoFile
  /\ UNCHANGED <<payload, installer, answer>>

Next ==
  \/ \E c \in Calls : Install(c) \/ Answer(c)
  \/ Lose

Spec == Init /\ [][Next]_vars
============================================================================
