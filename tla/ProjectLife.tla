---------------------------- MODULE ProjectLife ----------------------------
(***************************************************************************)
(* What the product service promises about a project, whatever calls run   *)
(* and fail: a source root is imported once, each refresh supersedes the   *)
(* capture that is current and no other, and a deletion is final.          *)
(***************************************************************************)
CONSTANTS
  Projects,  \* project identities
  Captures,  \* captures of a source tree, each used once
  None       \* no capture

VARIABLES
  phase,      \* "absent", "active", "deleting" or "deleted"
  current,    \* the capture a project shows, or None
  superseded  \* the captures a project showed before

vars == <<phase, current, superseded>>

Init ==
  /\ phase = [p \in Projects |-> "absent"]
  /\ current = [p \in Projects |-> None]
  /\ superseded = [p \in Projects |-> {}]

\* The first capture of a project that was never imported.
Import(p, s) ==
  /\ phase[p] = "absent"
  /\ phase' = [phase EXCEPT ![p] = "active"]
  /\ current' = [current EXCEPT ![p] = s]
  /\ UNCHANGED superseded

\* A new capture takes the place of the current one.
Refresh(p, s) ==
  /\ phase[p] = "active"
  /\ s \notin superseded[p] \cup {current[p]}
  /\ current' = [current EXCEPT ![p] = s]
  /\ superseded' = [superseded EXCEPT ![p] = @ \cup {current[p]}]
  /\ UNCHANGED phase

\* All captures of a project go at once.
BeginDeletion(p) ==
  /\ phase[p] = "active"
  /\ phase' = [phase EXCEPT ![p] = "deleting"]
  /\ current' = [current EXCEPT ![p] = None]
  /\ superseded' = [superseded EXCEPT ![p] = {}]

\* The deletion is complete.
FinishDeletion(p) ==
  /\ phase[p] = "deleting"
  /\ phase' = [phase EXCEPT ![p] = "deleted"]
  /\ UNCHANGED <<current, superseded>>

Next ==
  \E p \in Projects :
    \/ \E s \in Captures : Import(p, s) \/ Refresh(p, s)
    \/ BeginDeletion(p)
    \/ FinishDeletion(p)

Spec == Init /\ [][Next]_vars
=============================================================================
