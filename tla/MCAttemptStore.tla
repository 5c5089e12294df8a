--------------------------- MODULE MCAttemptStore ---------------------------
(***************************************************************************)
(* Instances of AttemptStore for TLC.                                      *)
(***************************************************************************)
EXTENDS AttemptStore, TLC

\* Runs are interchangeable.
SymmetricRuns == Permutations(Runs)
=============================================================================
