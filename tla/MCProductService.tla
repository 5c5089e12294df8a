-------------------------- MODULE MCProductService --------------------------
(***************************************************************************)
(* Instances of ProductService for TLC: two projects that share an         *)
(* imported file, so that a purge has something to retain.                 *)
(***************************************************************************)
EXTENDS ProductService, TLC

CONSTANTS proj1, proj2, v1, v2, file1, file2

\* Both projects hold file1 in their first version; later proj1 gains file2 and proj2 exchanges
\* file1 for it.
SharedContents ==
  [x \in Projects |-> [v \in Versions |->
     IF v = v1 THEN {file1} ELSE IF x = proj1 THEN {file1, file2} ELSE {file2}]]

\* Calls are interchangeable.
SymmetricCalls == Permutations(Calls)
=============================================================================
