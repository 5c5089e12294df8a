----------------------- MODULE MCImmutablePublication -----------------------
(***************************************************************************)
(* The instance of ImmutablePublication that TLC checks: three calls, all  *)
(* of which are to publish the same bytes, or one of them other bytes.  Up *)
(* to the names of calls and bytes there is no other case with two byte    *)
(* strings.                                                                *)
(***************************************************************************)
EXTENDS ImmutablePublication

CONSTANTS c1, c2, c3, p1, p2

MCRequests == {[c \in Calls |-> p1], [c \in Calls |-> IF c = c3 THEN p2 ELSE p1]}
=============================================================================
