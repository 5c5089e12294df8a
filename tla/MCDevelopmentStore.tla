------------------------- MODULE MCDevelopmentStore -------------------------
(***************************************************************************)
(* Instances of DevelopmentStore for TLC.                                  *)
(***************************************************************************)
EXTENDS DevelopmentStore
=============================================================================
