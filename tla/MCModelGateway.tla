--------------------------- MODULE MCModelGateway ---------------------------
(***************************************************************************)
(* Instances of ModelGateway for TLC.                                      *)
(***************************************************************************)
EXTENDS ModelGateway
=============================================================================
