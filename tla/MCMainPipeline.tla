---------------------------- MODULE MCMainPipeline ----------------------------
(***************************************************************************)
(* A small census: a request with a selection and a final turn, and a      *)
(* deterministic one.                                                      *)
(***************************************************************************)
EXTENDS MainPipeline, Sequences, TLC

MCTurns == <<2, 0>>
MCReservation == <<1, 0>> :> 2 @@ <<1, 1>> :> 2 @@ <<1, 2>> :> 1
=============================================================================
