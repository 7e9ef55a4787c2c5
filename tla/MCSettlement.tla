---------------------------- MODULE MCSettlement ----------------------------
(***************************************************************************)
(* Money at the start, for the model checking of Settlement.               *)
(***************************************************************************)
EXTENDS Settlement

Broke == [s \in Seats |-> 0]
=============================================================================
