------------------------------ MODULE MCHand -------------------------------
(***************************************************************************)
(* Instances of a hand for TLC: the end of a suit with three winds, and    *)
(* the low tiles of one suit.                                              *)
(***************************************************************************)
EXTENDS Hand

NinesAndWinds == 7 .. 9 \cup 31 .. 33
OneToSix      == 1 .. 6
=============================================================================
