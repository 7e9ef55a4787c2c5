------------------------------ MODULE MCLobby ------------------------------
(***************************************************************************)
(* Instances of the lobby for TLC.                                         *)
(***************************************************************************)
EXTENDS Lobby, TLC

\* Nicknames are interchangeable unless one is the administrator's.
NameSymmetry == Permutations(Names)
=============================================================================
