---------------------------- MODULE MCAiClient -----------------------------
(***************************************************************************)
(* Instances of the playing service for TLC.                               *)
(***************************************************************************)
EXTENDS AiClient

\* A hand that can open a kong with a discard can open a pong.
SomeClaims == {o \in SUBSET Calls \ {{}} : "kang" \in o => "pong" \in o}
SomeOwn    == SUBSET OwnCalls \ {{}}
=============================================================================
