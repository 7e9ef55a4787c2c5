------------------------------ MODULE MCRound ------------------------------
(***************************************************************************)
(* Instances of the round engine for TLC.                                  *)
(***************************************************************************)
EXTENDS Round

\* What drawn tiles are good for.
AllTiles   == {{}, {"flower"}, {"kang"}, {"added"}, {"make"}}
FlowerWins == {{}, {"flower"}, {"make"}}

\* What a 17th tile that was dealt is good for.
AnyDealt   == {{}, {"kang"}, {"make"}}
PlainDealt == {{}}
WinDealt   == {{}, {"make"}}

\* What a discard is good for.
KongClaims == {{}, {"eat"}, {"pong", "kang"}, {"make"}}
PongClaims == {{}, {"eat"}, {"pong"}, {"make"}}
=============================================================================
