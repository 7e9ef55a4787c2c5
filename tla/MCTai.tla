------------------------------- MODULE MCTai --------------------------------
(***************************************************************************)
(* Hands and situations for the model checking of Tai.                     *)
(***************************************************************************)
EXTENDS Tai

SomeTiles == 1 .. 9 \cup 11 .. 13 \cup {19} \cup 21 .. 23 \cup 31 .. 34 \cup 41 .. 43

Plain ==
  [own |-> FALSE, dealer |-> FALSE, cont |-> 0, kang |-> FALSE, last |-> FALSE, first |-> FALSE,
   wind |-> 2, door |-> 2, flower |-> {}]
Drawn == [Plain EXCEPT !.own = TRUE, !.wind = 3, !.flower = {1, 2, 3, 4, 6}]

Dealt == [Plain EXCEPT !.own = TRUE, !.dealer = TRUE, !.cont = 2, !.kang = TRUE, !.first = TRUE,
                       !.door = 1]

\* The same rows and triplets in three suits; one suit, with and without honours;
\* ends and honours; rows with ends, and kongs; winds and dragons.
SomeFamilies ==
  {[rows |-> {1, 11, 21}, threes |-> {2, 12, 22}, pairs |-> {3}, melds |-> {7, 9}, wins |-> {Plain}],
   [rows |-> {1, 4, 7}, threes |-> {1, 2, 3, 33}, pairs |-> {8}, melds |-> {2, 7, 8}, wins |-> {Drawn}],
   [rows |-> {}, threes |-> {1, 9, 11, 19, 32, 42}, pairs |-> {9, 21}, melds |-> {2, 11},
    wins |-> {Plain}],
   [rows |-> {1, 7}, threes |-> {9, 11, 19}, pairs |-> {19}, melds |-> {3, 8, 11}, wins |-> {Dealt}],
   [rows |-> {}, threes |-> 31 .. 34 \cup 41 .. 43, pairs |-> {34, 43, 9}, melds |-> {2},
    wins |-> {Plain, Drawn}]}
=============================================================================
