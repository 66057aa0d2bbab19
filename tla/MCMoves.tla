------------------------------- MODULE MCMoves -------------------------------
(* A small board. *)
EXTENDS Moves

\* Two chequers at the far end, the others at home.
SmallOpening == [i \in 0..Points |-> IF i = Points - 1 THEN 2
                                     ELSE IF i = Home - 1 THEN Chequers - 2 ELSE 0]
=============================================================================
