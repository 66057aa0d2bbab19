----------------------------- MODULE MCMatchEdit -----------------------------
(* Editing, playing and navigating on small instances. *)
EXTENDS MatchEdit

CONSTANTS MaxGames,   \* bound on the games of a match
          MaxRecords  \* bound on the records of a game

Bounded == /\ Len(lMatch) <= MaxGames
           /\ \A k \in DOMAIN lMatch : Len(lMatch[k].recs) <= MaxRecords

TwoHumans  == [p \in Player |-> "human"]

(* A match to 2 at 0-1 where player 1 has rolled and owns the cube, and a
   money game where player 1 has been doubled from the middle. *)
SomeIDs ==
    {[nMatchTo |-> 2, anScore |-> [p \in Player |-> p], fCrawford |-> FALSE,
      fDoubled |-> FALSE, fTurn |-> 1, fMove |-> 1, fResigned |-> 0,
      dice |-> TRUE, fCubeOwner |-> 1, nCube |-> 2, gs |-> "playing"],
     [nMatchTo |-> 0, anScore |-> [p \in Player |-> 0], fCrawford |-> FALSE,
      fDoubled |-> TRUE, fTurn |-> 1, fMove |-> 0, fResigned |-> 0,
      dice |-> FALSE, fCubeOwner |-> NoOne, nCube |-> 1, gs |-> "playing"]}
NoIDs == {}
=============================================================================
