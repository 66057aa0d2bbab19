------------------------------- MODULE MCMatch -------------------------------
(* Playing a match or a session on small instances. *)
EXTENDS Match

CONSTANTS MaxGames,   \* bound on the games of a match
          MaxRecords  \* bound on the records of a game

Bounded == /\ Len(lMatch) <= MaxGames
           /\ \A k \in DOMAIN lMatch : Len(lMatch[k].recs) <= MaxRecords

TwoHumans  == [p \in Player |-> "human"]
HumanVsGnu == [p \in Player |-> IF p = 0 THEN "gnu" ELSE "human"]
=============================================================================
