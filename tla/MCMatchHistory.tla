---------------------------- MODULE MCMatchHistory ----------------------------
(* Playing and navigating on small instances. *)
EXTENDS MatchHistory

CONSTANTS MaxGames,        \* bound on the games of a match
          MaxRecords,      \* bound on the records of a game of a match
          SessionRecords   \* bound on the records of a session of one game

Bounded ==
    IF ms.nMatchTo = 0
    THEN Len(lMatch) <= 1 /\ \A k \in DOMAIN lMatch : Len(lMatch[k].recs) <= SessionRecords
    ELSE /\ Len(lMatch) <= MaxGames
         /\ \A k \in DOMAIN lMatch : Len(lMatch[k].recs) <= MaxRecords

TwoHumans  == [p \in Player |-> "human"]
=============================================================================
