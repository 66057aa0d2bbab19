-------------------------------- MODULE MCWeb --------------------------------
(* A human and the computer at the page. *)
EXTENDS Web

HumanVsGnu == [p \in Player |-> IF p = 0 THEN "gnu" ELSE "human"]

(* `resign' with nonsense, for a single game, and for what the computer
   thinks is right. *)
Resignations == {0, 1, -1}
=============================================================================
