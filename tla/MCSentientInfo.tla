--------------------------- MODULE MCSentientInfo ---------------------------
(* Two actors of one team, who talk to each other, and an enemy of theirs. *)
EXTENDS SentientInfo

CONSTANTS a1, a2, e1

MCEnemies == [a \in Actors |-> Sentients \ Actors]
MCLives == [s \in Sentients |-> IF s = a2 THEN 1 ELSE 2]
MCTalksTo == [a \in Actors |-> Actors]
=============================================================================
