---------------------------- MODULE MCGroundSearch ----------------------------
(* Two callers with one question, and one that asks for another day of the  *)
(* same month; other routes and months have been asked for before.          *)
EXTENDS GroundSearch, TLC

MCRoute == [s \in Callers |-> IF s = "b1" THEN "ams-2" ELSE "ams-1"]
MCSeason == [s \in Callers |-> "ams"]
=============================================================================
