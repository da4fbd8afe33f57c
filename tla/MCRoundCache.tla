----------------------------- MODULE MCRoundCache -----------------------------
(* Duplicates of one target, another target and a room.                     *)
EXTENDS RoundCache

MCKeyOf == [w \in Watches |-> IF w \in {"w4", "w5"} THEN "rom" ELSE "lon"]
=============================================================================
