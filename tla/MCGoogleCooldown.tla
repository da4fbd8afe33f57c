--------------------------- MODULE MCGoogleCooldown ---------------------------
(* Two calls of one client, and one of another process.                     *)
EXTENDS GoogleCooldown

MCClientOf == [c \in Calls |-> IF c = "b1" THEN "b" ELSE "a"]
=============================================================================
