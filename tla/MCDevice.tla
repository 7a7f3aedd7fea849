------------------------------ MODULE MCDevice ------------------------------
(* A small terminal: starting a navigation also closes the life-service       *)
(* session (_close_life), so it changes a domain it does not check.          *)
EXTENDS DeviceSafety, TLC

KeySymmetry == Permutations(Keys)
MCHome == [c \in Caps |-> IF c = "start" THEN "NAVIGATION" ELSE "LIFE"]
MCTouches == [c \in Caps |-> IF c = "start" THEN Domains ELSE {"LIFE"}]
==============================================================================
