----------------------------- MODULE MCUserPresence -----------------------------
(* Small instances of UserPresence, with the code's 54 s and 120 s. *)
EXTENDS UserPresence, TLC

CONSTANTS c1, c2, u1

TwoTabs == c1 :> u1 @@ c2 :> u1
===============================================================================
