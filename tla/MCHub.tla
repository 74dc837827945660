--------------------------------- MODULE MCHub ---------------------------------
(* Small instances of Hub: two connections (tabs) of one user. *)
EXTENDS Hub, TLC

CONSTANTS c1, c2, u1

TwoTabs == c1 :> u1 @@ c2 :> u1
===============================================================================
