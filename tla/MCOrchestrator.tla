---------------------------- MODULE MCOrchestrator ----------------------------
(* Two lamps in two rooms, of which one reports, and two users, of whom one   *)
(* has a connection.                                                           *)
EXTENDS Orchestrator, TLC

CONSTANTS c1, u1, u2, r1, r2, lamp

OneUsers  == [c \in Senders |-> u1]
TwoLamps  == {1, 2}
LampRooms == 1 :> r1 @@ 2 :> r2
LampTypes == [d \in TwoLamps |-> lamp]
===============================================================================
