------------------------------ MODULE MCHeartbeat ------------------------------
(* The code's periods, in units of 2 s. *)
EXTENDS Heartbeat
===============================================================================
