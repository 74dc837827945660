---------------------------- MODULE MCDeviceRegistry ----------------------------
(* Three requests of two users on one device. *)
EXTENDS DeviceRegistry

CONSTANTS r1, r2, r3, u1, u2, d1
===============================================================================
