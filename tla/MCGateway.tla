------------------------------ MODULE MCGateway -----------------------------
(* A small instance of Gateway for TLC: two steps compete for two permits,  *)
(* and the cap moves between one and both of them.                          *)
EXTENDS Gateway

MCSlots == 1 .. 2
MCCaps  == 1 .. 2
=============================================================================
