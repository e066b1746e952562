------------------------------ MODULE MCSystem ------------------------------
(* Instances of System. *)
EXTENDS System

CONSTANTS q1, q2
=============================================================================
