----------------------------- MODULE MCWorkers -----------------------------
(* An instance of Workers: a sick shelf is polled before and one after the   *)
(* well one, which the commands are for.                                     *)
EXTENDS Workers

CONSTANTS first, well, last, short, lasting

ThreeShelves == <<first, well, last>>

Targets == [c \in Command |-> well]

Expiries == [c \in Command |-> IF c = short THEN 1 ELSE Unparseable]
=============================================================================
