------------------------------ MODULE MCOutbox ------------------------------
(* Small instances of Outbox: up to three readings of two shelves. *)
EXTENDS Outbox

CONSTANTS r1, r2, r3

\* r3 belongs to the shelf that comes first, r1 and r2 to the other one.
TwoShelves == [r \in Reading |-> IF r = r3 THEN 1 ELSE 2]

\* r1 was sampled before r2; r3 together with r1.
Times == [r \in Reading |-> IF r = r2 THEN 2 ELSE 1]
=============================================================================
