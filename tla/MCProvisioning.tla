--------------------------- MODULE MCProvisioning ---------------------------
(* Instances of Provisioning with up to three requests. *)
EXTENDS Provisioning

CONSTANTS q1, q2, q3
=============================================================================
