----------------------------- MODULE MCSigningKeys -----------------------------
(* A small instance of SigningKeys for TLC.                                *)
EXTENDS SigningKeys, TLC

CONSTANTS i1, i2, i3, k1, k2, k3, k4

(* Three keys with identifiers of their own, and one that reuses another's *)
(* identifier.                                                             *)
Rotations ==
  { [id |-> i1, key |-> k1], [id |-> i2, key |-> k2], [id |-> i3, key |-> k3],
    [id |-> i1, key |-> k4] }
=============================================================================
