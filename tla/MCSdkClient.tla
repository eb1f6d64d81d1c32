----------------------------- MODULE MCSdkClient -----------------------------
(* A small instance of SdkClient for TLC.                                  *)
EXTENDS SdkClient, TLC

CONSTANTS p1, p2, k1, k2, k3, n1, Nil

(* One process is started with a key, the other makes its own.             *)
OneKeyGiven == (p1 :> k1) @@ (p2 :> Nil)

(* One call.                                                               *)
OneCall == n1 :> p2

(* Keys that are made later are alike.                                     *)
Symmetric == Permutations({k2, k3})
=============================================================================
