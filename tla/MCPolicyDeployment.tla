------------------------- MODULE MCPolicyDeployment -------------------------
(* A small instance of PolicyDeployment for TLC.                           *)
EXTENDS PolicyDeployment, TLC

CONSTANTS k1, k2, w1, w2

(* Two policies of which the first is edited once.                         *)
OneEdited == { <<k1, 1>>, <<k1, 2>>, <<k2, 1>> }

WorkerSymmetry == Permutations({w1, w2})

(* The second version of k1 would match Intents that k2 matches as well.   *)
OneConflict ==
  { <<<<k1, 2>>, <<k2, 1>>>>, <<<<k2, 1>>, <<k1, 2>>>> }
=============================================================================
