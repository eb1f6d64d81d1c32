------------------------ MODULE MCGovernedDecisions ------------------------
(* A small instance of GovernedDecisions for TLC.                          *)
EXTENDS GovernedDecisions, TLC

CONSTANTS k1, w1, w2, i1, m0

(* One policy that is edited once; both versions cover the intent.         *)
OnceEdited == { <<k1, 1>>, <<k1, 2>> }

CoveredByBoth == {i1} \X OnceEdited

WorkerSymmetry == Permutations({w1, w2})
=============================================================================
