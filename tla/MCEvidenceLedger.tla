-------------------------- MODULE MCEvidenceLedger --------------------------
(* Small instances of EvidenceLedger for TLC.                              *)
EXTENDS EvidenceLedger, TLC

CONSTANTS a1, a2, n1, org, noOrg

Intent(a, n, i) == [agent |-> a, nonce |-> n, attempt |-> i]

Review(d, v, i) == [decision |-> d, resolution |-> v, attempt |-> i]

(* Two agents that act for principals of one organisation.                 *)
SharedScope == (a1 :> org) @@ (a2 :> org)

TwoAgents == {Intent(a1, n1, 1), Intent(a2, n1, 1)}

(* One intent, resent.                                                     *)
TwiceSent == {Intent(a1, n1, 1), Intent(a1, n1, 2)}

(* Reviewers of a1's intent (of its first attempt): one, and two who        *)
(* disagree.                                                               *)
OneReviewer == {Review(Intent(a1, n1, 1), "approved", 1)}

TwoReviewers == OneReviewer \cup {Review(Intent(a1, n1, 1), "denied", 1)}
=============================================================================
