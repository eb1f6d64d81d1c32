-------------------------- MODULE MCAuthorityBuilder --------------------------
(* A small instance of AuthorityBuilder for TLC.                           *)
EXTENDS AuthorityBuilder, TLC

CONSTANTS d1, d2, d3, ann, bob, p1, p2, p3, a1, q1, q2, w1, w2, sound, broken

(* Two people called alike at one end of the delegation.                   *)
TwoAnns == (d1 :> ann) @@ (d2 :> ann) @@ (d3 :> bob)

(* An edit that names somebody else as the one who delegates.              *)
EitherDelegates == (sound :> ann) @@ (broken :> bob)

(* One principal of the organization, one of another, one not there yet.   *)
Registered == (p1 :> "home") @@ (p2 :> "foreign") @@ (p3 :> "none")

Symmetric == Permutations({q1, q2}) \cup Permutations({w1, w2}) \cup Permutations({d1, d2})
=============================================================================
