---------------------------- MODULE EvidenceChain ----------------------------
(***************************************************************************)
(* The hash chain over Evidence records (server/app/services:              *)
(* intent_service._previous_chain_hash, evidence_service.verify_chain),    *)
(* as operators on a set S of records of one chain scope.                  *)
(*                                                                         *)
(* A record is [id, created, chained, prev, ...]:                          *)
(*   created  its rank in (created_at, id) order; created_at is the start  *)
(*            of the inserting transaction (PostgreSQL now());             *)
(*   chained  FALSE for a v1 record, whose payload has no previous_hash;   *)
(*   prev     the record whose payload_hash is stored as previous_hash, or *)
(*            None.  payload_hash is a SHA-256 over a payload that holds   *)
(*            the decision id and the time of recording, so a hash stands  *)
(*            for the record it was computed from.                         *)
(***************************************************************************)
EXTENDS Naturals

CONSTANT None                          \* the JSON null of previous_hash

(* payload_hash of the record a query "ORDER BY created_at DESC, id DESC   *)
(* LIMIT 1" over S returns, None if S is empty; as a set of one element.   *)
PreviousHash(S) ==
  IF S = {} THEN {None}
  ELSE { e.id : e \in { x \in S : \A y \in S : y.created <= x.created } }

(* The records of S that sort before e.                                    *)
Before(S, e) == { f \in S : f.created < e.created }

(* What continuity of the chain means: e stores the hash of the record     *)
(* just before it in the scope.                                            *)
LinkHolds(S, e) == e.chained => e.prev \in PreviousHash(Before(S, e))

BrokenLinks(S) == { e \in S : ~LinkHolds(S, e) }

-----------------------------------------------------------------------------

(* e is the record just before f in S.                                     *)
Precedes(S, e, f) == e.id \in PreviousHash(Before(S, f))

(* Without the "preceding" query: a range starts from expected_previous =  *)
(* None.                                                                   *)
VerifyChainUnseeded(S, T, since) ==
  LET records == { e \in S : e.created >= since }
  IN  { e \in records : e.chained /\ e.prev \notin PreviousHash(Before(records, e)) }

(* verify_chain's broken_links for the records created at or after since.  *)
(* It has two queries, for the records of the range among S, what is       *)
(* committed then, and for the one that precedes the range among T, what   *)
(* is committed by now; the loop carries the previous record's hash.       *)
VerifyChain(S, T, since) ==
  LET records == { e \in S : e.created >= since }
      expected(e) == IF Before(records, e) # {}
                       THEN PreviousHash(Before(records, e))
                       ELSE PreviousHash(Before(T, e))
  IN  { e \in records : e.chained /\ e.prev \notin expected(e) }
=============================================================================
