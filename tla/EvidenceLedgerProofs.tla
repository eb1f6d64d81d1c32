------------------------- MODULE EvidenceLedgerProofs -------------------------
(***************************************************************************)
(* Proofs about EvidenceLedger, for any sets of agents, nonces, scopes and *)
(* requests: the requests and what they record; then the hash chain, what  *)
(* verify_chain finds in a set of records, which links the pipeline can    *)
(* break, and which status an ALLOW was decided under.                     *)
(***************************************************************************)
EXTENDS EvidenceLedger, TLAPS

(* What a request is: used by every proof below.                           *)
LEMMA RequestTypes ==
  /\ \A r \in IntentReq : r \in Req /\ r.agent \in Agent /\ r.nonce \in Nonce
  /\ \A r \in ResolveReq :
       r \in Req /\ r \notin IntentReq /\ r.decision \in IntentReq /\ r.resolution \in Resolution
  /\ \A r \in Req : DecisionOf(r) \in IntentReq /\ ScopeOf(r) \in Scope
  /\ \A r \in Req : r \notin Scope /\ r # None
<1>1. \A r \in IntentReq : r \in Req /\ r.agent \in Agent /\ r.nonce \in Nonce
  BY RequestsAssumption DEF Req
<1>2. \A r \in ResolveReq :
        r \in Req /\ r \notin IntentReq /\ r.decision \in IntentReq /\ r.resolution \in Resolution
  BY RequestsAssumption DEF Req
<1>3. \A r \in Req : DecisionOf(r) \in IntentReq
  BY <1>2 DEF DecisionOf, Req
<1>4. \A r \in Req : ScopeOf(r) \in Scope
  BY <1>1, <1>3, ScopesAssumption DEF ScopeOf
<1>5. \A r \in Req : r \notin Scope /\ r # None
  BY ScopesAssumption
<1> QED BY <1>1, <1>2, <1>3, <1>4, <1>5

(* The tail of a set of Evidence records is one of them, or None.          *)
LEMMA PreviousHashType ==
  ASSUME NEW S, S \subseteq EvidenceRows, NEW p \in PreviousHash(S)
  PROVE  p \in Req \cup Scope \cup {None}
BY DEF PreviousHash, EvidenceRows

(* A closed session is a session.                                          *)
LEMMA SessionType == NoSession \in Session
BY DEF NoSession, Session, Status, Outcome

LEMMA EvidenceRowType ==
  ASSUME TypeOK, NEW r \in Req
  PROVE  EvidenceRow(r) \in EvidenceRows
<1>1. session[r] \in Session
  BY DEF TypeOK
<1>2. StatusOf(r) \in EvidenceStatus
  BY <1>1 DEF StatusOf, EvidenceStatus, Session, Outcome
<1>3. session[r].began \in Nat /\ session[r].prev \in Req \cup Scope \cup {None}
  BY <1>1 DEF Session
<1> QED
  BY <1>2, <1>3, RequestTypes DEF EvidenceRow, EvidenceRows

-----------------------------------------------------------------------------
(* Type correctness                                                        *)

(* The variables of the pipeline keep their types, for every value of the  *)
(* constants.                                                              *)
THEOREM TypeCorrect == Spec => []TypeOK
<1>1. Init => TypeOK
  <2> SUFFICES ASSUME Init PROVE TypeOK
    OBVIOUS
  <2>1. evidence \subseteq EvidenceRows
    <3> SUFFICES ASSUME NEW s \in V1Scope PROVE V1Record(s) \in EvidenceRows
      BY DEF Init
    <3> QED BY ScopesAssumption DEF V1Record, EvidenceRows, EvidenceStatus
  <2> QED BY <2>1, SessionType DEF Init, TypeOK, Status
<1>2. TypeOK /\ [Next]_vars => TypeOK'
  <2> SUFFICES ASSUME TypeOK, [Next]_vars PROVE TypeOK'
    OBVIOUS
  <2> USE DEF TypeOK, Go, End, NothingCommitted, Unmanaged, tables, InFlight, HoldsIntent, Ended
  <2>1. ASSUME NEW r \in Req, LoadAgent(r) PROVE TypeOK'
    <3>1. session' \in [Req -> Session]
      <4>1. CASE agentStatus[r.agent] \in {"active", "suspended"}
        <5>1. agentStatus[r.agent] \in Status
          BY <4>1 DEF Status
        <5> QED BY <2>1, <4>1, <5>1 DEF LoadAgent, Session
      <4>2. CASE agentStatus[r.agent] \notin {"active", "suspended"}
        BY <2>1, <4>2, SessionType DEF LoadAgent
      <4> QED BY <4>1, <4>2
    <3> QED BY <2>1, <3>1 DEF LoadAgent
  <2>2. ASSUME NEW r \in Req, LoadDecision(r) PROVE TypeOK'
    BY <2>2, SessionType DEF LoadDecision
  <2>3. ASSUME NEW r \in Req, InsertIntent(r) PROVE TypeOK'
    BY <2>3, SessionType DEF InsertIntent
  <2>4. ASSUME NEW r \in Req, Decide(r) PROVE TypeOK'
    <3>1. session' \in [Req -> Session]
      BY <2>4 DEF Decide, Session
    <3> QED BY <2>4, <3>1 DEF Decide
  <2>5. ASSUME NEW r \in Req, CheckUnresolved(r) PROVE TypeOK'
    BY <2>5, SessionType DEF CheckUnresolved
  <2>6. ASSUME NEW r \in Req, AppendEvidence(r) PROVE TypeOK'
    <3>1. PICK p \in PreviousHash(InScope(ScopeOf(r))) :
            session' = [session EXCEPT ![r].prev = p]
      BY <2>6 DEF AppendEvidence
    <3>2. p \in Req \cup Scope \cup {None}
      BY PreviousHashType DEF InScope
    <3>3. session' \in [Req -> Session]
      BY <3>1, <3>2 DEF Session
    <3> QED BY <2>6, <3>3 DEF AppendEvidence
  <2>7. ASSUME NEW r \in Req, CommitIntent(r) PROVE TypeOK'
    <3>1. [id |-> r, outcome |-> session[r].outcome] \in [id : IntentReq, outcome : Outcome]
      BY <2>7 DEF CommitIntent, Session
    <3> QED BY <2>7, <3>1, EvidenceRowType, SessionType DEF CommitIntent, CommitWithEvidence
  <2>8. ASSUME NEW r \in Req, CommitResolution(r) PROVE TypeOK'
    <3>1. ResolutionRow(r) \in [decision : IntentReq, resolution : Resolution, evidence : ResolveReq]
      BY <2>8, RequestTypes DEF CommitResolution, ResolutionRow
    <3> QED BY <2>8, <3>1, EvidenceRowType, SessionType DEF CommitResolution, CommitWithEvidence
  <2>9. ASSUME NEW r \in Req, RefuseDuplicateResolution(r) PROVE TypeOK'
    BY <2>9, SessionType DEF RefuseDuplicateResolution
  <2>10. ASSUME NEW r \in Req, Abort(r) PROVE TypeOK'
    BY <2>10, SessionType DEF Abort
  <2>11. ASSUME NEW a \in Managed, ChangeAgentStatus(a) PROVE TypeOK'
    BY <2>11 DEF ChangeAgentStatus, Status
  <2>12. CASE UNCHANGED vars
    BY <2>12 DEF vars
  <2>13. ASSUME NEW r \in Req, Open(r) PROVE TypeOK'
    <3>1. session' \in [Req -> Session]
      BY <2>13 DEF Open, Session
    <3> QED BY <2>13, <3>1 DEF Open
  <2> QED
    BY <2>1, <2>2, <2>3, <2>4, <2>5, <2>6, <2>7, <2>8, <2>9, <2>10, <2>11, <2>12, <2>13
    DEF Next, Serve
<1> QED BY <1>1, <1>2, PTL DEF Spec
-----------------------------------------------------------------------------
(* The inductive invariant                                                 *)

(* Each handler keeps to its own labels.                                   *)
LabelInv ==
  /\ \A r \in IntentReq : pc[r] \notin {"loaded", "unresolved"}
  /\ \A r \in ResolveReq : pc[r] \notin {"verified", "inserted", "decided"}

(* The unique index on (agent_id, nonce): an uncommitted row excludes both *)
(* a committed one and another uncommitted one.                            *)
NonceInv ==
  /\ \A r \in IntentReq : pc[r] \in HoldsIntent => ~Recorded(r)
  /\ \A r, q \in IntentReq :
       pc[r] \in HoldsIntent /\ pc[q] \in HoldsIntent /\ SameNonce(r, q) => r = q
  /\ OneDecisionPerNonce

(* A request's rows exist only once it is done, and a reviewer under way   *)
(* has seen a decision that wants a review.                                *)
AccountInv ==
  /\ \A r \in Req : pc[r] # "done" =>
       /\ \A d \in decisions : d.id # r
       /\ \A x \in resolutions : x.evidence # r
       /\ \A e \in evidence : e.id # r
  /\ \A r \in ResolveReq : pc[r] \in {"loaded", "unresolved", "appended"} =>
       [id |-> r.decision, outcome |-> "HUMAN_REVIEW"] \in decisions
  /\ EvidenceAccounts

(* Each handler keeps to its own labels.                                   *)
THEOREM LabelCorrect == Spec => []LabelInv
<1>1. Init => LabelInv
  BY RequestTypes DEF Init, LabelInv
<1>2. TypeOK /\ LabelInv /\ [Next]_vars => LabelInv'
  <2> SUFFICES ASSUME TypeOK, LabelInv, [Next]_vars PROVE LabelInv'
    OBVIOUS
  <2> USE DEF LabelInv, Go, End
  <2>0. pc \in [Req -> {"idle"} \cup InFlight \cup Ended]
    BY DEF TypeOK
  <2>1. ASSUME NEW r \in Req, LoadAgent(r) PROVE LabelInv'
    BY <2>0, <2>1, RequestTypes DEF LoadAgent
  <2>2. ASSUME NEW r \in Req, LoadDecision(r) PROVE LabelInv'
    BY <2>0, <2>2, RequestTypes DEF LoadDecision
  <2>3. ASSUME NEW r \in Req, InsertIntent(r) PROVE LabelInv'
    BY <2>0, <2>3, RequestTypes DEF InsertIntent
  <2>4. ASSUME NEW r \in Req, Decide(r) PROVE LabelInv'
    BY <2>0, <2>4, RequestTypes DEF Decide
  <2>5. ASSUME NEW r \in Req, CheckUnresolved(r) PROVE LabelInv'
    BY <2>0, <2>5, RequestTypes DEF CheckUnresolved
  <2>6. ASSUME NEW r \in Req, AppendEvidence(r) PROVE LabelInv'
    BY <2>0, <2>6, RequestTypes DEF AppendEvidence
  <2>7. ASSUME NEW r \in Req, CommitIntent(r) PROVE LabelInv'
    BY <2>0, <2>7, RequestTypes DEF CommitIntent, CommitWithEvidence
  <2>8. ASSUME NEW r \in Req, CommitResolution(r) PROVE LabelInv'
    BY <2>0, <2>8, RequestTypes DEF CommitResolution, CommitWithEvidence
  <2>9. ASSUME NEW r \in Req, RefuseDuplicateResolution(r) PROVE LabelInv'
    BY <2>0, <2>9, RequestTypes DEF RefuseDuplicateResolution
  <2>10. ASSUME NEW r \in Req, Abort(r) PROVE LabelInv'
    BY <2>0, <2>10, RequestTypes DEF Abort
  <2>11. ASSUME NEW a \in Managed, ChangeAgentStatus(a) PROVE LabelInv'
    BY <2>11 DEF ChangeAgentStatus
  <2>12. CASE UNCHANGED vars
    BY <2>12 DEF vars
  <2>13. ASSUME NEW r \in Req, Open(r) PROVE LabelInv'
    BY <2>0, <2>13, RequestTypes DEF Open
  <2> QED
    BY <2>1, <2>2, <2>3, <2>4, <2>5, <2>6, <2>7, <2>8, <2>9, <2>10, <2>11, <2>12, <2>13
    DEF Next, Serve
<1> QED BY <1>1, <1>2, TypeCorrect, PTL DEF Spec

-----------------------------------------------------------------------------
(* Replay protection                                                       *)

(* The unique index keeps one row for a nonce, uncommitted or committed.   *)
THEOREM NonceCorrect == Spec => []NonceInv
<1>1. Init => NonceInv
  BY RequestTypes DEF Init, NonceInv, HoldsIntent, OneDecisionPerNonce
<1>2. TypeOK /\ LabelInv /\ NonceInv /\ [Next]_vars => NonceInv'
  <2> SUFFICES ASSUME TypeOK, LabelInv, NonceInv, [Next]_vars PROVE NonceInv'
    OBVIOUS
  <2>0. /\ pc \in [Req -> {"idle"} \cup InFlight \cup Ended]
        /\ decisions \subseteq [id : IntentReq, outcome : Outcome]
    BY DEF TypeOK
  <2> USE DEF NonceInv, Go, End, NothingCommitted, tables, HoldsIntent
  <2>a. ASSUME UNCHANGED decisions,
               \A r \in IntentReq : pc'[r] \in HoldsIntent => pc[r] \in HoldsIntent
        PROVE  NonceInv'
    BY <2>a DEF OneDecisionPerNonce, Recorded
  <2>1. ASSUME NEW r \in Req, LoadAgent(r) PROVE NonceInv'
    BY <2>0, <2>1, <2>a, RequestTypes DEF LoadAgent
  <2>2. ASSUME NEW r \in Req, LoadDecision(r) PROVE NonceInv'
    BY <2>0, <2>2, <2>a, RequestTypes DEF LoadDecision
  <2>3. ASSUME NEW r \in Req, InsertIntent(r) PROVE NonceInv'
    <3>1. CASE Recorded(r) /\ End(r, "replay")
      BY <2>0, <2>3, <3>1, <2>a, RequestTypes DEF InsertIntent
    <3>2. CASE ~Recorded(r) /\ Go(r, "inserted") /\ UNCHANGED session
      BY <2>0, <2>3, <3>2, RequestTypes
      DEF InsertIntent, OneDecisionPerNonce, Recorded, SameNonce
    <3> QED BY <2>3, <3>1, <3>2 DEF InsertIntent
  <2>4. ASSUME NEW r \in Req, Decide(r) PROVE NonceInv'
    BY <2>0, <2>4, <2>a, RequestTypes DEF Decide
  <2>5. ASSUME NEW r \in Req, CheckUnresolved(r) PROVE NonceInv'
    BY <2>0, <2>5, <2>a, RequestTypes DEF CheckUnresolved, LabelInv
  <2>6. ASSUME NEW r \in Req, AppendEvidence(r) PROVE NonceInv'
    BY <2>0, <2>6, <2>a, RequestTypes DEF AppendEvidence, LabelInv
  <2>7. ASSUME NEW r \in Req, CommitIntent(r) PROVE NonceInv'
    <3> DEFINE new == [id |-> r, outcome |-> session[r].outcome]
    <3>1. r \in IntentReq /\ pc[r] = "appended" /\ decisions' = decisions \cup {new}
      BY <2>7 DEF CommitIntent
    <3>2. pc' = [pc EXCEPT ![r] = "done"]
      BY <2>7 DEF CommitIntent, CommitWithEvidence
    <3>3. \A d \in decisions : ~SameNonce(d.id, r) /\ ~SameNonce(r, d.id)
      BY <3>1 DEF Recorded, SameNonce
    <3>4. new.id = r
      OBVIOUS
    <3>5. OneDecisionPerNonce'
      BY <3>1, <3>3, <3>4 DEF OneDecisionPerNonce
    <3>6. \A q \in IntentReq : pc'[q] \in HoldsIntent => pc[q] \in HoldsIntent /\ q # r
      BY <2>0, <3>2, RequestTypes
    <3>7. \A q \in IntentReq : pc'[q] \in HoldsIntent => ~SameNonce(r, q)
      BY <3>1, <3>6
    <3>8. \A q \in IntentReq : pc'[q] \in HoldsIntent => ~Recorded(q)'
      BY <3>1, <3>4, <3>6, <3>7 DEF Recorded
    <3> QED BY <3>5, <3>6, <3>8
  <2>8. ASSUME NEW r \in Req, CommitResolution(r) PROVE NonceInv'
    BY <2>0, <2>8, <2>a, RequestTypes DEF CommitResolution, CommitWithEvidence
  <2>9. ASSUME NEW r \in Req, RefuseDuplicateResolution(r) PROVE NonceInv'
    BY <2>0, <2>9, <2>a, RequestTypes DEF RefuseDuplicateResolution
  <2>10. ASSUME NEW r \in Req, Abort(r) PROVE NonceInv'
    BY <2>0, <2>10, <2>a, RequestTypes DEF Abort
  <2>11. ASSUME NEW a \in Managed, ChangeAgentStatus(a) PROVE NonceInv'
    BY <2>11, <2>a DEF ChangeAgentStatus
  <2>12. CASE UNCHANGED vars
    BY <2>12, <2>a DEF vars
  <2>13. ASSUME NEW r \in Req, Open(r) PROVE NonceInv'
    BY <2>0, <2>13, <2>a, RequestTypes DEF Open
  <2> QED
    BY <2>1, <2>2, <2>3, <2>4, <2>5, <2>6, <2>7, <2>8, <2>9, <2>10, <2>11, <2>12, <2>13
    DEF Next, Serve
<1> QED BY <1>1, <1>2, TypeCorrect, LabelCorrect, PTL DEF Spec

(* At most one decision is ever recorded for an agent and a nonce, however *)
(* many requests carry them.                                               *)
THEOREM ReplayProtection == Spec => []OneDecisionPerNonce
<1>1. NonceInv => OneDecisionPerNonce
  BY DEF NonceInv
<1> QED BY <1>1, NonceCorrect, PTL
-----------------------------------------------------------------------------
(* Accounting of evidence                                                  *)

(* The status of an intent's Evidence record tells its outcome.            *)
LEMMA StatusFits ==
  ASSUME TypeOK, NEW r \in Req
  PROVE  /\ r \in IntentReq =>
              /\ StatusOf(r) = "PENDING" <=> session[r].outcome = "HUMAN_REVIEW"
              /\ StatusOf(r) = "VERIFIED" <=> session[r].outcome = "ALLOW"
         /\ r \notin IntentReq => (StatusOf(r) = "VERIFIED" <=> r.resolution = "approved")
<1>1. session[r].outcome \in Outcome
  BY DEF TypeOK, Session
<1> QED BY <1>1 DEF StatusOf, Outcome

(* A step that commits nothing keeps AccountInv, provided that it finishes *)
(* no request and lets a reviewer in only on a decision that wants one.    *)
LEMMA AccountQuiet ==
  ASSUME AccountInv, UNCHANGED <<decisions, evidence, resolutions>>,
         \A r \in Req : pc'[r] # "done" => pc[r] # "done",
         \A r \in ResolveReq : pc'[r] \in {"loaded", "unresolved", "appended"} =>
           \/ pc[r] \in {"loaded", "unresolved", "appended"}
           \/ [id |-> r.decision, outcome |-> "HUMAN_REVIEW"] \in decisions
  PROVE  AccountInv'
<1>1. EvidenceAccounts'
  BY DEF AccountInv, EvidenceAccounts
<1>2. \A r \in Req : pc'[r] # "done" =>
        /\ \A d \in decisions' : d.id # r
        /\ \A x \in resolutions' : x.evidence # r
        /\ \A e \in evidence' : e.id # r
  BY DEF AccountInv
<1>3. \A r \in ResolveReq : pc'[r] \in {"loaded", "unresolved", "appended"} =>
        [id |-> r.decision, outcome |-> "HUMAN_REVIEW"] \in decisions'
  BY DEF AccountInv
<1> QED BY <1>1, <1>2, <1>3 DEF AccountInv

(* Every decision and every resolution has exactly one Evidence record of  *)
(* its own, and there is no other Evidence record.                         *)
THEOREM AccountCorrect == Spec => []AccountInv
<1>1. Init => AccountInv
  <2> SUFFICES ASSUME Init PROVE AccountInv
    OBVIOUS
  <2>1. \A e \in evidence : e.id \in V1Scope /\ e = V1Record(e.id)
    BY DEF Init, V1Record
  <2>2. EvidenceAccounts
    BY <2>1 DEF Init, EvidenceAccounts
  <2>3. \A r \in Req : pc[r] = "idle" /\ \A e \in evidence : e.id # r
    BY <2>1, RequestTypes, ScopesAssumption DEF Init
  <2> QED BY <2>2, <2>3, RequestTypes DEF Init, AccountInv
<1>2. TypeOK /\ LabelInv /\ AccountInv /\ [Next]_vars => AccountInv'
  <2> SUFFICES ASSUME TypeOK, LabelInv, AccountInv, [Next]_vars PROVE AccountInv'
    OBVIOUS
  <2>0. /\ pc \in [Req -> {"idle"} \cup InFlight \cup Ended]
        /\ evidence \subseteq EvidenceRows
        /\ decisions \subseteq [id : IntentReq, outcome : Outcome]
    BY DEF TypeOK
  <2> USE DEF Go, End, NothingCommitted, tables
  <2>1. ASSUME NEW r \in Req, LoadAgent(r) PROVE AccountInv'
    BY <2>0, <2>1, AccountQuiet, RequestTypes DEF LoadAgent
  <2>2. ASSUME NEW r \in Req, LoadDecision(r) PROVE AccountInv'
    BY <2>0, <2>2, AccountQuiet, RequestTypes DEF LoadDecision
  <2>3. ASSUME NEW r \in Req, InsertIntent(r) PROVE AccountInv'
    BY <2>0, <2>3, AccountQuiet, RequestTypes DEF InsertIntent
  <2>4. ASSUME NEW r \in Req, Decide(r) PROVE AccountInv'
    BY <2>0, <2>4, AccountQuiet, RequestTypes DEF Decide
  <2>5. ASSUME NEW r \in Req, CheckUnresolved(r) PROVE AccountInv'
    BY <2>0, <2>5, AccountQuiet, RequestTypes DEF CheckUnresolved
  <2>6. ASSUME NEW r \in Req, AppendEvidence(r) PROVE AccountInv'
    BY <2>0, <2>6, AccountQuiet, RequestTypes DEF AppendEvidence, LabelInv
  <2>7. ASSUME NEW r \in Req, CommitIntent(r) PROVE AccountInv'
    <3> DEFINE d == [id |-> r, outcome |-> session[r].outcome]
               e == EvidenceRow(r)
    <3>1. /\ r \in IntentReq /\ pc[r] = "appended"
          /\ decisions' = decisions \cup {d} /\ evidence' = evidence \cup {e}
          /\ resolutions' = resolutions /\ pc' = [pc EXCEPT ![r] = "done"]
      BY <2>7 DEF CommitIntent, CommitWithEvidence
    <3>2. e.id = r /\ e.status = StatusOf(r) /\ d.id = r /\ d.outcome = session[r].outcome
      BY DEF EvidenceRow
    <3>3. \A f \in evidence : f.id # r
      BY <3>1 DEF AccountInv
    <3> HIDE DEF d, e
    <3>4. \A c \in decisions' : \E f \in evidence' :
             /\ f.id = c.id
             /\ f.status = "PENDING" <=> c.outcome = "HUMAN_REVIEW"
             /\ f.status = "VERIFIED" <=> c.outcome = "ALLOW"
      BY <3>1, <3>2, StatusFits DEF AccountInv, EvidenceAccounts
    <3>5. \A x \in resolutions' :
             /\ [id |-> x.decision, outcome |-> "HUMAN_REVIEW"] \in decisions'
             /\ \A y \in resolutions' : x.decision = y.decision => x = y
             /\ \E f \in evidence' :
                  /\ f.id = x.evidence
                  /\ f.decision = x.decision
                  /\ f.status = "VERIFIED" <=> x.resolution = "approved"
      <4> SUFFICES ASSUME NEW x \in resolutions
                   PROVE  /\ [id |-> x.decision, outcome |-> "HUMAN_REVIEW"] \in decisions
                          /\ \A y \in resolutions : x.decision = y.decision => x = y
                          /\ \E f \in evidence :
                               /\ f.id = x.evidence
                               /\ f.decision = x.decision
                               /\ f.status = "VERIFIED" <=> x.resolution = "approved"
        BY <3>1
      <4> QED BY DEF AccountInv, EvidenceAccounts
    <3>6. \A f \in evidence' :
             \/ f.id \in V1Scope
             \/ \E c \in decisions' : c.id = f.id
             \/ \E x \in resolutions' : x.evidence = f.id
      BY <3>1, <3>2 DEF AccountInv, EvidenceAccounts
    <3>7. \A f, g \in evidence' : f.id = g.id => f = g
      BY <3>1, <3>2, <3>3 DEF AccountInv, EvidenceAccounts
    <3>8. EvidenceAccounts'
      BY <3>4, <3>5, <3>6, <3>7 DEF EvidenceAccounts
    <3>9. \A q \in Req : pc'[q] # "done" => pc[q] # "done" /\ q # r
      BY <2>0, <3>1
    <3>10. \A q \in Req : pc'[q] # "done" =>
             /\ \A c \in decisions' : c.id # q
             /\ \A x \in resolutions' : x.evidence # q
             /\ \A f \in evidence' : f.id # q
      BY <3>1, <3>2, <3>9 DEF AccountInv
    <3>11. \A q \in ResolveReq : pc'[q] \in {"loaded", "unresolved", "appended"} =>
              [id |-> q.decision, outcome |-> "HUMAN_REVIEW"] \in decisions'
      BY <2>0, <3>1, RequestTypes DEF AccountInv
    <3> QED BY <3>8, <3>10, <3>11 DEF AccountInv
  <2>8. ASSUME NEW r \in Req, CommitResolution(r) PROVE AccountInv'
    <3> DEFINE z == ResolutionRow(r)
               e == EvidenceRow(r)
    <3>1. /\ r \in ResolveReq /\ pc[r] = "appended" /\ ~Resolved(r.decision)
          /\ resolutions' = resolutions \cup {z} /\ evidence' = evidence \cup {e}
          /\ decisions' = decisions /\ pc' = [pc EXCEPT ![r] = "done"]
      BY <2>8 DEF CommitResolution, CommitWithEvidence
    <3>2. /\ e.id = r /\ e.status = StatusOf(r) /\ e.decision = r.decision
          /\ z.decision = r.decision /\ z.resolution = r.resolution /\ z.evidence = r
      BY <3>1, RequestTypes DEF EvidenceRow, ResolutionRow, DecisionOf
    <3>3. /\ \A f \in evidence : f.id # r
          /\ [id |-> r.decision, outcome |-> "HUMAN_REVIEW"] \in decisions
          /\ \A x \in resolutions : x.decision # r.decision
      BY <3>1 DEF AccountInv, Resolved
    <3>4. StatusOf(r) = "VERIFIED" <=> r.resolution = "approved"
      BY <3>1, StatusFits, RequestTypes
    <3> HIDE DEF z, e
    <3>5. \A x \in resolutions' :
             /\ [id |-> x.decision, outcome |-> "HUMAN_REVIEW"] \in decisions'
             /\ \A y \in resolutions' : x.decision = y.decision => x = y
             /\ \E f \in evidence' :
                  /\ f.id = x.evidence
                  /\ f.decision = x.decision
                  /\ f.status = "VERIFIED" <=> x.resolution = "approved"
      <4>1. \A x \in resolutions : 
              /\ [id |-> x.decision, outcome |-> "HUMAN_REVIEW"] \in decisions
              /\ \A y \in resolutions : x.decision = y.decision => x = y
        BY DEF AccountInv, EvidenceAccounts
      <4>2. \A x \in resolutions : \E f \in evidence :
              /\ f.id = x.evidence
              /\ f.decision = x.decision
              /\ f.status = "VERIFIED" <=> x.resolution = "approved"
        BY DEF AccountInv, EvidenceAccounts
      <4>3. \A x, y \in resolutions' : x.decision = y.decision => x = y
        BY <3>1, <3>2, <3>3, <4>1
      <4>4. \A x \in resolutions' : \E f \in evidence' :
              /\ f.id = x.evidence
              /\ f.decision = x.decision
              /\ f.status = "VERIFIED" <=> x.resolution = "approved"
        BY <3>1, <3>2, <3>4, <4>2
      <4>5. \A x \in resolutions' : [id |-> x.decision, outcome |-> "HUMAN_REVIEW"] \in decisions'
        BY <3>1, <3>2, <3>3, <4>1
      <4> QED BY <4>3, <4>4, <4>5
    <3>6. /\ \A c \in decisions' : \E f \in evidence' :
                /\ f.id = c.id
                /\ f.status = "PENDING" <=> c.outcome = "HUMAN_REVIEW"
                /\ f.status = "VERIFIED" <=> c.outcome = "ALLOW"
          /\ \A f \in evidence' :
                \/ f.id \in V1Scope
                \/ \E c \in decisions' : c.id = f.id
                \/ \E x \in resolutions' : x.evidence = f.id
      BY <3>1, <3>2 DEF AccountInv, EvidenceAccounts
    <3>7. \A f, g \in evidence' : f.id = g.id => f = g
      BY <3>1, <3>2, <3>3 DEF AccountInv, EvidenceAccounts
    <3>8. EvidenceAccounts'
      BY <3>5, <3>6, <3>7 DEF EvidenceAccounts
    <3>9. \A q \in Req : pc'[q] # "done" => pc[q] # "done" /\ q # r
      BY <2>0, <3>1
    <3>10. \A q \in Req : pc'[q] # "done" =>
             /\ \A c \in decisions' : c.id # q
             /\ \A x \in resolutions' : x.evidence # q
             /\ \A f \in evidence' : f.id # q
      BY <3>1, <3>2, <3>9 DEF AccountInv
    <3>11. \A q \in ResolveReq : pc'[q] \in {"loaded", "unresolved", "appended"} =>
              [id |-> q.decision, outcome |-> "HUMAN_REVIEW"] \in decisions'
      BY <2>0, <3>1, RequestTypes DEF AccountInv
    <3> QED BY <3>8, <3>10, <3>11 DEF AccountInv
  <2>9. ASSUME NEW r \in Req, RefuseDuplicateResolution(r) PROVE AccountInv'
    BY <2>0, <2>9, AccountQuiet, RequestTypes DEF RefuseDuplicateResolution
  <2>10. ASSUME NEW r \in Req, Abort(r) PROVE AccountInv'
    BY <2>0, <2>10, AccountQuiet, RequestTypes DEF Abort, InFlight, HoldsIntent
  <2>11. ASSUME NEW a \in Managed, ChangeAgentStatus(a) PROVE AccountInv'
    BY <2>11, AccountQuiet DEF ChangeAgentStatus
  <2>12. CASE UNCHANGED vars
    BY <2>12, AccountQuiet DEF vars
  <2>13. ASSUME NEW r \in Req, Open(r) PROVE AccountInv'
    BY <2>0, <2>13, AccountQuiet, RequestTypes DEF Open
  <2> QED
    BY <2>1, <2>2, <2>3, <2>4, <2>5, <2>6, <2>7, <2>8, <2>9, <2>10, <2>11, <2>12, <2>13
    DEF Next, Serve
<1> QED BY <1>1, <1>2, TypeCorrect, LabelCorrect, PTL DEF Spec
(* EvidenceAccounts as a property of the specification.                    *)
THEOREM EvidenceAccounted == Spec => []EvidenceAccounts
<1>1. AccountInv => EvidenceAccounts
  BY DEF AccountInv
<1> QED BY <1>1, AccountCorrect, PTL

-----------------------------------------------------------------------------
(* The refinement: every commit is one write of DecisionRegister, and no   *)
(* other step shows.                                                       *)

outcomes == [k \in Key |-> OutcomeOf(k)]
verdicts == [k \in Key |-> VerdictOf(k)]

(* The key of a decision is a key of the register, and tells its agent and *)
(* nonce.                                                                  *)
LEMMA KeyTypes ==
  /\ \A r \in IntentReq : KeyOf(r) \in Key
  /\ \A r, q \in IntentReq : KeyOf(r) = KeyOf(q) => SameNonce(r, q)
BY RequestTypes DEF Key, KeyOf, SameNonce

(* OutcomeOf reads the decision recorded under a key, and "none" when      *)
(* there is none.                                                          *)
OutcomeReads ==
  /\ \A d \in decisions : OutcomeOf(KeyOf(d.id)) = d.outcome
  /\ \A k : (\A d \in decisions : KeyOf(d.id) # k) => OutcomeOf(k) = "none"

VerdictReads ==
  /\ \A x \in resolutions : VerdictOf(KeyOf(x.decision)) = x.resolution
  /\ \A k : (\A x \in resolutions : KeyOf(x.decision) # k) => VerdictOf(k) = "none"

(* With one decision per key, OutcomeOf reads it.                          *)
LEMMA OutcomeRead == TypeOK /\ OneDecisionPerNonce => OutcomeReads
<1> SUFFICES ASSUME TypeOK, OneDecisionPerNonce PROVE OutcomeReads
  OBVIOUS
<1>1. ASSUME NEW d \in decisions PROVE OutcomeOf(KeyOf(d.id)) = d.outcome
  <2> DEFINE c == CHOOSE c \in decisions : KeyOf(c.id) = KeyOf(d.id)
  <2>1. c \in decisions /\ KeyOf(c.id) = KeyOf(d.id)
    OBVIOUS
  <2> HIDE DEF c
  <2>2. c.id \in IntentReq /\ d.id \in IntentReq
    BY <2>1 DEF TypeOK
  <2>3. c = d
    BY <2>1, <2>2, KeyTypes DEF OneDecisionPerNonce
  <2> QED BY <2>3 DEF OutcomeOf, c
<1>2. ASSUME NEW k, \A d \in decisions : KeyOf(d.id) # k PROVE OutcomeOf(k) = "none"
  BY <1>2 DEF OutcomeOf
<1> QED BY <1>1, <1>2 DEF OutcomeReads

(* With one resolution per decision, VerdictOf reads it.                   *)
LEMMA VerdictRead == TypeOK /\ OneDecisionPerNonce /\ EvidenceAccounts => VerdictReads
<1> SUFFICES ASSUME TypeOK, OneDecisionPerNonce, EvidenceAccounts PROVE VerdictReads
  OBVIOUS
<1>1. ASSUME NEW x \in resolutions PROVE VerdictOf(KeyOf(x.decision)) = x.resolution
  <2> DEFINE y == CHOOSE y \in resolutions : KeyOf(y.decision) = KeyOf(x.decision)
  <2>1. y \in resolutions /\ KeyOf(y.decision) = KeyOf(x.decision)
    OBVIOUS
  <2> HIDE DEF y
  <2>2. /\ y.decision \in IntentReq /\ x.decision \in IntentReq
    BY <2>1 DEF TypeOK
  <2>3. /\ [id |-> y.decision, outcome |-> "HUMAN_REVIEW"] \in decisions
        /\ [id |-> x.decision, outcome |-> "HUMAN_REVIEW"] \in decisions
    BY <2>1 DEF EvidenceAccounts
  <2>4. y.decision = x.decision
    <3>1. \A c, d \in decisions : SameNonce(c.id, d.id) => c.id = d.id
      BY DEF OneDecisionPerNonce
    <3>2. SameNonce(y.decision, x.decision)
      BY <2>1, <2>2, KeyTypes
    <3> QED BY <2>3, <3>1, <3>2
  <2>5. y = x
    BY <2>1, <2>4 DEF EvidenceAccounts
  <2> QED BY <2>5 DEF VerdictOf, y
<1>2. ASSUME NEW k, \A x \in resolutions : KeyOf(x.decision) # k PROVE VerdictOf(k) = "none"
  BY <1>2 DEF VerdictOf
<1> QED BY <1>1, <1>2 DEF VerdictReads

(* Both hold after any step as well.                                       *)
LEMMA ReadsNext ==
  /\ TypeOK' /\ OneDecisionPerNonce' => OutcomeReads'
  /\ TypeOK' /\ OneDecisionPerNonce' /\ EvidenceAccounts' => VerdictReads'
<1>1. TypeOK' /\ OneDecisionPerNonce' => OutcomeReads'
  BY OutcomeRead, PTL
<1>2. TypeOK' /\ OneDecisionPerNonce' /\ EvidenceAccounts' => VerdictReads'
  BY VerdictRead, PTL
<1> QED BY <1>1, <1>2

(* A decision's commit records its outcome under a key that had none.      *)
LEMMA CommitRecords ==
  ASSUME TypeOK, NonceInv, TypeOK', OneDecisionPerNonce', NEW r \in Req, CommitIntent(r)
  PROVE  \E k \in Key : \E o \in Outcome :
           /\ outcomes[k] = "none"
           /\ outcomes' = [outcomes EXCEPT ![k] = o]
           /\ verdicts' = verdicts
<1>0. OutcomeReads /\ OutcomeReads'
  BY OutcomeRead, ReadsNext DEF NonceInv
<1>1. PICK o, key : o = session[r].outcome /\ key = KeyOf(r)
  OBVIOUS
<1>2. /\ r \in IntentReq /\ decisions' = decisions \cup {[id |-> r, outcome |-> o]}
      /\ resolutions' = resolutions /\ ~Recorded(r)
  BY <1>1 DEF CommitIntent, NonceInv, HoldsIntent
<1>3. o \in Outcome /\ key \in Key /\ \A d \in decisions : d.id \in IntentReq
  BY <1>1, <1>2, KeyTypes DEF TypeOK, Session
<1>4. \A d \in decisions : KeyOf(d.id) # key
  BY <1>1, <1>2, <1>3, KeyTypes DEF Recorded
<1>5. OutcomeOf(key) = "none"
  BY <1>0, <1>4 DEF OutcomeReads
<1>6. OutcomeOf(key)' = o
  BY <1>0, <1>1, <1>2 DEF OutcomeReads, KeyOf
<1>7. ASSUME NEW k \in Key, k # key PROVE OutcomeOf(k)' = OutcomeOf(k)
  <2>1. CASE \E d \in decisions : KeyOf(d.id) = k
    BY <1>0, <1>2, <2>1 DEF OutcomeReads, KeyOf
  <2>2. CASE \A d \in decisions : KeyOf(d.id) # k
    <3>1. \A d \in decisions' : KeyOf(d.id) # k
      BY <1>1, <1>2, <1>7, <2>2
    <3>2. OutcomeOf(k)' = "none"
      BY <1>0, <3>1 DEF OutcomeReads, KeyOf
    <3> QED BY <1>0, <2>2, <3>2 DEF OutcomeReads
  <2> QED BY <2>1, <2>2
<1>8. outcomes' = [outcomes EXCEPT ![key] = o]
  BY <1>3, <1>6, <1>7 DEF outcomes
<1>9. verdicts' = verdicts
  BY <1>2 DEF verdicts, VerdictOf
<1> QED BY <1>3, <1>5, <1>8, <1>9 DEF outcomes

(* A review's commit gives its verdict to a key whose outcome is           *)
(* HUMAN_REVIEW and that had none.                                         *)
LEMMA CommitResolves ==
  ASSUME TypeOK, OneDecisionPerNonce, AccountInv,
         TypeOK', OneDecisionPerNonce', EvidenceAccounts', NEW r \in Req, CommitResolution(r)
  PROVE  \E k \in Key : \E v \in Resolution :
           /\ outcomes[k] = "HUMAN_REVIEW"
           /\ verdicts[k] = "none"
           /\ verdicts' = [verdicts EXCEPT ![k] = v]
           /\ outcomes' = outcomes
<1>0. OutcomeReads /\ VerdictReads /\ VerdictReads'
  BY OutcomeRead, VerdictRead, ReadsNext DEF AccountInv
<1>1. PICK v, key : v = r.resolution /\ key = KeyOf(r.decision)
  OBVIOUS
<1>2. /\ r \in ResolveReq /\ decisions' = decisions
      /\ resolutions' = resolutions \cup {[decision |-> r.decision, resolution |-> v, evidence |-> r]}
      /\ \A x \in resolutions : x.decision # r.decision
      /\ [id |-> r.decision, outcome |-> "HUMAN_REVIEW"] \in decisions
  BY <1>1 DEF CommitResolution, ResolutionRow, Resolved, AccountInv
<1>3. v \in Resolution /\ key \in Key /\ r.decision \in IntentReq
  BY <1>1, <1>2, KeyTypes, RequestTypes
<1>4. OutcomeOf(key) = "HUMAN_REVIEW"
  BY <1>0, <1>1, <1>2 DEF OutcomeReads
<1>5. \A x \in resolutions : KeyOf(x.decision) # key
  <2> SUFFICES ASSUME NEW x \in resolutions, KeyOf(x.decision) = key PROVE FALSE
    OBVIOUS
  <2>1. [id |-> x.decision, outcome |-> "HUMAN_REVIEW"] \in decisions /\ x.decision \in IntentReq
    BY DEF AccountInv, EvidenceAccounts, TypeOK
  <2>2. SameNonce(x.decision, r.decision)
    BY <1>1, <1>3, <2>1, KeyTypes
  <2>3. \A c, d \in decisions : SameNonce(c.id, d.id) => c.id = d.id
    BY DEF OneDecisionPerNonce
  <2> QED BY <1>2, <2>1, <2>2, <2>3
<1>6. VerdictOf(key) = "none"
  BY <1>0, <1>5 DEF VerdictReads
<1>7. VerdictOf(key)' = v
  <2>1. PICK x : x = [decision |-> r.decision, resolution |-> v, evidence |-> r]
    OBVIOUS
  <2>2. x \in resolutions' /\ x.resolution = v /\ key = KeyOf(x.decision)
    BY <1>1, <1>2, <2>1
  <2>3. \A y \in resolutions' : VerdictOf(KeyOf(y.decision))' = y.resolution
    BY <1>0 DEF VerdictReads, KeyOf
  <2> QED BY <2>2, <2>3 DEF KeyOf
<1>8. ASSUME NEW k \in Key, k # key PROVE VerdictOf(k)' = VerdictOf(k)
  <2>1. CASE \E x \in resolutions : KeyOf(x.decision) = k
    BY <1>0, <1>2, <2>1 DEF VerdictReads, KeyOf
  <2>2. CASE \A x \in resolutions : KeyOf(x.decision) # k
    <3>1. \A x \in resolutions' : KeyOf(x.decision) # k
      BY <1>1, <1>2, <1>8, <2>2
    <3>2. VerdictOf(k)' = "none"
      BY <1>0, <3>1 DEF VerdictReads, KeyOf
    <3> QED BY <1>0, <2>2, <3>2 DEF VerdictReads
  <2> QED BY <2>1, <2>2
<1>9. verdicts' = [verdicts EXCEPT ![key] = v]
  BY <1>3, <1>7, <1>8 DEF verdicts
<1>10. outcomes' = outcomes
  BY <1>2 DEF outcomes, OutcomeOf
<1> QED BY <1>3, <1>4, <1>6, <1>9, <1>10 DEF outcomes, verdicts

(* Seen through OutcomeOf and VerdictOf, the pipeline is the register of   *)
(* DecisionRegister: initial states map to its initial state, a commit to  *)
(* one of its steps, and everything else to a stutter.                     *)
THEOREM RegisterImplemented == Spec => ImplementsRegister
<1>1. Init => Register!Init
  BY DEF Init, Register!Init, OutcomeOf, VerdictOf, Register!Undecided
<1>2. /\ TypeOK /\ NonceInv /\ AccountInv /\ TypeOK' /\ NonceInv' /\ AccountInv'
      /\ [Next]_vars
      => [Register!Next]_<<outcomes, verdicts>>
  <2> SUFFICES ASSUME TypeOK, NonceInv, AccountInv, TypeOK', NonceInv', AccountInv', [Next]_vars
               PROVE  [Register!Next]_<<outcomes, verdicts>>
    OBVIOUS
  <2>0. OneDecisionPerNonce /\ OneDecisionPerNonce' /\ EvidenceAccounts'
    BY DEF NonceInv, AccountInv
  <2>1. ASSUME NEW r \in Req, CommitIntent(r) PROVE Register!Next
    BY <2>0, <2>1, CommitRecords
    DEF Register!Next, Register!Record, Register!Undecided, Outcome, outcomes, verdicts
  <2>2. ASSUME NEW r \in Req, CommitResolution(r) PROVE Register!Next
    BY <2>0, <2>2, CommitResolves
    DEF Register!Next, Register!Resolve, Register!Undecided, Resolution, outcomes, verdicts
  <2>3. CASE UNCHANGED <<decisions, resolutions>>
    BY <2>3 DEF outcomes, verdicts, OutcomeOf, VerdictOf
  <2>4. \/ \E r \in Req : CommitIntent(r) \/ CommitResolution(r)
        \/ UNCHANGED <<decisions, resolutions>>
    BY DEF Next, Serve, Open, LoadAgent, LoadDecision, InsertIntent, Decide, CheckUnresolved,
           AppendEvidence, RefuseDuplicateResolution, Abort, ChangeAgentStatus,
           NothingCommitted, tables, vars
  <2> QED BY <2>1, <2>2, <2>3, <2>4
<1> QED
  BY <1>1, <1>2, TypeCorrect, NonceCorrect, AccountCorrect, PTL
  DEF Spec, ImplementsRegister, Register!Spec, outcomes, verdicts

-----------------------------------------------------------------------------
(* The hash chain *)

(* verify_chain decides every link of its range by what one of its two     *)
(* queries saw: S, or, for the first record of the range, T.               *)
LEMMA VerifyChainReads ==
  ASSUME NEW S, NEW T, S \subseteq T, \A e \in S : e.created \in Nat, NEW since \in Nat
  PROVE  /\ \A e \in VerifyChain(S, T, since) : e \in S /\ e.created >= since
         /\ \A e \in S : e.created >= since =>
              \/ e \in VerifyChain(S, T, since) <=> e \in BrokenLinks(S)
              \/ e \in VerifyChain(S, T, since) <=> e \in BrokenLinks(T)
<1> DEFINE records == { e \in S : e.created >= since }
           expected(e) == IF Before(records, e) # {}
                            THEN PreviousHash(Before(records, e))
                            ELSE PreviousHash(Before(T, e))
<1>1. ASSUME NEW e \in records, Before(records, e) # {}
      PROVE  PreviousHash(Before(records, e)) = PreviousHash(Before(S, e))
  <2>1. Before(records, e) \subseteq Before(S, e)
    BY DEF Before
  <2>2. PICK z \in Before(records, e) : TRUE
    BY <1>1
  <2>3. ASSUME NEW x \in Before(S, e), \A y \in Before(S, e) : y.created <= x.created
        PROVE  x \in Before(records, e)
    BY <2>1, <2>2, <2>3 DEF Before
  <2>4. ASSUME NEW x \in Before(records, e),
               \A y \in Before(records, e) : y.created <= x.created,
               NEW y \in Before(S, e)
        PROVE  y.created <= x.created
    BY <2>4 DEF Before
  <2>5. { x \in Before(S, e) : \A y \in Before(S, e) : y.created <= x.created }
          = { x \in Before(records, e) : \A y \in Before(records, e) : y.created <= x.created }
    BY <2>1, <2>3, <2>4
  <2>6. Before(S, e) # {}
    BY <2>1, <2>2
  <2> QED BY <1>1, <2>5, <2>6 DEF PreviousHash
<1>2. VerifyChain(S, T, since) = { e \in records : e.chained /\ e.prev \notin expected(e) }
  BY DEF VerifyChain
<1>3. ASSUME NEW e \in records
      PROVE  \/ expected(e) = PreviousHash(Before(S, e))
             \/ expected(e) = PreviousHash(Before(T, e))
  BY <1>1
<1>4. ASSUME NEW e \in S, e.created >= since
      PROVE  \/ e \in VerifyChain(S, T, since) <=> e \in BrokenLinks(S)
             \/ e \in VerifyChain(S, T, since) <=> e \in BrokenLinks(T)
  <2>1. e \in records /\ e \in T
    BY <1>4
  <2>2. e \in VerifyChain(S, T, since) <=> e.chained /\ e.prev \notin expected(e)
    BY <1>2, <2>1
  <2> HIDE DEF expected
  <2> QED BY <1>3, <2>1, <2>2 DEF BrokenLinks, LinkHolds
<1> QED BY <1>2, <1>4

(* With nothing committed between its queries, verify_chain reports        *)
(* exactly the broken links of the whole scope that fall in the range, in  *)
(* any set of records.                                                     *)
LEMMA VerifiedExact ==
  ASSUME NEW S, \A e \in S : e.created \in Nat, NEW since \in Nat
  PROVE  Verified(S, since) = { e \in BrokenLinks(S) : e.created >= since }
<1>1. \A e \in Verified(S, since) : e \in S /\ e.created >= since
  BY VerifyChainReads DEF Verified
<1>2. \A e \in S : e.created >= since => (e \in Verified(S, since) <=> e \in BrokenLinks(S))
  BY VerifyChainReads DEF Verified
<1> QED BY <1>1, <1>2 DEF BrokenLinks

(* A record is the tail of a set only if it belongs to it.                 *)
LEMMA PreviousHashIn ==
  ASSUME NEW S, NEW p \in PreviousHash(S), p # None
  PROVE  \E x \in S : x.id = p /\ \A y \in S : y.created <= x.created
BY DEF PreviousHash

(* A scope's part of the evidence table has the types of the table.        *)
LEMMA InScopeType ==
  ASSUME TypeOK, NEW s
  PROVE  \A e \in InScope(s) : e \in evidence /\ e \in EvidenceRows /\ e.scope = s
                               /\ e.created \in Nat
BY DEF TypeOK, InScope, EvidenceRows

(* verify_chain over a date range agrees with the chain as a whole, and    *)
(* with what either of its queries saw of it.                              *)
THEOREM RangesAgree == Spec => []RangeAgrees
<1>1. TypeOK => RangeAgrees
  <2> SUFFICES ASSUME TypeOK, NEW s \in Scope, NEW seen \in 0 .. clock, NEW since \in 0 .. clock,
                      NEW S, S = { e \in InScope(s) : CommitTime(e) <= seen }
               PROVE  /\ \A e \in VerifyChain(S, InScope(s), since) :
                           /\ e \in BrokenLinks(S) \cup BrokenLinks(InScope(s))
                           /\ e \in S /\ e.created >= since
                      /\ \A e \in S :
                           /\ e \in BrokenLinks(S) \cap BrokenLinks(InScope(s))
                           /\ e.created >= since
                           => e \in VerifyChain(S, InScope(s), since)
    BY DEF RangeAgrees
  <2>1. since \in Nat /\ S \subseteq InScope(s) /\ \A e \in S : e.created \in Nat
    BY InScopeType
  <2>2. /\ \A e \in VerifyChain(S, InScope(s), since) : e \in S /\ e.created >= since
        /\ \A e \in S : e.created >= since =>
             \/ e \in VerifyChain(S, InScope(s), since) <=> e \in BrokenLinks(S)
             \/ e \in VerifyChain(S, InScope(s), since) <=> e \in BrokenLinks(InScope(s))
    BY <2>1, VerifyChainReads
  <2> QED BY <2>2
<1> QED BY <1>1, TypeCorrect, PTL

-----------------------------------------------------------------------------
(* Which links hold                                                        *)

(* The record x, whose transaction began at t and has committed by u, read *)
(* p as the tail of scope s: every other record committed before t is p or *)
(* sorts before it, and p was committed when it was read.                  *)
Linked(x, p, s, t, u) ==
  IF p = None
    THEN \A f \in InScope(s) : f.id # x => t <= CommitTime(f)
    ELSE \E g \in InScope(s) :
           /\ g.id = p /\ p # x
           /\ CommitTime(g) <= u
           /\ \A f \in InScope(s) : f.id # x /\ CommitTime(f) < t => f.created <= g.created

(* Nobody is ahead of the clock, a record is committed after its           *)
(* transaction began, and every record is linked, the one a request has    *)
(* inserted and not committed yet too.                                     *)
ChainInv ==
  /\ \A r \in Req : committedAt[r] <= clock /\ session[r].began <= clock
  /\ \A e \in evidence : e.created <= CommitTime(e)
  /\ \A e \in evidence : ~e.chained => e.prev = None
  /\ \A e \in evidence : e.chained =>
       Linked(e.id, e.prev, e.scope, e.created, CommitTime(e))
  /\ \A r \in Req : pc[r] = "appended" =>
       Linked(r, session[r].prev, ScopeOf(r), session[r].began, clock)

(* A record's commit time is a time that has passed.                       *)
LEMMA CommitTimeType ==
  ASSUME TypeOK, \A r \in Req : committedAt[r] <= clock, NEW e
  PROVE  CommitTime(e) \in Nat /\ CommitTime(e) <= clock
BY DEF TypeOK, CommitTime

LEMMA SessionFields ==
  ASSUME TypeOK, NEW r \in Req
  PROVE  session[r].began \in Nat
BY DEF TypeOK, Session

(* A step that commits nothing and inserts no Evidence keeps ChainInv.     *)
LEMMA ChainQuiet ==
  ASSUME TypeOK, TypeOK', ChainInv, UNCHANGED <<evidence, committedAt>>, clock <= clock',
         \A r \in Req : session'[r].began <= clock',
         \A r \in Req : pc'[r] = "appended" => pc[r] = "appended" /\ session'[r] = session[r]
  PROVE  ChainInv'
<1>0. clock \in Nat /\ clock' \in Nat /\ \A r \in Req : committedAt[r] \in Nat
  BY DEF TypeOK
<1>1. \A r \in Req : committedAt'[r] <= clock' /\ session'[r].began <= clock'
  BY <1>0 DEF ChainInv
<1>2. \A e : CommitTime(e)' = CommitTime(e)
  BY DEF CommitTime
<1>3. ASSUME NEW r \in Req, pc'[r] = "appended"
      PROVE  Linked(r, session[r].prev, ScopeOf(r), session[r].began, clock)'
  <2>1. Linked(r, session[r].prev, ScopeOf(r), session[r].began, clock)
    BY <1>3 DEF ChainInv
  <2>2. \A g : CommitTime(g) <= clock => CommitTime(g) <= clock'
    BY <1>0, CommitTimeType DEF ChainInv
  <2> QED BY <1>2, <1>3, <2>1, <2>2 DEF Linked, InScope, ScopeOf
<1>4. \A e \in evidence : e.chained =>
        Linked(e.id, e.prev, e.scope, e.created, CommitTime(e))'
  <2> SUFFICES ASSUME NEW e \in evidence, e.chained
               PROVE  Linked(e.id, e.prev, e.scope, e.created, CommitTime(e))'
    OBVIOUS
  <2>1. Linked(e.id, e.prev, e.scope, e.created, CommitTime(e))
    BY DEF ChainInv
  <2> QED BY <1>2, <2>1 DEF Linked, InScope
<1>5. /\ \A e \in evidence' : e.created <= CommitTime(e)'
      /\ \A e \in evidence' : ~e.chained => e.prev = None
  BY <1>2 DEF ChainInv
<1> QED BY <1>1, <1>3, <1>4, <1>5 DEF ChainInv

(* The record a request inserts is linked: PostgreSQL showed it everything *)
(* that committed before its transaction began, and perhaps more.          *)
LEMMA ChainAppend ==
  ASSUME TypeOK, TypeOK', LabelInv, AccountInv, ChainInv, NEW r \in Req, AppendEvidence(r)
  PROVE  ChainInv'
<1> DEFINE S == InScope(ScopeOf(r))
<1>1. PICK p \in PreviousHash(S) : session' = [session EXCEPT ![r].prev = p]
  BY DEF AppendEvidence
<1>2. /\ pc[r] \in {"decided", "unresolved"} /\ pc' = [pc EXCEPT ![r] = "appended"]
      /\ UNCHANGED <<evidence, committedAt, clock>>
  BY DEF AppendEvidence, Go, NothingCommitted, tables
<1>3. /\ session \in [Req -> Session] /\ pc \in [Req -> {"idle"} \cup InFlight \cup Ended]
      /\ clock \in Nat
  BY DEF TypeOK
<1>4. \A q \in Req : session'[q].began = session[q].began /\ (q # r => session'[q] = session[q])
  BY <1>1, <1>3 DEF Session
<1>5. session'[r].prev = p
  BY <1>1, <1>3 DEF Session
<1>6. \A e : CommitTime(e)' = CommitTime(e)
  BY <1>2 DEF CommitTime
<1>7. Linked(r, p, ScopeOf(r), session[r].began, clock)
  <2>1. \A e \in evidence : e.id # r
    BY <1>2 DEF AccountInv
  <2>2. \A e \in S : e \in evidence /\ e.id # None /\ CommitTime(e) <= clock
    BY InScopeType, CommitTimeType, ScopesAssumption DEF ChainInv, EvidenceRows
  <2>3. CASE p = None
    BY <2>2, <2>3 DEF PreviousHash, Linked
  <2>4. CASE p # None
    <3>1. PICK g \in S : g.id = p /\ \A f \in S : f.created <= g.created
      BY <2>4, PreviousHashIn
    <3> QED BY <2>1, <2>2, <2>4, <3>1 DEF Linked
  <2> QED BY <2>3, <2>4
<1>8. ASSUME NEW q \in Req, pc'[q] = "appended"
      PROVE  Linked(q, session[q].prev, ScopeOf(q), session[q].began, clock)'
  <2>1. Linked(q, session'[q].prev, ScopeOf(q), session[q].began, clock)
    <3>1. CASE q = r
      BY <1>5, <1>7, <3>1
    <3>2. CASE q # r
      BY <1>2, <1>3, <1>4, <1>8, <3>2 DEF ChainInv
    <3> QED BY <3>1, <3>2
  <2> QED BY <1>2, <1>4, <1>6, <2>1 DEF Linked, InScope, ScopeOf
<1>9. \A e \in evidence : e.chained =>
        Linked(e.id, e.prev, e.scope, e.created, CommitTime(e))'
  <2> SUFFICES ASSUME NEW e \in evidence, e.chained
               PROVE  Linked(e.id, e.prev, e.scope, e.created, CommitTime(e))'
    OBVIOUS
  <2>1. Linked(e.id, e.prev, e.scope, e.created, CommitTime(e))
    BY DEF ChainInv
  <2> QED BY <1>2, <1>6, <2>1 DEF Linked, InScope
<1>10. /\ \A q \in Req : committedAt'[q] <= clock' /\ session'[q].began <= clock'
       /\ \A e \in evidence' : e.created <= CommitTime(e)'
       /\ \A e \in evidence' : ~e.chained => e.prev = None
  BY <1>2, <1>4, <1>6 DEF ChainInv
<1> QED BY <1>2, <1>8, <1>9, <1>10 DEF ChainInv
(* A commit publishes the inserted record with the link it had.  To every  *)
(* other transaction the new record is one committed after it began.       *)
LEMMA ChainCommit ==
  ASSUME TypeOK, TypeOK', AccountInv, ChainInv, NEW r \in Req,
         pc[r] = "appended", CommitWithEvidence(r)
  PROVE  ChainInv'
<1>0. PICK row : row = EvidenceRow(r)
  OBVIOUS
<1>1. /\ evidence' = evidence \cup {row} /\ clock' = clock
      /\ committedAt' = [committedAt EXCEPT ![r] = clock]
      /\ pc' = [pc EXCEPT ![r] = "done"]
      /\ session' = [session EXCEPT ![r] = NoSession]
  BY <1>0 DEF CommitWithEvidence, Go, End
<1>2. /\ row.id = r /\ row.scope = ScopeOf(r) /\ row.created = session[r].began
      /\ row.chained /\ row.prev = session[r].prev
  BY <1>0 DEF EvidenceRow
<1>3. /\ session \in [Req -> Session] /\ pc \in [Req -> {"idle"} \cup InFlight \cup Ended]
      /\ committedAt \in [Req -> Nat] /\ clock \in Nat
      /\ \A q \in Req : session[q].began \in Nat
  BY SessionFields DEF TypeOK
<1>4. \A e \in evidence : e.id # r
  BY <1>3 DEF AccountInv
<1>5. \A e : e.id # r => CommitTime(e)' = CommitTime(e)
  BY <1>1, <1>3 DEF CommitTime
<1>6. CommitTime(row)' = clock
  BY <1>1, <1>2, <1>3 DEF CommitTime
<1>7. \A e : CommitTime(e) \in Nat /\ CommitTime(e) <= clock
  BY CommitTimeType DEF ChainInv
<1>8. ASSUME NEW x, NEW p, NEW s, NEW t \in Nat, NEW u, t <= clock, Linked(x, p, s, t, u)
      PROVE  Linked(x, p, s, t, u)'
  <2>1. \A f \in InScope(s)' : f \in InScope(s) \/ f = row
    BY <1>1 DEF InScope
  <2>2. \A f \in InScope(s) : f \in InScope(s)' /\ CommitTime(f)' = CommitTime(f)
    BY <1>1, <1>4, <1>5 DEF InScope
  <2>3. CASE p = None
    BY <1>6, <1>8, <2>1, <2>2, <2>3 DEF Linked
  <2>4. CASE p # None
    <3>1. PICK g \in InScope(s) :
             /\ g.id = p /\ p # x /\ CommitTime(g) <= u
             /\ \A f \in InScope(s) : f.id # x /\ CommitTime(f) < t => f.created <= g.created
      BY <1>8, <2>4 DEF Linked
    <3>2. ~(CommitTime(row)' < t)
      BY <1>3, <1>6, <1>8
    <3>3. \A f \in InScope(s)' : f.id # x /\ CommitTime(f)' < t => f.created <= g.created
      BY <2>1, <2>2, <3>1, <3>2
    <3>4. CommitTime(g)' <= u
      BY <2>2, <3>1
    <3> QED BY <2>2, <2>4, <3>1, <3>3, <3>4 DEF Linked
  <2> QED BY <2>3, <2>4
<1>9. ASSUME NEW q \in Req, pc'[q] = "appended"
      PROVE  Linked(q, session[q].prev, ScopeOf(q), session[q].began, clock)'
  <2>1. q # r /\ pc[q] = "appended" /\ session'[q] = session[q]
    BY <1>1, <1>3, <1>9
  <2>2. Linked(q, session[q].prev, ScopeOf(q), session[q].began, clock)
        /\ session[q].began <= clock
    BY <2>1 DEF ChainInv
  <2> DEFINE pr == session[q].prev
             sc == ScopeOf(q)
             be == session[q].began
  <2>3. \A x, p, s, u : \A t \in Nat : t <= clock /\ Linked(x, p, s, t, u) =>
           Linked(x, p, s, t, u)'
    BY <1>8
  <2>4. be \in Nat /\ ScopeOf(q)' = sc
    BY <1>3 DEF ScopeOf
  <2> QED BY <1>1, <2>1, <2>2, <2>3, <2>4
<1>10. \A e \in evidence : e.chained =>
         Linked(e.id, e.prev, e.scope, e.created, CommitTime(e))'
  <2> SUFFICES ASSUME NEW e \in evidence, e.chained
               PROVE  Linked(e.id, e.prev, e.scope, e.created, CommitTime(e))'
    OBVIOUS
  <2>1. Linked(e.id, e.prev, e.scope, e.created, CommitTime(e)) /\ e.created <= CommitTime(e)
    BY DEF ChainInv
  <2>2. e.created \in Nat /\ e.created <= clock
    BY <1>3, <1>7, <2>1 DEF TypeOK, EvidenceRows
  <2>3. CommitTime(e)' = CommitTime(e)
    BY <1>4, <1>5
  <2>4. \A x, p, s, u : \A t \in Nat : t <= clock /\ Linked(x, p, s, t, u) =>
           Linked(x, p, s, t, u)'
    BY <1>8
  <2> QED BY <2>1, <2>2, <2>3, <2>4
<1>11. Linked(row.id, row.prev, row.scope, row.created, CommitTime(row))'
  <2>1. Linked(r, session[r].prev, ScopeOf(r), session[r].began, clock)
        /\ session[r].began <= clock
    BY DEF ChainInv
  <2>2. \A x, p, s, u : \A t \in Nat : t <= clock /\ Linked(x, p, s, t, u) =>
           Linked(x, p, s, t, u)'
    BY <1>8
  <2> QED BY <1>2, <1>3, <1>6, <2>1, <2>2
<1>12. \A q \in Req : committedAt'[q] <= clock' /\ session'[q].began <= clock'
  BY <1>1, <1>3 DEF ChainInv, NoSession
<1>13. /\ \A e \in evidence' : e.created <= CommitTime(e)'
       /\ \A e \in evidence' : ~e.chained => e.prev = None
  <2>1. row.created <= clock
    BY <1>2 DEF ChainInv
  <2> QED BY <1>1, <1>2, <1>4, <1>5, <1>6, <2>1 DEF ChainInv
<1>14. \A e \in evidence' : e.chained =>
         Linked(e.id, e.prev, e.scope, e.created, CommitTime(e))'
  BY <1>1, <1>10, <1>11
<1>15. \A q \in Req : pc'[q] = "appended" =>
         Linked(q, session[q].prev, ScopeOf(q), session[q].began, clock)'
  BY <1>9
<1> QED BY <1>12, <1>13, <1>14, <1>15 DEF ChainInv
(* ChainInv holds throughout.                                              *)
THEOREM ChainCorrect == Spec => []ChainInv
<1>1. Init => ChainInv
  <2> SUFFICES ASSUME Init PROVE ChainInv
    OBVIOUS
  <2>1. \A e \in evidence : e.created = 0 /\ ~e.chained /\ e.prev = None
    BY DEF Init, V1Record
  <2>2. \A e \in evidence : CommitTime(e) = 0
    BY ScopesAssumption DEF Init, V1Record, CommitTime
  <2>3. \A r \in Req : committedAt[r] = 0 /\ session[r].began = 0 /\ clock = 0 /\ pc[r] = "idle"
    BY DEF Init, NoSession
  <2> QED BY <2>1, <2>2, <2>3 DEF ChainInv
<1>2. TypeOK /\ TypeOK' /\ LabelInv /\ AccountInv /\ ChainInv /\ [Next]_vars => ChainInv'
  <2> SUFFICES ASSUME TypeOK, TypeOK', LabelInv, AccountInv, ChainInv, [Next]_vars
               PROVE  ChainInv'
    OBVIOUS
  <2>0. /\ pc \in [Req -> {"idle"} \cup InFlight \cup Ended] /\ session \in [Req -> Session]
        /\ clock \in Nat
        /\ \A r \in Req : session[r].began \in Nat /\ session[r].began <= clock
    BY SessionFields DEF TypeOK, ChainInv
  <2> USE DEF Go, End, NothingCommitted, tables
  <2>a. \A r \in Req : NoSession.began <= clock /\ NoSession.began <= clock + 1
    BY <2>0 DEF NoSession
  <2>1. ASSUME NEW r \in Req, LoadAgent(r) PROVE ChainInv'
    <3>1. \A q \in Req : session'[q].began <= clock'
      BY <2>0, <2>1, <2>a DEF LoadAgent, Session
    <3>2. \A q \in Req : q # r => session'[q] = session[q]
      BY <2>0, <2>1 DEF LoadAgent
    <3> QED BY <2>0, <2>1, <3>1, <3>2, ChainQuiet DEF LoadAgent
  <2>2. ASSUME NEW r \in Req, LoadDecision(r) PROVE ChainInv'
    BY <2>0, <2>2, <2>a, ChainQuiet DEF LoadDecision
  <2>3. ASSUME NEW r \in Req, InsertIntent(r) PROVE ChainInv'
    BY <2>0, <2>3, <2>a, ChainQuiet DEF InsertIntent
  <2>4. ASSUME NEW r \in Req, Decide(r) PROVE ChainInv'
    <3>1. \A q \in Req : session'[q].began <= clock'
      BY <2>0, <2>4 DEF Decide, Session
    <3>2. \A q \in Req : q # r => session'[q] = session[q]
      BY <2>0, <2>4 DEF Decide
    <3> QED BY <2>0, <2>4, <3>1, <3>2, ChainQuiet DEF Decide
  <2>5. ASSUME NEW r \in Req, CheckUnresolved(r) PROVE ChainInv'
    BY <2>0, <2>5, <2>a, ChainQuiet DEF CheckUnresolved
  <2>6. ASSUME NEW r \in Req, AppendEvidence(r) PROVE ChainInv'
    BY <2>6, ChainAppend
  <2>7. ASSUME NEW r \in Req, CommitIntent(r) PROVE ChainInv'
    BY <2>7, ChainCommit DEF CommitIntent
  <2>8. ASSUME NEW r \in Req, CommitResolution(r) PROVE ChainInv'
    BY <2>8, ChainCommit DEF CommitResolution
  <2>9. ASSUME NEW r \in Req, RefuseDuplicateResolution(r) PROVE ChainInv'
    BY <2>0, <2>9, <2>a, ChainQuiet DEF RefuseDuplicateResolution
  <2>10. ASSUME NEW r \in Req, Abort(r) PROVE ChainInv'
    BY <2>0, <2>10, <2>a, ChainQuiet DEF Abort
  <2>11. ASSUME NEW a \in Managed, ChangeAgentStatus(a) PROVE ChainInv'
    BY <2>0, <2>11, ChainQuiet DEF ChangeAgentStatus
  <2>12. CASE UNCHANGED vars
    BY <2>0, <2>12, ChainQuiet DEF vars
  <2>13. ASSUME NEW r \in Req, Open(r) PROVE ChainInv'
    <3>1. \A q \in Req : session'[q].began <= clock'
      BY <2>0, <2>13 DEF Open, Session
    <3>2. \A q \in Req : q # r => session'[q] = session[q]
      BY <2>0, <2>13 DEF Open
    <3> QED BY <2>0, <2>13, <3>1, <3>2, ChainQuiet DEF Open
  <2> QED
    BY <2>1, <2>2, <2>3, <2>4, <2>5, <2>6, <2>7, <2>8, <2>9, <2>10, <2>11, <2>12, <2>13
    DEF Next, Serve
<1> QED BY <1>1, <1>2, TypeCorrect, LabelCorrect, AccountCorrect, PTL DEF Spec

(* No link dangles, none leaves its scope and none points forward.         *)
THEOREM LinksCorrect == Spec => []LinksLeadBack
<1>1. ChainInv => LinksLeadBack
  <2> SUFFICES ASSUME ChainInv, NEW e \in evidence, e.prev # None
               PROVE  \E p \in evidence :
                        /\ p.id = e.prev /\ p.scope = e.scope /\ p # e
                        /\ CommitTime(p) <= CommitTime(e)
    BY DEF LinksLeadBack
  <2>1. Linked(e.id, e.prev, e.scope, e.created, CommitTime(e))
    BY DEF ChainInv
  <2> QED BY <2>1 DEF Linked, InScope
<1> QED BY <1>1, ChainCorrect, PTL

(* verify_chain reports only links whose transaction overlapped another    *)
(* one of its scope.                                                       *)
THEOREM BreaksNeedOverlap == Spec => []BrokenOnlyByOverlap
<1>1. TypeOK /\ AccountInv /\ ChainInv => BrokenOnlyByOverlap
  <2> SUFFICES ASSUME TypeOK, AccountInv, ChainInv, NEW s \in Scope,
                      NEW e \in Verified(InScope(s), 0)
               PROVE  \E f \in InScope(s) : Overlap(e, f)
    BY DEF BrokenOnlyByOverlap
  <2> DEFINE S == InScope(s)
  <2>0. e \in S /\ e.chained /\ e.prev \notin PreviousHash(Before(S, e))
    BY InScopeType, VerifiedExact DEF BrokenLinks, LinkHolds
  <2>1. \A f \in S : /\ f \in evidence /\ f.scope = s /\ f.created \in Nat
                    /\ CommitTime(f) \in Nat /\ f.created <= CommitTime(f)
                    /\ (f.id = e.id => f = e)
    BY <2>0, InScopeType, CommitTimeType DEF ChainInv, AccountInv, EvidenceAccounts
  <2>2. Linked(e.id, e.prev, s, e.created, CommitTime(e))
    BY <2>0, <2>1 DEF ChainInv
  <2> SUFFICES ASSUME \A f \in S : ~Overlap(e, f) PROVE FALSE
    OBVIOUS
  <2>3. \A f \in S : f # e => CommitTime(f) < e.created \/ CommitTime(e) < f.created
    BY <2>0, <2>1 DEF Overlap
  <2>4. \A f \in S : f \in Before(S, e) <=> (f # e /\ CommitTime(f) < e.created)
    BY <2>0, <2>1, <2>3 DEF Before
  <2>5. CASE e.prev = None
    <3>1. Before(S, e) = {}
      <4>1. \A f \in S : f # e => ~(CommitTime(f) < e.created)
        BY <2>0, <2>1, <2>2, <2>5 DEF Linked
      <4> QED BY <2>4, <4>1 DEF Before
    <3> QED BY <2>0, <2>5, <3>1 DEF PreviousHash
  <2>6. CASE e.prev # None
    <3>1. PICK g \in S :
             /\ g.id = e.prev /\ e.prev # e.id /\ CommitTime(g) <= CommitTime(e)
             /\ \A f \in S : f.id # e.id /\ CommitTime(f) < e.created => f.created <= g.created
      BY <2>2, <2>6 DEF Linked
    <3>2. g \in Before(S, e)
      BY <2>0, <2>1, <2>3, <2>4, <3>1
    <3>3. \A f \in Before(S, e) : f.created <= g.created
      BY <2>1, <2>4, <3>1 DEF Before
    <3>4. e.prev \in PreviousHash(Before(S, e))
      BY <3>1, <3>2, <3>3 DEF PreviousHash
    <3> QED BY <2>0, <3>4
  <2> QED BY <2>5, <2>6
<1> QED BY <1>1, TypeCorrect, AccountCorrect, ChainCorrect, PTL
-----------------------------------------------------------------------------
(* What a deleted record leaves behind                                     *)

(* A transaction begins at a time of its own: no two records of a scope    *)
(* have the same rank, and none the rank of a request under way.           *)
RankInv ==
  /\ \A e, f \in evidence : e.scope = f.scope /\ e.created = f.created => e = f
  /\ \A r \in Req : pc[r] \in InFlight =>
       /\ \A e \in evidence : e.created # session[r].began
       /\ \A q \in Req : pc[q] \in InFlight /\ session[q].began = session[r].began => q = r

(* A step that begins no transaction and commits none keeps the ranks.     *)
LEMMA RankQuiet ==
  ASSUME RankInv, UNCHANGED evidence,
         \A r \in Req : pc'[r] \in InFlight =>
           pc[r] \in InFlight /\ session'[r].began = session[r].began
  PROVE  RankInv'
BY DEF RankInv

(* A commit gives the record the rank its transaction had.                 *)
LEMMA RankCommit ==
  ASSUME TypeOK, RankInv, NEW r \in Req, pc[r] = "appended", CommitWithEvidence(r)
  PROVE  RankInv'
<1>1. PICK row : row = EvidenceRow(r)
  OBVIOUS
<1>2. /\ evidence' = evidence \cup {row} /\ pc' = [pc EXCEPT ![r] = "done"]
      /\ session' = [session EXCEPT ![r] = NoSession]
  BY <1>1 DEF CommitWithEvidence, Go, End
<1>3. row.created = session[r].began
  BY <1>1 DEF EvidenceRow
<1>4. /\ session \in [Req -> Session] /\ pc \in [Req -> {"idle"} \cup InFlight \cup Ended]
  BY DEF TypeOK
<1>5. pc[r] \in InFlight
  BY DEF InFlight, HoldsIntent
<1>6. \A q \in Req : pc'[q] \in InFlight =>
        q # r /\ pc[q] \in InFlight /\ session'[q] = session[q]
  BY <1>2, <1>4 DEF InFlight, HoldsIntent
<1>7. \A e \in evidence : e.created # row.created
  BY <1>3, <1>5 DEF RankInv
<1>8. \A q \in Req : pc'[q] \in InFlight => session'[q].began # row.created
  BY <1>3, <1>5, <1>6 DEF RankInv
<1> QED BY <1>2, <1>6, <1>7, <1>8 DEF RankInv

(* RankInv holds throughout.                                               *)
THEOREM RankCorrect == Spec => []RankInv
<1>1. Init => RankInv
  <2> SUFFICES ASSUME Init PROVE RankInv
    OBVIOUS
  <2>1. \A r \in Req : pc[r] \notin InFlight
    BY DEF Init, InFlight, HoldsIntent
  <2>2. \A e \in evidence : e = V1Record(e.scope)
    BY DEF Init, V1Record
  <2> QED BY <2>1, <2>2 DEF RankInv
<1>2. TypeOK /\ ChainInv /\ RankInv /\ [Next]_vars => RankInv'
  <2> SUFFICES ASSUME TypeOK, ChainInv, RankInv, [Next]_vars PROVE RankInv'
    OBVIOUS
  <2>0. /\ pc \in [Req -> {"idle"} \cup InFlight \cup Ended] /\ session \in [Req -> Session]
        /\ clock \in Nat /\ \A r \in Req : session[r].began \in Nat
    BY SessionFields DEF TypeOK
  <2> USE DEF Go, End, NothingCommitted, tables, InFlight, HoldsIntent
  <2>1. ASSUME NEW r \in Req, LoadAgent(r) PROVE RankInv'
    <3>1. \A q \in Req : pc'[q] \in InFlight =>
            pc[q] \in InFlight /\ session'[q].began = session[q].began
      BY <2>0, <2>1 DEF LoadAgent, Session
    <3> QED BY <2>1, <3>1, RankQuiet DEF LoadAgent
  <2>2. ASSUME NEW r \in Req, LoadDecision(r) PROVE RankInv'
    BY <2>0, <2>2, RankQuiet DEF LoadDecision
  <2>3. ASSUME NEW r \in Req, InsertIntent(r) PROVE RankInv'
    BY <2>0, <2>3, RankQuiet DEF InsertIntent
  <2>4. ASSUME NEW r \in Req, Decide(r) PROVE RankInv'
    <3>1. \A q \in Req : pc'[q] \in InFlight =>
            pc[q] \in InFlight /\ session'[q].began = session[q].began
      BY <2>0, <2>4 DEF Decide, Session
    <3> QED BY <2>4, <3>1, RankQuiet DEF Decide
  <2>5. ASSUME NEW r \in Req, CheckUnresolved(r) PROVE RankInv'
    BY <2>0, <2>5, RankQuiet DEF CheckUnresolved
  <2>6. ASSUME NEW r \in Req, AppendEvidence(r) PROVE RankInv'
    <3>1. \A q \in Req : pc'[q] \in InFlight =>
            pc[q] \in InFlight /\ session'[q].began = session[q].began
      BY <2>0, <2>6 DEF AppendEvidence, Session
    <3> QED BY <2>6, <3>1, RankQuiet DEF AppendEvidence
  <2>7. ASSUME NEW r \in Req, CommitIntent(r) PROVE RankInv'
    BY <2>7, RankCommit DEF CommitIntent
  <2>8. ASSUME NEW r \in Req, CommitResolution(r) PROVE RankInv'
    BY <2>8, RankCommit DEF CommitResolution
  <2>9. ASSUME NEW r \in Req, RefuseDuplicateResolution(r) PROVE RankInv'
    BY <2>0, <2>9, RankQuiet DEF RefuseDuplicateResolution
  <2>10. ASSUME NEW r \in Req, Abort(r) PROVE RankInv'
    BY <2>0, <2>10, RankQuiet DEF Abort
  <2>11. ASSUME NEW a \in Managed, ChangeAgentStatus(a) PROVE RankInv'
    BY <2>11, RankQuiet DEF ChangeAgentStatus
  <2>12. CASE UNCHANGED vars
    BY <2>12, RankQuiet DEF vars
  <2>13. ASSUME NEW r \in Req, Open(r) PROVE RankInv'
    <3>1. /\ session'[r].began = clock + 1 /\ UNCHANGED evidence
          /\ \A q \in Req : q # r => session'[q] = session[q] /\ pc'[q] = pc[q]
      BY <2>0, <2>13 DEF Open, Session
    <3>2. \A q \in Req : session[q].began <= clock
      BY DEF ChainInv
    <3>3. \A e \in evidence : e.created \in Nat /\ e.created <= clock
      BY <2>0, CommitTimeType DEF ChainInv, TypeOK, EvidenceRows
    <3>4. \A q \in Req : q # r => session'[q].began # session'[r].began
      BY <2>0, <3>1, <3>2
    <3>5. \A e \in evidence : e.created # session'[r].began
      BY <2>0, <3>1, <3>3
    <3>6. \A q \in Req : pc'[q] \in InFlight /\ q # r =>
            pc[q] \in InFlight /\ session'[q] = session[q]
      BY <3>1
    <3>7. ASSUME NEW q \in Req, pc'[q] \in InFlight
          PROVE  /\ \A e \in evidence' : e.created # session'[q].began
                 /\ \A p \in Req :
                      pc'[p] \in InFlight /\ session'[p].began = session'[q].began => p = q
      <4>1. CASE q = r
        BY <3>1, <3>4, <3>5, <4>1
      <4>2. CASE q # r
        BY <3>1, <3>4, <3>6, <3>7, <4>2 DEF RankInv
      <4> QED BY <4>1, <4>2
    <3>8. \A e, f \in evidence' : e.scope = f.scope /\ e.created = f.created => e = f
      BY <3>1 DEF RankInv
    <3> QED BY <3>7, <3>8 DEF RankInv
  <2> QED
    BY <2>1, <2>2, <2>3, <2>4, <2>5, <2>6, <2>7, <2>8, <2>9, <2>10, <2>11, <2>12, <2>13
    DEF Next, Serve
<1> QED BY <1>1, <1>2, TypeCorrect, ChainCorrect, PTL DEF Spec

(* The record just before f, whose transaction had committed when that of  *)
(* f began, was the tail f linked to, or a record still later in the order *)
(* was: without it, f links to nothing that comes before it.               *)
LEMMA SuccessorMissesIt ==
  ASSUME TypeOK, AccountInv, ChainInv, RankInv, NEW s \in Scope,
         NEW e \in InScope(s), NEW f \in InScope(s), e # f, f.chained,
         Precedes(InScope(s), e, f), ~Overlap(e, f)
  PROVE  f.prev \notin PreviousHash(Before(InScope(s) \ {e}, f))
<1> DEFINE S == InScope(s)
           T == S \ {e}
<1>1. \A g \in S : /\ g \in evidence /\ g.scope = s /\ g.created \in Nat
                   /\ CommitTime(g) \in Nat /\ g.created <= CommitTime(g)
                   /\ g.id # None
                   /\ \A h \in S : g.id = h.id \/ g.created = h.created => g = h
  BY InScopeType, CommitTimeType, ScopesAssumption
  DEF ChainInv, AccountInv, EvidenceAccounts, EvidenceRows, RankInv
<1>2. e.created < f.created /\ \A y \in Before(S, f) : y.created <= e.created
  <2>1. PICK x \in Before(S, f) : x.id = e.id /\ \A y \in Before(S, f) : y.created <= x.created
    BY <1>1, PreviousHashIn DEF Precedes
  <2> QED BY <1>1, <2>1 DEF Before
<1>3. CommitTime(e) < f.created
  BY <1>1, <1>2 DEF Overlap
<1>4. Linked(f.id, f.prev, s, f.created, CommitTime(f))
  BY <1>1 DEF ChainInv
<1>5. PICK g \in S : g.id = f.prev /\ e.created <= g.created
  BY <1>1, <1>3, <1>4 DEF Linked
<1> SUFFICES ASSUME f.prev \in PreviousHash(Before(T, f)) PROVE FALSE
  OBVIOUS
<1>6. PICK x \in Before(T, f) : x.id = f.prev
  BY <1>1, <1>5, PreviousHashIn
<1>7. x = g /\ g # e /\ g \in Before(S, f)
  BY <1>1, <1>5, <1>6 DEF Before
<1> QED BY <1>1, <1>2, <1>5, <1>7

(* Taking away a record is reported at every record that links to it, and  *)
(* at the one just after it unless the two overlapped.                     *)
THEOREM RemovalsReported == Spec => []RemovalIsReported
<1>1. TypeOK /\ AccountInv /\ ChainInv /\ RankInv => RemovalIsReported
  <2> SUFFICES ASSUME TypeOK, AccountInv, ChainInv, RankInv, NEW s \in Scope,
                      NEW e \in InScope(s), NEW f \in InScope(s), e # f, f.chained,
                      f.prev = e.id \/ (Precedes(InScope(s), e, f) /\ ~Overlap(e, f)),
                      NEW since \in 0 .. f.created
               PROVE  f \in Verified(InScope(s) \ {e}, since)
    BY DEF RemovalIsReported
  <2> DEFINE T == InScope(s) \ {e}
  <2>1. \A x \in T : x.created \in Nat /\ x.id # e.id
    BY InScopeType DEF AccountInv, EvidenceAccounts
  <2>2. e.id # None
    BY InScopeType, ScopesAssumption DEF EvidenceRows
  <2>3. f.prev \notin PreviousHash(Before(T, f))
    <3>1. CASE f.prev = e.id
      BY <2>1, <2>2, <3>1, PreviousHashIn DEF Before
    <3>2. CASE Precedes(InScope(s), e, f) /\ ~Overlap(e, f)
      BY <3>2, SuccessorMissesIt
    <3> QED BY <3>1, <3>2
  <2>4. f \in BrokenLinks(T)
    BY <2>3 DEF BrokenLinks, LinkHolds
  <2>5. since \in Nat /\ f.created >= since
    BY InScopeType
  <2> QED BY <2>1, <2>4, <2>5, VerifiedExact
<1> QED BY <1>1, TypeCorrect, AccountCorrect, ChainCorrect, RankCorrect, PTL

(* A verification may be relied on from whatever date it starts.           *)
THEOREM VerificationSound == Spec => []VerificationReliable
BY RangesAgree, RemovalsReported, PTL DEF VerificationReliable

-----------------------------------------------------------------------------
(* The status an ALLOW was decided under                                   *)

(* The status a session loaded was the agent's, and is so still unless it  *)
(* changed since the transaction began; a suspended agent has no ALLOW.    *)
StatusInv ==
  \A r \in IntentReq : pc[r] \in {"verified"} \cup HoldsIntent =>
    /\ session[r].status \in {"active", "suspended"}
    /\ session[r].status # agentStatus[r.agent] => session[r].began <= statusSince[r.agent]
    /\ pc[r] \in {"decided", "appended"} /\ session[r].outcome = "ALLOW"
         => session[r].status = "active"

(* What each step keeps of the sessions that matter to StatusInv.          *)
LEMMA StatusQuiet ==
  ASSUME StatusInv, UNCHANGED <<agentStatus, statusSince>>, NEW r,
         \A q \in IntentReq : q # r /\ pc'[q] \in {"verified"} \cup HoldsIntent =>
           pc'[q] = pc[q] /\ session'[q] = session[q],
         r \in IntentReq /\ pc'[r] \in {"verified"} \cup HoldsIntent =>
           /\ session'[r].status \in {"active", "suspended"}
           /\ session'[r].status # agentStatus[r.agent] => session'[r].began <= statusSince[r.agent]
           /\ pc'[r] \in {"decided", "appended"} /\ session'[r].outcome = "ALLOW"
                => session'[r].status = "active"
  PROVE  StatusInv'
<1> SUFFICES ASSUME NEW q \in IntentReq, pc'[q] \in {"verified"} \cup HoldsIntent
             PROVE  /\ session'[q].status \in {"active", "suspended"}
                    /\ session'[q].status # agentStatus[q.agent] =>
                         session'[q].began <= statusSince[q.agent]
                    /\ pc'[q] \in {"decided", "appended"} /\ session'[q].outcome = "ALLOW"
                         => session'[q].status = "active"
  BY DEF StatusInv, HoldsIntent
<1>1. CASE q = r
  BY <1>1
<1>2. CASE q # r
  BY <1>2 DEF StatusInv
<1> QED BY <1>1, <1>2

(* StatusInv holds throughout.                                             *)
THEOREM StatusCorrect == Spec => []StatusInv
<1>1. Init => StatusInv
  BY RequestTypes DEF Init, StatusInv, HoldsIntent
<1>2. TypeOK /\ LabelInv /\ ChainInv /\ StatusInv /\ [Next]_vars => StatusInv'
  <2> SUFFICES ASSUME TypeOK, LabelInv, ChainInv, StatusInv, [Next]_vars PROVE StatusInv'
    OBVIOUS
  <2>0. /\ pc \in [Req -> {"idle"} \cup InFlight \cup Ended] /\ session \in [Req -> Session]
        /\ agentStatus \in [Agent -> Status] /\ statusSince \in [Agent -> Nat]
    BY DEF TypeOK
  <2> USE DEF Go, End, NothingCommitted, Unmanaged, tables, HoldsIntent
  <2>1. ASSUME NEW r \in Req, LoadAgent(r) PROVE StatusInv'
    <3>1. r \in IntentReq /\ UNCHANGED <<agentStatus, statusSince>>
          /\ \A q \in IntentReq : q # r => pc'[q] = pc[q] /\ session'[q] = session[q]
      BY <2>0, <2>1, RequestTypes DEF LoadAgent
    <3>2. CASE agentStatus[r.agent] \in {"active", "suspended"}
      <4>1. pc'[r] = "verified"
        BY <2>0, <2>1, <3>2 DEF LoadAgent
      <4>2. session'[r].status = agentStatus[r.agent]
        BY <2>0, <2>1, <3>2 DEF LoadAgent, Session
      <4> QED BY <3>1, <3>2, <4>1, <4>2, StatusQuiet
    <3>3. CASE agentStatus[r.agent] \notin {"active", "suspended"}
      <4>1. pc'[r] = "rejected"
        BY <2>0, <2>1, <3>3 DEF LoadAgent
      <4> QED BY <3>1, <4>1, StatusQuiet
    <3> QED BY <3>2, <3>3
  <2>2. ASSUME NEW r \in Req, LoadDecision(r) PROVE StatusInv'
    BY <2>0, <2>2, StatusQuiet, RequestTypes DEF LoadDecision
  <2>3. ASSUME NEW r \in Req, InsertIntent(r) PROVE StatusInv'
    BY <2>0, <2>3, StatusQuiet, RequestTypes DEF InsertIntent, StatusInv
  <2>4. ASSUME NEW r \in Req, Decide(r) PROVE StatusInv'
    <3>1. PICK o \in Outcome :
            /\ session[r].status = "suspended" => o = "HUMAN_REVIEW"
            /\ session' = [session EXCEPT ![r].outcome = o]
      BY <2>4 DEF Decide
    <3>2. /\ session'[r].outcome = o /\ session'[r].status = session[r].status
          /\ session'[r].began = session[r].began
      BY <2>0, <3>1 DEF Session
    <3>3. /\ pc[r] = "inserted" /\ pc' = [pc EXCEPT ![r] = "decided"]
          /\ UNCHANGED <<agentStatus, statusSince>>
      BY <2>4 DEF Decide
    <3>4. \A q \in IntentReq : q # r => pc'[q] = pc[q] /\ session'[q] = session[q]
      BY <2>0, <3>1, <3>3, RequestTypes
    <3>5. r \in IntentReq => session[r].status \in {"active", "suspended"}
            /\ (session[r].status # agentStatus[r.agent] => session[r].began <= statusSince[r.agent])
      BY <3>3 DEF StatusInv
    <3> QED BY <3>1, <3>2, <3>3, <3>4, <3>5, StatusQuiet
  <2>5. ASSUME NEW r \in Req, CheckUnresolved(r) PROVE StatusInv'
    BY <2>0, <2>5, StatusQuiet, RequestTypes DEF CheckUnresolved, LabelInv
  <2>6. ASSUME NEW r \in Req, AppendEvidence(r) PROVE StatusInv'
    <3>1. PICK p \in PreviousHash(InScope(ScopeOf(r))) : session' = [session EXCEPT ![r].prev = p]
      BY <2>6 DEF AppendEvidence
    <3>2. /\ session'[r].outcome = session[r].outcome /\ session'[r].status = session[r].status
          /\ session'[r].began = session[r].began
      BY <2>0, <3>1 DEF Session
    <3>3. /\ pc[r] \in {"decided", "unresolved"} /\ pc' = [pc EXCEPT ![r] = "appended"]
          /\ UNCHANGED <<agentStatus, statusSince>>
      BY <2>6 DEF AppendEvidence
    <3>4. \A q \in IntentReq : q # r => pc'[q] = pc[q] /\ session'[q] = session[q]
      BY <2>0, <3>1, <3>3, RequestTypes
    <3>5. r \in IntentReq =>
            /\ session[r].status \in {"active", "suspended"}
            /\ session[r].status # agentStatus[r.agent] => session[r].began <= statusSince[r.agent]
            /\ session[r].outcome = "ALLOW" => session[r].status = "active"
      BY <3>3 DEF StatusInv, LabelInv
    <3> QED BY <3>2, <3>3, <3>4, <3>5, StatusQuiet
  <2>7. ASSUME NEW r \in Req, CommitIntent(r) PROVE StatusInv'
    BY <2>0, <2>7, StatusQuiet, RequestTypes DEF CommitIntent, CommitWithEvidence
  <2>8. ASSUME NEW r \in Req, CommitResolution(r) PROVE StatusInv'
    BY <2>0, <2>8, StatusQuiet, RequestTypes DEF CommitResolution, CommitWithEvidence
  <2>9. ASSUME NEW r \in Req, RefuseDuplicateResolution(r) PROVE StatusInv'
    BY <2>0, <2>9, StatusQuiet, RequestTypes DEF RefuseDuplicateResolution
  <2>10. ASSUME NEW r \in Req, Abort(r) PROVE StatusInv'
    BY <2>0, <2>10, StatusQuiet, RequestTypes DEF Abort
  <2>11. ASSUME NEW a \in Managed, ChangeAgentStatus(a) PROVE StatusInv'
    <3>1. /\ \A b \in Agent : b # a => /\ agentStatus'[b] = agentStatus[b]
                                     /\ statusSince'[b] = statusSince[b]
          /\ statusSince'[a] = clock
          /\ UNCHANGED <<pc, session>>
      BY <2>0, <2>11, ScopesAssumption DEF ChangeAgentStatus
    <3>2. \A r \in IntentReq : session[r].began <= clock /\ r.agent \in Agent
      BY RequestTypes DEF ChainInv
    <3> QED BY <3>1, <3>2 DEF StatusInv
  <2>12. CASE UNCHANGED vars
    BY <2>12 DEF vars, StatusInv
  <2>13. ASSUME NEW r \in Req, Open(r) PROVE StatusInv'
    BY <2>0, <2>13, StatusQuiet, RequestTypes DEF Open
  <2> QED
    BY <2>1, <2>2, <2>3, <2>4, <2>5, <2>6, <2>7, <2>8, <2>9, <2>10, <2>11, <2>12, <2>13
    DEF Next, Serve
<1> QED BY <1>1, <1>2, TypeCorrect, LabelCorrect, ChainCorrect, PTL DEF Spec

(* An ALLOW is recorded against the agent's present status only when that  *)
(* status changed while the request was under way.                         *)
THEOREM StaleAllowBounded == Spec => StaleAllowOnlyInFlight
<1>1. TypeOK /\ StatusInv /\ [Next]_vars =>
        [\A d \in decisions' \ decisions :
           d.outcome = "ALLOW" /\ agentStatus[d.id.agent] # "active"
             => statusSince[d.id.agent] >= session[d.id].began]_vars
  <2> SUFFICES ASSUME TypeOK, StatusInv, [Next]_vars,
                      NEW d \in decisions' \ decisions,
                      d.outcome = "ALLOW", agentStatus[d.id.agent] # "active"
               PROVE  statusSince[d.id.agent] >= session[d.id].began
    OBVIOUS
  <2>1. PICK r \in Req : CommitIntent(r)
    <3> SUFFICES ASSUME \A r \in Req : ~CommitIntent(r) PROVE decisions' = decisions
      OBVIOUS
    <3> QED
      BY DEF Next, Serve, Open, LoadAgent, LoadDecision, InsertIntent, Decide, CheckUnresolved,
             AppendEvidence, CommitResolution, RefuseDuplicateResolution, Abort,
             ChangeAgentStatus, NothingCommitted, tables, vars
  <2>2. /\ r \in IntentReq /\ pc[r] = "appended"
        /\ d.id = r /\ d.outcome = session[r].outcome
    BY <2>1 DEF CommitIntent
  <2>3. session[r].began \in Nat /\ statusSince[r.agent] \in Nat
    BY <2>2, RequestTypes, SessionFields DEF TypeOK
  <2> QED BY <2>2, <2>3 DEF StatusInv, HoldsIntent
<1> QED BY <1>1, TypeCorrect, StatusCorrect, PTL DEF Spec, StaleAllowOnlyInFlight
=============================================================================
