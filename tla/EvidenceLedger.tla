---------------------------- MODULE EvidenceLedger ----------------------------
(***************************************************************************)
(* The decision pipeline of the PayReality server: submit_intent           *)
(* (services/intent_service.py), resolve_decision                          *)
(* (services/resolution_service.py) and the tables they write.             *)
(*                                                                         *)
(* Every HTTP request runs in a database session of its own, in a thread   *)
(* pool, under READ COMMITTED: a request is modelled as the sequence of    *)
(* its statements, each seeing what is committed when it runs, with one    *)
(* commit at the end.  A request may stop between any two steps (crash of  *)
(* the process, a lost connection, any database error): its transaction    *)
(* then leaves nothing behind.                                             *)
(***************************************************************************)
EXTENDS EvidenceChain

CONSTANTS
  Agent,        \* agents
  Nonce,        \* nonces an agent signs its intents with
  Scope,        \* chain scopes: organisation ids, and "no organisation"
  AgentScope,   \* agent -> principal -> organization_id; no route changes it
  V1Scope,      \* scopes that already hold one record without previous_hash
  IntentReq,    \* POST /v1/intents requests; same agent and nonce = a resend
  ResolveReq,   \* POST /v1/decisions/{id}/resolve requests
  Managed       \* agents whose status an operator changes (a bound for TLC)

Req == IntentReq \cup ResolveReq

Outcome    == {"ALLOW", "DENY", "HUMAN_REVIEW"}
Resolution == {"approved", "denied"}
Status     == {"registered", "active", "suspended", "revoked", "retired"}

(* A request is its content; a decision is named by the request that made  *)
(* it, an Evidence record by the request that appended it, and the v1      *)
(* record of a scope by the scope.                                         *)
ASSUME RequestsAssumption ==
  /\ IntentReq  \subseteq [agent : Agent, nonce : Nonce, attempt : Nat]
  /\ ResolveReq \subseteq [decision : IntentReq, resolution : Resolution, attempt : Nat]
  /\ IntentReq \cap ResolveReq = {}

ASSUME ScopesAssumption ==
  /\ Managed \subseteq Agent
  /\ AgentScope \in [Agent -> Scope]
  /\ V1Scope \subseteq Scope
  /\ Req \cap Scope = {}
  /\ None \notin Req \cup Scope

VARIABLES
  agentStatus,   \* agents.status, committed
  statusSince,   \* history: the clock when agentStatus[a] last changed
  clock,         \* PostgreSQL's clock: one tick per transaction started
  pc,            \* where each request stands
  session,       \* what its session has loaded, or written and not committed
  decisions,     \* intents joined with decisions (one commit writes both)
  evidence,      \* the evidence table
  resolutions,   \* the decision_resolutions table
  committedAt    \* history: the clock when a request committed

tables == <<decisions, evidence, resolutions, committedAt>>
vars   == <<agentStatus, statusSince, clock, pc, session, tables>>

-----------------------------------------------------------------------------
(* State *)

(* Past the intent INSERT, not yet ended: the row is there, uncommitted.   *)
HoldsIntent == {"inserted", "decided", "appended"}

InFlight == {"open", "verified", "loaded", "unresolved"} \cup HoldsIntent

Ended == {"done", "replay", "rejected", "aborted"}

EvidenceStatus == {"VERIFIED", "PENDING", "REJECTED"}

(* A request's session: began is now() of its transaction, and created_at  *)
(* of the rows it inserts; status the Agent row it loaded; outcome its     *)
(* Decision; prev the previous_hash it has read.                           *)
Session ==
  [began : Nat, status : Status, outcome : Outcome, prev : Req \cup Scope \cup {None}]

NoSession ==
  [began |-> 0, status |-> "registered", outcome |-> "HUMAN_REVIEW", prev |-> None]

DecisionOf(r) == IF r \in IntentReq THEN r ELSE r.decision

(* _resolve_chain_scope *)
ScopeOf(r) == AgentScope[DecisionOf(r).agent]

InScope(s) == { e \in evidence : e.scope = s }

SameNonce(r, q) == r.agent = q.agent /\ r.nonce = q.nonce

Recorded(r) == \E d \in decisions : SameNonce(d.id, r)

Resolved(d) == \E x \in resolutions : x.decision = d

V1Record(s) ==
  [id |-> s, decision |-> None, scope |-> s, created |-> 0,
   chained |-> FALSE, prev |-> None, status |-> "VERIFIED"]

Init ==
  /\ agentStatus = [a \in Agent |-> "active"]
  /\ statusSince = [a \in Agent |-> 0]
  /\ clock = 0
  /\ pc = [r \in Req |-> "idle"]
  /\ session = [r \in Req |-> NoSession]
  /\ decisions = {}
  /\ evidence = { V1Record(s) : s \in V1Scope }
  /\ resolutions = {}
  /\ committedAt = [r \in Req |-> 0]

(* A request moves on.                                                     *)
Go(r, label) == pc' = [pc EXCEPT ![r] = label]

(* A request ends, and its session is closed.                              *)
End(r, label) ==
  /\ Go(r, label)
  /\ session' = [session EXCEPT ![r] = NoSession]

Unmanaged == UNCHANGED <<agentStatus, statusSince>>

(* A statement that neither starts nor commits a transaction.              *)
NothingCommitted == Unmanaged /\ UNCHANGED <<clock, tables>>

(* The first query of a request opens its transaction: the certificate's   *)
(* row for an intent, the reviewer's session or the decision for a review. *)
Open(r) ==
  /\ pc[r] = "idle"
  /\ clock' = clock + 1
  /\ Go(r, "open")
  /\ session' = [session EXCEPT ![r].began = clock + 1]
  /\ Unmanaged
  /\ UNCHANGED tables

-----------------------------------------------------------------------------
(* POST /v1/intents *)

(* verify_agent_signature has loaded the certificate, then loads the Agent *)
(* row, which the session keeps for the rest of the request.  An agent     *)
(* that is not operational has no active certificate, and submit_intent    *)
(* refuses it again before any row exists.                                 *)
LoadAgent(r) ==
  /\ r \in IntentReq
  /\ pc[r] = "open"
  /\ IF agentStatus[r.agent] \in {"active", "suspended"}
       THEN /\ Go(r, "verified")
            /\ session' = [session EXCEPT ![r].status = agentStatus[r.agent]]
       ELSE End(r, "rejected")
  /\ NothingCommitted

(* An application-level check in place of the unique index: it sees only   *)
(* committed rows and waits for nobody.                                    *)
InsertIntentCheckedOnly(r) ==
  /\ r \in IntentReq
  /\ pc[r] = "verified"
  /\ \/ ~Recorded(r) /\ Go(r, "inserted") /\ UNCHANGED session
     \/ Recorded(r) /\ End(r, "replay")
  /\ NothingCommitted

(* A duplicate is tried again instead of being answered.                   *)
InsertIntentRetrying(r) ==
  /\ r \in IntentReq
  /\ pc[r] = "verified"
  /\ \A q \in IntentReq : SameNonce(q, r) => pc[q] \notin HoldsIntent
  /\ ~Recorded(r)
  /\ Go(r, "inserted")
  /\ UNCHANGED session
  /\ NothingCommitted

(* INSERT INTO intents under UNIQUE(agent_id, nonce).  PostgreSQL makes it *)
(* wait while another open transaction holds the key; a committed row      *)
(* makes it fail, and the session rolls back (ReplayDetectedError).        *)
InsertIntent(r) ==
  /\ r \in IntentReq
  /\ pc[r] = "verified"
  /\ \A q \in IntentReq : SameNonce(q, r) => pc[q] \notin HoldsIntent
  /\ \/ ~Recorded(r) /\ Go(r, "inserted") /\ UNCHANGED session
     \/ Recorded(r) /\ End(r, "replay")
  /\ NothingCommitted

(* Suspension not looked at before the engine is asked.                    *)
DecideIgnoringSuspension(r) ==
  /\ pc[r] = "inserted"
  /\ \E o \in Outcome : session' = [session EXCEPT ![r].outcome = o]
  /\ Go(r, "decided")
  /\ NothingCommitted

(* A suspended agent gets HUMAN_REVIEW without OPA being asked, and so     *)
(* does an unrecognised action; otherwise the decision engine answers.     *)
Decide(r) ==
  /\ pc[r] = "inserted"
  /\ \E o \in Outcome :
       /\ session[r].status = "suspended" => o = "HUMAN_REVIEW"
       /\ session' = [session EXCEPT ![r].outcome = o]
  /\ Go(r, "decided")
  /\ NothingCommitted

-----------------------------------------------------------------------------
(* append_evidence, called by both handlers *)

(* The tail is looked up among all rows, uncommitted ones included.        *)
AppendEvidenceDirtyRead(r) ==
  /\ pc[r] \in {"decided", "unresolved"}
  /\ \E p \in PreviousHash(InScope(ScopeOf(r))) \cup
              { q \in Req : pc[q] = "appended" /\ ScopeOf(q) = ScopeOf(r) } :
       session' = [session EXCEPT ![r].prev = p]
  /\ Go(r, "appended")
  /\ NothingCommitted

(* The tail is the first record of the scope instead of the last.          *)
AppendEvidenceAscending(r) ==
  /\ pc[r] \in {"decided", "unresolved"}
  /\ \E e \in InScope(ScopeOf(r)) :
       /\ \A f \in InScope(ScopeOf(r)) : e.created <= f.created
       /\ session' = [session EXCEPT ![r].prev = e.id]
  /\ Go(r, "appended")
  /\ NothingCommitted

(* Read the latest committed record of the scope, build and sign the       *)
(* payload around its hash, and INSERT the row into the open transaction.  *)
AppendEvidence(r) ==
  /\ pc[r] \in {"decided", "unresolved"}
  /\ \E p \in PreviousHash(InScope(ScopeOf(r))) :
       session' = [session EXCEPT ![r].prev = p]
  /\ Go(r, "appended")
  /\ NothingCommitted

(* The reviewer's verdict stored as it came.                               *)
StatusOfRaw(r) ==
  IF r \in IntentReq
    THEN CASE session[r].outcome = "ALLOW"        -> "VERIFIED"
           [] session[r].outcome = "DENY"         -> "REJECTED"
           [] session[r].outcome = "HUMAN_REVIEW" -> "PENDING"
    ELSE r.resolution

(* _evidence_status_for_outcome for an intent, the verdict for a review.   *)
StatusOf(r) ==
  IF r \in IntentReq
    THEN CASE session[r].outcome = "ALLOW"        -> "VERIFIED"
           [] session[r].outcome = "DENY"         -> "REJECTED"
           [] session[r].outcome = "HUMAN_REVIEW" -> "PENDING"
    ELSE IF r.resolution = "approved" THEN "VERIFIED" ELSE "REJECTED"

EvidenceRow(r) ==
  [id |-> r, decision |-> DecisionOf(r), scope |-> ScopeOf(r),
   created |-> session[r].began, chained |-> TRUE, prev |-> session[r].prev,
   status |-> StatusOf(r)]

(* db.commit(): the request's Evidence row becomes visible with what its   *)
(* handler adds, and the handler returns.                                  *)
CommitWithEvidence(r) ==
  /\ evidence' = evidence \cup {EvidenceRow(r)}
  /\ committedAt' = [committedAt EXCEPT ![r] = clock]
  /\ End(r, "done")
  /\ Unmanaged
  /\ UNCHANGED clock

(* The one commit of submit_intent: Intent, Decision and Evidence appear   *)
(* together.                                                               *)
CommitIntent(r) ==
  /\ r \in IntentReq
  /\ pc[r] = "appended"
  /\ decisions' = decisions \cup {[id |-> r, outcome |-> session[r].outcome]}
  /\ CommitWithEvidence(r)
  /\ UNCHANGED resolutions

-----------------------------------------------------------------------------
(* POST /v1/decisions/{id}/resolve *)

(* db.get(Decision), and the two checks that need only that row: it        *)
(* exists, and its outcome is HUMAN_REVIEW.                                *)
LoadDecision(r) ==
  /\ r \in ResolveReq
  /\ pc[r] = "open"
  /\ IF [id |-> r.decision, outcome |-> "HUMAN_REVIEW"] \in decisions
       THEN Go(r, "loaded") /\ UNCHANGED session
       ELSE End(r, "rejected")
  /\ NothingCommitted

(* The query for an existing resolution (DecisionAlreadyResolvedError).    *)
CheckUnresolved(r) ==
  /\ pc[r] = "loaded"
  /\ \/ ~Resolved(r.decision) /\ Go(r, "unresolved") /\ UNCHANGED session
     \/ Resolved(r.decision) /\ End(r, "rejected")
  /\ NothingCommitted

ResolutionRow(r) ==
  [decision |-> r.decision, resolution |-> r.resolution, evidence |-> r]

(* Only the query above stands between two reviewers.                      *)
CommitResolutionUnchecked(r) ==
  /\ r \in ResolveReq
  /\ pc[r] = "appended"
  /\ resolutions' = resolutions \cup {ResolutionRow(r)}
  /\ CommitWithEvidence(r)
  /\ UNCHANGED decisions

(* INSERT INTO decision_resolutions under UNIQUE(decision_id), and the     *)
(* commit that publishes it with the second Evidence record.               *)
CommitResolution(r) ==
  /\ r \in ResolveReq
  /\ pc[r] = "appended"
  /\ ~Resolved(r.decision)
  /\ resolutions' = resolutions \cup {ResolutionRow(r)}
  /\ CommitWithEvidence(r)
  /\ UNCHANGED decisions

(* The unique index refuses the second resolution of a decision: the       *)
(* IntegrityError escapes the handler and the session is closed, so the    *)
(* Evidence record inserted before it goes too.                            *)
RefuseDuplicateResolution(r) ==
  /\ r \in ResolveReq
  /\ pc[r] = "appended"
  /\ Resolved(r.decision)
  /\ End(r, "aborted")
  /\ NothingCommitted

-----------------------------------------------------------------------------
(* Everything else that happens *)

(* A crash, a lost connection or a database error: the open transaction is *)
(* rolled back.                                                            *)
Abort(r) ==
  /\ pc[r] \in InFlight
  /\ End(r, "aborted")
  /\ NothingCommitted

(* A lifecycle call of an operator commits (services/agent_service.py).    *)
(* It checked the transition against a row that may be out of date by now, *)
(* so that any status can follow any other (AgentLifecycle).               *)
ChangeAgentStatus(a) ==
  /\ \E s \in {"active", "suspended", "revoked", "retired"} \ {agentStatus[a]} :
       agentStatus' = [agentStatus EXCEPT ![a] = s]
  /\ statusSince' = [statusSince EXCEPT ![a] = clock]
  /\ UNCHANGED <<clock, pc, session, tables>>

(* One step of the server for request r, the stops excepted.               *)
Serve(r) ==
  \/ LoadAgent(r) \/ InsertIntent(r) \/ Decide(r)
  \/ LoadDecision(r) \/ CheckUnresolved(r)
  \/ AppendEvidence(r)
  \/ CommitIntent(r) \/ CommitResolution(r) \/ RefuseDuplicateResolution(r)

Next ==
  \/ \E r \in Req : Open(r) \/ Serve(r) \/ Abort(r)
  \/ \E a \in Managed : ChangeAgentStatus(a)

Spec == Init /\ [][Next]_vars

(* A thread of the pool runs its request to the end; PostgreSQL grants a   *)
(* row lock to a waiter once the holder has ended.  Nothing obliges a      *)
(* client to send, an operator to act, or a request to fail.               *)
FairSpec == Spec /\ \A r \in Req : WF_vars(Serve(r))

-----------------------------------------------------------------------------
(* Properties *)

EvidenceRows ==
  [id : Req \cup Scope, decision : IntentReq \cup {None}, scope : Scope, created : Nat,
   chained : BOOLEAN, prev : Req \cup Scope \cup {None}, status : EvidenceStatus]

(* Type correctness of every variable of the pipeline.                     *)
TypeOK ==
  /\ agentStatus \in [Agent -> Status]
  /\ statusSince \in [Agent -> Nat]
  /\ clock \in Nat
  /\ pc \in [Req -> {"idle"} \cup InFlight \cup Ended]
  /\ session \in [Req -> Session]
  /\ decisions \subseteq [id : IntentReq, outcome : Outcome]
  /\ evidence \subseteq EvidenceRows
  /\ resolutions \subseteq
       [decision : IntentReq, resolution : Resolution, evidence : ResolveReq]
  /\ committedAt \in [Req -> Nat]

(* However often and however concurrently a signed intent is sent, at most *)
(* one decision is recorded for its agent and nonce (replay protection of  *)
(* submit_intent).                                                         *)
OneDecisionPerNonce ==
  \A c, d \in decisions : SameNonce(c.id, d.id) => c = d

(* Every recorded decision, and every recorded resolution, has exactly one *)
(* Evidence record of its own, with the status that goes with it, and no   *)
(* Evidence record is about anything else: nothing a failed or duplicate   *)
(* request did survives (the single commits of submit_intent and           *)
(* resolve_decision).                                                      *)
EvidenceAccounts ==
  /\ \A d \in decisions :
       \E e \in evidence :
         /\ e.id = d.id
         /\ e.status = "PENDING" <=> d.outcome = "HUMAN_REVIEW"
         /\ e.status = "VERIFIED" <=> d.outcome = "ALLOW"
  /\ \A x \in resolutions :
       /\ [id |-> x.decision, outcome |-> "HUMAN_REVIEW"] \in decisions
       /\ \A y \in resolutions : x.decision = y.decision => x = y
       /\ \E e \in evidence :
            /\ e.id = x.evidence
            /\ e.decision = x.decision
            /\ e.status = "VERIFIED" <=> x.resolution = "approved"
  /\ \A e \in evidence :
       \/ e.id \in V1Scope
       \/ \E d \in decisions : d.id = e.id
       \/ \E x \in resolutions : x.evidence = e.id
  /\ \A e, f \in evidence : e.id = f.id => e = f

(* Following previous_hash from any record leads through recorded, ever    *)
(* earlier committed records of the same scope: no link dangles and none   *)
(* points forward (timeline reconstruction over the chain).                *)
CommitTime(e) == IF e.id \in Req THEN committedAt[e.id] ELSE 0

LinksLeadBack ==
  \A e \in evidence :
    e.prev # None =>
      \E p \in evidence :
        /\ p.id = e.prev
        /\ p.scope = e.scope
        /\ p # e
        /\ CommitTime(p) <= CommitTime(e)

(* Two transactions of one scope overlapped: each began before the other   *)
(* had committed.                                                          *)
Overlap(e, f) ==
  /\ e.scope = f.scope
  /\ e # f
  /\ e.created <= CommitTime(f)
  /\ f.created <= CommitTime(e)

(* A verification with nothing committed between its two queries.          *)
Verified(S, since) == VerifyChain(S, S, since)

(* verify_chain reports a link only where two requests of the scope ran    *)
(* concurrently: requests that ran one after the other always leave a      *)
(* continuous chain, whatever the order of the scopes and whatever was     *)
(* aborted in between.                                                     *)
BrokenOnlyByOverlap ==
  \A s \in Scope : \A e \in Verified(InScope(s), 0) :
    \E f \in InScope(s) : Overlap(e, f)

(* Verifying from a date neither hides a break of the range nor invents    *)
(* one, at its boundary or anywhere: what is reported is broken, and what  *)
(* is broken in the range is reported, whatever is committed between the   *)
(* two queries.  (A record that sorts before the range's first, and comes  *)
(* in between, may be seen by one of them only.)                           *)
RangeAgrees ==
  \A s \in Scope : \A seen, since \in 0 .. clock :
    LET S == { e \in InScope(s) : CommitTime(e) <= seen }
        T == InScope(s)
        range(B) == { e \in B : e \in S /\ e.created >= since }
    IN  /\ VerifyChain(S, T, since) \subseteq range(BrokenLinks(S) \cup BrokenLinks(T))
        /\ range(BrokenLinks(S) \cap BrokenLinks(T)) \subseteq VerifyChain(S, T, since)

(* A record that is deleted is missed by verify_chain, in every range with *)
(* its successor: at any record that links to it, and at the one just      *)
(* after it, unless the transactions of the two overlapped.  (Then both    *)
(* may have the same predecessor, and the deletion of the first of them    *)
(* makes the chain look whole.)                                            *)
RemovalIsReported ==
  \A s \in Scope : \A e, f \in InScope(s) :
    /\ e # f /\ f.chained
    /\ f.prev = e.id \/ (Precedes(InScope(s), e, f) /\ ~Overlap(e, f))
    => \A since \in 0 .. f.created : f \in Verified(InScope(s) \ {e}, since)

(* "A deleted record breaks the link at the exact gap it left" (docstring  *)
(* of verify_chain): it does not if that gap is between two records whose  *)
(* transactions overlapped.                                                *)
DeletionShows ==
  \A s \in Scope : \A e, f \in InScope(s) :
    f.chained /\ Precedes(InScope(s), e, f) => f \in Verified(InScope(s) \ {e}, 0)

(* What a verification may be relied on for, from whatever date it starts. *)
VerificationReliable == RangeAgrees /\ RemovalIsReported

(* An ALLOW is recorded for an agent that is not active only when its      *)
(* status changed after the request began: the status a session loaded is  *)
(* never older than its own transaction.                                   *)
StaleAllowOnlyInFlight ==
  [][\A d \in decisions' \ decisions :
       d.outcome = "ALLOW" /\ agentStatus[d.id.agent] # "active"
         => statusSince[d.id.agent] >= session[d.id].began]_vars

(* Every request the server has accepted ends: nobody waits for a nonce    *)
(* for ever.                                                               *)
RequestsEnd == \A r \in Req : pc[r] \in InFlight ~> pc[r] \in Ended

-----------------------------------------------------------------------------
(* Refinement: the tables implement the register of decisions.             *)

Key == Agent \X Nonce

KeyOf(r) == <<r.agent, r.nonce>>

OutcomeOf(k) ==
  IF \E d \in decisions : KeyOf(d.id) = k
    THEN (CHOOSE d \in decisions : KeyOf(d.id) = k).outcome
    ELSE "none"

VerdictOf(k) ==
  IF \E x \in resolutions : KeyOf(x.decision) = k
    THEN (CHOOSE x \in resolutions : KeyOf(x.decision) = k).resolution
    ELSE "none"

Register == INSTANCE DecisionRegister WITH
              outcomeOf <- [k \in Key |-> OutcomeOf(k)],
              verdictOf <- [k \in Key |-> VerdictOf(k)]

(* Seen from outside, the pipeline is a write-once register of decisions   *)
(* and verdicts: no interleaving, resend, race of reviewers or abort shows *)
(* through.                                                                *)
ImplementsRegister == Register!Spec
=============================================================================
