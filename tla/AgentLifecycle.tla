---------------------------- MODULE AgentLifecycle ----------------------------
(***************************************************************************)
(* One agent and its certificates (server/app/services/agent_service.py).  *)
(* No operation touches the rows of another agent, and a bulk operation is *)
(* a sequence of single ones, each with its own commit.                    *)
(*                                                                         *)
(* An operation loads the agent row and checks its status, looks up a      *)
(* certificate, and writes both by primary key with one commit.  The rows  *)
(* it writes stay locked from the first UPDATE to the commit, so the       *)
(* writes are one step; its reads are earlier steps, and other operations  *)
(* commit in between.                                                      *)
(***************************************************************************)
EXTENDS Naturals, FiniteSets

CONSTANTS
  Cert,     \* certificates there may come to be: a bound on rotations
  Worker,   \* threads serving requests: how many operations overlap
  NoCert    \* no certificate was found

ASSUME CertAssumption == NoCert \notin Cert

VARIABLES
  status,   \* agents.status; "none": not created yet
  cert,     \* certificates.status of each certificate; "none": no such row
  task,     \* what each worker has loaded
  raced     \* history: an operation has written over what it had not seen

vars == <<status, cert, task, raced>>

-----------------------------------------------------------------------------
(* State *)

Status == {"registered", "active", "suspended", "revoked", "retired"}

CertStatus == {"issued", "active", "rotated", "expired", "revoked"}

Operation == {"activate", "suspend", "retire", "revoke", "rotate"}

Terminal == {"revoked", "retired"}

(* _CERT_LIVE_STATUSES *)
Live == {"issued", "active"}

WithStatus(s) == { c \in Cert : cert[c] = s }

(* stale, a history variable: an operation has committed since the load.   *)
Idle == [step |-> "idle", op |-> "none", found |-> NoCert, stale |-> FALSE]

Tasks == [step : {"loaded", "found"}, op : Operation,
          found : Cert \cup {NoCert}, stale : BOOLEAN]

Init ==
  /\ status = "none"
  /\ cert = [c \in Cert |-> "none"]
  /\ task = [w \in Worker |-> Idle]
  /\ raced = FALSE

-----------------------------------------------------------------------------
(* Checks and effects of the operations *)

(* Reactivation open to every agent that is not active.                    *)
AllowedFromAny(op) ==
  CASE op = "activate"            -> Status \ {"active"}
    [] op = "suspend"             -> {"active"}
    [] op \in {"retire", "revoke"} -> {"registered", "active", "suspended"}
    [] op = "rotate"              -> {"active", "suspended"}

(* _ALLOWED_TRANSITIONS, and the check of rotate_certificate.              *)
AllowedFrom(op) ==
  CASE op = "activate"            -> {"registered", "suspended"}
    [] op = "suspend"             -> {"active"}
    [] op \in {"retire", "revoke"} -> {"registered", "active", "suspended"}
    [] op = "rotate"              -> {"active", "suspended"}

(* A retired or revoked agent loses its active certificate only.           *)
SearchedActiveOnly(op) ==
  CASE op = "activate"            -> {"issued"}
    [] op = "suspend"             -> {}
    [] op \in {"retire", "revoke", "rotate"} -> {"active"}

(* The certificate statuses an operation's query asks for.                 *)
Searched(op) ==
  CASE op = "activate"            -> {"issued"}
    [] op = "suspend"             -> {}
    [] op \in {"retire", "revoke"} -> Live
    [] op = "rotate"              -> {"active"}

StatusAfter(op) ==
  CASE op = "activate" -> "active"
    [] op = "suspend"  -> "suspended"
    [] op = "retire"   -> "retired"
    [] op = "revoke"   -> "revoked"
    [] op = "rotate"   -> status

(* What becomes of the certificate found (suspend finds none).             *)
FoundBecomes(op) ==
  CASE op = "activate" -> "active"
    [] op = "retire"   -> "expired"
    [] op = "revoke"   -> "revoked"
    [] op = "rotate"   -> "rotated"
    [] op = "suspend"  -> "issued"

-----------------------------------------------------------------------------

Goes(w, t) == task' = [task EXCEPT ![w] = t]

At(w, step) == task[w].step = step

(* Every other operation in progress has now loaded something else than    *)
(* what is there.                                                          *)
Committed(w) ==
  /\ task' = [x \in Worker |-> IF x = w \/ task[x] = Idle THEN Idle
                               ELSE [task[x] EXCEPT !.stale = TRUE]]
  /\ raced' = (raced \/ task[w].stale)

(* create_agent: the agent and its first certificate in one commit.        *)
CreateAgent(c) ==
  /\ status = "none"
  /\ status' = "registered"
  /\ cert' = [cert EXCEPT ![c] = "issued"]
  /\ UNCHANGED <<task, raced>>

(* get_agent, and the status check (InvalidTransitionError).               *)
Load(w, op) ==
  /\ At(w, "idle")
  /\ status \in AllowedFrom(op)
  /\ Goes(w, [Idle EXCEPT !.step = "loaded", !.op = op])
  /\ UNCHANGED <<status, cert, raced>>

(* The query for a certificate: any row with a status it asks for.  Only a *)
(* rotation minds finding none (NoActiveCertificateError).                 *)
FindCert(w) ==
  /\ At(w, "loaded")
  /\ LET candidates == { c \in Cert : cert[c] \in Searched(task[w].op) }
         found(c) == [task[w] EXCEPT !.step = "found", !.found = c]
     IN  \/ \E c \in candidates : Goes(w, found(c))
         \/ /\ candidates = {}
            /\ Goes(w, IF task[w].op = "rotate" THEN Idle ELSE found(NoCert))
  /\ UNCHANGED <<status, cert, raced>>

(* The certificates as the operation leaves them; a rotation adds one.     *)
CertsAfter(w) ==
  LET found == [c \in Cert |-> IF c = task[w].found THEN FoundBecomes(task[w].op)
                               ELSE cert[c]]
  IN  IF task[w].op = "rotate"
        THEN { [found EXCEPT ![c] = "active"] : c \in WithStatus("none") }
        ELSE {found}

SingleActive(cs) == \A c, d \in Cert : cs[c] = "active" /\ cs[d] = "active" => c = d

(* The UPDATEs, the INSERTs and the commit.  The partial unique index over *)
(* active certificates refuses a second one.                               *)
Save(w) ==
  /\ At(w, "found")
  /\ \E cs \in CertsAfter(w) :
       \/ /\ SingleActive(cs)
          /\ cert' = cs
          /\ status' = StatusAfter(task[w].op)
          /\ Committed(w)
       \/ /\ ~SingleActive(cs)
          /\ Goes(w, Idle)
          /\ UNCHANGED <<status, cert, raced>>

(* The request fails between two statements: a database error, a deadlock  *)
(* PostgreSQL breaks (rotate locks the certificate's row, then the         *)
(* agent's; another operation may lock them the other way), a crash.       *)
Abort(w) ==
  /\ task[w] # Idle
  /\ Goes(w, Idle)
  /\ UNCHANGED <<status, cert, raced>>

Next ==
  \/ \E c \in Cert : CreateAgent(c)
  \/ \E w \in Worker :
       \/ \E op \in Operation : Load(w, op)
       \/ FindCert(w) \/ Save(w) \/ Abort(w)

Spec == Init /\ [][Next]_vars

-----------------------------------------------------------------------------
(* Properties *)

(* Type correctness.                                                       *)
TypeOK ==
  /\ status \in Status \cup {"none"}
  /\ cert \in [Cert -> CertStatus \cup {"none"}]
  /\ task \in [Worker -> Tasks \cup {Idle}]
  /\ raced \in BOOLEAN

(* However rotations, activations and revocations overlap, one certificate *)
(* at most is active (idx_certificates_single_active).                     *)
OneActiveCertificate == SingleActive(cert)

(* What the status of the agent says of its certificates: a registered     *)
(* agent waits with one issued certificate, an operational one signs with  *)
(* exactly one active certificate, and a revoked or retired one has no     *)
(* live certificate left.                                                  *)
StatusMatchesCerts ==
  /\ status \in {"none"} \cup Terminal => \A c \in Cert : cert[c] \notin Live
  /\ status = "registered" =>
       /\ WithStatus("active") = {}
       /\ \E c \in Cert : WithStatus("issued") = {c}
  /\ status \in {"active", "suspended"} =>
       /\ WithStatus("issued") = {}
       /\ \E c \in Cert : WithStatus("active") = {c}

(* Status and certificates part only after an operation has written over   *)
(* changes committed since it loaded: overlapping operations that do not   *)
(* write stale rows, in any number, keep them together.                    *)
ConsistentUnlessRaced == ~raced => StatusMatchesCerts

(* A revoked or retired agent, and a rotated, expired or revoked           *)
(* certificate, come back to life only through a write of that kind.       *)
DeadStayDead ==
  [][~raced' =>
       /\ status \in Terminal => status' = status
       /\ \A c \in Cert : cert[c] \in {"rotated", "expired", "revoked"} => cert'[c] = cert[c]]_vars
=============================================================================
