------------------------- MODULE AgentLifecycleProofs -------------------------
(***************************************************************************)
(* The agent's lifecycle, for any number of certificates and of operations *)
(* in progress at once: one active certificate at most, and everything     *)
(* else the state machine promises as long as no operation has written     *)
(* over changes it had not seen.                                           *)
(***************************************************************************)
EXTENDS AgentLifecycle, TLAPS

-----------------------------------------------------------------------------
(* Type correctness *)

LEMMA CertsAfterType ==
  ASSUME TypeOK, NEW w \in Worker, NEW cs \in CertsAfter(w), task[w] \in Tasks
  PROVE  cs \in [Cert -> CertStatus \cup {"none"}]
<1> DEFINE found == [c \in Cert |-> IF c = task[w].found THEN FoundBecomes(task[w].op)
                                    ELSE cert[c]]
<1>1. FoundBecomes(task[w].op) \in CertStatus
  BY DEF Tasks, Operation, FoundBecomes, CertStatus
<1>2. found \in [Cert -> CertStatus \cup {"none"}]
  BY <1>1 DEF TypeOK
<1>3. \A c \in Cert : [found EXCEPT ![c] = "active"] \in [Cert -> CertStatus \cup {"none"}]
  BY <1>2 DEF CertStatus
<1>4. cs = found \/ \E c \in Cert : cs = [found EXCEPT ![c] = "active"]
  BY DEF CertsAfter, WithStatus
<1> HIDE DEF found
<1>5. QED  BY <1>2, <1>3, <1>4

(* Every variable keeps to its type (agent_service.py).                    *)
THEOREM AgentTypeCorrect == Spec => []TypeOK
<1>1. Init => TypeOK
  BY DEF Init, TypeOK, Idle
<1>2. TypeOK /\ [Next]_vars => TypeOK'
  <2> SUFFICES ASSUME TypeOK, [Next]_vars PROVE TypeOK'
    OBVIOUS
  <2>0. ASSUME NEW w \in Worker, task[w].step # "idle" PROVE task[w] \in Tasks
    BY <2>0 DEF TypeOK, Idle
  <2>1. ASSUME NEW c \in Cert, CreateAgent(c) PROVE TypeOK'
    BY <2>1 DEF CreateAgent, TypeOK, Status, CertStatus
  <2>2. ASSUME NEW w \in Worker, NEW op \in Operation, Load(w, op) PROVE TypeOK'
    <3>1. [Idle EXCEPT !.step = "loaded", !.op = op] \in Tasks
      BY DEF Idle, Tasks
    <3>2. QED  BY <2>2, <3>1 DEF Load, Goes, TypeOK
  <2>3. ASSUME NEW w \in Worker, FindCert(w) PROVE TypeOK'
    <3>1. task[w] \in Tasks
      BY <2>0, <2>3 DEF FindCert, At
    <3>2. \A c \in Cert \cup {NoCert} :
            [task[w] EXCEPT !.step = "found", !.found = c] \in Tasks
      BY <3>1 DEF Tasks
    <3>3. \E t \in Tasks \cup {Idle} : Goes(w, t)
      BY <2>3, <3>2 DEF FindCert
    <3>4. QED  BY <2>3, <3>3 DEF FindCert, Goes, TypeOK
  <2>4. ASSUME NEW w \in Worker, Save(w) PROVE TypeOK'
    <3>1. task[w] \in Tasks
      BY <2>0, <2>4 DEF Save, At
    <3>2. StatusAfter(task[w].op) \in Status \cup {"none"}
      BY <3>1 DEF Tasks, Operation, StatusAfter, Status, TypeOK
    <3>3. \A x \in Worker : task[x] # Idle => [task[x] EXCEPT !.stale = TRUE] \in Tasks
      BY DEF TypeOK, Tasks
    <3>4. CASE Committed(w) /\ cert' \in CertsAfter(w) /\ status' = StatusAfter(task[w].op)
      <4>1. task' \in [Worker -> Tasks \cup {Idle}]
        BY <3>3, <3>4 DEF Committed
      <4>2. raced' \in BOOLEAN
        BY <3>1, <3>4 DEF Committed, TypeOK, Tasks
      <4>3. QED  BY <3>1, <3>2, <3>4, <4>1, <4>2, CertsAfterType DEF TypeOK
    <3>5. CASE Goes(w, Idle) /\ UNCHANGED <<status, cert, raced>>
      BY <3>5 DEF Goes, TypeOK
    <3>6. QED  BY <2>4, <3>4, <3>5 DEF Save
  <2>5. ASSUME NEW w \in Worker, Abort(w) PROVE TypeOK'
    BY <2>5 DEF Abort, Goes, TypeOK
  <2>6. CASE UNCHANGED vars
    BY <2>6 DEF vars, TypeOK
  <2>7. QED  BY <2>1, <2>2, <2>3, <2>4, <2>5, <2>6 DEF Next
<1>3. QED  BY <1>1, <1>2, PTL DEF Spec

-----------------------------------------------------------------------------
(* One active certificate *)

(* The partial unique index holds whatever overlaps                        *)
(* (idx_certificates_single_active).                                       *)
THEOREM OneCertificateActive == Spec => []OneActiveCertificate
<1>1. Init => OneActiveCertificate
  BY DEF Init, OneActiveCertificate, SingleActive
<1>2. TypeOK /\ OneActiveCertificate /\ [Next]_vars => OneActiveCertificate'
  <2> SUFFICES ASSUME TypeOK, OneActiveCertificate, [Next]_vars
               PROVE  OneActiveCertificate'
    OBVIOUS
  <2> USE DEF OneActiveCertificate, SingleActive
  <2>1. ASSUME NEW c \in Cert, CreateAgent(c) PROVE OneActiveCertificate'
    BY <2>1 DEF CreateAgent, TypeOK
  <2>2. ASSUME NEW w \in Worker, Save(w) PROVE OneActiveCertificate'
    BY <2>2 DEF Save
  <2>3. CASE UNCHANGED cert
    BY <2>3
  <2>4. QED  BY <2>1, <2>2, <2>3 DEF Next, Load, FindCert, Abort, vars
<1>3. QED  BY <1>1, <1>2, AgentTypeCorrect, PTL DEF Spec

-----------------------------------------------------------------------------
(* The state machine, while nothing stale is written *)

(* Nothing is there before the agent is.                                   *)
NoneInv ==
  status = "none" => /\ \A c \in Cert : cert[c] = "none"
                     /\ \A w \in Worker : task[w] = Idle

(* What an operation has loaded is still there, unless it is marked stale. *)
LoadedHolds(w) ==
  task[w] # Idle /\ ~task[w].stale =>
    /\ status \in AllowedFrom(task[w].op)
    /\ task[w].step = "found" =>
         \/ task[w].found \in Cert /\ cert[task[w].found] \in Searched(task[w].op)
         \/ /\ task[w].found = NoCert
            /\ task[w].op # "rotate"
            /\ \A c \in Cert : cert[c] \notin Searched(task[w].op)

RaceInv ==
  /\ NoneInv
  /\ ~raced => StatusMatchesCerts /\ \A w \in Worker : LoadedHolds(w)

(* The five effects, from what a fresh operation knows.                    *)
LEMMA FreshSave ==
  ASSUME TypeOK, StatusMatchesCerts,
         NEW w \in Worker, task[w] \in Tasks, task[w].step = "found",
         ~task[w].stale, LoadedHolds(w),
         cert' \in CertsAfter(w), status' = StatusAfter(task[w].op)
  PROVE  /\ StatusMatchesCerts'
         /\ status \notin Terminal \cup {"none"}
         /\ \A c \in Cert : cert[c] \in {"rotated", "expired", "revoked"} => cert'[c] = cert[c]
<1> DEFINE f == task[w].found
           op == task[w].op
           found == [c \in Cert |-> IF c = f THEN FoundBecomes(op) ELSE cert[c]]
<1>0. NoCert \notin Cert
  BY CertAssumption
<1>1. /\ task[w] # Idle
      /\ op \in Operation
      /\ status \in AllowedFrom(op)
      /\ \/ f \in Cert /\ cert[f] \in Searched(op)
         \/ f = NoCert /\ op # "rotate" /\ \A c \in Cert : cert[c] \notin Searched(op)
  BY DEF LoadedHolds, Idle, Tasks
<1>2. cert' = found \/ (op = "rotate" /\ \E c \in WithStatus("none") :
                                           cert' = [found EXCEPT ![c] = "active"])
  BY DEF CertsAfter
<1>3. op # "rotate" => cert' = found
  BY DEF CertsAfter
<1>4. op = "rotate" => \E c \in WithStatus("none") : cert' = [found EXCEPT ![c] = "active"]
  BY DEF CertsAfter
<1>5. status' = StatusAfter(op)
  OBVIOUS
<1> HIDE DEF f, op
<1>6. CASE op = "activate"
  <2>1. status' = "active" /\ status \in {"registered", "suspended"} /\ cert' = found
    BY <1>1, <1>3, <1>5, <1>6 DEF StatusAfter, AllowedFrom
  <2>2. CASE status = "registered"
    <3>1. PICK c \in Cert : WithStatus("issued") = {c} /\ WithStatus("active") = {}
      BY <2>2 DEF StatusMatchesCerts
    <3>2. f = c
      BY <1>1, <1>6, <3>1 DEF Searched, WithStatus
    <3>3. \A d \in Cert : cert'[d] = IF d = c THEN "active" ELSE cert[d]
      BY <1>6, <2>1, <3>2 DEF FoundBecomes
    <3>4. \A d \in Cert : (cert[d] = "issued" <=> d = c) /\ cert[d] # "active"
      BY <3>1 DEF WithStatus
    <3>5. WithStatus("issued")' = {} /\ WithStatus("active")' = {c}
      BY <3>3, <3>4 DEF WithStatus
    <3>6. QED  BY <2>1, <2>2, <3>3, <3>4, <3>5 DEF StatusMatchesCerts, Terminal
  <2>3. CASE status = "suspended"
    <3>1. PICK c \in Cert : WithStatus("active") = {c} /\ WithStatus("issued") = {}
      BY <2>3 DEF StatusMatchesCerts
    <3>2. f = NoCert
      BY <1>1, <1>6, <3>1 DEF Searched, WithStatus
    <3>3. \A d \in Cert : cert'[d] = cert[d]
      BY <1>0, <2>1, <3>2
    <3>4. WithStatus("issued")' = {} /\ WithStatus("active")' = {c}
      BY <3>1, <3>3 DEF WithStatus
    <3>5. QED  BY <2>1, <2>3, <3>3, <3>4 DEF StatusMatchesCerts, Terminal
  <2>4. QED  BY <2>1, <2>2, <2>3
<1>7. CASE op = "suspend"
  <2>1. status' = "suspended" /\ status = "active" /\ cert' = found /\ f = NoCert
    BY <1>1, <1>3, <1>5, <1>7 DEF StatusAfter, AllowedFrom, Searched
  <2>2. \A d \in Cert : cert'[d] = cert[d]
    BY <1>0, <2>1
  <2>3. WithStatus("issued")' = WithStatus("issued") /\ WithStatus("active")' = WithStatus("active")
    BY <2>2 DEF WithStatus
  <2>4. QED  BY <2>1, <2>2, <2>3 DEF StatusMatchesCerts, Terminal
<1>8. CASE op \in {"retire", "revoke"}
  <2>1. /\ status' \in Terminal
        /\ status \in {"registered", "active", "suspended"}
        /\ cert' = found
    BY <1>1, <1>3, <1>5, <1>8 DEF StatusAfter, AllowedFrom, Terminal
  <2>2. PICK c \in Cert : \A d \in Cert : cert[d] \in Live <=> d = c
    <3>1. CASE status = "registered"
      BY <3>1 DEF StatusMatchesCerts, WithStatus, Live
    <3>2. CASE status \in {"active", "suspended"}
      BY <3>2 DEF StatusMatchesCerts, WithStatus, Live
    <3>3. QED  BY <2>1, <3>1, <3>2
  <2>3. f = c
    BY <1>1, <1>8, <2>2 DEF Searched, Live
  <2>4. FoundBecomes(op) \in {"expired", "revoked"}
    BY <1>8 DEF FoundBecomes
  <2>5. \A d \in Cert : cert'[d] = IF d = c THEN FoundBecomes(op) ELSE cert[d]
    BY <2>1, <2>3
  <2>6. \A d \in Cert : cert'[d] \notin Live
    BY <2>2, <2>4, <2>5 DEF Live
  <2>7. QED  BY <2>1, <2>2, <2>5, <2>6 DEF StatusMatchesCerts, Terminal, Live
<1>9. CASE op = "rotate"
  <2>1. status' = status /\ status \in {"active", "suspended"}
    BY <1>1, <1>5, <1>9 DEF StatusAfter, AllowedFrom
  <2>2. PICK c \in Cert : WithStatus("active") = {c} /\ WithStatus("issued") = {}
    BY <2>1 DEF StatusMatchesCerts
  <2>3. f = c
    BY <1>1, <1>9, <2>2 DEF Searched, WithStatus
  <2>4. PICK n \in WithStatus("none") : cert' = [found EXCEPT ![n] = "active"]
    BY <1>4, <1>9
  <2>5. n \in Cert /\ cert[n] = "none" /\ n # c
    BY <2>2 DEF WithStatus
  <2>6. \A d \in Cert : cert'[d] = IF d = n THEN "active" ELSE IF d = c THEN "rotated" ELSE cert[d]
    BY <1>9, <2>3, <2>4, <2>5 DEF FoundBecomes
  <2>7. \A d \in Cert : (cert[d] = "active" <=> d = c) /\ cert[d] # "issued"
    BY <2>2 DEF WithStatus
  <2>8. WithStatus("issued")' = {} /\ WithStatus("active")' = {n}
    BY <2>5, <2>6, <2>7 DEF WithStatus
  <2>9. QED  BY <2>1, <2>5, <2>6, <2>7, <2>8 DEF StatusMatchesCerts, Terminal
<1>10. QED  BY <1>1, <1>6, <1>7, <1>8, <1>9 DEF Operation

(* A save that is not stale, in a history without stale writes; and every  *)
(* other save raises the flag.                                             *)
LEMMA RaceSave ==
  ASSUME TypeOK, RaceInv, NEW w \in Worker, Save(w)
  PROVE  /\ RaceInv'
         /\ ~raced' => /\ status \in Terminal \cup {"none"} => status' = status
                       /\ \A c \in Cert : cert[c] \in {"rotated", "expired", "revoked"}
                                           => cert'[c] = cert[c]
<1>1. task[w] \in Tasks /\ task[w] # Idle /\ task[w].step = "found"
  BY DEF Save, At, TypeOK, Idle
<1>2. status # "none"
  BY <1>1 DEF RaceInv, NoneInv
<1>3. CASE cert' \in CertsAfter(w) /\ status' = StatusAfter(task[w].op) /\ Committed(w)
  <2>1. status' # "none"
    BY <1>1, <1>2, <1>3 DEF StatusAfter, Tasks, Operation
  <2>2. \A x \in Worker : task'[x] = Idle \/ task'[x].stale
    <3> SUFFICES ASSUME NEW x \in Worker, x # w, task[x] # Idle PROVE task'[x].stale
      BY <1>3 DEF Committed
    <3>1. task'[x] = [task[x] EXCEPT !.stale = TRUE] /\ task[x] \in Tasks
      BY <1>3 DEF Committed, TypeOK
    <3>2. QED  BY <3>1 DEF Tasks
  <2>3. \A x \in Worker : LoadedHolds(x)'
    BY <2>2 DEF LoadedHolds
  <2>4. ASSUME ~raced'
        PROVE  StatusMatchesCerts' /\ status \notin Terminal \cup {"none"}
               /\ \A c \in Cert : cert[c] \in {"rotated", "expired", "revoked"}
                                   => cert'[c] = cert[c]
    <3>1. ~raced /\ ~task[w].stale
      BY <1>3, <2>4 DEF Committed
    <3>2. StatusMatchesCerts /\ LoadedHolds(w)
      BY <3>1 DEF RaceInv
    <3>3. QED  BY <1>1, <1>3, <3>1, <3>2, FreshSave
  <2>5. QED  BY <2>1, <2>3, <2>4 DEF RaceInv, NoneInv
<1>4. CASE Goes(w, Idle) /\ UNCHANGED <<status, cert, raced>>
  <2>1. \A x \in Worker : task'[x] = Idle \/ task'[x] = task[x]
    BY <1>4 DEF Goes, TypeOK
  <2>2. \A x \in Worker : LoadedHolds(x) => LoadedHolds(x)'
    BY <1>4, <2>1 DEF LoadedHolds
  <2>3. QED  BY <1>2, <1>4, <2>2 DEF RaceInv, NoneInv, StatusMatchesCerts, WithStatus
<1>5. QED  BY <1>3, <1>4 DEF Save

LEMMA RaceInvariant == Spec => []RaceInv
<1>1. Init => RaceInv
  BY DEF Init, RaceInv, NoneInv, StatusMatchesCerts, LoadedHolds, Live, Terminal
<1>2. TypeOK /\ RaceInv /\ [Next]_vars => RaceInv'
  <2> SUFFICES ASSUME TypeOK, RaceInv, [Next]_vars PROVE RaceInv'
    OBVIOUS
  <2>0. ASSUME NEW w \in Worker, NEW t, Goes(w, t), UNCHANGED <<status, cert, raced>>,
               status = "none" => t = Idle,
               ~raced /\ StatusMatchesCerts /\ LoadedHolds(w) => LoadedHolds(w)'
        PROVE  RaceInv'
    <3>1. \A x \in Worker \ {w} : task'[x] = task[x]
      BY <2>0 DEF Goes, TypeOK
    <3>2. \A x \in Worker \ {w} : LoadedHolds(x) => LoadedHolds(x)'
      BY <2>0, <3>1 DEF LoadedHolds
    <3>3. task'[w] = t
      BY <2>0 DEF Goes, TypeOK
    <3>4. StatusMatchesCerts => StatusMatchesCerts'
      BY <2>0 DEF StatusMatchesCerts, WithStatus
    <3>5. NoneInv'
      BY <2>0, <3>1, <3>3 DEF RaceInv, NoneInv
    <3>6. QED  BY <2>0, <3>2, <3>4, <3>5 DEF RaceInv
  <2>1. ASSUME NEW c \in Cert, CreateAgent(c) PROVE RaceInv'
    <3>1. /\ \A d \in Cert : cert'[d] = IF d = c THEN "issued" ELSE "none"
          /\ status' = "registered"
          /\ \A w \in Worker : task'[w] = Idle
      BY <2>1 DEF CreateAgent, RaceInv, NoneInv, TypeOK
    <3>2. WithStatus("issued")' = {c} /\ WithStatus("active")' = {}
      BY <3>1 DEF WithStatus
    <3>3. QED  BY <3>1, <3>2 DEF RaceInv, NoneInv, StatusMatchesCerts, LoadedHolds, Terminal
  <2>2. ASSUME NEW w \in Worker, NEW op \in Operation, Load(w, op) PROVE RaceInv'
    <3> DEFINE t == [Idle EXCEPT !.step = "loaded", !.op = op]
    <3>1. t.step = "loaded" /\ t.op = op /\ task'[w] = t
      BY <2>2 DEF Load, Goes, Idle, TypeOK
    <3>2. status # "none" /\ status \in AllowedFrom(op)
      BY <2>2 DEF Load, AllowedFrom, Operation
    <3>3. Goes(w, t) /\ UNCHANGED <<status, cert, raced>>
      BY <2>2 DEF Load
    <3> HIDE DEF t
    <3>4. LoadedHolds(w)'
      BY <3>1, <3>2, <3>3 DEF LoadedHolds
    <3>5. QED  BY <2>0, <3>2, <3>3, <3>4
  <2>3. ASSUME NEW w \in Worker, FindCert(w) PROVE RaceInv'
    <3> DEFINE found(c) == [task[w] EXCEPT !.step = "found", !.found = c]
    <3>1. task[w] \in Tasks /\ task[w] # Idle
      <4>1. task[w].step = "loaded"
        BY <2>3 DEF FindCert, At
      <4>2. QED  BY <4>1 DEF TypeOK, Idle
    <3>2. \A c \in Cert \cup {NoCert} :
            /\ found(c).step = "found" /\ found(c).found = c
            /\ found(c).op = task[w].op /\ found(c).stale = task[w].stale
      BY <3>1 DEF Tasks
    <3>3. status # "none"
      BY <3>1 DEF RaceInv, NoneInv
    <3>4. UNCHANGED <<status, cert, raced>>
      BY <2>3 DEF FindCert
    <3>5. ASSUME NEW c \in Cert, cert[c] \in Searched(task[w].op), Goes(w, found(c))
          PROVE  RaceInv'
      <4>1. task'[w] = found(c)
        BY <3>5 DEF Goes, TypeOK
      <4> HIDE DEF found
      <4>2. LoadedHolds(w) => LoadedHolds(w)'
        BY <3>1, <3>2, <3>4, <3>5, <4>1 DEF LoadedHolds
      <4>3. QED  BY <2>0, <3>3, <3>4, <3>5, <4>2
    <3>6. ASSUME \A c \in Cert : cert[c] \notin Searched(task[w].op),
                 task[w].op # "rotate", Goes(w, found(NoCert))
          PROVE  RaceInv'
      <4>1. task'[w] = found(NoCert)
        BY <3>6 DEF Goes, TypeOK
      <4> HIDE DEF found
      <4>2. LoadedHolds(w) => LoadedHolds(w)'
        BY <3>1, <3>2, <3>4, <3>6, <4>1 DEF LoadedHolds
      <4>3. QED  BY <2>0, <3>3, <3>4, <3>6, <4>2
    <3>7. ASSUME Goes(w, Idle) PROVE RaceInv'
      <4>1. task'[w] = Idle
        BY <3>7 DEF Goes, TypeOK
      <4>2. LoadedHolds(w)'
        BY <4>1 DEF LoadedHolds
      <4>3. QED  BY <2>0, <3>4, <3>7, <4>2
    <3>8. QED  BY <2>3, <3>5, <3>6, <3>7 DEF FindCert
  <2>4. ASSUME NEW w \in Worker, Save(w) PROVE RaceInv'
    BY <2>4, RaceSave
  <2>5. ASSUME NEW w \in Worker, Abort(w) PROVE RaceInv'
    <3>1. task'[w] = Idle
      BY <2>5 DEF Abort, Goes, TypeOK
    <3>2. QED  BY <2>0, <2>5, <3>1 DEF Abort, LoadedHolds
  <2>6. CASE UNCHANGED vars
    <3>1. \A w \in Worker : LoadedHolds(w) => LoadedHolds(w)'
      BY <2>6 DEF vars, LoadedHolds
    <3>2. QED  BY <2>6, <3>1 DEF vars, RaceInv, NoneInv, StatusMatchesCerts, WithStatus
  <2>7. QED  BY <2>1, <2>2, <2>3, <2>4, <2>5, <2>6 DEF Next
<1>3. QED  BY <1>1, <1>2, AgentTypeCorrect, PTL DEF Spec

(* Status and certificates part only after a stale write: every operation  *)
(* that writes what it has seen leaves a registered agent one issued       *)
(* certificate, an operational one exactly one active certificate, and a   *)
(* revoked or retired one none (activate_agent, retire_agent,              *)
(* revoke_agent, rotate_certificate).                                      *)
THEOREM Consistent == Spec => []ConsistentUnlessRaced
<1>1. RaceInv => ConsistentUnlessRaced
  BY DEF RaceInv, ConsistentUnlessRaced
<1>2. QED  BY <1>1, RaceInvariant, PTL

(* A terminal agent and a dead certificate come back only through a stale  *)
(* write (_ALLOWED_TRANSITIONS, _CERT_LIVE_STATUSES).                      *)
THEOREM DeadAreDead == Spec => DeadStayDead
<1> DEFINE Dies == ~raced' =>
             /\ status \in Terminal => status' = status
             /\ \A c \in Cert : cert[c] \in {"rotated", "expired", "revoked"} => cert'[c] = cert[c]
<1>1. TypeOK /\ RaceInv /\ [Next]_vars => [Dies]_vars
  <2> SUFFICES ASSUME TypeOK, RaceInv, [Next]_vars PROVE Dies
    OBVIOUS
  <2>1. CASE UNCHANGED <<status, cert>>
    BY <2>1
  <2>2. ASSUME NEW c \in Cert, CreateAgent(c) PROVE Dies
    BY <2>2 DEF CreateAgent, RaceInv, NoneInv, Terminal
  <2>3. ASSUME NEW w \in Worker, Save(w) PROVE Dies
    BY <2>3, RaceSave
  <2>4. QED  BY <2>1, <2>2, <2>3 DEF Next, Load, FindCert, Abort, vars
<1>2. QED  BY <1>1, AgentTypeCorrect, RaceInvariant, PTL DEF Spec, DeadStayDead
=============================================================================
