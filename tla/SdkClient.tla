------------------------------- MODULE SdkClient -------------------------------
(***************************************************************************)
(* The Python SDK (sdk-python/payreality): processes that register an      *)
(* agent, rotate its key, retire it and authorize actions with it, over    *)
(* HTTP with retries, keeping what the server told them in one JSON file   *)
(* of credentials that all of them share.                                  *)
(*                                                                         *)
(* The server is seen through the endpoints the SDK calls; each serves a   *)
(* request in one commit (AgentLifecycle has the races inside it).  A      *)
(* request whose answer does not come was dropped, or it is late: the      *)
(* server may still serve it at any time, also after a retry.              *)
(***************************************************************************)
EXTENDS Naturals, FiniteSets

CONSTANTS
  Process,     \* processes that run an Agent object
  Key,         \* key pairs; the public half stands for both
  Configured,  \* the private_key each process is started with
  AgentId,     \* agents the server may come to have: a bound on registrations
  Cert,        \* certificates it may come to have: a bound on rotations
  Call,        \* authorize() calls: a bound on their number
  Caller,      \* the process that makes each
  MaxRetries,  \* Configuration.retry_count
  MaxLate,     \* a bound on the requests that are late at a time
  Nothing      \* no key, no identity, no identifier

ASSUME SdkAssumption ==
  /\ Configured \in [Process -> Key \cup {Nothing}]
  /\ AgentId \subseteq Nat
  /\ Cert \subseteq Nat
  /\ Caller \in [Call -> Process]
  /\ MaxRetries \in Nat
  /\ MaxLate \in Nat
  /\ Nothing \notin Key \cup AgentId \cup Cert \cup Call
  /\ Nothing \notin [agent : AgentId, cert : Cert, status : {"active", "retired"}]

VARIABLES
  \* the server
  agent,       \* agents.status of each agent; "none": no such row
  cert,        \* the certificates: agent, public key and status
  intents,     \* nonces under which an Intent is recorded
  late,        \* requests nobody waits for that may still be served
  \* the machine of the processes
  file,        \* credentials.json
  mem,         \* each process's Agent object and the call it is in
  \* history
  decisions,   \* how many decisions each authorize() call has led to
  told,        \* what each authorize() call returned
  mishap       \* something has gone wrong that can part a process from its agent

server == <<agent, cert, intents, decisions>>
vars == <<agent, cert, intents, late, file, mem, decisions, told, mishap>>

-----------------------------------------------------------------------------
(* State *)

(* RegisteredAgent, as far as it can differ from the server.               *)
Identity == [agent : AgentId, cert : Cert, status : {"active", "retired"}]

NoCert == [agent |-> Nothing, key |-> Nothing, status |-> "none"]

Certificates ==
  [agent : AgentId, key : Key, status : {"issued", "active", "rotated", "expired"}]

Kind == {"create", "activate", "rotate", "retire", "intent"}

(* A request: what its path, body and headers name.                        *)
Request ==
  [kind : Kind, agent : AgentId \cup {Nothing}, cert : Cert \cup {Nothing},
   key : Key \cup {Nothing}, call : Call \cup {Nothing}, nonce : Call \cup {Nothing}]

NoRequest == [kind |-> "create", agent |-> Nothing, cert |-> Nothing,
              key |-> Nothing, call |-> Nothing, nonce |-> Nothing]

(* The file maps public keys to identities.  One just truncated, or one    *)
(* that two writers have written over each other, is not JSON, and reads   *)
(* as no entries (CredentialStore._read).                                  *)
Entries == UNION { [K -> Identity] : K \in SUBSET Key }

Empty == [k \in {} |-> Nothing]

Unreadable(f) == [form |-> f, entries |-> Empty]

Files == [form : {"json"}, entries : Entries]
           \cup {Unreadable("truncated"), Unreadable("garbled")}

With(f, k, i) == [x \in DOMAIN f \cup {k} |-> IF x = k THEN i ELSE f[x]]

Without(f, k) == [x \in DOMAIN f \ {k} |-> f[x]]

Step == {"idle", "waiting", "saving", "read", "truncated"}

(* An Agent object with no call in progress.                               *)
Object(k, i) ==
  [key |-> k, identity |-> i, step |-> "idle", request |-> NoRequest, attempt |-> 0,
   made |-> Nothing, put |-> Nothing, drop |-> Nothing, data |-> Empty]

Objects ==
  [key : Key \cup {Nothing}, identity : Identity \cup {Nothing}, step : Step,
   request : Request, attempt : 0..MaxRetries, made : Cert \cup {Nothing},
   put : Key \cup {Nothing}, drop : Key \cup {Nothing}, data : Entries]

Init ==
  /\ agent = [a \in AgentId |-> "none"]
  /\ cert = [c \in Cert |-> NoCert]
  /\ intents = {}
  /\ late = {}
  /\ file = [form |-> "json", entries |-> Empty]
  /\ mem = [p \in Process |-> Object(Configured[p], Nothing)]
  /\ decisions = [c \in Call |-> 0]
  /\ told = [c \in Call |-> "nothing"]
  /\ mishap = FALSE

-----------------------------------------------------------------------------
(* The server *)

(* An answer: refused, or a success with the identifiers it carries.       *)
Refused == [ok |-> FALSE, agent |-> Nothing, cert |-> Nothing]

Success(a, c) == [ok |-> TRUE, agent |-> a, cert |-> c]

(* Rows are numbered in the order of their creation.                       *)
NextAgent == { a \in AgentId : agent[a] = "none" /\ \A b \in AgentId : b < a => agent[b] # "none" }

NextCert == { c \in Cert : cert[c] = NoCert /\ \A d \in Cert : d < c => cert[d] # NoCert }

(* The signature is that of the active certificate named.                  *)
Signed(r) == cert[r.cert].status = "active" /\ cert[r.cert].key = r.key

(* What each endpoint requires.  POST /v1/agents does not look for the     *)
(* public key among those it has.                                          *)
Grants(r) ==
  CASE r.kind = "create"   -> TRUE
    [] r.kind = "activate" -> agent[r.agent] = "registered"
    [] r.kind = "rotate"   -> agent[r.agent] = "active"
    [] r.kind = "retire"   -> agent[r.agent] \in {"registered", "active"}
    [] r.kind = "intent"   -> Signed(r) /\ r.nonce \notin intents

Answers(r) ==
  IF ~Grants(r) THEN {Refused}
  ELSE CASE r.kind = "create" -> { Success(a, c) : a \in NextAgent, c \in NextCert }
         [] r.kind = "rotate" -> { Success(r.agent, c) : c \in NextCert }
         [] OTHER             -> { Success(r.agent, Nothing) }

AgentAfter(kind) ==
  CASE kind = "create" -> "registered" [] kind = "activate" -> "active" [] kind = "retire" -> "retired"

(* Retiring an agent leaves its certificates with the agent's own word.    *)
CertAfterRaw(kind, status) ==
  CASE kind = "activate" /\ status = "issued" -> "active"
    [] kind = "rotate" /\ status = "active"   -> "rotated"
    [] kind = "retire"                        -> "retired"
    [] OTHER                                  -> status

(* What becomes of a certificate of the agent that a request is about.     *)
CertAfter(kind, status) ==
  CASE kind = "activate" /\ status = "issued"             -> "active"
    [] kind = "rotate" /\ status = "active"               -> "rotated"
    [] kind = "retire" /\ status \in {"issued", "active"} -> "expired"
    [] OTHER                                              -> status

(* The certificates after a successful request.                            *)
CertsAfter(r, x) ==
  [c \in Cert |->
     IF c = x.cert
       THEN [agent |-> x.agent, key |-> r.key,
             status |-> IF r.kind = "create" THEN "issued" ELSE "active"]
     ELSE IF cert[c].agent = x.agent
       THEN [cert[c] EXCEPT !.status = CertAfter(r.kind, @)]
     ELSE cert[c]]

(* The server commits what a request asks for, or refuses it.              *)
Serve(r, x) ==
  /\ x \in Answers(r)
  /\ \/ x = Refused /\ UNCHANGED server
     \/ /\ x.ok /\ r.kind \in {"create", "activate", "retire"}
        /\ agent' = [agent EXCEPT ![x.agent] = AgentAfter(r.kind)]
        /\ cert' = CertsAfter(r, x)
        /\ UNCHANGED <<intents, decisions>>
     \/ /\ x.ok /\ r.kind = "rotate"
        /\ cert' = CertsAfter(r, x)
        /\ UNCHANGED <<agent, intents, decisions>>
     \/ /\ x.ok /\ r.kind = "intent"
        /\ intents' = intents \cup {r.nonce}
        /\ decisions' = [decisions EXCEPT ![r.call] = @ + 1]
        /\ UNCHANGED <<agent, cert>>

-----------------------------------------------------------------------------
(* Calls of the Agent object *)

At(p, step) == mem[p].step = step

Becomes(p, m) == mem' = [mem EXCEPT ![p] = m]

(* The call ends, by a return or an exception; what it has put into the    *)
(* Agent object stays.                                                     *)
Ended(m) == Object(m.key, m.identity)

(* HttpClient.request: the first attempt is under way.                     *)
Sends(m, r) == [m EXCEPT !.step = "waiting", !.request = r, !.attempt = 0]

InMemory == UNCHANGED <<server, late, file, told, mishap>>

(* Each attempt makes its own nonce.                                       *)
NonceOfAttempt(call, attempt) == <<call, attempt>>

(* authorize() makes one nonce per call; the attempts repeat it.           *)
NonceOf(call, attempt) == call

(* Keys not seen anywhere yet.                                             *)
Unused ==
  Key \ ( { mem[p].key : p \in Process } \cup { mem[p].request.key : p \in Process }
          \cup { Configured[p] : p \in Process } \cup { cert[c].key : c \in Cert }
          \cup { r.key : r \in late } )

(* register(): a key pair if there is none, and then the identity on file, *)
(* or the first request.  The principal is found or created by its name    *)
(* before; which row it is makes no difference here.                       *)
Register(p) ==
  /\ At(p, "idle")
  /\ \E k \in (IF mem[p].key = Nothing THEN Unused ELSE {mem[p].key}) :
       \/ /\ k \in DOMAIN file.entries
          /\ Becomes(p, Object(k, file.entries[k]))
          /\ UNCHANGED mishap
       \/ /\ k \notin DOMAIN file.entries
          /\ Becomes(p, Sends([mem[p] EXCEPT !.key = k], [NoRequest EXCEPT !.key = k]))
          /\ mishap' = (mishap \/ file.form = "truncated")
  /\ UNCHANGED <<server, late, file, told>>

(* rotate_keys(): a new key pair, kept in the call until the answer comes. *)
RotateKeys(p) ==
  /\ At(p, "idle")
  /\ mem[p].identity # Nothing
  /\ \E k \in Unused :
       Becomes(p, Sends(mem[p], [NoRequest EXCEPT !.kind = "rotate", !.key = k,
                                                  !.agent = mem[p].identity.agent]))
  /\ InMemory

(* retire()                                                                *)
Retire(p) ==
  /\ At(p, "idle")
  /\ mem[p].identity # Nothing
  /\ Becomes(p, Sends(mem[p], [NoRequest EXCEPT !.kind = "retire",
                                                !.agent = mem[p].identity.agent]))
  /\ InMemory

(* authorize(): refused locally for an agent recorded as retired.          *)
Authorize(p, call) ==
  /\ At(p, "idle")
  /\ p = Caller[call]
  /\ told[call] = "nothing"
  /\ mem[p].identity # Nothing
  /\ mem[p].identity.status # "retired"
  /\ Becomes(p, Sends(mem[p],
       [kind |-> "intent", agent |-> mem[p].identity.agent, cert |-> mem[p].identity.cert,
        key |-> mem[p].key, call |-> call, nonce |-> NonceOf(call, 0)]))
  /\ told' = [told EXCEPT ![call] = "waiting"]
  /\ UNCHANGED <<server, late, file, mishap>>

(* The store is to be written: nothing more is sent.                       *)
Saves(m) == [m EXCEPT !.step = "saving", !.request = NoRequest, !.attempt = 0, !.made = Nothing]

(* rotate_keys() puts the new identity on file under the key it had.       *)
RotatedInPlace(m, c) ==
  [Saves(m) EXCEPT !.put = m.key, !.key = m.request.key, !.identity.cert = c]

(* rotate_keys() leaves the entry of the key it had.                       *)
RotatedBeside(m, c) ==
  [Saves(m) EXCEPT !.put = m.request.key, !.key = m.request.key, !.identity.cert = c]

(* rotate_keys() goes on with the key it had.                              *)
RotatedOldKey(m, c) ==
  [Saves(m) EXCEPT !.put = m.request.key, !.drop = m.key, !.identity.cert = c]

(* rotate_keys(): the new key with its identity is saved, the old deleted. *)
Rotated(m, c) ==
  [Saves(m) EXCEPT !.put = m.request.key, !.drop = m.key, !.key = m.request.key,
                   !.identity.cert = c]

(* What the call does with a success.                                      *)
Heard(m, x) ==
  LET r == m.request
  IN  CASE r.kind = "create"    -> Sends([m EXCEPT !.made = x.cert],
                                         [r EXCEPT !.kind = "activate", !.agent = x.agent])
        [] r.kind = "activate"  -> [Saves(m) EXCEPT !.put = m.key,
                                     !.identity = [agent |-> r.agent, cert |-> m.made,
                                                   status |-> "active"]]
        [] r.kind = "rotate"    -> Rotated(m, x.cert)
        [] r.kind = "retire"    -> [Saves(m) EXCEPT !.put = m.key, !.identity.status = "retired"]
        [] r.kind = "intent"    -> Ended(m)

(* What authorize() returns or raises.                                     *)
Tells(r, outcome) ==
  told' = IF r.kind = "intent" THEN [told EXCEPT ![r.call] = outcome] ELSE told

(* The server's answer comes.  A refusal (401, 409) is raised at once.     *)
Answered(p) ==
  LET r == mem[p].request
  IN  /\ At(p, "waiting")
      /\ \E x \in Answers(r) :
           /\ Serve(r, x)
           /\ Becomes(p, IF x.ok THEN Heard(mem[p], x) ELSE Ended(mem[p]))
           /\ Tells(r, IF x.ok THEN "decision" ELSE "error")
      /\ UNCHANGED <<late, file, mishap>>

(* No answer in time, or a 5xx: the same request again, until the retries  *)
(* are used up.  The server may have dropped it, or have it still (if it   *)
(* would grant it: what it refuses now it refuses later).                  *)
Unanswered(p) ==
  LET m == mem[p]
      again == [m EXCEPT !.attempt = @ + 1,
                         !.request.nonce = NonceOf(m.request.call, m.attempt + 1)]
  IN  /\ At(p, "waiting")
      /\ \/ UNCHANGED late
         \/ /\ Cardinality(late) < MaxLate
            /\ \E x \in Answers(m.request) : x.ok
            /\ late' = late \cup {m.request}
      /\ \/ /\ m.attempt < MaxRetries
            /\ Becomes(p, again)
            /\ UNCHANGED <<told, mishap>>
         \/ /\ m.attempt = MaxRetries
            /\ Becomes(p, Ended(m))
            /\ Tells(m.request, "error")
            /\ mishap' = (mishap \/ m.request.kind = "activate")
      /\ UNCHANGED <<server, file>>

(* The server serves a request whose answer nobody hears.  Only those that *)
(* change an agent can part it from what its process knows.                *)
ServeLate(r) ==
  /\ r \in late
  /\ \E x \in Answers(r) :
       /\ Serve(r, x)
       /\ mishap' = (mishap \/ (x.ok /\ r.kind \in {"create", "activate", "rotate", "retire"}))
  /\ late' = late \ {r}
  /\ UNCHANGED <<file, mem, told>>

-----------------------------------------------------------------------------
(* The credential store *)

(* save and delete read the file, ...                                      *)
ReadFile(p) ==
  LET m == mem[p]
      f == file.entries
  IN  /\ At(p, "saving")
      /\ Becomes(p, CASE m.put # Nothing -> [m EXCEPT !.step = "read", !.data = With(f, m.put, m.identity)]
                      [] m.put = Nothing /\ m.drop \in DOMAIN f ->
                           [m EXCEPT !.step = "read", !.data = Without(f, m.drop)]
                      [] OTHER -> Ended(m))
      /\ mishap' = (mishap \/ \E q \in Process : At(q, "read") \/ At(q, "truncated"))
      /\ UNCHANGED <<server, late, file, told>>

(* ... write_text opens it, which truncates it, ...                        *)
Truncate(p) ==
  /\ At(p, "read")
  /\ Becomes(p, [mem[p] EXCEPT !.step = "truncated"])
  /\ file' = Unreadable("truncated")
  /\ UNCHANGED <<server, late, told, mishap>>

(* ... and writes it whole.  Over what another writer has written since    *)
(* the truncation, the two may come out mixed.                             *)
Fill(p) ==
  LET m == mem[p]
      whole == [form |-> "json", entries |-> m.data]
  IN  /\ At(p, "truncated")
      /\ file' \in {whole} \cup (IF file.form = "truncated" THEN {} ELSE {Unreadable("garbled")})
      /\ Becomes(p, IF m.put # Nothing /\ m.drop # Nothing
                      THEN [m EXCEPT !.step = "saving", !.put = Nothing, !.data = Empty]
                      ELSE Ended(m))
      /\ UNCHANGED <<server, late, told, mishap>>

(* The process dies and is started again: Agent(...) with the private key  *)
(* it is configured with, which the constructor looks up, or with none.  A *)
(* key that register() or rotate_keys() made was nowhere but in memory:    *)
(* the file keeps identities by public key, never a private key.           *)
Restart(p) ==
  /\ LET k == Configured[p]
     IN  Becomes(p, Object(k, IF k \in DOMAIN file.entries THEN file.entries[k] ELSE Nothing))
  /\ mishap' = (mishap \/ ~At(p, "idle"))
  /\ Tells(mem[p].request, "error")
  /\ UNCHANGED <<server, late, file>>

Next ==
  \/ \E p \in Process :
       \/ Register(p) \/ RotateKeys(p) \/ Retire(p)
       \/ \E call \in Call : Authorize(p, call)
       \/ Answered(p) \/ Unanswered(p)
       \/ ReadFile(p) \/ Truncate(p) \/ Fill(p)
       \/ Restart(p)
  \/ \E r \in late : ServeLate(r)

Spec == Init /\ [][Next]_vars

-----------------------------------------------------------------------------
(* Properties *)

(* Type correctness.                                                       *)
TypeOK ==
  /\ agent \in [AgentId -> {"none", "registered", "active", "retired"}]
  /\ cert \in [Cert -> Certificates \cup {NoCert}]
  /\ intents \subseteq Call
  /\ late \subseteq Request
  /\ file \in Files
  /\ mem \in [Process -> Objects]
  /\ decisions \in [Call -> Nat]
  /\ told \in [Call -> {"nothing", "waiting", "decision", "error"}]
  /\ mishap \in BOOLEAN

(* However often a call is sent again, and whenever a late copy of it is   *)
(* served, one decision at most comes of it, and a caller that is told a   *)
(* decision is told of one that was made (authorize signs one body with    *)
(* one nonce, HttpClient.request repeats it verbatim, and the server       *)
(* refuses a nonce it knows).                                              *)
AtMostOneDecision ==
  \A call \in Call : /\ decisions[call] <= 1
                     /\ told[call] = "decision" => decisions[call] = 1

(* i is what the server knows of the holder of key k.                      *)
Truthful(k, i) ==
  /\ cert[i.cert].key = k
  /\ cert[i.cert].agent = i.agent
  /\ i.status = "retired" => agent[i.agent] = "retired"

(* Whatever is lost, delayed, repeated, garbled or cut off by a crash:     *)
(* every entry of the store, and the identity of every Agent object, pairs *)
(* a key with a certificate issued for that very key (register,            *)
(* rotate_keys and retire save under the key the request carried).         *)
StoreIsTruthful ==
  /\ \A k \in DOMAIN file.entries : Truthful(k, file.entries[k])
  /\ \A p \in Process : mem[p].identity # Nothing => Truthful(mem[p].key, mem[p].identity)

Live == { c \in Cert : cert[c].status \in {"issued", "active"} }

Quiet == \A p \in Process : At(p, "idle")

(* Two processes with one key rotate it under each other.                  *)
OwnKeys ==
  \A p, q \in Process : Configured[p] = Configured[q] => p = q \/ Configured[p] = Nothing

(* The store is at odds with the server for four reasons only: a request   *)
(* that changed an agent was served unheard, register() gave up between    *)
(* creating an agent and activating it, a process died inside a call, or   *)
(* two processes were in the credentials file at once.  Otherwise, when no *)
(* call is in progress, it holds exactly the live certificates, and every  *)
(* Agent object with an identity signs with one on file (register,         *)
(* rotate_keys and retire each save what the server has committed).  It is *)
(* no promise that a process still has the key of an entry: see KeyHeld.   *)
StoreIsCurrent ==
  OwnKeys /\ Quiet /\ ~mishap =>
    /\ \A c \in Live : /\ cert[c].key \in DOMAIN file.entries
                       /\ file.entries[cert[c].key].cert = c
    /\ \A k \in DOMAIN file.entries :
         file.entries[k].status = "active" => cert[file.entries[k].cert].status = "active"
    /\ \A p \in Process :
         mem[p].identity # Nothing =>
           /\ mem[p].key \in DOMAIN file.entries
           /\ file.entries[mem[p].key] = mem[p].identity

(* Some process can sign with the key of certificate c.                    *)
Held(c) == \E p \in Process : mem[p].key = cert[c].key

(* But for such mishaps, what is done to the server never leaves a live    *)
(* certificate without a holder of its private key; only the end of the    *)
(* process that held it does, when the process is not configured with that *)
(* very key (rotate_keys takes the new key in the step that hears of it).  *)
(* SDK_SECURITY.md has CredentialStore persist the key, but what register  *)
(* and rotate_keys save is a RegisteredAgent, which has none.              *)
KeyHeld ==
  [][OwnKeys /\ ~mishap' =>
       \A c \in Live' :
         \/ Held(c)'
         \/ c \in Live /\ ~Held(c)
         \/ \E p \in Process : /\ Restart(p)
                              /\ mem[p].key = cert[c].key /\ Configured[p] # mem[p].key
    ]_vars
=============================================================================
