--------------------------- MODULE SdkClientProofs ---------------------------
(***************************************************************************)
(* The SDK's promises for any number of processes, keys, calls, retries    *)
(* and late requests: one decision at most for each call, a store that     *)
(* pairs keys with their own certificates and holds the live ones as long  *)
(* as nothing has gone wrong, and keys that are lost with their processes  *)
(* only.                                                                   *)
(***************************************************************************)
EXTENDS SdkClient, TLAPS

-----------------------------------------------------------------------------
(* What requests name, and what an Agent object holds at each step *)

(* A request names what its kind needs, and a call is its own nonce.       *)
Complete(r) ==
  /\ r.kind \in {"create", "rotate"} => r.key \in Key
  /\ r.kind # "create" => r.agent \in AgentId
  /\ r.kind = "intent" => r.call \in Call /\ r.nonce = r.call

(* An identity goes with a key; a request under way is of the object's own *)
(* key or agent; what is saved is the identity under its key.              *)
Coherent(m) ==
  /\ m.identity # Nothing => m.key \in Key
  /\ m.step = "waiting" =>
       /\ Complete(m.request)
       /\ m.request.kind \in {"create", "activate"} => m.key \in Key /\ m.request.key = m.key
       /\ m.request.kind = "activate" => m.made \in Cert
       /\ m.request.kind \in {"rotate", "retire"} =>
            m.identity # Nothing /\ m.request.agent = m.identity.agent
  /\ m.step \in {"saving", "read", "truncated"} =>
       m.identity # Nothing /\ (m.put # Nothing => m.put = m.key)
  /\ m.step \in {"idle", "waiting"} => m.put = Nothing /\ m.drop = Nothing

Coherence ==
  /\ \A p \in Process : Coherent(mem[p])
  /\ \A r \in late : Complete(r)

TypeInv == TypeOK /\ Coherence

LEMMA NothingIsNothing ==
  /\ NoRequest \in Request
  /\ Empty \in Entries /\ DOMAIN Empty = {}
  /\ NoCert.key = Nothing /\ NoCert.agent = Nothing /\ NoCert.status = "none"
  /\ NoCert \notin Certificates
<1>1. NoRequest \in Request
  BY DEF NoRequest, Request, Kind
<1>2. Empty \in [{} -> Identity] /\ DOMAIN Empty = {}
  BY DEF Empty
<1>3. Empty \in Entries
  BY <1>2 DEF Entries
<1>4. QED  BY <1>1, <1>2, <1>3 DEF NoCert, Certificates

(* An Agent object between calls.                                          *)
LEMMA ObjectType ==
  ASSUME NEW k \in Key \cup {Nothing}, NEW i \in Identity \cup {Nothing}, i # Nothing => k \in Key
  PROVE  Object(k, i) \in Objects /\ Coherent(Object(k, i))
<1>1. 0 \in 0..MaxRetries
  BY SdkAssumption
<1>2. Object(k, i) \in Objects
  BY <1>1, NothingIsNothing DEF Object, Objects, Step
<1>3. Coherent(Object(k, i))
  BY DEF Object, Coherent
<1>4. QED  BY <1>2, <1>3

LEMMA TypeInvStart == Init => TypeInv
<1> SUFFICES ASSUME Init PROVE TypeInv
  OBVIOUS
<1>1. \A p \in Process : mem[p] \in Objects /\ Coherent(mem[p])
  BY ObjectType, SdkAssumption DEF Init
<1>2. file \in Files
  BY NothingIsNothing DEF Init, Files
<1>3. mem \in [Process -> Objects]
  BY <1>1 DEF Init
<1>4. QED
  BY <1>1, <1>2, <1>3 DEF Init, TypeInv, TypeOK, Coherence

(* An Agent object that a request is under way for.                        *)
LEMMA SendsType ==
  ASSUME NEW m \in Objects, NEW r \in Request, Complete(r), Coherent(m),
         m.step \in {"idle", "waiting"},
         r.kind \in {"create", "activate"} => m.key \in Key /\ r.key = m.key,
         r.kind = "activate" => m.made \in Cert,
         r.kind \in {"rotate", "retire"} => m.identity # Nothing /\ r.agent = m.identity.agent
  PROVE  /\ Sends(m, r) \in Objects /\ Coherent(Sends(m, r))
         /\ Sends(m, r).step = "waiting" /\ Sends(m, r).request = r
         /\ Sends(m, r).key = m.key /\ Sends(m, r).identity = m.identity
         /\ Sends(m, r).made = m.made /\ Sends(m, r).put = m.put /\ Sends(m, r).drop = m.drop
         /\ Sends(m, r).data = m.data
<1>1. 0 \in 0..MaxRetries
  BY SdkAssumption
<1>2. /\ Sends(m, r) \in Objects
      /\ Sends(m, r).step = "waiting" /\ Sends(m, r).request = r
      /\ Sends(m, r).key = m.key /\ Sends(m, r).identity = m.identity
      /\ Sends(m, r).made = m.made /\ Sends(m, r).put = m.put /\ Sends(m, r).drop = m.drop
      /\ Sends(m, r).data = m.data
  BY <1>1 DEF Sends, Objects, Step
<1> HIDE DEF Sends
<1>3. Coherent(Sends(m, r))
  BY <1>2 DEF Coherent
<1>4. QED  BY <1>2, <1>3

(* One about to save an identity it has been given.                        *)
LEMMA SavesType ==
  ASSUME NEW m \in Objects
  PROVE  /\ Saves(m) \in Objects
         /\ Saves(m).step = "saving" /\ Saves(m).request = NoRequest
         /\ Saves(m).key = m.key /\ Saves(m).identity = m.identity
         /\ Saves(m).put = m.put /\ Saves(m).drop = m.drop
         /\ Saves(m).data = m.data
<1>1. 0 \in 0..MaxRetries
  BY SdkAssumption
<1>2. QED  BY <1>1, NothingIsNothing DEF Saves, Objects, Step

(* One about to save an identity under a key, and to delete another.       *)
Saving(m, i, k, d) == [Saves(m) EXCEPT !.put = k, !.drop = d, !.key = k, !.identity = i]

LEMMA SavingType ==
  ASSUME NEW m \in Objects, NEW i \in Identity, NEW k \in Key, NEW d \in Key \cup {Nothing}
  PROVE  /\ Saving(m, i, k, d) \in Objects /\ Coherent(Saving(m, i, k, d))
         /\ Saving(m, i, k, d).step = "saving" /\ Saving(m, i, k, d).request = NoRequest
         /\ Saving(m, i, k, d).key = k /\ Saving(m, i, k, d).identity = i
         /\ Saving(m, i, k, d).put = k /\ Saving(m, i, k, d).drop = d
         /\ Saving(m, i, k, d).data = m.data
<1> DEFINE s == Saves(m)
           h == Saving(m, i, k, d)
<1>1. s \in Objects /\ s.step = "saving" /\ s.request = NoRequest /\ s.data = m.data
  BY SavesType
<1>2. h = [s EXCEPT !.put = k, !.drop = d, !.key = k, !.identity = i]
  BY DEF Saving
<1> HIDE DEF s, h
<1>3. /\ h \in Objects /\ h.step = "saving" /\ h.key = k /\ h.request = NoRequest
      /\ h.identity = i /\ h.put = k /\ h.drop = d /\ h.data = m.data
  BY <1>1, <1>2 DEF Objects
<1>4. Coherent(h)
  BY <1>3, SdkAssumption DEF Coherent, Identity
<1>5. QED  BY <1>3, <1>4 DEF h

(* The answers a request may get.                                          *)
LEMMA AnswerIs ==
  ASSUME NEW r \in Request, NEW x \in Answers(r)
  PROVE  \/ x = Refused /\ x.ok = FALSE /\ ~Grants(r)
         \/ /\ x.ok = TRUE /\ Grants(r)
            /\ r.kind = "create" => x.agent \in NextAgent
            /\ r.kind # "create" => x.agent = r.agent
            /\ r.kind \in {"create", "rotate"} => x.cert \in NextCert
            /\ r.kind \notin {"create", "rotate"} => x.cert = Nothing
<1>1. CASE ~Grants(r)
  BY <1>1 DEF Answers, Refused
<1>2. CASE Grants(r) /\ r.kind = "create"
  BY <1>2 DEF Answers, Success
<1>3. CASE Grants(r) /\ r.kind = "rotate"
  BY <1>3 DEF Answers, Success
<1>4. CASE Grants(r) /\ r.kind \notin {"create", "rotate"}
  BY <1>4 DEF Answers, Success
<1>5. QED  BY <1>1, <1>2, <1>3, <1>4

(* What becomes of each certificate when a request is granted.             *)
LEMMA CertsAfterIs ==
  ASSUME TypeOK, NEW r \in Request, Complete(r), NEW x \in Answers(r), x.ok,
         r.kind # "intent", cert' = CertsAfter(r, x)
  PROVE  /\ x.agent \in AgentId
         /\ cert' \in [Cert -> Certificates \cup {NoCert}]
         /\ \A c \in Cert :
              /\ c = x.cert =>
                   /\ cert[c] = NoCert /\ r.kind \in {"create", "rotate"}
                   /\ cert'[c] = [agent |-> x.agent, key |-> r.key,
                                  status |-> IF r.kind = "create" THEN "issued" ELSE "active"]
              /\ c # x.cert /\ cert[c].agent = x.agent =>
                   /\ cert[c] \in Certificates
                   /\ cert'[c].agent = cert[c].agent /\ cert'[c].key = cert[c].key
                   /\ cert'[c].status = CertAfter(r.kind, cert[c].status)
              /\ c # x.cert /\ cert[c].agent # x.agent => cert'[c] = cert[c]
<1>1. x.agent \in AgentId
  BY AnswerIs DEF Complete, NextAgent, Refused
<1>2. x.cert \in Cert => x.cert \in NextCert /\ r.kind \in {"create", "rotate"} /\ r.key \in Key
  BY AnswerIs, SdkAssumption DEF Complete, Refused
<1>3. ASSUME NEW c \in Cert, cert[c].agent = x.agent PROVE cert[c] \in Certificates
  BY <1>1, <1>3, NothingIsNothing, SdkAssumption DEF TypeOK
<1>4. ASSUME NEW c \in Cert, cert[c] \in Certificates, r.kind \in {"create", "activate", "rotate", "retire"}
      PROVE  LET d == [cert[c] EXCEPT !.status = CertAfter(r.kind, @)]
             IN  /\ d \in Certificates /\ d.agent = cert[c].agent /\ d.key = cert[c].key
                 /\ d.status = CertAfter(r.kind, cert[c].status)
  <2>1. CertAfter(r.kind, cert[c].status) \in {"issued", "active", "rotated", "expired"}
    BY <1>4 DEF CertAfter, Certificates
  <2>2. QED  BY <1>4, <2>1 DEF Certificates
<1>5. r.kind \in {"create", "activate", "rotate", "retire"}
  BY DEF Request, Kind
<1>6. ASSUME NEW c \in Cert
      PROVE  /\ c = x.cert =>
                   /\ cert[c] = NoCert /\ r.kind \in {"create", "rotate"}
                   /\ cert'[c] = [agent |-> x.agent, key |-> r.key,
                                  status |-> IF r.kind = "create" THEN "issued" ELSE "active"]
                   /\ cert'[c] \in Certificates
             /\ c # x.cert /\ cert[c].agent = x.agent =>
                   /\ cert[c] \in Certificates /\ cert'[c] \in Certificates
                   /\ cert'[c].agent = cert[c].agent /\ cert'[c].key = cert[c].key
                   /\ cert'[c].status = CertAfter(r.kind, cert[c].status)
             /\ c # x.cert /\ cert[c].agent # x.agent => cert'[c] = cert[c]
  <2>1. CASE c = x.cert
    BY <1>1, <1>2, <2>1 DEF CertsAfter, NextCert, Certificates
  <2>2. CASE c # x.cert /\ cert[c].agent = x.agent
    BY <1>3, <1>4, <1>5, <2>2 DEF CertsAfter
  <2>3. CASE c # x.cert /\ cert[c].agent # x.agent
    BY <2>3 DEF CertsAfter
  <2>4. QED  BY <2>1, <2>2, <2>3
<1>7. cert' \in [Cert -> Certificates \cup {NoCert}]
  BY <1>6 DEF CertsAfter, TypeOK
<1>8. QED  BY <1>1, <1>6, <1>7

(* What the server keeps is of its types again.                            *)
LEMMA ServeType ==
  ASSUME TypeOK, NEW r \in Request, Complete(r), NEW x, Serve(r, x)
  PROVE  /\ agent' \in [AgentId -> {"none", "registered", "active", "retired"}]
         /\ cert' \in [Cert -> Certificates \cup {NoCert}]
         /\ intents' \subseteq Call
         /\ decisions' \in [Call -> Nat]
<1>1. x \in Answers(r)
  BY DEF Serve
<1>2. CASE x = Refused /\ UNCHANGED server
  BY <1>2 DEF server, TypeOK
<1>3. CASE x.ok /\ r.kind \in {"create", "activate", "retire"}
           /\ agent' = [agent EXCEPT ![x.agent] = AgentAfter(r.kind)]
           /\ cert' = CertsAfter(r, x) /\ UNCHANGED <<intents, decisions>>
  <2>1. AgentAfter(r.kind) \in {"registered", "active", "retired"}
    BY <1>3 DEF AgentAfter
  <2>2. QED  BY <1>1, <1>3, <2>1, CertsAfterIs DEF TypeOK
<1>4. CASE x.ok /\ r.kind = "rotate"
           /\ cert' = CertsAfter(r, x) /\ UNCHANGED <<agent, intents, decisions>>
  BY <1>1, <1>4, CertsAfterIs DEF TypeOK
<1>5. CASE x.ok /\ r.kind = "intent"
           /\ intents' = intents \cup {r.nonce}
           /\ decisions' = [decisions EXCEPT ![r.call] = @ + 1]
           /\ UNCHANGED <<agent, cert>>
  BY <1>5 DEF TypeOK, Complete
<1>6. QED
  BY <1>2, <1>3, <1>4, <1>5 DEF Serve

(* What a call goes on with when it is told of success.                    *)
LEMMA HeardIs ==
  ASSUME NEW m \in Objects, Coherent(m), m.step = "waiting",
         NEW x \in Answers(m.request), x.ok
  PROVE  LET r == m.request
             h == Heard(m, x)
         IN  /\ h \in Objects /\ Coherent(h)
             /\ r.kind = "create" =>
                  /\ h.step = "waiting" /\ h.key = m.key /\ h.identity = m.identity
                  /\ h.made = x.cert /\ h.put = Nothing /\ h.drop = Nothing /\ h.data = m.data
                  /\ h.request.kind = "activate" /\ h.request.agent = x.agent
                  /\ h.request.key = m.key
             /\ r.kind = "activate" =>
                  /\ h.step = "saving" /\ h.key = m.key /\ h.request = NoRequest
                  /\ h.identity.agent = r.agent /\ h.identity.cert = m.made
                  /\ h.identity.status = "active"
                  /\ h.put = m.key /\ h.drop = Nothing /\ h.data = m.data
             /\ r.kind = "rotate" =>
                  /\ h.step = "saving" /\ h.key = r.key /\ h.request = NoRequest
                  /\ h.identity.agent = m.identity.agent /\ h.identity.cert = x.cert
                  /\ h.identity.status = m.identity.status
                  /\ h.put = r.key /\ h.drop = m.key /\ h.data = m.data
             /\ r.kind = "retire" =>
                  /\ h.step = "saving" /\ h.key = m.key /\ h.request = NoRequest
                  /\ h.identity.agent = m.identity.agent /\ h.identity.cert = m.identity.cert
                  /\ h.identity.status = "retired"
                  /\ h.put = m.key /\ h.drop = Nothing /\ h.data = m.data
             /\ r.kind = "intent" => h = Object(m.key, m.identity)
<1> DEFINE r == m.request
           h == Heard(m, x)
<1>1. r \in Request /\ Complete(r) /\ r.kind \in Kind
  BY DEF Objects, Request, Coherent
<1>2. CASE r.kind = "create"
  <2> DEFINE n == [m EXCEPT !.made = x.cert]
             a == [r EXCEPT !.kind = "activate", !.agent = x.agent]
  <2>1. x.cert \in Cert /\ x.agent \in AgentId
    BY <1>1, <1>2, AnswerIs DEF NextCert, NextAgent, Refused
  <2>2. /\ n \in Objects /\ n.key = m.key /\ n.identity = m.identity /\ n.step = "waiting"
        /\ n.made = x.cert /\ n.put = m.put /\ n.drop = m.drop /\ n.data = m.data
        /\ n.request = r
    BY <2>1 DEF Objects
  <2>3. /\ a \in Request /\ a.kind = "activate" /\ a.agent = x.agent /\ a.key = r.key
    BY <1>1, <2>1 DEF Request, Kind
  <2>4. h = Sends(n, a)
    BY <1>2 DEF Heard
  <2>5. Complete(a)
    BY <2>1, <2>3 DEF Complete
  <2> HIDE DEF n, a, h
  <2>6. /\ m.key \in Key /\ r.key = m.key /\ m.put = Nothing /\ m.drop = Nothing
        /\ m.identity # Nothing => m.key \in Key
    BY <1>2 DEF Coherent
  <2>7. Coherent(n)
    BY <1>1, <1>2, <2>2, <2>6 DEF Coherent
  <2>8. /\ Sends(n, a) \in Objects /\ Coherent(Sends(n, a))
        /\ Sends(n, a).step = "waiting" /\ Sends(n, a).request = a
        /\ Sends(n, a).key = n.key /\ Sends(n, a).identity = n.identity
        /\ Sends(n, a).made = n.made /\ Sends(n, a).put = n.put /\ Sends(n, a).drop = n.drop
        /\ Sends(n, a).data = n.data
    BY <2>1, <2>2, <2>3, <2>5, <2>6, <2>7, SendsType
  <2>9. QED  BY <1>2, <2>2, <2>3, <2>4, <2>6, <2>8 DEF h
<1>3. CASE r.kind = "activate"
  <2> DEFINE i == [agent |-> r.agent, cert |-> m.made, status |-> "active"]
  <2>1. /\ m.key \in Key /\ r.agent \in AgentId /\ m.made \in Cert
        /\ m.put = Nothing /\ m.drop = Nothing
    BY <1>1, <1>3 DEF Coherent, Complete
  <2>2. i \in Identity
    BY <2>1 DEF Identity
  <2>3. Saves(m) \in Objects /\ Saves(m).key = m.key /\ Saves(m).drop = Nothing
    BY <2>1, SavesType
  <2>4. h = [Saves(m) EXCEPT !.put = m.key, !.identity = i]
    BY <1>3 DEF Heard
  <2>5. h = Saving(m, i, m.key, Nothing)
    BY <2>3, <2>4 DEF Saving, Objects
  <2> HIDE DEF i, h
  <2>6. /\ h \in Objects /\ Coherent(h)
        /\ h.step = "saving" /\ h.key = m.key /\ h.request = NoRequest
        /\ h.identity = i /\ h.put = m.key /\ h.drop = Nothing /\ h.data = m.data
    BY <2>1, <2>2, <2>5, SavingType
  <2>7. QED  BY <1>3, <2>6 DEF i, h
<1>4. CASE r.kind = "rotate"
  <2>1. /\ x.cert \in Cert /\ r.key \in Key /\ m.identity \in Identity
        /\ m.put = Nothing /\ m.drop = Nothing /\ m.key \in Key
    BY <1>1, <1>4, AnswerIs DEF NextCert, Refused, Coherent, Complete, Objects
  <2> DEFINE i == [m.identity EXCEPT !.cert = x.cert]
  <2>2. /\ i \in Identity /\ i.agent = m.identity.agent /\ i.cert = x.cert
        /\ i.status = m.identity.status
    BY <2>1 DEF Identity
  <2>3. Saves(m) \in Objects /\ Saves(m).identity = m.identity
    BY SavesType
  <2>4. h = [Saves(m) EXCEPT !.put = r.key, !.drop = m.key, !.key = r.key,
                             !.identity.cert = x.cert]
    BY <1>4 DEF Heard, Rotated
  <2>5. h = Saving(m, i, r.key, m.key)
    BY <2>3, <2>4 DEF Saving, Objects
  <2> HIDE DEF i, h
  <2>6. /\ h \in Objects /\ Coherent(h)
        /\ h.step = "saving" /\ h.key = r.key /\ h.request = NoRequest
        /\ h.identity = i /\ h.put = r.key /\ h.drop = m.key /\ h.data = m.data
    BY <2>1, <2>2, <2>5, SavingType
  <2>7. QED  BY <1>4, <2>2, <2>6 DEF h
<1>5. CASE r.kind = "retire"
  <2>1. /\ m.identity \in Identity /\ m.key \in Key /\ m.put = Nothing /\ m.drop = Nothing
    BY <1>1, <1>5 DEF Coherent, Objects
  <2> DEFINE i == [m.identity EXCEPT !.status = "retired"]
  <2>2. /\ i \in Identity /\ i.agent = m.identity.agent /\ i.cert = m.identity.cert
        /\ i.status = "retired"
    BY <2>1 DEF Identity
  <2>3. /\ Saves(m) \in Objects /\ Saves(m).key = m.key /\ Saves(m).drop = Nothing
        /\ Saves(m).identity = m.identity
    BY <2>1, SavesType
  <2>4. h = [Saves(m) EXCEPT !.put = m.key, !.identity.status = "retired"]
    BY <1>5 DEF Heard
  <2>5. h = Saving(m, i, m.key, Nothing)
    BY <2>3, <2>4 DEF Saving, Objects
  <2> HIDE DEF i, h
  <2>6. /\ h \in Objects /\ Coherent(h)
        /\ h.step = "saving" /\ h.key = m.key /\ h.request = NoRequest
        /\ h.identity = i /\ h.put = m.key /\ h.drop = Nothing /\ h.data = m.data
    BY <2>1, <2>2, <2>5, SavingType
  <2>7. QED  BY <1>5, <2>2, <2>6 DEF h
<1>6. CASE r.kind = "intent"
  <2>1. h = Object(m.key, m.identity)
    BY <1>6 DEF Heard, Ended
  <2>2. h \in Objects /\ Coherent(h)
    BY <2>1, ObjectType DEF Objects, Coherent
  <2>3. QED  BY <1>6, <2>1, <2>2
<1>7. QED  BY <1>1, <1>2, <1>3, <1>4, <1>5, <1>6 DEF Kind

(* Entries with one more, or with one less.                                *)
LEMMA EntriesType ==
  ASSUME NEW f \in Entries, NEW k, NEW i \in Identity
  PROVE  /\ DOMAIN f \subseteq Key /\ \A x \in DOMAIN f : f[x] \in Identity
         /\ k \in Key => With(f, k, i) \in Entries
         /\ Without(f, k) \in Entries
<1>1. PICK K \in SUBSET Key : f \in [K -> Identity]
  BY DEF Entries
<1>2. k \in Key => With(f, k, i) \in [K \cup {k} -> Identity]
  BY <1>1 DEF With
<1>3. Without(f, k) \in [K \ {k} -> Identity]
  BY <1>1 DEF Without
<1>4. \A J \in SUBSET Key : \A g \in [J -> Identity] : g \in Entries
  BY DEF Entries
<1>5. /\ k \in Key => With(f, k, i) \in Entries
      /\ Without(f, k) \in Entries
  BY <1>2, <1>3, <1>4
<1>6. QED  BY <1>1, <1>5

(* A request that is sent again.                                           *)
Again(m) == [m EXCEPT !.attempt = @ + 1, !.request.nonce = NonceOf(m.request.call, m.attempt + 1)]

LEMMA AgainType ==
  ASSUME NEW m \in Objects, Coherent(m), m.step = "waiting", m.attempt < MaxRetries
  PROVE  /\ Again(m) \in Objects /\ Coherent(Again(m))
         /\ Again(m).step = "waiting" /\ Again(m).key = m.key /\ Again(m).identity = m.identity
         /\ Again(m).made = m.made /\ Again(m).put = m.put /\ Again(m).drop = m.drop
         /\ Again(m).data = m.data
         /\ Again(m).request.kind = m.request.kind /\ Again(m).request.agent = m.request.agent
         /\ Again(m).request.key = m.request.key /\ Again(m).request.call = m.request.call
<1> DEFINE r == [m.request EXCEPT !.nonce = m.request.call]
           h == Again(m)
<1>1. /\ r \in Request /\ r.kind = m.request.kind /\ r.agent = m.request.agent
      /\ r.key = m.request.key /\ r.call = m.request.call /\ r.nonce = m.request.call
  BY DEF Objects, Request
<1>2. h = [m EXCEPT !.attempt = @ + 1, !.request = r]
  BY DEF Again, NonceOf, Objects
<1>3. m.attempt + 1 \in 0..MaxRetries
  BY SdkAssumption DEF Objects
<1> HIDE DEF r, h
<1>4. /\ h \in Objects
      /\ h.step = "waiting" /\ h.key = m.key /\ h.identity = m.identity
      /\ h.made = m.made /\ h.put = m.put /\ h.drop = m.drop /\ h.data = m.data /\ h.request = r
  BY <1>1, <1>2, <1>3 DEF Objects
<1>5. Coherent(h)
  BY <1>1, <1>4 DEF Coherent, Complete
<1>6. QED  BY <1>1, <1>4, <1>5 DEF h

(* One process's object changes.                                           *)
LEMMA BecomesType ==
  ASSUME TypeInv, NEW p \in Process, NEW m \in Objects, Coherent(m), Becomes(p, m)
  PROVE  /\ mem' \in [Process -> Objects] /\ \A q \in Process : Coherent(mem'[q])
         /\ mem'[p] = m /\ \A q \in Process \ {p} : mem'[q] = mem[q]
BY DEF TypeInv, TypeOK, Coherence, Becomes

LEMMA TellsType ==
  ASSUME TypeOK, NEW r, NEW o \in {"decision", "error"}, Tells(r, o)
  PROVE  told' \in [Call -> {"nothing", "waiting", "decision", "error"}]
BY DEF TypeOK, Tells

LEMMA FilesType ==
  ASSUME TypeOK
  PROVE  /\ file.entries \in Entries
         /\ \A k \in DOMAIN file.entries : k \in Key /\ file.entries[k] \in Identity
<1>1. file.entries \in Entries
  BY NothingIsNothing DEF TypeOK, Files, Unreadable
<1>2. QED  BY <1>1 DEF Entries

LEMMA TypeInvStep ==
  ASSUME TypeInv, [Next]_vars
  PROVE  TypeInv'
<1> USE DEF server
<1>0. /\ TypeOK
      /\ \A p \in Process : mem[p] \in Objects /\ Coherent(mem[p])
      /\ \A r \in late : r \in Request /\ Complete(r)
  BY DEF TypeInv, TypeOK, Coherence
<1>1. ASSUME NEW p \in Process, NEW m \in Objects, Coherent(m), Becomes(p, m),
             UNCHANGED <<server, late, file>>, mishap' \in BOOLEAN,
             told' \in [Call -> {"nothing", "waiting", "decision", "error"}]
      PROVE  TypeInv'
  BY <1>1, BecomesType DEF TypeInv, TypeOK, Coherence
<1>2. ASSUME NEW p \in Process, Register(p) PROVE TypeInv'
  <2>1. PICK k \in (IF mem[p].key = Nothing THEN Unused ELSE {mem[p].key}) :
          \/ /\ k \in DOMAIN file.entries
             /\ Becomes(p, Object(k, file.entries[k]))
          \/ /\ k \notin DOMAIN file.entries
             /\ Becomes(p, Sends([mem[p] EXCEPT !.key = k], [NoRequest EXCEPT !.key = k]))
    BY <1>2 DEF Register
  <2>2. k \in Key
    BY <1>0 DEF Unused, Objects
  <2>3. UNCHANGED <<server, late, file, told>> /\ mishap' \in BOOLEAN
    BY <1>0, <1>2 DEF Register, TypeOK
  <2>4. CASE k \in DOMAIN file.entries /\ Becomes(p, Object(k, file.entries[k]))
    <3>1. Object(k, file.entries[k]) \in Objects /\ Coherent(Object(k, file.entries[k]))
      BY <1>0, <2>2, <2>4, FilesType, ObjectType
    <3>2. QED  BY <1>0, <1>1, <2>3, <2>4, <3>1 DEF TypeOK
  <2>5. CASE Becomes(p, Sends([mem[p] EXCEPT !.key = k], [NoRequest EXCEPT !.key = k]))
    <3> DEFINE m == [mem[p] EXCEPT !.key = k]
               r == [NoRequest EXCEPT !.key = k]
    <3>1. r \in Request /\ r.kind = "create" /\ r.key = k
      BY <2>2 DEF NoRequest, Request, Kind
    <3>2. /\ m \in Objects /\ m.key = k /\ m.step = "idle" /\ m.put = mem[p].put
          /\ m.drop = mem[p].drop /\ m.identity = mem[p].identity
      BY <1>0, <1>2, <2>2 DEF Register, At, Objects
    <3>3. mem[p].step = "idle" /\ Coherent(mem[p])
      BY <1>0, <1>2 DEF Register, At
    <3> HIDE DEF m, r
    <3>4. Coherent(m) /\ Complete(r)
      BY <2>2, <3>1, <3>2, <3>3 DEF Coherent, Complete
    <3>5. Sends(m, r) \in Objects /\ Coherent(Sends(m, r))
      BY <2>2, <3>1, <3>2, <3>4, SendsType
    <3>6. Becomes(p, Sends(m, r))
      BY <2>5 DEF m, r
    <3>7. QED  BY <1>0, <1>1, <2>3, <3>5, <3>6 DEF TypeOK
  <2>6. QED  BY <2>1, <2>4, <2>5
<1>3. ASSUME NEW p \in Process, NEW r \in Request, mem[p].step = "idle",
             Complete(r), r.kind \in {"rotate", "retire", "intent"},
             mem[p].identity # Nothing, r.kind # "intent" => r.agent = mem[p].identity.agent,
             Becomes(p, Sends(mem[p], r)),
             told' \in [Call -> {"nothing", "waiting", "decision", "error"}],
             UNCHANGED <<server, late, file, mishap>>
      PROVE  TypeInv'
  <2>1. Sends(mem[p], r) \in Objects /\ Coherent(Sends(mem[p], r))
    BY <1>0, <1>3, SendsType
  <2>2. QED  BY <1>0, <1>1, <1>3, <2>1 DEF TypeOK
<1>4. ASSUME NEW p \in Process, mem[p].identity # Nothing
      PROVE  mem[p].identity \in Identity /\ mem[p].identity.agent \in AgentId
             /\ mem[p].identity.cert \in Cert /\ mem[p].key \in Key
  BY <1>0, <1>4 DEF Objects, Identity, Coherent
<1>5. ASSUME NEW p \in Process, RotateKeys(p) PROVE TypeInv'
  <2>1. PICK k \in Unused :
          Becomes(p, Sends(mem[p], [NoRequest EXCEPT !.kind = "rotate", !.key = k,
                                                     !.agent = mem[p].identity.agent]))
    BY <1>5 DEF RotateKeys
  <2> DEFINE r == [NoRequest EXCEPT !.kind = "rotate", !.key = k, !.agent = mem[p].identity.agent]
  <2>2. mem[p].identity # Nothing /\ mem[p].step = "idle"
        /\ UNCHANGED <<server, late, file, told, mishap>>
    BY <1>5 DEF RotateKeys, At, InMemory
  <2>3. k \in Key
    BY DEF Unused
  <2>4. r \in Request /\ r.kind = "rotate" /\ r.key = k /\ r.agent = mem[p].identity.agent
    BY <1>4, <2>2, <2>3 DEF NoRequest, Request, Kind
  <2> HIDE DEF r
  <2>5. Complete(r)
    BY <1>4, <2>2, <2>3, <2>4 DEF Complete
  <2>6. Becomes(p, Sends(mem[p], r))
    BY <2>1 DEF r
  <2>7. QED  BY <1>0, <1>3, <2>2, <2>4, <2>5, <2>6 DEF TypeOK
<1>6. ASSUME NEW p \in Process, Retire(p) PROVE TypeInv'
  <2> DEFINE r == [NoRequest EXCEPT !.kind = "retire", !.agent = mem[p].identity.agent]
  <2>1. mem[p].identity # Nothing /\ mem[p].step = "idle"
        /\ UNCHANGED <<server, late, file, told, mishap>>
        /\ Becomes(p, Sends(mem[p], r))
    BY <1>6 DEF Retire, At, InMemory
  <2>2. r \in Request /\ r.kind = "retire" /\ r.agent = mem[p].identity.agent
    BY <1>4, <2>1 DEF NoRequest, Request, Kind
  <2> HIDE DEF r
  <2>3. Complete(r)
    BY <1>4, <2>1, <2>2 DEF Complete
  <2>4. QED  BY <1>0, <1>3, <2>1, <2>2, <2>3 DEF TypeOK
<1>7. ASSUME NEW p \in Process, NEW call \in Call, Authorize(p, call) PROVE TypeInv'
  <2> DEFINE r == [kind |-> "intent", agent |-> mem[p].identity.agent,
                   cert |-> mem[p].identity.cert, key |-> mem[p].key,
                   call |-> call, nonce |-> NonceOf(call, 0)]
  <2>1. mem[p].identity # Nothing /\ mem[p].step = "idle"
        /\ UNCHANGED <<server, late, file, mishap>>
        /\ Becomes(p, Sends(mem[p], r)) /\ told' = [told EXCEPT ![call] = "waiting"]
    BY <1>7 DEF Authorize, At
  <2>2. r \in Request /\ r.kind = "intent" /\ Complete(r)
    BY <1>4, <2>1 DEF Request, Kind, NonceOf, Complete
  <2>3. told' \in [Call -> {"nothing", "waiting", "decision", "error"}]
    BY <1>0, <2>1 DEF TypeOK
  <2> HIDE DEF r
  <2>4. QED  BY <1>0, <1>3, <2>1, <2>2, <2>3
<1>8. ASSUME NEW p \in Process PROVE Ended(mem[p]) \in Objects /\ Coherent(Ended(mem[p]))
  BY <1>0, ObjectType DEF Ended, Objects, Coherent
<1>9. ASSUME NEW p \in Process, Answered(p) PROVE TypeInv'
  <2>1. mem[p].step = "waiting" /\ mem[p].request \in Request /\ Complete(mem[p].request)
    BY <1>0, <1>9 DEF Answered, At, Objects, Coherent
  <2>2. PICK x \in Answers(mem[p].request) :
          /\ Serve(mem[p].request, x)
          /\ Becomes(p, IF x.ok THEN Heard(mem[p], x) ELSE Ended(mem[p]))
          /\ Tells(mem[p].request, IF x.ok THEN "decision" ELSE "error")
    BY <1>9 DEF Answered
  <2>3. PICK m \in Objects : Coherent(m) /\ Becomes(p, m)
    BY <1>0, <1>8, <2>1, <2>2, HeardIs
  <2>4. told' \in [Call -> {"nothing", "waiting", "decision", "error"}]
    BY <1>0, <2>2, TellsType
  <2>5. QED
    BY <1>0, <1>9, <2>1, <2>2, <2>3, <2>4, ServeType, BecomesType
       DEF Answered, TypeInv, TypeOK, Coherence
<1>10. ASSUME NEW p \in Process, Unanswered(p) PROVE TypeInv'
  <2>1. /\ mem[p].step = "waiting" /\ mem[p].request \in Request /\ Complete(mem[p].request)
        /\ mem[p].attempt \in 0..MaxRetries
    BY <1>0, <1>10 DEF Unanswered, At, Objects, Coherent
  <2>2. PICK m \in Objects : Coherent(m) /\ Becomes(p, m)
    <3>1. CASE mem[p].attempt < MaxRetries /\ Becomes(p, Again(mem[p]))
      BY <1>0, <2>1, <3>1, AgainType
    <3>2. CASE Becomes(p, Ended(mem[p]))
      BY <1>8, <3>2
    <3>3. QED  BY <1>10, <3>1, <3>2 DEF Unanswered, Again
  <2>3. late' \subseteq Request /\ \A r \in late' : Complete(r)
    BY <1>0, <1>10, <2>1 DEF Unanswered, TypeOK
  <2>4. told' \in [Call -> {"nothing", "waiting", "decision", "error"}] /\ mishap' \in BOOLEAN
    BY <1>0, <1>10, TellsType DEF Unanswered, TypeOK
  <2>5. UNCHANGED <<server, file>>
    BY <1>10 DEF Unanswered
  <2>6. QED
    BY <1>0, <2>2, <2>3, <2>4, <2>5, BecomesType DEF TypeInv, TypeOK, Coherence
<1>11. ASSUME NEW r \in late, ServeLate(r) PROVE TypeInv'
  <2>1. /\ \E x \in Answers(r) : Serve(r, x)
        /\ mishap' \in BOOLEAN /\ late' \subseteq late /\ UNCHANGED <<file, mem, told>>
    BY <1>0, <1>11 DEF ServeLate, TypeOK
  <2>2. QED
    BY <1>0, <1>11, <2>1, ServeType DEF TypeInv, TypeOK, Coherence
<1>12. ASSUME NEW p \in Process, ReadFile(p) PROVE TypeInv'
  <2>1. /\ mem[p].step = "saving" /\ mem[p].identity \in Identity
        /\ mem[p].put # Nothing => mem[p].put \in Key
        /\ UNCHANGED <<server, late, file, told>> /\ mishap' \in BOOLEAN
    BY <1>0, <1>4, <1>12 DEF ReadFile, At, Coherent, Objects, TypeOK
  <2>2. ASSUME NEW e \in Entries, Becomes(p, [mem[p] EXCEPT !.step = "read", !.data = e])
        PROVE  TypeInv'
    <3> DEFINE m == [mem[p] EXCEPT !.step = "read", !.data = e]
    <3>1. /\ m \in Objects /\ m.step = "read" /\ m.identity = mem[p].identity
          /\ m.put = mem[p].put /\ m.key = mem[p].key
      BY <1>0 DEF Objects, Step
    <3> HIDE DEF m
    <3>2. Coherent(m)
      BY <1>0, <1>4, <2>1, <3>1 DEF Coherent
    <3>3. Becomes(p, m)
      BY <2>2 DEF m
    <3>4. QED  BY <1>0, <1>1, <2>1, <3>1, <3>2, <3>3 DEF TypeOK
  <2>3. CASE mem[p].put # Nothing
    <3>1. With(file.entries, mem[p].put, mem[p].identity) \in Entries
      BY <1>0, <2>1, <2>3, FilesType, EntriesType
    <3>2. QED  BY <1>12, <2>2, <2>3, <3>1 DEF ReadFile
  <2>4. CASE mem[p].put = Nothing /\ mem[p].drop \in DOMAIN file.entries
    <3>1. Without(file.entries, mem[p].drop) \in Entries
      BY <1>0, <2>1, FilesType, EntriesType
    <3>2. QED  BY <1>12, <2>2, <2>4, <3>1 DEF ReadFile
  <2>5. CASE mem[p].put = Nothing /\ mem[p].drop \notin DOMAIN file.entries
    <3>1. Becomes(p, Ended(mem[p]))
      BY <1>12, <2>5 DEF ReadFile
    <3>2. QED  BY <1>0, <1>1, <1>8, <2>1, <3>1 DEF TypeOK
  <2>6. QED  BY <2>3, <2>4, <2>5
<1>13. ASSUME NEW p \in Process, Truncate(p) PROVE TypeInv'
  <2> DEFINE m == [mem[p] EXCEPT !.step = "truncated"]
  <2>1. /\ m \in Objects /\ m.step = "truncated" /\ m.identity = mem[p].identity
        /\ m.put = mem[p].put /\ m.key = mem[p].key
    BY <1>0 DEF Objects, Step
  <2>2. Becomes(p, m) /\ mem[p].step = "read"
    BY <1>13 DEF Truncate, At
  <2> HIDE DEF m
  <2>3. Coherent(m)
    BY <1>0, <2>1, <2>2 DEF Coherent
  <2>4. file' \in Files
    BY <1>13 DEF Truncate, Files
  <2>5. QED
    BY <1>0, <1>13, <2>1, <2>2, <2>3, <2>4, BecomesType
       DEF Truncate, TypeInv, TypeOK, Coherence
<1>14. ASSUME NEW p \in Process, Fill(p) PROVE TypeInv'
  <2>1. mem[p].step = "truncated" /\ mem[p].data \in Entries
    BY <1>0, <1>14 DEF Fill, At, Objects
  <2>2. file' \in Files
    BY <1>14, <2>1 DEF Fill, Files
  <2>3. PICK m \in Objects : Coherent(m) /\ Becomes(p, m)
    <3> DEFINE m == [mem[p] EXCEPT !.step = "saving", !.put = Nothing, !.data = Empty]
    <3>1. /\ m \in Objects /\ m.step = "saving" /\ m.identity = mem[p].identity
          /\ m.put = Nothing /\ m.key = mem[p].key
      BY <1>0, NothingIsNothing DEF Objects, Step
    <3>2. Becomes(p, m) \/ Becomes(p, Ended(mem[p]))
      BY <1>14 DEF Fill
    <3> HIDE DEF m
    <3>3. Coherent(m)
      BY <1>0, <2>1, <3>1 DEF Coherent
    <3>4. QED  BY <1>8, <3>1, <3>2, <3>3
  <2>4. QED
    BY <1>0, <1>14, <2>2, <2>3, BecomesType DEF Fill, TypeInv, TypeOK, Coherence
<1>15. ASSUME NEW p \in Process, Restart(p) PROVE TypeInv'
  <2> DEFINE k == Configured[p]
  <2>1. Becomes(p, Object(k, IF k \in DOMAIN file.entries THEN file.entries[k] ELSE Nothing))
    BY <1>15 DEF Restart
  <2> DEFINE m == Object(k, IF k \in DOMAIN file.entries THEN file.entries[k] ELSE Nothing)
  <2>2. k \in Key \cup {Nothing}
    BY <1>0, SdkAssumption DEF Objects
  <2>3. m \in Objects /\ Coherent(m)
    BY <1>0, <2>2, FilesType, ObjectType
  <2> HIDE DEF m
  <2>4. Becomes(p, m)
    BY <2>1 DEF m
  <2>5. /\ told' \in [Call -> {"nothing", "waiting", "decision", "error"}] /\ mishap' \in BOOLEAN
        /\ UNCHANGED <<server, late, file>>
    BY <1>0, <1>15, TellsType DEF Restart, TypeOK
  <2>6. QED  BY <1>1, <2>3, <2>4, <2>5
<1>16. CASE UNCHANGED vars
  BY <1>16 DEF vars, TypeInv, TypeOK, Coherence
<1>17. QED
  BY <1>2, <1>5, <1>6, <1>7, <1>9, <1>10, <1>11, <1>12, <1>13, <1>14, <1>15, <1>16 DEF Next

(* Whatever the network and the other processes do, the store, the Agent   *)
(* objects and the server are of the declared types (type correctness of   *)
(* agent.py, client.py and configuration.py of the SDK).                   *)
THEOREM SdkTypeCorrect == Spec => []TypeOK
<1>1. TypeInv /\ [Next]_vars => TypeInv'
  BY TypeInvStep
<1>2. TypeInv => TypeOK
  BY DEF TypeInv
<1>3. QED
  BY TypeInvStart, <1>1, <1>2, PTL DEF Spec

-----------------------------------------------------------------------------
(* What decisions rest on *)

(* A decision is made for each nonce that is recorded, and none is told    *)
(* that was not made.                                                      *)
DecisionInv ==
  \A call \in Call : /\ decisions[call] = IF call \in intents THEN 1 ELSE 0
                     /\ told[call] = "decision" => call \in intents

LEMMA DecisionInvStart == Init => DecisionInv
BY DEF Init, DecisionInv

(* Serving a request decides a call only if its nonce was not known.       *)
LEMMA ServeDecides ==
  ASSUME TypeOK, DecisionInv, NEW r \in Request, Complete(r), NEW x, Serve(r, x)
  PROVE  /\ \A call \in Call : decisions'[call] = IF call \in intents' THEN 1 ELSE 0
         /\ intents \subseteq intents'
         /\ x.ok /\ r.kind = "intent" => r.call \in intents'
<1>1. x \in Answers(r)
  BY DEF Serve
<1>2. CASE UNCHANGED <<intents, decisions>> /\ (x = Refused \/ r.kind # "intent")
  BY <1>2 DEF DecisionInv, Refused
<1>3. CASE x.ok /\ r.kind = "intent"
           /\ intents' = intents \cup {r.nonce}
           /\ decisions' = [decisions EXCEPT ![r.call] = @ + 1]
  <2>1. r.call \in Call /\ r.nonce = r.call
    BY <1>3 DEF Complete
  <2>2. r.nonce \notin intents
    BY <1>1, <1>3, AnswerIs DEF Grants, Refused
  <2>3. QED  BY <1>3, <2>1, <2>2 DEF DecisionInv, TypeOK
<1>4. QED  BY <1>2, <1>3 DEF Serve, server

LEMMA DecisionInvStep ==
  ASSUME TypeInv, DecisionInv, [Next]_vars
  PROVE  DecisionInv'
<1> USE DEF server
<1>0. /\ TypeOK
      /\ \A p \in Process : mem[p] \in Objects /\ Coherent(mem[p])
      /\ \A r \in late : r \in Request /\ Complete(r)
  BY DEF TypeInv, TypeOK, Coherence
<1>1. ASSUME UNCHANGED <<intents, decisions>>,
             \A call \in Call : told'[call] = "decision" => told[call] = "decision"
      PROVE  DecisionInv'
  BY <1>1 DEF DecisionInv
<1>2. ASSUME NEW r, UNCHANGED <<intents, decisions>>, Tells(r, "error") PROVE DecisionInv'
  BY <1>0, <1>1, <1>2 DEF Tells, TypeOK
<1>3. ASSUME NEW p \in Process,
             Register(p) \/ RotateKeys(p) \/ Retire(p) \/ ReadFile(p) \/ Truncate(p) \/ Fill(p)
      PROVE  DecisionInv'
  BY <1>1, <1>3 DEF Register, RotateKeys, Retire, ReadFile, Truncate, Fill, InMemory
<1>4. ASSUME NEW p \in Process, NEW call \in Call, Authorize(p, call) PROVE DecisionInv'
  BY <1>0, <1>1, <1>4 DEF Authorize, TypeOK
<1>5. ASSUME NEW p \in Process, Answered(p) PROVE DecisionInv'
  <2> DEFINE r == mem[p].request
  <2>1. r \in Request /\ Complete(r)
    BY <1>0, <1>5 DEF Answered, At, Objects, Coherent
  <2>2. PICK x \in Answers(r) : Serve(r, x) /\ Tells(r, IF x.ok THEN "decision" ELSE "error")
    BY <1>5 DEF Answered
  <2> HIDE DEF r
  <2>3. /\ \A call \in Call : decisions'[call] = IF call \in intents' THEN 1 ELSE 0
        /\ intents \subseteq intents'
        /\ x.ok /\ r.kind = "intent" => r.call \in intents'
    BY <1>0, <2>1, <2>2, ServeDecides
  <2>4. \A call \in Call : told'[call] = "decision" =>
          told[call] = "decision" \/ (x.ok /\ r.kind = "intent" /\ call = r.call)
    BY <1>0, <2>2 DEF Tells, TypeOK
  <2>5. QED  BY <2>3, <2>4 DEF DecisionInv
<1>6. ASSUME NEW p \in Process, Unanswered(p) PROVE DecisionInv'
  BY <1>1, <1>2, <1>6 DEF Unanswered
<1>7. ASSUME NEW r \in late, ServeLate(r) PROVE DecisionInv'
  <2>1. PICK x : Serve(r, x) /\ UNCHANGED told
    BY <1>7 DEF ServeLate
  <2>2. QED  BY <1>0, <2>1, ServeDecides DEF DecisionInv
<1>8. ASSUME NEW p \in Process, Restart(p) PROVE DecisionInv'
  BY <1>2, <1>8 DEF Restart
<1>9. CASE UNCHANGED vars
  BY <1>1, <1>9 DEF vars
<1>10. QED
  BY <1>3, <1>4, <1>5, <1>6, <1>7, <1>8, <1>9 DEF Next

(* However often authorize() sends a call again, and whenever a late copy  *)
(* is served, by however many processes: one decision at most comes of it, *)
(* and a caller told of a decision is told of one that was made.           *)
THEOREM OneDecisionPerCall == Spec => []AtMostOneDecision
<1>1. DecisionInv => AtMostOneDecision
  BY DEF DecisionInv, AtMostOneDecision
<1>2. TypeInv /\ [Next]_vars => TypeInv'
  BY TypeInvStep
<1>3. TypeInv /\ DecisionInv /\ [Next]_vars => DecisionInv'
  BY DecisionInvStep
<1>4. QED
  BY TypeInvStart, DecisionInvStart, <1>1, <1>2, <1>3, PTL DEF Spec

-----------------------------------------------------------------------------
(* What the store rests on *)

(* What a process is about to write is truthful too, and the certificate   *)
(* that register() is to activate is of the agent and the key in question. *)
TruthInv ==
  /\ StoreIsTruthful
  /\ \A p \in Process : \A k \in DOMAIN mem[p].data : Truthful(k, mem[p].data[k])
  /\ \A p \in Process : At(p, "waiting") /\ mem[p].request.kind = "activate" =>
       /\ cert[mem[p].made].key = mem[p].key
       /\ cert[mem[p].made].agent = mem[p].request.agent

LEMMA TruthInvStart == Init => TruthInv
<1> SUFFICES ASSUME Init PROVE TruthInv
  OBVIOUS
<1>1. DOMAIN file.entries = {}
  BY NothingIsNothing DEF Init
<1>2. \A p \in Process : /\ mem[p].identity = Nothing /\ mem[p].step = "idle"
                         /\ DOMAIN mem[p].data = {}
  BY NothingIsNothing DEF Init, Object
<1>3. QED  BY <1>1, <1>2 DEF TruthInv, StoreIsTruthful, At

(* A certificate keeps its key and its agent, and a retired agent remains  *)
(* retired.                                                                *)
LEMMA ServeKeeps ==
  ASSUME TypeOK, NEW r \in Request, Complete(r), NEW x, Serve(r, x)
  PROVE  /\ \A c \in Cert : cert[c] # NoCert =>
              cert'[c].key = cert[c].key /\ cert'[c].agent = cert[c].agent
         /\ \A a \in AgentId : agent[a] = "retired" => agent'[a] = "retired"
         /\ x.ok /\ r.kind \in {"create", "rotate"} =>
              /\ x.cert \in Cert /\ cert'[x.cert].key = r.key /\ cert'[x.cert].agent = x.agent
              /\ x.agent \in AgentId
         /\ x.ok /\ r.kind # "create" => x.agent = r.agent
         /\ x.ok /\ r.kind = "retire" => agent'[r.agent] = "retired"
<1>1. x \in Answers(r)
  BY DEF Serve
<1>2. CASE x = Refused /\ UNCHANGED server
  BY <1>2 DEF server, Refused
<1>3. CASE x.ok /\ r.kind \in {"create", "activate", "rotate", "retire"}
           /\ cert' = CertsAfter(r, x)
  <2>1. /\ Grants(r)
        /\ r.kind = "create" => x.agent \in NextAgent
        /\ r.kind # "create" => x.agent = r.agent
        /\ r.kind \in {"create", "rotate"} => x.cert \in NextCert
    BY <1>1, <1>3, AnswerIs DEF Refused
  <2>2. \A c \in Cert : cert[c] # NoCert =>
          cert'[c].key = cert[c].key /\ cert'[c].agent = cert[c].agent
    BY <1>1, <1>3, CertsAfterIs
  <2>3. x.agent \in AgentId
    BY <1>1, <1>3, CertsAfterIs
  <2>4. r.kind \in {"create", "rotate"} =>
          x.cert \in Cert /\ cert'[x.cert].key = r.key /\ cert'[x.cert].agent = x.agent
    <3> SUFFICES ASSUME r.kind \in {"create", "rotate"}
                 PROVE  x.cert \in Cert /\ cert'[x.cert].key = r.key /\ cert'[x.cert].agent = x.agent
      OBVIOUS
    <3>1. x.cert \in Cert
      BY <2>1 DEF NextCert
    <3>2. cert'[x.cert] = [agent |-> x.agent, key |-> r.key,
                           status |-> IF r.kind = "create" THEN "issued" ELSE "active"]
      BY <1>1, <1>3, <3>1, CertsAfterIs
    <3>3. QED  BY <3>1, <3>2
  <2>5. CASE r.kind \in {"create", "activate", "retire"}
             /\ agent' = [agent EXCEPT ![x.agent] = AgentAfter(r.kind)]
    <3>1. agent'[x.agent] = AgentAfter(r.kind)
          /\ \A a \in AgentId \ {x.agent} : agent'[a] = agent[a]
      BY <2>3, <2>5 DEF TypeOK
    <3>2. agent[x.agent] = "retired" => FALSE
      BY <2>1, <2>5 DEF Grants, NextAgent
    <3>3. QED  BY <1>3, <2>1, <2>2, <2>3, <2>4, <2>5, <3>1, <3>2 DEF AgentAfter
  <2>6. CASE r.kind = "rotate" /\ UNCHANGED agent
    BY <2>1, <2>2, <2>3, <2>4, <2>6
  <2>7. QED  BY <1>3, <2>5, <2>6 DEF Serve, Refused
<1>4. CASE x.ok /\ r.kind = "intent" /\ UNCHANGED <<agent, cert>>
  BY <1>1, <1>4, AnswerIs DEF Refused
<1>5. QED  BY <1>2, <1>3, <1>4 DEF Serve

(* What is to be true of a key and an identity after a step.               *)
WillBeTruthful(k, i) ==
  /\ cert'[i.cert].key = k
  /\ cert'[i.cert].agent = i.agent
  /\ i.status = "retired" => agent'[i.agent] = "retired"

(* What was true of a key and an identity remains true.                    *)
LEMMA TruthStands ==
  ASSUME TypeInv, [Next]_vars
  PROVE  /\ \A c \in Cert : cert[c] # NoCert =>
              cert'[c].key = cert[c].key /\ cert'[c].agent = cert[c].agent
         /\ \A a \in AgentId : agent[a] = "retired" => agent'[a] = "retired"
         /\ \A k \in Key, i \in Identity : Truthful(k, i) => WillBeTruthful(k, i)
<1>0. /\ TypeOK
      /\ \A p \in Process : mem[p] \in Objects /\ Coherent(mem[p])
      /\ \A r \in late : r \in Request /\ Complete(r)
  BY DEF TypeInv, TypeOK, Coherence
<1>1. /\ \A c \in Cert : cert[c] # NoCert =>
           cert'[c].key = cert[c].key /\ cert'[c].agent = cert[c].agent
      /\ \A a \in AgentId : agent[a] = "retired" => agent'[a] = "retired"
  <2>1. CASE UNCHANGED <<agent, cert>>
    BY <2>1
  <2>2. ASSUME NEW p \in Process, Answered(p)
        PROVE  \E r \in Request : \E x : Complete(r) /\ Serve(r, x)
    <3>1. mem[p].request \in Request /\ Complete(mem[p].request)
      BY <1>0, <2>2 DEF Answered, At, Objects, Coherent
    <3>2. QED  BY <2>2, <3>1 DEF Answered
  <2>3. ASSUME NEW r \in late, ServeLate(r)
        PROVE  \E s \in Request : \E x : Complete(s) /\ Serve(s, x)
    BY <1>0, <2>3 DEF ServeLate
  <2>4. CASE \E r \in Request : \E x : Complete(r) /\ Serve(r, x)
    BY <1>0, <2>4, ServeKeeps
  <2>5. ASSUME NEW p \in Process,
               \/ Register(p) \/ RotateKeys(p) \/ Retire(p) \/ \E call \in Call : Authorize(p, call)
               \/ Unanswered(p) \/ ReadFile(p) \/ Truncate(p) \/ Fill(p) \/ Restart(p)
        PROVE  UNCHANGED <<agent, cert>>
    BY <2>5 DEF Register, RotateKeys, Retire, Authorize, Unanswered, ReadFile, Truncate, Fill,
                Restart, InMemory, server
  <2>6. CASE UNCHANGED vars
    BY <2>1, <2>6 DEF vars
  <2>7. QED  BY <2>1, <2>2, <2>3, <2>4, <2>5, <2>6 DEF Next
<1>2. ASSUME NEW k \in Key, NEW i \in Identity, Truthful(k, i) PROVE WillBeTruthful(k, i)
  <2>1. i.cert \in Cert /\ i.agent \in AgentId
    BY DEF Identity
  <2>2. cert[i.cert] # NoCert
    BY <1>2, NothingIsNothing, SdkAssumption DEF Truthful, WillBeTruthful
  <2>3. QED  BY <1>1, <1>2, <2>1, <2>2 DEF Truthful, WillBeTruthful
<1>3. QED  BY <1>1, <1>2

(* One object becomes m, which is truthful, and the file is so already.    *)
LEMMA TruthBecomes ==
  ASSUME TypeInv, TruthInv, [Next]_vars, NEW p \in Process, NEW m \in Objects, Becomes(p, m),
         \A k \in DOMAIN file'.entries : WillBeTruthful(k, file'.entries[k]),
         m.identity # Nothing => WillBeTruthful(m.key, m.identity),
         \A k \in DOMAIN m.data : WillBeTruthful(k, m.data[k]),
         m.step = "waiting" /\ m.request.kind = "activate" =>
           cert'[m.made].key = m.key /\ cert'[m.made].agent = m.request.agent
  PROVE  TruthInv'
<1>1. /\ mem'[p] = m
      /\ \A q \in Process \ {p} : mem'[q] = mem[q]
      /\ \A q \in Process : mem[q] \in Objects /\ Coherent(mem[q])
  BY DEF Becomes, TypeInv, TypeOK, Coherence
<1>2. \A k \in Key, i \in Identity : Truthful(k, i) => WillBeTruthful(k, i)
  BY TruthStands
<1>3. ASSUME NEW q \in Process, mem'[q].identity # Nothing
      PROVE  WillBeTruthful(mem'[q].key, mem'[q].identity)
  <2>1. CASE q = p
    BY <1>1, <1>3, <2>1 DEF Truthful, WillBeTruthful
  <2>2. CASE q # p
    <3>1. mem'[q] = mem[q] /\ mem[q].identity \in Identity /\ mem[q].key \in Key
      BY <1>1, <1>3, <2>2 DEF Objects, Coherent
    <3>2. Truthful(mem[q].key, mem[q].identity)
      BY <1>3, <3>1 DEF TruthInv, StoreIsTruthful
    <3>3. QED  BY <1>2, <3>1, <3>2 DEF Truthful, WillBeTruthful
  <2>3. QED  BY <2>1, <2>2
<1>4. ASSUME NEW q \in Process, NEW k \in DOMAIN mem'[q].data
      PROVE  WillBeTruthful(k, mem'[q].data[k])
  <2>1. CASE q = p
    BY <1>1, <2>1 DEF Truthful, WillBeTruthful
  <2>2. CASE q # p
    <3>1. mem'[q] = mem[q] /\ mem[q].data \in Entries
      BY <1>1, <2>2 DEF Objects
    <3>2. k \in Key /\ mem[q].data[k] \in Identity
      BY <3>1 DEF Entries
    <3>3. Truthful(k, mem[q].data[k])
      BY <3>1 DEF TruthInv
    <3>4. QED  BY <1>2, <3>1, <3>2, <3>3 DEF Truthful, WillBeTruthful
  <2>3. QED  BY <2>1, <2>2
<1>5. ASSUME NEW q \in Process, mem'[q].step = "waiting", mem'[q].request.kind = "activate"
      PROVE  /\ cert'[mem'[q].made].key = mem'[q].key
             /\ cert'[mem'[q].made].agent = mem'[q].request.agent
  <2>1. CASE q = p
    BY <1>1, <1>5, <2>1
  <2>2. CASE q # p
    <3>1. mem'[q] = mem[q] /\ mem[q].made \in Cert /\ mem[q].key \in Key
      BY <1>1, <1>5, <2>2 DEF Coherent
    <3>2. /\ cert[mem[q].made].key = mem[q].key
          /\ cert[mem[q].made].agent = mem[q].request.agent
      BY <1>5, <3>1 DEF TruthInv, At
    <3>3. cert[mem[q].made] # NoCert
      BY <3>1, <3>2, NothingIsNothing, SdkAssumption
    <3>4. QED  BY <3>1, <3>2, <3>3, TruthStands
  <2>3. QED  BY <2>1, <2>2
<1>6. QED
  BY <1>3, <1>4, <1>5 DEF TruthInv, StoreIsTruthful, Truthful, WillBeTruthful, At

LEMMA TruthInvStep ==
  ASSUME TypeInv, TruthInv, [Next]_vars
  PROVE  TruthInv'
<1> USE DEF server
<1>0. /\ TypeOK
      /\ \A p \in Process : mem[p] \in Objects /\ Coherent(mem[p])
      /\ \A r \in late : r \in Request /\ Complete(r)
  BY DEF TypeInv, TypeOK, Coherence
<1>1. \A k \in Key, i \in Identity : Truthful(k, i) => WillBeTruthful(k, i)
  BY TruthStands
<1>2. ASSUME UNCHANGED file PROVE \A k \in DOMAIN file'.entries : WillBeTruthful(k, file'.entries[k])
  <2>1. \A k \in DOMAIN file.entries : k \in Key /\ file.entries[k] \in Identity
    BY <1>0, FilesType
  <2>2. \A k \in DOMAIN file.entries : WillBeTruthful(k, file.entries[k])
    BY <1>1, <2>1 DEF TruthInv, StoreIsTruthful
  <2>3. QED  BY <1>2, <2>2 DEF Truthful, WillBeTruthful
<1>3. ASSUME NEW p \in Process
      PROVE  /\ mem[p].identity # Nothing =>
                  /\ mem[p].identity \in Identity /\ mem[p].key \in Key
                  /\ Truthful(mem[p].key, mem[p].identity)
             /\ \A k \in DOMAIN mem[p].data :
                  k \in Key /\ mem[p].data[k] \in Identity /\ Truthful(k, mem[p].data[k])
             /\ mem[p].data \in Entries
  <2>1. mem[p].data \in Entries
    BY <1>0 DEF Objects
  <2>2. \A k \in DOMAIN mem[p].data : k \in Key /\ mem[p].data[k] \in Identity
    BY <2>1 DEF Entries
  <2>3. QED
    BY <1>0, <2>1, <2>2 DEF Objects, Coherent, TruthInv, StoreIsTruthful
<1>4. ASSUME NEW p \in Process, NEW k, NEW i, Becomes(p, Object(k, i)), Object(k, i) \in Objects,
             \A l \in DOMAIN file'.entries : WillBeTruthful(l, file'.entries[l]),
             i # Nothing => i \in Identity /\ k \in Key /\ Truthful(k, i)
      PROVE  TruthInv'
  <2> DEFINE m == Object(k, i)
  <2>1. /\ m.identity = i /\ m.key = k /\ m.step = "idle" /\ DOMAIN m.data = {}
    BY NothingIsNothing DEF Object
  <2>2. i # Nothing => WillBeTruthful(k, i)
    BY <1>1, <1>4
  <2>3. Becomes(p, m) /\ m \in Objects
    BY <1>4
  <2> HIDE DEF m
  <2>4. m.identity # Nothing => WillBeTruthful(m.key, m.identity)
    BY <2>1, <2>2
  <2>5. QED  BY <1>4, <2>1, <2>3, <2>4, TruthBecomes
<1>5. ASSUME NEW p \in Process PROVE Ended(mem[p]) \in Objects
  BY <1>0, ObjectType DEF Ended, Objects, Coherent
<1>6. ASSUME NEW p \in Process, Becomes(p, Ended(mem[p])),
             \A l \in DOMAIN file'.entries : WillBeTruthful(l, file'.entries[l])
      PROVE  TruthInv'
  BY <1>3, <1>4, <1>5, <1>6 DEF Ended
<1>7. ASSUME NEW p \in Process, NEW m \in Objects, Becomes(p, m), UNCHANGED file,
             m.identity = mem[p].identity, m.key = mem[p].key, m.data = mem[p].data,
             m.step = "waiting" /\ m.request.kind = "activate" =>
               cert'[m.made].key = m.key /\ cert'[m.made].agent = m.request.agent
      PROVE  TruthInv'
  <2>1. m.identity # Nothing => WillBeTruthful(m.key, m.identity)
    BY <1>1, <1>3, <1>7
  <2>2. \A k \in DOMAIN m.data : WillBeTruthful(k, m.data[k])
    BY <1>1, <1>3, <1>7
  <2>3. QED  BY <1>2, <1>7, <2>1, <2>2, TruthBecomes
<1>8. ASSUME NEW p \in Process, Register(p) PROVE TruthInv'
  <2>1. PICK k \in (IF mem[p].key = Nothing THEN Unused ELSE {mem[p].key}) :
          \/ /\ k \in DOMAIN file.entries
             /\ Becomes(p, Object(k, file.entries[k]))
          \/ /\ k \notin DOMAIN file.entries
             /\ Becomes(p, Sends([mem[p] EXCEPT !.key = k], [NoRequest EXCEPT !.key = k]))
    BY <1>8 DEF Register
  <2>2. k \in Key /\ UNCHANGED file /\ mem[p].step = "idle"
    BY <1>0, <1>8 DEF Register, Unused, Objects, At
  <2>3. CASE k \in DOMAIN file.entries /\ Becomes(p, Object(k, file.entries[k]))
    <3>1. file.entries[k] \in Identity /\ Truthful(k, file.entries[k])
      BY <1>0, <2>3, FilesType DEF TruthInv, StoreIsTruthful
    <3>2. Object(k, file.entries[k]) \in Objects
      BY <2>2, <3>1, ObjectType
    <3>3. QED  BY <1>2, <1>4, <2>2, <2>3, <3>1, <3>2
  <2>4. CASE Becomes(p, Sends([mem[p] EXCEPT !.key = k], [NoRequest EXCEPT !.key = k]))
    <3> DEFINE m == [mem[p] EXCEPT !.key = k]
               r == [NoRequest EXCEPT !.key = k]
    <3>1. r \in Request /\ r.kind = "create" /\ r.key = k
      BY <2>2 DEF NoRequest, Request, Kind
    <3>2. /\ m \in Objects /\ m.key = k /\ m.step = "idle" /\ m.put = mem[p].put
          /\ m.drop = mem[p].drop /\ m.identity = mem[p].identity /\ m.data = mem[p].data
      BY <1>0, <2>2 DEF Objects
    <3> HIDE DEF m, r
    <3>3. Coherent(m) /\ Complete(r)
      BY <1>0, <2>2, <3>1, <3>2 DEF Coherent, Complete
    <3> DEFINE n == Sends(m, r)
    <3>4. /\ n \in Objects /\ n.request = r /\ n.key = k /\ n.identity = mem[p].identity
          /\ n.data = mem[p].data
      BY <2>2, <3>1, <3>2, <3>3, SendsType
    <3>5. Becomes(p, n)
      BY <2>4 DEF m, r
    <3> HIDE DEF n
    <3>6. n.identity # Nothing => n.key = mem[p].key
      BY <1>0, <1>3, <2>1, <3>4, SdkAssumption
    <3>7. n.identity # Nothing => WillBeTruthful(n.key, n.identity)
      BY <1>1, <1>3, <3>4, <3>6
    <3>8. \A l \in DOMAIN n.data : WillBeTruthful(l, n.data[l])
      BY <1>1, <1>3, <3>4
    <3>9. QED  BY <1>2, <2>2, <3>1, <3>4, <3>5, <3>7, <3>8, TruthBecomes
  <2>5. QED  BY <2>1, <2>3, <2>4
<1>9. ASSUME NEW p \in Process, NEW r \in Request, mem[p].step = "idle",
             Complete(r), r.kind \in {"rotate", "retire", "intent"},
             mem[p].identity # Nothing, r.kind # "intent" => r.agent = mem[p].identity.agent,
             Becomes(p, Sends(mem[p], r)), UNCHANGED file
      PROVE  TruthInv'
  <2> DEFINE m == Sends(mem[p], r)
  <2>1. /\ m \in Objects /\ m.request = r /\ m.key = mem[p].key
        /\ m.identity = mem[p].identity /\ m.data = mem[p].data
    BY <1>0, <1>9, SendsType
  <2> HIDE DEF m
  <2>2. QED  BY <1>7, <1>9, <2>1 DEF m
<1>10. ASSUME NEW p \in Process, RotateKeys(p) PROVE TruthInv'
  <2>1. PICK k \in Unused :
          Becomes(p, Sends(mem[p], [NoRequest EXCEPT !.kind = "rotate", !.key = k,
                                                     !.agent = mem[p].identity.agent]))
    BY <1>10 DEF RotateKeys
  <2> DEFINE r == [NoRequest EXCEPT !.kind = "rotate", !.key = k, !.agent = mem[p].identity.agent]
  <2>2. mem[p].identity # Nothing /\ mem[p].step = "idle" /\ UNCHANGED file
    BY <1>10 DEF RotateKeys, At, InMemory
  <2>3. k \in Key /\ mem[p].identity.agent \in AgentId
    BY <1>3, <2>2 DEF Unused, Identity
  <2>4. r \in Request /\ r.kind = "rotate" /\ r.key = k /\ r.agent = mem[p].identity.agent
    BY <2>3 DEF NoRequest, Request, Kind
  <2> HIDE DEF r
  <2>5. Complete(r) /\ Becomes(p, Sends(mem[p], r))
    BY <2>1, <2>3, <2>4 DEF Complete, r
  <2>6. QED  BY <1>9, <2>2, <2>4, <2>5
<1>11. ASSUME NEW p \in Process, Retire(p) PROVE TruthInv'
  <2> DEFINE r == [NoRequest EXCEPT !.kind = "retire", !.agent = mem[p].identity.agent]
  <2>1. mem[p].identity # Nothing /\ mem[p].step = "idle" /\ UNCHANGED file
        /\ Becomes(p, Sends(mem[p], r))
    BY <1>11 DEF Retire, At, InMemory
  <2>2. mem[p].identity.agent \in AgentId
    BY <1>3, <2>1 DEF Identity
  <2>3. r \in Request /\ r.kind = "retire" /\ r.agent = mem[p].identity.agent
    BY <2>2 DEF NoRequest, Request, Kind
  <2> HIDE DEF r
  <2>4. Complete(r)
    BY <2>2, <2>3 DEF Complete
  <2>5. QED  BY <1>9, <2>1, <2>3, <2>4
<1>12. ASSUME NEW p \in Process, NEW call \in Call, Authorize(p, call) PROVE TruthInv'
  <2> DEFINE r == [kind |-> "intent", agent |-> mem[p].identity.agent,
                   cert |-> mem[p].identity.cert, key |-> mem[p].key,
                   call |-> call, nonce |-> NonceOf(call, 0)]
  <2>1. mem[p].identity # Nothing /\ mem[p].step = "idle" /\ UNCHANGED file
        /\ Becomes(p, Sends(mem[p], r))
    BY <1>12 DEF Authorize, At
  <2>2. r \in Request /\ r.kind = "intent" /\ Complete(r)
    BY <1>3, <2>1 DEF Request, Kind, NonceOf, Complete, Identity
  <2> HIDE DEF r
  <2>3. QED  BY <1>9, <2>1, <2>2
<1>13. ASSUME NEW p \in Process, Answered(p) PROVE TruthInv'
  <2> DEFINE r == mem[p].request
  <2>1. mem[p].step = "waiting" /\ r \in Request /\ Complete(r) /\ UNCHANGED file
    BY <1>0, <1>13 DEF Answered, At, Objects, Coherent
  <2>2. PICK x \in Answers(r) :
          /\ Serve(r, x)
          /\ Becomes(p, IF x.ok THEN Heard(mem[p], x) ELSE Ended(mem[p]))
    BY <1>13 DEF Answered
  <2>3. CASE ~x.ok
    BY <1>2, <1>6, <2>1, <2>2, <2>3
  <2>4. CASE x.ok
    <3> DEFINE m == Heard(mem[p], x)
    <3>1. Becomes(p, m) /\ m \in Objects
      BY <1>0, <2>1, <2>2, <2>4, HeardIs
    <3>2. r.kind = "create" =>
            /\ m.key = mem[p].key /\ m.identity = mem[p].identity /\ m.data = mem[p].data
            /\ m.made = x.cert /\ m.request.agent = x.agent /\ m.request.key = m.key
      BY <1>0, <2>1, <2>4, HeardIs
    <3>3. r.kind = "activate" =>
            /\ m.key = mem[p].key /\ m.step = "saving" /\ m.data = mem[p].data
            /\ m.identity.agent = r.agent /\ m.identity.cert = mem[p].made
            /\ m.identity.status = "active"
      BY <1>0, <2>1, <2>4, HeardIs
    <3>4. r.kind = "rotate" =>
            /\ m.key = r.key /\ m.step = "saving" /\ m.data = mem[p].data
            /\ m.identity.agent = mem[p].identity.agent /\ m.identity.cert = x.cert
            /\ m.identity.status = mem[p].identity.status
      BY <1>0, <2>1, <2>4, HeardIs
    <3>5. r.kind = "retire" =>
            /\ m.key = mem[p].key /\ m.step = "saving" /\ m.data = mem[p].data
            /\ m.identity.agent = mem[p].identity.agent
            /\ m.identity.cert = mem[p].identity.cert /\ m.identity.status = "retired"
      BY <1>0, <2>1, <2>4, HeardIs
    <3>6. r.kind = "intent" => m = Ended(mem[p])
      BY <1>0, <2>1, <2>4, HeardIs DEF Ended
    <3>7. /\ \A c \in Cert : cert[c] # NoCert =>
               cert'[c].key = cert[c].key /\ cert'[c].agent = cert[c].agent
          /\ \A a \in AgentId : agent[a] = "retired" => agent'[a] = "retired"
          /\ r.kind \in {"create", "rotate"} =>
               cert'[x.cert].key = r.key /\ cert'[x.cert].agent = x.agent
          /\ r.kind # "create" => x.agent = r.agent
          /\ r.kind = "retire" => agent'[r.agent] = "retired"
      BY <1>0, <2>1, <2>2, <2>4, ServeKeeps
    <3> HIDE DEF m
    <3>8. CASE r.kind = "create"
      <4>1. r.key = mem[p].key
        BY <1>0, <2>1, <3>8 DEF Coherent
      <4>2. QED  BY <1>7, <2>1, <3>1, <3>2, <3>7, <3>8, <4>1
    <3>9. CASE r.kind = "activate"
      <4>1. /\ mem[p].made \in Cert /\ mem[p].key \in Key
            /\ cert[mem[p].made].key = mem[p].key /\ cert[mem[p].made].agent = r.agent
        BY <1>0, <2>1, <3>9 DEF Coherent, TruthInv, At
      <4>2. cert[mem[p].made] # NoCert
        BY <4>1, NothingIsNothing, SdkAssumption
      <4>3. WillBeTruthful(m.key, m.identity)
        BY <3>3, <3>7, <3>9, <4>1, <4>2 DEF Truthful, WillBeTruthful
      <4>4. \A k \in DOMAIN m.data : WillBeTruthful(k, m.data[k])
        BY <1>1, <1>3, <3>3, <3>9
      <4>5. QED  BY <1>2, <2>1, <3>1, <3>3, <3>9, <4>3, <4>4, TruthBecomes
    <3>10. CASE r.kind = "rotate"
      <4>1. /\ mem[p].identity # Nothing /\ r.agent = mem[p].identity.agent
            /\ mem[p].identity \in Identity
        BY <1>0, <1>3, <2>1, <3>10 DEF Coherent
      <4>2. mem[p].identity.status = "retired" => agent[r.agent] = "retired"
        BY <1>3, <4>1 DEF Truthful, WillBeTruthful
      <4>3. r.agent \in AgentId
        BY <2>1, <3>10 DEF Complete
      <4>4. WillBeTruthful(m.key, m.identity)
        BY <3>4, <3>7, <3>10, <4>1, <4>2, <4>3 DEF Truthful, WillBeTruthful
      <4>5. \A k \in DOMAIN m.data : WillBeTruthful(k, m.data[k])
        BY <1>1, <1>3, <3>4, <3>10
      <4>6. QED  BY <1>2, <2>1, <3>1, <3>4, <3>10, <4>4, <4>5, TruthBecomes
    <3>11. CASE r.kind = "retire"
      <4>1. /\ mem[p].identity # Nothing /\ r.agent = mem[p].identity.agent
            /\ WillBeTruthful(mem[p].key, mem[p].identity)
        BY <1>0, <1>1, <1>3, <2>1, <3>11 DEF Coherent
      <4>2. WillBeTruthful(m.key, m.identity)
        BY <3>5, <3>7, <3>11, <4>1 DEF Truthful, WillBeTruthful
      <4>3. \A k \in DOMAIN m.data : WillBeTruthful(k, m.data[k])
        BY <1>1, <1>3, <3>5, <3>11
      <4>4. QED  BY <1>2, <2>1, <3>1, <3>5, <3>11, <4>2, <4>3, TruthBecomes
    <3>12. CASE r.kind = "intent"
      BY <1>2, <1>6, <2>1, <3>1, <3>6, <3>12
    <3>13. QED  BY <2>1, <3>8, <3>9, <3>10, <3>11, <3>12 DEF Request, Kind
  <2>5. QED  BY <2>3, <2>4
<1>14. ASSUME NEW p \in Process, Unanswered(p) PROVE TruthInv'
  <2>1. mem[p].step = "waiting" /\ UNCHANGED <<file, cert>>
    BY <1>14 DEF Unanswered, At
  <2>2. CASE mem[p].attempt < MaxRetries /\ Becomes(p, Again(mem[p]))
    <3> DEFINE m == Again(mem[p])
    <3>1. /\ m \in Objects /\ m.key = mem[p].key /\ m.identity = mem[p].identity
          /\ m.data = mem[p].data /\ m.made = mem[p].made
          /\ m.request.kind = mem[p].request.kind /\ m.request.agent = mem[p].request.agent
      BY <1>0, <2>1, <2>2, AgainType
    <3> HIDE DEF m
    <3>2. m.request.kind = "activate" =>
            cert'[m.made].key = m.key /\ cert'[m.made].agent = m.request.agent
      BY <2>1, <3>1 DEF TruthInv, At
    <3>3. Becomes(p, m)
      BY <2>2 DEF m
    <3>4. QED  BY <1>7, <2>1, <3>1, <3>2, <3>3
  <2>3. CASE Becomes(p, Ended(mem[p]))
    BY <1>2, <1>6, <2>1, <2>3
  <2>4. QED  BY <1>14, <2>2, <2>3 DEF Unanswered, Again
<1>15. ASSUME UNCHANGED <<file, mem>> PROVE TruthInv'
  <2>1. CASE Process = {}
    BY <1>2, <1>15, <2>1 DEF TruthInv, StoreIsTruthful, Truthful, WillBeTruthful
  <2>2. ASSUME NEW p \in Process PROVE TruthInv'
    <3>1. Becomes(p, mem[p])
      BY <1>0, <1>15 DEF Becomes, TypeOK
    <3>2. mem[p].step = "waiting" /\ mem[p].request.kind = "activate" =>
            /\ cert'[mem[p].made].key = mem[p].key
            /\ cert'[mem[p].made].agent = mem[p].request.agent
      <4> SUFFICES ASSUME mem[p].step = "waiting", mem[p].request.kind = "activate"
                   PROVE  /\ cert'[mem[p].made].key = mem[p].key
                          /\ cert'[mem[p].made].agent = mem[p].request.agent
        OBVIOUS
      <4>1. /\ mem[p].made \in Cert /\ mem[p].key \in Key
            /\ cert[mem[p].made].key = mem[p].key
            /\ cert[mem[p].made].agent = mem[p].request.agent
        BY <1>0 DEF Coherent, TruthInv, At
      <4>2. cert[mem[p].made] # NoCert
        BY <4>1, NothingIsNothing, SdkAssumption
      <4>3. QED  BY <4>1, <4>2, TruthStands
    <3>3. QED  BY <1>0, <1>7, <1>15, <3>1, <3>2
  <2>3. QED  BY <2>1, <2>2
<1>16. ASSUME NEW r \in late, ServeLate(r) PROVE TruthInv'
  BY <1>15, <1>16 DEF ServeLate
<1>17. ASSUME NEW p \in Process, ReadFile(p) PROVE TruthInv'
  <2>1. /\ mem[p].step = "saving" /\ mem[p].identity # Nothing /\ UNCHANGED file
        /\ mem[p].put # Nothing => mem[p].put = mem[p].key
    BY <1>0, <1>17 DEF ReadFile, At, Coherent
  <2>2. \A k \in DOMAIN file.entries :
          k \in Key /\ file.entries[k] \in Identity /\ Truthful(k, file.entries[k])
    BY <1>0, FilesType DEF TruthInv, StoreIsTruthful
  <2>3. ASSUME NEW e \in Entries, \A k \in DOMAIN e : Truthful(k, e[k]),
               Becomes(p, [mem[p] EXCEPT !.step = "read", !.data = e])
        PROVE  TruthInv'
    <3> DEFINE m == [mem[p] EXCEPT !.step = "read", !.data = e]
    <3>1. /\ m \in Objects /\ m.step = "read" /\ m.identity = mem[p].identity
          /\ m.key = mem[p].key /\ m.data = e
      BY <1>0 DEF Objects, Step
    <3>2. Becomes(p, m)
      BY <2>3
    <3> HIDE DEF m
    <3>3. m.identity # Nothing => WillBeTruthful(m.key, m.identity)
      BY <1>1, <1>3, <3>1
    <3>4. \A k \in DOMAIN e : k \in Key /\ e[k] \in Identity
      BY DEF Entries
    <3>5. \A k \in DOMAIN m.data : WillBeTruthful(k, m.data[k])
      BY <1>1, <2>3, <3>1, <3>4
    <3>6. QED  BY <1>2, <2>1, <3>1, <3>2, <3>3, <3>5, TruthBecomes
  <2>4. CASE mem[p].put # Nothing
    <3> DEFINE e == With(file.entries, mem[p].put, mem[p].identity)
    <3>1. e \in Entries
      BY <1>0, <1>3, <2>1, <2>4, FilesType, EntriesType
    <3>2. \A k \in DOMAIN e : Truthful(k, e[k])
      BY <1>3, <2>1, <2>2, <2>4 DEF With
    <3> HIDE DEF e
    <3>3. Becomes(p, [mem[p] EXCEPT !.step = "read", !.data = e])
      BY <1>17, <2>4 DEF ReadFile, e
    <3>4. QED  BY <2>3, <3>1, <3>2, <3>3
  <2>5. CASE mem[p].put = Nothing /\ mem[p].drop \in DOMAIN file.entries
    <3> DEFINE e == Without(file.entries, mem[p].drop)
    <3>1. e \in Entries
      BY <1>0, <1>3, <2>1, FilesType, EntriesType
    <3>2. \A k \in DOMAIN e : Truthful(k, e[k])
      BY <2>2 DEF Without
    <3> HIDE DEF e
    <3>3. Becomes(p, [mem[p] EXCEPT !.step = "read", !.data = e])
      BY <1>17, <2>5 DEF ReadFile, e
    <3>4. QED  BY <2>3, <3>1, <3>2, <3>3
  <2>6. CASE mem[p].put = Nothing /\ mem[p].drop \notin DOMAIN file.entries
    BY <1>2, <1>6, <1>17, <2>1, <2>6 DEF ReadFile
  <2>7. QED  BY <2>4, <2>5, <2>6
<1>18. ASSUME NEW p \in Process, Truncate(p) PROVE TruthInv'
  <2> DEFINE m == [mem[p] EXCEPT !.step = "truncated"]
  <2>1. /\ m \in Objects /\ m.step = "truncated" /\ m.identity = mem[p].identity
        /\ m.key = mem[p].key /\ m.data = mem[p].data
    BY <1>0 DEF Objects, Step
  <2>2. Becomes(p, m) /\ file' = Unreadable("truncated")
    BY <1>18 DEF Truncate
  <2> HIDE DEF m
  <2>3. \A k \in DOMAIN file'.entries : WillBeTruthful(k, file'.entries[k])
    BY <2>2, NothingIsNothing DEF Unreadable
  <2>4. /\ m.identity # Nothing => WillBeTruthful(m.key, m.identity)
        /\ \A k \in DOMAIN m.data : WillBeTruthful(k, m.data[k])
    BY <1>1, <1>3, <2>1
  <2>5. QED  BY <2>1, <2>2, <2>3, <2>4, TruthBecomes
<1>19. ASSUME NEW p \in Process, Fill(p) PROVE TruthInv'
  <2>1. file'.entries = mem[p].data \/ file'.entries = Empty
    BY <1>19 DEF Fill, Unreadable
  <2>2. \A k \in DOMAIN mem[p].data : WillBeTruthful(k, mem[p].data[k])
    BY <1>1, <1>3
  <2>3. \A k \in DOMAIN file'.entries : WillBeTruthful(k, file'.entries[k])
    BY <2>1, <2>2, NothingIsNothing DEF Truthful, WillBeTruthful
  <2>4. CASE Becomes(p, Ended(mem[p]))
    BY <1>6, <2>3, <2>4
  <2> DEFINE m == [mem[p] EXCEPT !.step = "saving", !.put = Nothing, !.data = Empty]
  <2>5. CASE Becomes(p, m)
    <3>1. /\ m \in Objects /\ m.step = "saving" /\ m.identity = mem[p].identity
          /\ m.key = mem[p].key /\ m.data = Empty
      BY <1>0, NothingIsNothing DEF Objects, Step
    <3> HIDE DEF m
    <3>2. m.identity # Nothing => WillBeTruthful(m.key, m.identity)
      BY <1>1, <1>3, <3>1
    <3>3. \A k \in DOMAIN m.data : WillBeTruthful(k, m.data[k])
      BY <3>1, NothingIsNothing
    <3>4. QED  BY <2>3, <2>5, <3>1, <3>2, <3>3, TruthBecomes
  <2>6. QED  BY <1>19, <2>4, <2>5 DEF Fill
<1>20. ASSUME NEW p \in Process, Restart(p) PROVE TruthInv'
  <2> DEFINE k == Configured[p]
  <2>1. Becomes(p, Object(k, IF k \in DOMAIN file.entries THEN file.entries[k] ELSE Nothing))
    BY <1>20 DEF Restart
  <2> DEFINE i == IF k \in DOMAIN file.entries THEN file.entries[k] ELSE Nothing
  <2>2. k \in Key \cup {Nothing}
    BY <1>0, SdkAssumption DEF Objects
  <2>3. /\ i \in Identity \cup {Nothing}
        /\ i # Nothing => i \in Identity /\ k \in Key /\ Truthful(k, i)
    BY <1>0, FilesType DEF TruthInv, StoreIsTruthful
  <2> HIDE DEF i
  <2>4. Becomes(p, Object(k, i)) /\ UNCHANGED file
    BY <1>20, <2>1 DEF Restart, i
  <2>5. Object(k, i) \in Objects
    BY <2>2, <2>3, ObjectType
  <2>6. QED  BY <1>2, <1>4, <2>3, <2>4, <2>5
<1>21. CASE UNCHANGED vars
  BY <1>15, <1>21 DEF vars
<1>22. QED
  BY <1>8, <1>10, <1>11, <1>12, <1>13, <1>14, <1>16, <1>17, <1>18, <1>19, <1>20, <1>21 DEF Next

(* Whatever is lost, delayed, repeated, garbled or cut off by a crash, and *)
(* however many processes share the file: every entry of the store, and    *)
(* the identity of every Agent object, pairs a key with a certificate      *)
(* issued for that very key and agent (register, rotate_keys, retire and   *)
(* CredentialStore).                                                       *)
THEOREM StorePairsKeysAndCertificates == Spec => []StoreIsTruthful
<1>1. TruthInv => StoreIsTruthful
  BY DEF TruthInv
<1>2. TypeInv /\ [Next]_vars => TypeInv'
  BY TypeInvStep
<1>3. TypeInv /\ TruthInv /\ [Next]_vars => TruthInv'
  BY TruthInvStep
<1>4. QED
  BY TypeInvStart, TruthInvStart, <1>1, <1>2, <1>3, PTL DEF Spec

-----------------------------------------------------------------------------
(* What keeping an identity rests on *)

(* The server: a certificate is live as its agent is, and an agent has one *)
(* live certificate at most.                                               *)
ServerInv ==
  /\ \A c \in Cert :
       /\ cert[c] # NoCert => agent[cert[c].agent] # "none"
       /\ cert[c].status = "issued" => agent[cert[c].agent] = "registered"
       /\ cert[c].status = "active" => agent[cert[c].agent] = "active"
  /\ \A c, d \in Live : cert[c].agent = cert[d].agent => c = d

(* The keys a process has to do with.                                      *)
Own(p) ==
  {Configured[p], mem[p].key, mem[p].request.key, mem[p].drop} \ {Nothing}

(* No two processes have to do with one key; a key that is replaced has    *)
(* been certified, and is not the one that replaces it.                    *)
KeysApart ==
  /\ \A p, q \in Process : p # q => Own(p) \cap Own(q) = {}
  /\ \A p \in Process : mem[p].drop # Nothing =>
       /\ mem[p].drop # mem[p].key
       /\ \E c \in Cert : cert[c].key = mem[p].drop
  /\ \A p \in Process : At(p, "waiting") /\ mem[p].request.kind = "rotate" =>
       mem[p].request.key # mem[p].key

Writing(p) == At(p, "read") \/ At(p, "truncated")

Truncating == \E p \in Process : At(p, "truncated")

(* One process at a time is in the file, which is as it read it until it   *)
(* truncates it.                                                           *)
OneWriter ==
  /\ \A p, q \in Process : Writing(p) /\ Writing(q) => p = q
  /\ file.form = "json" \/ Truncating
  /\ Truncating => file = Unreadable("truncated")
  /\ \A p \in Process : At(p, "read") =>
       mem[p].data = IF mem[p].put # Nothing THEN With(file.entries, mem[p].put, mem[p].identity)
                     ELSE Without(file.entries, mem[p].drop)

(* File f pairs k with i, or will when one of the objects ms, which has    *)
(* truncated it, has written it whole.                                     *)
Stored(f, ms, k, i) ==
  \/ /\ \A p \in Process : ms[p].step # "truncated"
     /\ k \in DOMAIN f.entries /\ f.entries[k] = i
  \/ \E p \in Process : /\ ms[p].step = "truncated"
                        /\ k \in DOMAIN ms[p].data /\ ms[p].data[k] = i

OnFile(k, i) == Stored(file, mem, k, i)

(* The object m has yet to write its identity, or to delete the key it     *)
(* had, or to be told that its certificate is active.                      *)
PutsYet(m) == m.step \in {"saving", "read"} /\ m.put # Nothing

DropsYet(m) == m.drop # Nothing /\ ~(m.step = "truncated" /\ m.put = Nothing)

Activates(m) == m.step = "waiting" /\ m.request.kind = "activate"

(* A live certificate is on file, or is to be put there, or is to be       *)
(* activated first.                                                        *)
LiveKept ==
  \A c \in Live :
    \/ \E i \in Identity : OnFile(cert[c].key, i) /\ i.cert = c
    \/ \E p \in Process : PutsYet(mem[p]) /\ mem[p].identity.cert = c
    \/ \E p \in Process : Activates(mem[p]) /\ mem[p].made = c

(* An entry that says active is, or is to be written over or deleted.      *)
EntriesKept ==
  \A k \in Key, i \in Identity : OnFile(k, i) /\ i.status = "active" =>
    \/ cert[i.cert].status = "active"
    \/ \E p \in Process : DropsYet(mem[p]) /\ mem[p].drop = k
    \/ \E p \in Process : PutsYet(mem[p]) /\ mem[p].put = k

(* A process has the identity on file, or is to put it there.              *)
IdentitiesKept ==
  \A p \in Process : mem[p].identity # Nothing =>
    OnFile(mem[p].key, mem[p].identity) \/ PutsYet(mem[p])

(* A key has one live certificate at most: that which is to be put on      *)
(* file, and none if it is to be deleted or about to be certified.         *)
KeysKept ==
  /\ \A c, d \in Live : cert[c].key = cert[d].key => c = d
  /\ \A p \in Process :
       /\ PutsYet(mem[p]) =>
            /\ mem[p].identity.status = "active" => cert[mem[p].identity.cert].status = "active"
            /\ \A c \in Live : cert[c].key = mem[p].key => c = mem[p].identity.cert
       /\ DropsYet(mem[p]) => \A c \in Live : cert[c].key # mem[p].drop
       /\ mem[p].step = "waiting" =>
            /\ mem[p].request.kind \in {"create", "rotate"} =>
                 \A c \in Live : cert[c].key # mem[p].request.key
            /\ mem[p].request.kind \in {"create", "activate"} => mem[p].identity = Nothing
            /\ mem[p].request.kind = "activate" => cert[mem[p].made].status = "issued"

KeptInv == KeysApart /\ OneWriter /\ LiveKept /\ EntriesKept /\ IdentitiesKept /\ KeysKept

IdentityInv == ServerInv /\ (OwnKeys /\ ~mishap => KeptInv)

LEMMA IdentityInvStart == Init => IdentityInv
<1> SUFFICES ASSUME Init PROVE IdentityInv
  OBVIOUS
<1>1. /\ \A c \in Cert : cert[c] = NoCert
      /\ Live = {} /\ DOMAIN file.entries = {} /\ file.form = "json"
  BY NothingIsNothing DEF Init, Live
<1>2. \A p \in Process :
        /\ mem[p].key = Configured[p] /\ mem[p].identity = Nothing /\ mem[p].step = "idle"
        /\ mem[p].request = NoRequest /\ mem[p].put = Nothing /\ mem[p].drop = Nothing
  BY DEF Init, Object
<1>3. ServerInv
  BY <1>1, NothingIsNothing DEF ServerInv
<1>4. KeysApart \/ ~OwnKeys
  BY <1>2 DEF KeysApart, OwnKeys, Own, At, NoRequest
<1>5. OneWriter /\ \A k, i : ~OnFile(k, i)
  BY <1>1, <1>2 DEF OneWriter, OnFile, Stored, Writing, Truncating, At
<1>6. LiveKept /\ EntriesKept /\ IdentitiesKept /\ KeysKept
  BY <1>1, <1>2, <1>5 DEF LiveKept, EntriesKept, IdentitiesKept, KeysKept, PutsYet, DropsYet
<1>7. QED  BY <1>3, <1>4, <1>5, <1>6 DEF IdentityInv, KeptInv

(* What the server's answer changes: a created agent gets a certificate of *)
(* the key; an activated agent's certificate becomes active, a rotated     *)
(* one's is replaced, and a retired one's expires.                         *)
LEMMA GrantedIs ==
  ASSUME TypeOK, ServerInv, NEW r \in Request, Complete(r), NEW x, Serve(r, x), x.ok
  PROVE  /\ r.kind = "create" =>
              /\ x.cert \in Cert /\ cert[x.cert] = NoCert /\ x.agent \in AgentId
              /\ agent[x.agent] = "none" /\ agent' = [agent EXCEPT ![x.agent] = "registered"]
              /\ cert'[x.cert] = [agent |-> x.agent, key |-> r.key, status |-> "issued"]
              /\ \A c \in Cert \ {x.cert} : cert'[c] = cert[c] /\ cert[c].agent # x.agent
         /\ r.kind = "activate" =>
              /\ agent[r.agent] = "registered" /\ agent' = [agent EXCEPT ![r.agent] = "active"]
              /\ \A c \in Cert : cert[c].agent # r.agent \/ cert[c].status # "issued" => cert'[c] = cert[c]
              /\ \A c \in Cert : cert[c].agent = r.agent /\ cert[c].status = "issued" =>
                   /\ cert'[c].agent = cert[c].agent /\ cert'[c].key = cert[c].key
                   /\ cert'[c].status = "active"
         /\ r.kind = "rotate" =>
              /\ agent[r.agent] = "active" /\ agent' = agent
              /\ x.cert \in Cert /\ cert[x.cert] = NoCert
              /\ cert'[x.cert] = [agent |-> r.agent, key |-> r.key, status |-> "active"]
              /\ \A c \in Cert \ {x.cert} :
                   cert[c].agent # r.agent \/ cert[c].status # "active" => cert'[c] = cert[c]
              /\ \A c \in Cert : cert[c].agent = r.agent /\ cert[c].status = "active" =>
                   /\ cert'[c].agent = cert[c].agent /\ cert'[c].key = cert[c].key
                   /\ cert'[c].status = "rotated"
         /\ r.kind = "retire" =>
              /\ agent[r.agent] \in {"registered", "active"}
              /\ agent' = [agent EXCEPT ![r.agent] = "retired"]
              /\ \A c \in Cert : cert[c].agent # r.agent \/ c \notin Live => cert'[c] = cert[c]
              /\ \A c \in Live : cert[c].agent = r.agent =>
                   /\ cert'[c].agent = cert[c].agent /\ cert'[c].key = cert[c].key
                   /\ cert'[c].status = "expired"
         /\ r.kind = "intent" => UNCHANGED <<agent, cert>>
<1>1. x \in Answers(r) /\ x # Refused
  BY DEF Serve, Refused
<1>2. /\ Grants(r)
      /\ r.kind = "create" => x.agent \in NextAgent
      /\ r.kind # "create" => x.agent = r.agent
      /\ r.kind \in {"create", "rotate"} => x.cert \in NextCert
      /\ r.kind \notin {"create", "rotate"} => x.cert = Nothing
  BY <1>1, AnswerIs
<1>3. /\ r.kind \in {"create", "activate", "retire"} =>
           agent' = [agent EXCEPT ![x.agent] = AgentAfter(r.kind)] /\ cert' = CertsAfter(r, x)
      /\ r.kind = "rotate" => cert' = CertsAfter(r, x) /\ agent' = agent
      /\ r.kind = "intent" => UNCHANGED <<agent, cert>>
  BY <1>1 DEF Serve
<1>4. \A c \in Cert : cert[c] \in Certificates \/ cert[c] = NoCert
  BY DEF TypeOK
<1>5. ASSUME r.kind # "intent"
      PROVE  /\ x.agent \in AgentId
             /\ \A c \in Cert :
                  /\ c = x.cert =>
                       cert'[c] = [agent |-> x.agent, key |-> r.key,
                                   status |-> IF r.kind = "create" THEN "issued" ELSE "active"]
                  /\ c # x.cert /\ cert[c].agent = x.agent =>
                       /\ cert[c] \in Certificates
                       /\ cert'[c].agent = cert[c].agent /\ cert'[c].key = cert[c].key
                       /\ cert'[c].status = CertAfter(r.kind, cert[c].status)
                       /\ cert'[c] \in Certificates
                  /\ c # x.cert /\ cert[c].agent # x.agent => cert'[c] = cert[c]
  <2>1. cert' = CertsAfter(r, x)
    BY <1>3, <1>5 DEF Request, Kind
  <2>2. \A c \in Cert : cert'[c] \in Certificates \/ cert'[c] = NoCert
    BY <1>1, <1>5, <2>1, CertsAfterIs
  <2>3. x.agent \in AgentId
    BY <1>1, <1>5, <2>1, CertsAfterIs
  <2>4. QED
    BY <1>1, <1>5, <2>1, <2>2, <2>3, CertsAfterIs, NothingIsNothing, SdkAssumption
<1>6. ASSUME NEW c \in Cert, cert[c] \in Certificates, cert'[c] \in Certificates,
             cert'[c].agent = cert[c].agent, cert'[c].key = cert[c].key,
             cert'[c].status = cert[c].status
      PROVE  cert'[c] = cert[c]
  BY <1>6 DEF Certificates
<1>7. CASE r.kind = "create"
  <2>1. x.cert \in Cert /\ cert[x.cert] = NoCert /\ x.agent \in AgentId /\ agent[x.agent] = "none"
    BY <1>2, <1>7 DEF NextCert, NextAgent
  <2>2. \A c \in Cert : cert[c].agent # x.agent
    BY <2>1, NothingIsNothing, SdkAssumption DEF ServerInv
  <2>3. QED  BY <1>3, <1>5, <1>7, <2>1, <2>2 DEF AgentAfter
<1>8. CASE r.kind = "activate"
  <2>1. x.agent = r.agent /\ agent[r.agent] = "registered" /\ x.cert \notin Cert
    BY <1>2, <1>8, SdkAssumption DEF Grants
  <2>2. \A s : CertAfter("activate", s) = IF s = "issued" THEN "active" ELSE s
    BY DEF CertAfter
  <2>3. QED  BY <1>3, <1>5, <1>6, <1>8, <2>1, <2>2 DEF AgentAfter
<1>9. CASE r.kind = "rotate"
  <2>1. /\ x.agent = r.agent /\ agent[r.agent] = "active"
        /\ x.cert \in Cert /\ cert[x.cert] = NoCert
    BY <1>2, <1>9 DEF Grants, NextCert
  <2>2. \A s : CertAfter("rotate", s) = IF s = "active" THEN "rotated" ELSE s
    BY DEF CertAfter
  <2>3. \A c \in Cert : cert[c].status = "active" => c # x.cert
    BY <2>1, NothingIsNothing
  <2>4. QED  BY <1>3, <1>5, <1>6, <1>9, <2>1, <2>2, <2>3
<1>10. CASE r.kind = "retire"
  <2>1. /\ x.agent = r.agent /\ agent[r.agent] \in {"registered", "active"} /\ x.cert \notin Cert
    BY <1>2, <1>10, SdkAssumption DEF Grants
  <2>2. \A s : CertAfter("retire", s) = IF s \in {"issued", "active"} THEN "expired" ELSE s
    BY DEF CertAfter
  <2>3. QED  BY <1>3, <1>5, <1>6, <1>10, <2>1, <2>2 DEF AgentAfter, Live
<1>11. CASE r.kind = "intent"
  BY <1>3, <1>11
<1>12. QED  BY <1>7, <1>8, <1>9, <1>10, <1>11 DEF Request, Kind

(* What is on file is truthful.                                            *)
LEMMA OnFileTruthful ==
  ASSUME TypeInv, TruthInv, NEW k, NEW i, OnFile(k, i)
  PROVE  k \in Key /\ i \in Identity /\ Truthful(k, i)
<1>1. CASE k \in DOMAIN file.entries /\ file.entries[k] = i
  BY <1>1, FilesType DEF TypeInv, TruthInv, StoreIsTruthful
<1>2. ASSUME NEW p \in Process, k \in DOMAIN mem[p].data, mem[p].data[k] = i
      PROVE  k \in Key /\ i \in Identity /\ Truthful(k, i)
  <2>1. mem[p].data \in Entries
    BY DEF TypeInv, TypeOK, Objects
  <2>2. QED  BY <1>2, <2>1 DEF Entries, TruthInv
<1>3. QED  BY <1>1, <1>2 DEF OnFile, Stored

(* A granted request keeps the agents and their certificates in step.      *)
LEMMA ServerInvServed ==
  ASSUME TypeOK, ServerInv, NEW r \in Request, Complete(r), NEW x, Serve(r, x)
  PROVE  ServerInv'
<1>1. CASE ~x.ok
  <2>1. UNCHANGED <<agent, cert>>
    BY <1>1 DEF Serve, server
  <2>2. QED  BY <2>1 DEF ServerInv, Live
<1>2. CASE x.ok
  <2>0. /\ \A c \in Cert : cert[c] \in Certificates \/ cert[c] = NoCert
        /\ agent \in [AgentId -> {"none", "registered", "active", "retired"}]
        /\ r.kind # "create" => r.agent \in AgentId
        /\ \A c \in Cert : cert[c] \in Certificates => cert[c].agent \in AgentId
    BY DEF TypeOK, Complete, Certificates
  <2>1. CASE r.kind = "create"
    <3>1. /\ x.cert \in Cert /\ cert[x.cert] = NoCert /\ x.agent \in AgentId
          /\ agent[x.agent] = "none" /\ agent' = [agent EXCEPT ![x.agent] = "registered"]
          /\ cert'[x.cert] = [agent |-> x.agent, key |-> r.key, status |-> "issued"]
          /\ \A c \in Cert \ {x.cert} : cert'[c] = cert[c] /\ cert[c].agent # x.agent
      BY <1>2, <2>1, GrantedIs
    <3>2. QED  BY <2>0, <3>1, NothingIsNothing DEF ServerInv, Live
  <2>2. CASE r.kind = "activate"
    <3>1. /\ agent[r.agent] = "registered" /\ agent' = [agent EXCEPT ![r.agent] = "active"]
          /\ \A c \in Cert : cert[c].agent # r.agent \/ cert[c].status # "issued" =>
               cert'[c] = cert[c]
          /\ \A c \in Cert : cert[c].agent = r.agent /\ cert[c].status = "issued" =>
               /\ cert'[c].agent = cert[c].agent /\ cert'[c].key = cert[c].key
               /\ cert'[c].status = "active"
      BY <1>2, <2>2, GrantedIs
    <3>2. QED  BY <2>0, <2>2, <3>1, NothingIsNothing DEF ServerInv, Live
  <2>3. CASE r.kind = "rotate"
    <3>1. /\ agent[r.agent] = "active" /\ agent' = agent
          /\ x.cert \in Cert /\ cert[x.cert] = NoCert
          /\ cert'[x.cert] = [agent |-> r.agent, key |-> r.key, status |-> "active"]
          /\ \A c \in Cert \ {x.cert} :
               cert[c].agent # r.agent \/ cert[c].status # "active" => cert'[c] = cert[c]
          /\ \A c \in Cert : cert[c].agent = r.agent /\ cert[c].status = "active" =>
               /\ cert'[c].agent = cert[c].agent /\ cert'[c].key = cert[c].key
               /\ cert'[c].status = "rotated"
      BY <1>2, <2>3, GrantedIs
    <3>2. QED  BY <2>0, <2>3, <3>1, NothingIsNothing DEF ServerInv, Live
  <2>4. CASE r.kind = "retire"
    <3>1. /\ agent[r.agent] \in {"registered", "active"}
          /\ agent' = [agent EXCEPT ![r.agent] = "retired"]
          /\ \A c \in Cert : cert[c].agent # r.agent \/ c \notin Live => cert'[c] = cert[c]
          /\ \A c \in Live : cert[c].agent = r.agent =>
               /\ cert'[c].agent = cert[c].agent /\ cert'[c].key = cert[c].key
               /\ cert'[c].status = "expired"
      BY <1>2, <2>4, GrantedIs
    <3>2. QED  BY <2>0, <2>4, <3>1, NothingIsNothing DEF ServerInv, Live
  <2>5. CASE r.kind = "intent"
    <3>1. UNCHANGED <<agent, cert>>
      BY <1>2, <2>5, GrantedIs
    <3>2. QED  BY <3>1 DEF ServerInv, Live
  <2>6. QED  BY <2>1, <2>2, <2>3, <2>4, <2>5 DEF Request, Kind
<1>3. QED  BY <1>1, <1>2

LEMMA ServerInvStep ==
  ASSUME TypeInv, ServerInv, [Next]_vars
  PROVE  ServerInv'
<1>1. CASE UNCHANGED <<agent, cert>>
  BY <1>1 DEF ServerInv, Live
<1>2. ASSUME NEW p \in Process, Answered(p) PROVE ServerInv'
  <2>1. mem[p].request \in Request /\ Complete(mem[p].request)
    BY <1>2 DEF Answered, At, Objects, Coherent, TypeInv, TypeOK, Coherence
  <2>2. PICK x : Serve(mem[p].request, x)
    BY <1>2 DEF Answered
  <2>3. QED  BY <2>1, <2>2, ServerInvServed DEF TypeInv
<1>3. ASSUME NEW r \in late, ServeLate(r) PROVE ServerInv'
  <2>1. r \in Request /\ Complete(r)
    BY DEF TypeInv, TypeOK, Coherence
  <2>2. PICK x : Serve(r, x)
    BY <1>3 DEF ServeLate
  <2>3. QED  BY <2>1, <2>2, ServerInvServed DEF TypeInv
<1>4. ASSUME NEW p \in Process,
             \/ Register(p) \/ RotateKeys(p) \/ Retire(p) \/ \E call \in Call : Authorize(p, call)
             \/ Unanswered(p) \/ ReadFile(p) \/ Truncate(p) \/ Fill(p) \/ Restart(p)
      PROVE  UNCHANGED <<agent, cert>>
  BY <1>4 DEF Register, RotateKeys, Retire, Authorize, Unanswered, ReadFile, Truncate, Fill,
              Restart, InMemory, server
<1>5. CASE UNCHANGED vars
  BY <1>1, <1>5 DEF vars
<1>6. QED  BY <1>1, <1>2, <1>3, <1>4, <1>5 DEF Next

(* A process that neither truncates the file nor has truncated it leaves   *)
(* the store as it is, if it starts to write only when nobody does.        *)
LEMMA StoreStands ==
  ASSUME TypeInv, OneWriter, NEW p \in Process, NEW m \in Objects, Becomes(p, m), UNCHANGED file,
         mem[p].step # "truncated", m.step # "truncated",
         m.step = "read" =>
           /\ \A q \in Process : ~Writing(q)
           /\ m.data = IF m.put # Nothing THEN With(file.entries, m.put, m.identity)
                       ELSE Without(file.entries, m.drop)
  PROVE  OneWriter' /\ \A k, i : Stored(file', mem', k, i) <=> OnFile(k, i)
<1>1. mem'[p] = m /\ \A q \in Process \ {p} : mem'[q] = mem[q]
  BY DEF Becomes, TypeInv, TypeOK
<1>2. \A q \in Process : mem'[q].step = "truncated" <=> mem[q].step = "truncated"
  BY <1>1
<1>3. \A k, i : Stored(file', mem', k, i) <=> OnFile(k, i)
  BY <1>1, <1>2 DEF OnFile, Stored
<1>4. Truncating' <=> Truncating
  BY <1>2 DEF Truncating, At
<1>5. \A q \in Process : Writing(q)' => Writing(q) \/ (q = p /\ m.step = "read")
  BY <1>1 DEF Writing, At
<1>6. \A q, s \in Process : Writing(q)' /\ Writing(s)' => q = s
  BY <1>5 DEF OneWriter
<1>7. \A q \in Process : At(q, "read")' =>
        mem'[q].data = IF mem'[q].put # Nothing THEN With(file'.entries, mem'[q].put, mem'[q].identity)
                       ELSE Without(file'.entries, mem'[q].drop)
  BY <1>1 DEF OneWriter, At
<1>8. QED  BY <1>3, <1>4, <1>6, <1>7 DEF OneWriter

(* Object m may take the place of p's: its keys are p's own or new, and it *)
(* is still to do what p's object was to do to the store.                  *)
Fits(p, m) ==
  /\ \A q \in Process \ {p} : {m.key, m.request.key, m.drop} \cap Own(q) \subseteq {Nothing}
  /\ m.drop # Nothing => m.drop # m.key /\ \E c \in Cert : cert[c].key = m.drop
  /\ m.step = "waiting" /\ m.request.kind = "rotate" => m.request.key # m.key
  /\ PutsYet(mem[p]) => PutsYet(m) /\ m.put = mem[p].put /\ m.identity = mem[p].identity
  /\ DropsYet(mem[p]) => \/ DropsYet(m) /\ m.drop = mem[p].drop
                         \/ \A i : ~OnFile(mem[p].drop, i)
  /\ m.identity # Nothing => OnFile(m.key, m.identity) \/ PutsYet(m)

(* The step changes the certificates S at most.  Those that were live were *)
(* p's own, one that is live then is m's and alone with its key, and m     *)
(* sees to the store entries of those that are active no more.             *)
Recertifies(p, m, S) ==
  /\ \A c \in Cert \ S : cert'[c].status = cert[c].status /\ cert'[c].key = cert[c].key
  /\ \A c \in S : c \in Live => cert[c].key \in Own(p)
  /\ \A c \in S : c \in Live' =>
       /\ cert'[c].key = m.key
       /\ \A d \in Live' : cert'[d].key = m.key => d = c
       /\ \/ PutsYet(m) /\ m.identity.cert = c
          \/ Activates(m) /\ m.made = c
  /\ \A k \in Key, i \in Identity :
       OnFile(k, i) /\ i.status = "active" /\ i.cert \in S /\ cert'[i.cert].status # "active" =>
         (DropsYet(m) /\ m.drop = k) \/ (PutsYet(m) /\ m.put = k)
  /\ Activates(mem[p]) => (Activates(m) /\ m.made = mem[p].made) \/ mem[p].made \in S

(* After the step m is what KeysKept says of an object.                    *)
KeepsKeys(m) ==
  /\ PutsYet(m) =>
       /\ m.identity.status = "active" => cert'[m.identity.cert].status = "active"
       /\ \A c \in Live' : cert'[c].key = m.key => c = m.identity.cert
  /\ DropsYet(m) => \A c \in Live' : cert'[c].key # m.drop
  /\ m.step = "waiting" =>
       /\ m.request.kind \in {"create", "rotate"} => \A c \in Live' : cert'[c].key # m.request.key
       /\ m.request.kind \in {"create", "activate"} => m.identity = Nothing
       /\ m.request.kind = "activate" => cert'[m.made].status = "issued"

(* An object that fits, and answers for the certificates that change,      *)
(* keeps every identity.                                                   *)
LEMMA KeptGoesOn ==
  ASSUME TypeInv, TypeInv', TruthInv, KeptInv, [Next]_vars,
         NEW p \in Process, NEW m \in Objects, Becomes(p, m),
         OneWriter', \A k, i : Stored(file', mem', k, i) <=> OnFile(k, i),
         Fits(p, m), NEW S \in SUBSET Cert, Recertifies(p, m, S), KeepsKeys(m)
  PROVE  KeptInv'
<1>0. /\ mem'[p] = m /\ \A q \in Process \ {p} : mem'[q] = mem[q]
      /\ \A q \in Process : mem[q] \in Objects /\ Coherent(mem[q])
      /\ KeysApart /\ OneWriter /\ LiveKept /\ EntriesKept /\ IdentitiesKept /\ KeysKept
  BY DEF Becomes, TypeInv, TypeOK, Coherence, KeptInv
<1>1. /\ \A c \in Live : c \in Cert /\ cert[c].key \in Key
      /\ \A c \in Live' : c \in Cert /\ cert'[c].key \in Key
  BY NothingIsNothing DEF Live, TypeInv, TypeOK, Certificates
<1>2. \A c \in Cert \ S : /\ cert'[c].status = cert[c].status /\ cert'[c].key = cert[c].key
                          /\ c \in Live' <=> c \in Live
  BY DEF Recertifies, Live
<1>a. \A c \in S : c \in Live' =>
        (PutsYet(m) /\ m.identity.cert = c) \/ (Activates(m) /\ m.made = c)
  BY DEF Recertifies
<1>3. \A q \in Process \ {p} : \A k \in Own(q) :
        k \notin Own(p) /\ k # m.key /\ k # m.request.key /\ k # m.drop
  BY <1>0 DEF Fits, KeysApart, Own
<1>4. ASSUME NEW q \in Process
      PROVE  /\ Configured[q] # Nothing => Configured[q] \in Own(q)
             /\ mem[q].key # Nothing => mem[q].key \in Own(q)
             /\ mem[q].request.key # Nothing => mem[q].request.key \in Own(q)
             /\ mem[q].drop # Nothing => mem[q].drop \in Own(q)
             /\ mem[q].identity # Nothing =>
                  /\ mem[q].key \in Own(q) /\ mem[q].identity.cert \in Cert
                  /\ cert[mem[q].identity.cert].key = mem[q].key
             /\ PutsYet(mem[q]) => mem[q].identity # Nothing /\ mem[q].put = mem[q].key
  <2>1. /\ Configured[q] # Nothing => Configured[q] \in Own(q)
        /\ mem[q].key # Nothing => mem[q].key \in Own(q)
        /\ mem[q].request.key # Nothing => mem[q].request.key \in Own(q)
        /\ mem[q].drop # Nothing => mem[q].drop \in Own(q)
    BY DEF Own
  <2>2. PutsYet(mem[q]) => mem[q].identity # Nothing /\ mem[q].put = mem[q].key
    BY <1>0 DEF PutsYet, Coherent
  <2>3. mem[q].identity # Nothing =>
          /\ mem[q].key \in Key /\ mem[q].identity \in Identity
          /\ cert[mem[q].identity.cert].key = mem[q].key
    BY <1>0 DEF Coherent, Objects, TruthInv, StoreIsTruthful, Truthful
  <2>4. QED  BY <2>1, <2>2, <2>3, SdkAssumption DEF Identity
<1>5. KeysApart'
  <2>1. Own(p)' = {Configured[p], m.key, m.request.key, m.drop} \ {Nothing}
        /\ \A q \in Process \ {p} : Own(q)' = Own(q)
    BY <1>0 DEF Own
  <2>2. ASSUME NEW q \in Process, q # p PROVE Own(p)' \cap Own(q)' = {}
    BY <1>3, <1>4, <2>1, <2>2
  <2>3. \A q, s \in Process : q # s => Own(q)' \cap Own(s)' = {}
    BY <1>0, <2>1, <2>2 DEF KeysApart
  <2>4. ASSUME NEW q \in Process, mem'[q].drop # Nothing
        PROVE  mem'[q].drop # mem'[q].key /\ \E c \in Cert : cert'[c].key = mem'[q].drop
    <3>1. mem'[q].drop # mem'[q].key /\ \E c \in Cert : cert[c].key = mem'[q].drop
      BY <1>0, <2>4 DEF Fits, KeysApart
    <3>2. PICK c \in Cert : cert[c].key = mem'[q].drop
      BY <3>1
    <3>3. cert'[c].key = cert[c].key
      BY <2>4, <3>2, TruthStands, NothingIsNothing
    <3>4. QED  BY <3>1, <3>2, <3>3
  <2>5. \A q \in Process : mem'[q].step = "waiting" /\ mem'[q].request.kind = "rotate" =>
          mem'[q].request.key # mem'[q].key
    BY <1>0 DEF Fits, KeysApart, At
  <2>6. QED  BY <2>3, <2>4, <2>5 DEF KeysApart, At
<1>6. LiveKept'
  <2> SUFFICES ASSUME NEW c \in Live'
               PROVE  \/ \E i \in Identity : Stored(file', mem', cert'[c].key, i) /\ i.cert = c
                      \/ \E q \in Process : PutsYet(mem'[q]) /\ mem'[q].identity.cert = c
                      \/ \E q \in Process : Activates(mem'[q]) /\ mem'[q].made = c
    BY DEF LiveKept, OnFile
  <2>1. CASE c \in S
    <3>1. (PutsYet(m) /\ m.identity.cert = c) \/ (Activates(m) /\ m.made = c)
      BY <1>a, <2>1
    <3>2. mem'[p] = m
      BY <1>0
    <3>3. QED  BY <3>1, <3>2
  <2>2. CASE c \notin S
    <3>0. c \in Cert \ S
      BY <1>1, <2>2
    <3>1. c \in Live /\ cert'[c].key = cert[c].key
      BY <1>2, <3>0
    <3>2. CASE \E i \in Identity : OnFile(cert[c].key, i) /\ i.cert = c
      <4>1. PICK i \in Identity : OnFile(cert[c].key, i) /\ i.cert = c
        BY <3>2
      <4>2. Stored(file', mem', cert'[c].key, i)
        BY <3>1, <4>1
      <4>3. QED  BY <4>1, <4>2
    <3>3. ASSUME NEW q \in Process, PutsYet(mem[q]), mem[q].identity.cert = c
          PROVE  PutsYet(mem'[q]) /\ mem'[q].identity.cert = c
      BY <1>0, <3>3 DEF Fits
    <3>4. ASSUME NEW q \in Process, Activates(mem[q]), mem[q].made = c
          PROVE  Activates(mem'[q]) /\ mem'[q].made = c
      BY <1>0, <2>2, <3>4 DEF Recertifies
    <3>5. QED  BY <1>0, <3>1, <3>2, <3>3, <3>4 DEF LiveKept
  <2>3. QED  BY <2>1, <2>2
<1>7. EntriesKept'
  <2> SUFFICES ASSUME NEW k \in Key, NEW i \in Identity, Stored(file', mem', k, i),
                      i.status = "active"
               PROVE  \/ cert'[i.cert].status = "active"
                      \/ \E q \in Process : DropsYet(mem'[q]) /\ mem'[q].drop = k
                      \/ \E q \in Process : PutsYet(mem'[q]) /\ mem'[q].put = k
    BY DEF EntriesKept, OnFile
  <2>1. OnFile(k, i) /\ i.cert \in Cert
    BY DEF Identity
  <2>2. CASE cert[i.cert].status = "active"
    BY <1>0, <1>2, <2>1, <2>2 DEF Recertifies
  <2>3. ASSUME NEW q \in Process, DropsYet(mem[q]), mem[q].drop = k
        PROVE  DropsYet(mem'[q]) /\ mem'[q].drop = k
    BY <1>0, <2>1, <2>3 DEF Fits
  <2>4. ASSUME NEW q \in Process, PutsYet(mem[q]), mem[q].put = k
        PROVE  PutsYet(mem'[q]) /\ mem'[q].put = k
    BY <1>0, <2>4 DEF Fits
  <2>5. QED  BY <1>0, <2>1, <2>2, <2>3, <2>4 DEF EntriesKept
<1>8. IdentitiesKept'
  <2>1. ASSUME NEW q \in Process, mem'[q].identity # Nothing
        PROVE  Stored(file', mem', mem'[q].key, mem'[q].identity) \/ PutsYet(mem'[q])
    BY <1>0, <2>1 DEF Fits, IdentitiesKept
  <2>2. QED  BY <2>1 DEF IdentitiesKept, OnFile
<1>9. KeysKept'
  <2>1. ASSUME NEW c \in Live', NEW d \in Live', cert'[c].key = cert'[d].key PROVE c = d
    <3>1. CASE c \in S \/ d \in S
      BY <2>1, <3>1 DEF Recertifies
    <3>2. CASE c \notin S /\ d \notin S
      <4>0. c \in Cert \ S /\ d \in Cert \ S
        BY <1>1, <3>2
      <4>1. c \in Live /\ d \in Live /\ cert[c].key = cert[d].key
        BY <1>2, <2>1, <4>0
      <4>2. \A a, b \in Live : cert[a].key = cert[b].key => a = b
        BY <1>0 DEF KeysKept
      <4>3. QED  BY <4>1, <4>2
    <3>3. QED  BY <3>1, <3>2
  <2>2. ASSUME NEW q \in Process, q # p, NEW c \in Cert, cert[c].key \in Own(q), c \in Live
        PROVE  c \notin S
    BY <1>3, <2>2 DEF Recertifies
  <2>3. ASSUME NEW q \in Process, q # p, NEW c \in Live', cert'[c].key \in Own(q)
        PROVE  c \notin S /\ c \in Live /\ cert[c].key = cert'[c].key
    BY <1>1, <1>2, <1>3, <2>3 DEF Recertifies
  <2>4. ASSUME NEW q \in Process, q # p
        PROVE  /\ PutsYet(mem[q]) =>
                    /\ mem[q].identity.status = "active" => cert'[mem[q].identity.cert].status = "active"
                    /\ \A c \in Live' : cert'[c].key = mem[q].key => c = mem[q].identity.cert
               /\ DropsYet(mem[q]) => \A c \in Live' : cert'[c].key # mem[q].drop
               /\ mem[q].step = "waiting" =>
                    /\ mem[q].request.kind \in {"create", "rotate"} =>
                         \A c \in Live' : cert'[c].key # mem[q].request.key
                    /\ mem[q].request.kind \in {"create", "activate"} => mem[q].identity = Nothing
                    /\ mem[q].request.kind = "activate" => cert'[mem[q].made].status = "issued"
    <3>1. PutsYet(mem[q]) /\ mem[q].identity.status = "active" =>
            cert'[mem[q].identity.cert].status = "active"
      BY <1>0, <1>2, <1>4, <2>2, <2>4 DEF KeysKept, Live
    <3>2. PutsYet(mem[q]) =>
            \A c \in Live' : cert'[c].key = mem[q].key => c = mem[q].identity.cert
      BY <1>0, <1>4, <2>3, <2>4 DEF KeysKept
    <3>3. DropsYet(mem[q]) => \A c \in Live' : cert'[c].key # mem[q].drop
      <4>1. DropsYet(mem[q]) => mem[q].drop \in Own(q)
        BY <1>4 DEF DropsYet
      <4>2. QED  BY <1>0, <2>3, <2>4, <4>1 DEF KeysKept
    <3>4. mem[q].step = "waiting" /\ mem[q].request.kind \in {"create", "rotate"} =>
            \A c \in Live' : cert'[c].key # mem[q].request.key
      <4>1. mem[q].step = "waiting" /\ mem[q].request.kind \in {"create", "rotate"} =>
              mem[q].request.key \in Own(q)
        BY <1>0, <1>4, SdkAssumption DEF Coherent, Complete
      <4>2. QED  BY <1>0, <2>3, <2>4, <4>1 DEF KeysKept
    <3>5. mem[q].step = "waiting" /\ mem[q].request.kind = "activate" =>
            cert'[mem[q].made].status = "issued"
      <4> SUFFICES ASSUME mem[q].step = "waiting", mem[q].request.kind = "activate"
                   PROVE  cert'[mem[q].made].status = "issued"
        OBVIOUS
      <4>1. /\ mem[q].made \in Cert /\ cert[mem[q].made].status = "issued"
            /\ cert[mem[q].made].key = mem[q].key /\ mem[q].key \in Own(q)
        BY <1>0, <1>4, SdkAssumption DEF Coherent, KeysKept, TruthInv, At
      <4>2. mem[q].made \notin S
        BY <2>2, <2>4, <4>1 DEF Live
      <4>3. cert'[mem[q].made].status = cert[mem[q].made].status
        BY <4>1, <4>2 DEF Recertifies
      <4>4. QED  BY <4>1, <4>3
    <3>6. mem[q].step = "waiting" /\ mem[q].request.kind \in {"create", "activate"} =>
            mem[q].identity = Nothing
      BY <1>0 DEF KeysKept
    <3>7. QED  BY <3>1, <3>2, <3>3, <3>4, <3>5, <3>6
  <2>5. QED  BY <1>0, <2>1, <2>4 DEF KeysKept, KeepsKeys
<1>10. QED  BY <1>5, <1>6, <1>7, <1>8, <1>9 DEF KeptInv

(* What holds of the object of a process.                                  *)
LEMMA ObjectIs ==
  ASSUME TypeInv, TruthInv, KeptInv, NEW p \in Process
  PROVE  /\ mem[p] \in Objects /\ Coherent(mem[p])
         /\ \A k \in {mem[p].key, mem[p].request.key, mem[p].drop} : k # Nothing => k \in Own(p)
         /\ \A q \in Process \ {p} : Own(p) \cap Own(q) = {}
         /\ mem[p].identity # Nothing =>
              /\ mem[p].key \in Key /\ mem[p].identity \in Identity
              /\ mem[p].identity.cert \in Cert
              /\ cert[mem[p].identity.cert].key = mem[p].key
              /\ cert[mem[p].identity.cert].agent = mem[p].identity.agent
         /\ mem[p].step \in {"idle", "waiting"} =>
              /\ mem[p].put = Nothing /\ mem[p].drop = Nothing
              /\ ~PutsYet(mem[p]) /\ ~DropsYet(mem[p])
              /\ mem[p].identity # Nothing => OnFile(mem[p].key, mem[p].identity)
<1>1. mem[p] \in Objects /\ Coherent(mem[p])
  BY DEF TypeInv, TypeOK, Coherence
<1>2. /\ \A k \in {mem[p].key, mem[p].request.key, mem[p].drop} : k # Nothing => k \in Own(p)
      /\ \A q \in Process \ {p} : Own(p) \cap Own(q) = {}
  BY DEF Own, KeptInv, KeysApart
<1>3. mem[p].identity # Nothing =>
        /\ mem[p].key \in Key /\ mem[p].identity \in Identity
        /\ mem[p].identity.cert \in Cert
        /\ cert[mem[p].identity.cert].key = mem[p].key
        /\ cert[mem[p].identity.cert].agent = mem[p].identity.agent
  BY <1>1 DEF Coherent, Objects, Identity, TruthInv, StoreIsTruthful, Truthful
<1>4. mem[p].step \in {"idle", "waiting"} =>
        /\ mem[p].put = Nothing /\ mem[p].drop = Nothing
        /\ ~PutsYet(mem[p]) /\ ~DropsYet(mem[p])
        /\ mem[p].identity # Nothing => OnFile(mem[p].key, mem[p].identity)
  BY <1>1 DEF Coherent, PutsYet, DropsYet, KeptInv, IdentitiesKept
<1>5. QED  BY <1>1, <1>2, <1>3, <1>4

(* A key not seen anywhere is no process's and in no certificate.          *)
LEMMA UnusedIsNew ==
  ASSUME TypeInv, KeptInv, NEW k \in Unused
  PROVE  k \in Key /\ (\A q \in Process : k \notin Own(q)) /\ \A c \in Cert : cert[c].key # k
<1>1. \A c \in Cert : cert[c].key # k
  BY DEF Unused
<1>2. \A q \in Process : mem[q].drop # Nothing => mem[q].drop # k
  BY <1>1 DEF KeptInv, KeysApart
<1>3. QED  BY <1>1, <1>2 DEF Unused, Own

(* An object whose call begins, goes on or ends without a word to the      *)
(* store fits.                                                             *)
LEMMA FitsIdle ==
  ASSUME TypeInv, TruthInv, KeptInv, NEW p \in Process, NEW m \in Objects,
         mem[p].step \in {"idle", "waiting"}, m.drop = Nothing,
         \A k \in {m.key, m.request.key} : k # Nothing => k \in Own(p) \/ k \in Unused,
         m.step = "waiting" /\ m.request.kind = "rotate" => m.request.key # m.key,
         m.identity # Nothing => OnFile(m.key, m.identity) \/ PutsYet(m)
  PROVE  Fits(p, m)
<1>1. ASSUME NEW q \in Process \ {p}, NEW k \in {m.key, m.request.key, m.drop} \cap Own(q)
      PROVE  k = Nothing
  BY <1>1, ObjectIs, UnusedIsNew
<1>2. QED  BY <1>1, ObjectIs DEF Fits

(* A step that leaves certificates and file alone.                         *)
LEMMA KeptInMemory ==
  ASSUME TypeInv, TypeInv', TruthInv, KeptInv, [Next]_vars,
         NEW p \in Process, NEW m \in Objects, Becomes(p, m), UNCHANGED <<cert, file>>,
         mem[p].step # "truncated", m.step # "truncated",
         m.step = "read" =>
           /\ \A q \in Process : ~Writing(q)
           /\ m.data = IF m.put # Nothing THEN With(file.entries, m.put, m.identity)
                       ELSE Without(file.entries, m.drop),
         Fits(p, m), KeepsKeys(m),
         Activates(mem[p]) => Activates(m) /\ m.made = mem[p].made
  PROVE  KeptInv'
<1>1. OneWriter' /\ \A k, i : Stored(file', mem', k, i) <=> OnFile(k, i)
  BY StoreStands DEF KeptInv
<1>2. Recertifies(p, m, {})
  BY DEF Recertifies
<1>3. QED  BY <1>1, <1>2, KeptGoesOn

(* What is in the file is on file, and the file is read as it is, unless   *)
(* somebody has truncated it.                                              *)
LEMMA FileIsRead ==
  ASSUME OneWriter
  PROVE  /\ \A k \in DOMAIN file.entries : OnFile(k, file.entries[k])
         /\ file.form # "truncated" =>
              \A k, i : OnFile(k, i) => k \in DOMAIN file.entries /\ file.entries[k] = i
<1>1. CASE Truncating
  BY <1>1, NothingIsNothing DEF OneWriter, Unreadable
<1>2. CASE ~Truncating
  BY <1>2 DEF Truncating, At, OnFile, Stored
<1>3. QED  BY <1>1, <1>2

(* Between calls, and during one: the only live certificate of a key that  *)
(* is not on file is that of a process which has the key.                  *)
LEMMA LiveIsHeld ==
  ASSUME TypeInv, TruthInv, KeptInv, NEW c \in Live
  PROVE  \/ \E i \in Identity : OnFile(cert[c].key, i) /\ i.cert = c
         \/ \E q \in Process : /\ PutsYet(mem[q]) \/ Activates(mem[q])
                               /\ mem[q].key = cert[c].key /\ mem[q].key # Nothing
<1>1. CASE \E i \in Identity : OnFile(cert[c].key, i) /\ i.cert = c
  BY <1>1
<1>2. ASSUME NEW q \in Process, PutsYet(mem[q]), mem[q].identity.cert = c
      PROVE  mem[q].key = cert[c].key /\ mem[q].key # Nothing
  <2>1. mem[q].identity # Nothing
    BY <1>2, ObjectIs DEF PutsYet, Coherent
  <2>2. QED  BY <1>2, <2>1, ObjectIs, SdkAssumption
<1>3. ASSUME NEW q \in Process, Activates(mem[q]), mem[q].made = c
      PROVE  mem[q].key = cert[c].key /\ mem[q].key # Nothing
  <2>1. mem[q].key \in Key
    BY <1>3, ObjectIs DEF Activates, Coherent
  <2>2. QED  BY <1>3, <2>1, SdkAssumption DEF TruthInv, Activates, At
<1>4. QED  BY <1>1, <1>2, <1>3 DEF KeptInv, LiveKept

(* A call that ends, or a process that comes up, with identity i.          *)
LEMMA KeptByObject ==
  ASSUME TypeInv, TypeInv', TruthInv, KeptInv, [Next]_vars, NEW p \in Process,
         NEW k \in Key \cup {Nothing}, NEW i \in Identity \cup {Nothing},
         i # Nothing => k \in Key /\ OnFile(k, i),
         Becomes(p, Object(k, i)), UNCHANGED <<cert, file>>,
         mem[p].step \in {"idle", "waiting"}, ~Activates(mem[p]),
         k # Nothing => k \in Own(p) \/ k \in Unused
  PROVE  KeptInv'
<1> DEFINE m == Object(k, i)
<1>1. m \in Objects
  BY ObjectType
<1>2. /\ m.key = k /\ m.identity = i /\ m.step = "idle" /\ m.request.key = Nothing
      /\ m.put = Nothing /\ m.drop = Nothing
  BY DEF Object, NoRequest
<1>3. Becomes(p, m)
  OBVIOUS
<1> HIDE DEF m
<1>4. Fits(p, m)
  BY <1>1, <1>2, FitsIdle
<1>5. KeepsKeys(m)
  BY <1>2 DEF KeepsKeys, PutsYet, DropsYet
<1>6. QED  BY <1>1, <1>2, <1>3, <1>4, <1>5, KeptInMemory

(* A call that begins with request r, by the identity the object has.      *)
LEMMA KeptByCall ==
  ASSUME TypeInv, TypeInv', TruthInv, KeptInv, [Next]_vars, NEW p \in Process,
         NEW r \in Request, Complete(r), mem[p].step = "idle", mem[p].identity # Nothing,
         r.kind \in {"rotate", "retire", "intent"},
         r.kind = "rotate" => r.key \in Unused,
         r.kind # "rotate" => r.key \in {Nothing, mem[p].key},
         r.kind # "intent" => r.agent = mem[p].identity.agent,
         Becomes(p, Sends(mem[p], r)), UNCHANGED <<cert, file>>
  PROVE  KeptInv'
<1> DEFINE m == Sends(mem[p], r)
<1>1. mem[p] \in Objects /\ Coherent(mem[p]) /\ mem[p].put = Nothing /\ mem[p].drop = Nothing
      /\ OnFile(mem[p].key, mem[p].identity) /\ mem[p].key \in Own(p)
  BY ObjectIs, SdkAssumption
<1>2. /\ m \in Objects /\ m.step = "waiting" /\ m.request = r /\ m.key = mem[p].key
      /\ m.identity = mem[p].identity /\ m.put = Nothing /\ m.drop = Nothing
  BY <1>1, SendsType
<1>3. Becomes(p, m)
  OBVIOUS
<1> HIDE DEF m
<1>4. r.kind = "rotate" => r.key \notin Own(p) /\ \A c \in Cert : cert[c].key # r.key
  BY UnusedIsNew
<1>5. Fits(p, m)
  BY <1>1, <1>2, <1>4, FitsIdle
<1>6. KeepsKeys(m)
  BY <1>2, <1>4 DEF KeepsKeys, PutsYet, DropsYet, Live
<1>7. ~Activates(mem[p])
  BY DEF Activates
<1>8. QED  BY <1>2, <1>3, <1>5, <1>6, <1>7, KeptInMemory

(* register() finds the identity on file, or sends the first request.      *)
LEMMA KeptByRegister ==
  ASSUME TypeInv, TypeInv', TruthInv, KeptInv, [Next]_vars, ~mishap',
         NEW p \in Process, Register(p)
  PROVE  KeptInv'
<1>1. PICK k \in (IF mem[p].key = Nothing THEN Unused ELSE {mem[p].key}) :
        \/ /\ k \in DOMAIN file.entries
           /\ Becomes(p, Object(k, file.entries[k]))
        \/ /\ k \notin DOMAIN file.entries
           /\ Becomes(p, Sends([mem[p] EXCEPT !.key = k], [NoRequest EXCEPT !.key = k]))
           /\ mishap' = (mishap \/ file.form = "truncated")
  BY DEF Register
<1>2. /\ mem[p].step = "idle" /\ UNCHANGED <<cert, file>> /\ ~Activates(mem[p])
      /\ mem[p] \in Objects /\ Coherent(mem[p])
      /\ OneWriter /\ TypeOK
  BY ObjectIs DEF Register, At, server, Activates, KeptInv, TypeInv
<1>3. k \in Key /\ (k \in Own(p) \/ k \in Unused)
  BY <1>1, <1>2, ObjectIs DEF Unused, Objects
<1>4. CASE k \in DOMAIN file.entries /\ Becomes(p, Object(k, file.entries[k]))
  <2>1. file.entries[k] \in Identity /\ OnFile(k, file.entries[k])
    BY <1>2, <1>4, FilesType, FileIsRead
  <2>2. QED  BY <1>2, <1>3, <1>4, <2>1, KeptByObject
<1>5. CASE /\ k \notin DOMAIN file.entries
           /\ Becomes(p, Sends([mem[p] EXCEPT !.key = k], [NoRequest EXCEPT !.key = k]))
           /\ mishap' = (mishap \/ file.form = "truncated")
  <2> DEFINE n == [mem[p] EXCEPT !.key = k]
             r == [NoRequest EXCEPT !.key = k]
             m == Sends(n, r)
  <2>1. r \in Request /\ r.kind = "create" /\ r.key = k
    BY <1>3 DEF NoRequest, Request, Kind
  <2>2. /\ n \in Objects /\ n.key = k /\ n.step = "idle" /\ n.put = mem[p].put
        /\ n.drop = mem[p].drop /\ n.identity = mem[p].identity
    BY <1>2, <1>3 DEF Objects
  <2>3. Becomes(p, m)
    BY <1>5
  <2> HIDE DEF n, r
  <2>4. Coherent(n) /\ Complete(r) /\ n.put = Nothing /\ n.drop = Nothing
    BY <1>2, <1>3, <2>1, <2>2 DEF Coherent, Complete
  <2>5. /\ m \in Objects /\ m.step = "waiting" /\ m.request = r /\ m.key = k
        /\ m.identity = mem[p].identity /\ m.put = Nothing /\ m.drop = Nothing
    BY <1>3, <2>1, <2>2, <2>4, SendsType
  <2> HIDE DEF m
  <2>6. \A i : ~OnFile(k, i)
    BY <1>2, <1>5, FileIsRead
  <2>7. mem[p].identity = Nothing
    <3> SUFFICES ASSUME mem[p].identity # Nothing PROVE FALSE
      OBVIOUS
    <3>1. mem[p].key \in Key /\ OnFile(mem[p].key, mem[p].identity)
      BY <1>2, ObjectIs
    <3>2. k = mem[p].key
      BY <1>1, <3>1, SdkAssumption
    <3>3. QED  BY <2>6, <3>1, <3>2
  <2>8. ASSUME NEW c \in Live PROVE cert[c].key # k
    <3> SUFFICES ASSUME cert[c].key = k PROVE FALSE
      OBVIOUS
    <3>1. PICK q \in Process : /\ PutsYet(mem[q]) \/ Activates(mem[q])
                               /\ mem[q].key = k /\ k # Nothing
      BY <2>6, LiveIsHeld
    <3>2. k \in Own(q)
      BY <3>1, ObjectIs
    <3>3. q # p
      BY <1>2, <3>1, ObjectIs
    <3>4. QED  BY <1>3, <3>2, <3>3, ObjectIs, UnusedIsNew
  <2>9. Fits(p, m)
    BY <1>2, <1>3, <2>1, <2>5, <2>7, FitsIdle
  <2>10. KeepsKeys(m)
    BY <1>2, <2>1, <2>5, <2>7, <2>8 DEF KeepsKeys, PutsYet, DropsYet, Live
  <2>11. QED  BY <1>2, <2>3, <2>5, <2>9, <2>10, KeptInMemory
<1>6. QED  BY <1>1, <1>4, <1>5

(* rotate_keys(), retire() and authorize() send their first request.       *)
LEMMA KeptByFirstRequest ==
  ASSUME TypeInv, TypeInv', TruthInv, KeptInv, [Next]_vars, NEW p \in Process,
         RotateKeys(p) \/ Retire(p) \/ \E call \in Call : Authorize(p, call)
  PROVE  KeptInv'
<1>1. /\ mem[p].step = "idle" /\ mem[p].identity # Nothing /\ UNCHANGED <<cert, file>>
      /\ mem[p].identity.agent \in AgentId /\ mem[p].identity.cert \in Cert /\ mem[p].key \in Key
  BY ObjectIs DEF RotateKeys, Retire, Authorize, At, InMemory, server, Identity
<1>2. CASE RotateKeys(p)
  <2>1. PICK k \in Unused :
          Becomes(p, Sends(mem[p], [NoRequest EXCEPT !.kind = "rotate", !.key = k,
                                                     !.agent = mem[p].identity.agent]))
    BY <1>2 DEF RotateKeys
  <2> DEFINE r == [NoRequest EXCEPT !.kind = "rotate", !.key = k, !.agent = mem[p].identity.agent]
  <2>2. k \in Key
    BY DEF Unused
  <2>3. r \in Request /\ r.kind = "rotate" /\ r.key = k /\ r.agent = mem[p].identity.agent
    BY <1>1, <2>2 DEF NoRequest, Request, Kind
  <2>4. Becomes(p, Sends(mem[p], r))
    BY <2>1
  <2> HIDE DEF r
  <2>5. Complete(r)
    BY <1>1, <2>2, <2>3 DEF Complete
  <2>6. QED  BY <1>1, <2>3, <2>4, <2>5, KeptByCall
<1>3. CASE Retire(p)
  <2> DEFINE r == [NoRequest EXCEPT !.kind = "retire", !.agent = mem[p].identity.agent]
  <2>1. Becomes(p, Sends(mem[p], r))
    BY <1>3 DEF Retire
  <2>2. /\ r \in Request /\ r.kind = "retire" /\ r.agent = mem[p].identity.agent
        /\ r.key = Nothing
    BY <1>1 DEF NoRequest, Request, Kind
  <2> HIDE DEF r
  <2>3. Complete(r)
    BY <1>1, <2>2 DEF Complete
  <2>4. QED  BY <1>1, <2>1, <2>2, <2>3, KeptByCall
<1>4. ASSUME NEW call \in Call, Authorize(p, call) PROVE KeptInv'
  <2> DEFINE r == [kind |-> "intent", agent |-> mem[p].identity.agent,
                   cert |-> mem[p].identity.cert, key |-> mem[p].key,
                   call |-> call, nonce |-> NonceOf(call, 0)]
  <2>1. Becomes(p, Sends(mem[p], r))
    BY <1>4 DEF Authorize
  <2>2. r \in Request /\ r.kind = "intent" /\ r.key = mem[p].key /\ Complete(r)
    BY <1>1 DEF Request, Kind, NonceOf, Complete
  <2> HIDE DEF r
  <2>3. QED  BY <1>1, <2>1, <2>2, KeptByCall
<1>5. QED  BY <1>2, <1>3, <1>4

(* A call that ends without success, or is told of an intent.              *)
LEMMA KeptByEnd ==
  ASSUME TypeInv, TypeInv', TruthInv, KeptInv, [Next]_vars, NEW p \in Process,
         mem[p].step \in {"idle", "waiting"}, ~Activates(mem[p]),
         Becomes(p, Ended(mem[p])), UNCHANGED <<cert, file>>
  PROVE  KeptInv'
<1>1. /\ mem[p].key \in Key \cup {Nothing} /\ mem[p].identity \in Identity \cup {Nothing}
      /\ mem[p].identity # Nothing => mem[p].key \in Key /\ OnFile(mem[p].key, mem[p].identity)
      /\ mem[p].key # Nothing => mem[p].key \in Own(p)
  BY ObjectIs DEF Objects
<1>2. Becomes(p, Object(mem[p].key, mem[p].identity))
  BY DEF Ended
<1>3. QED  BY <1>1, <1>2, KeptByObject

LEMMA KeptByUnanswered ==
  ASSUME TypeInv, TypeInv', TruthInv, KeptInv, [Next]_vars, ~mishap',
         NEW p \in Process, Unanswered(p)
  PROVE  KeptInv'
<1>1. /\ mem[p].step = "waiting" /\ UNCHANGED <<cert, file>>
      /\ mem[p] \in Objects /\ Coherent(mem[p]) /\ mem[p].put = Nothing /\ mem[p].drop = Nothing
      /\ mem[p].identity # Nothing => OnFile(mem[p].key, mem[p].identity)
      /\ \A k \in {mem[p].key, mem[p].request.key} : k # Nothing => k \in Own(p)
  BY ObjectIs DEF Unanswered, At, server
<1>2. CASE mem[p].attempt < MaxRetries /\ Becomes(p, Again(mem[p]))
  <2> DEFINE m == Again(mem[p])
  <2>1. /\ m \in Objects /\ m.step = "waiting" /\ m.key = mem[p].key
        /\ m.identity = mem[p].identity /\ m.made = mem[p].made
        /\ m.put = mem[p].put /\ m.drop = mem[p].drop
        /\ m.request.kind = mem[p].request.kind /\ m.request.key = mem[p].request.key
    BY <1>1, <1>2, AgainType
  <2>2. Becomes(p, m)
    BY <1>2
  <2> HIDE DEF m
  <2>3. m.request.kind = "rotate" => m.request.key # m.key
    BY <1>1, <2>1 DEF KeptInv, KeysApart, At
  <2>4. Fits(p, m)
    BY <1>1, <2>1, <2>3, FitsIdle
  <2>5. KeepsKeys(m)
    BY <1>1, <2>1 DEF KeptInv, KeysKept, KeepsKeys, PutsYet, DropsYet, Live
  <2>6. Activates(mem[p]) => Activates(m) /\ m.made = mem[p].made
    BY <2>1 DEF Activates
  <2>7. QED  BY <1>1, <2>1, <2>2, <2>4, <2>5, <2>6, KeptInMemory
<1>3. CASE Becomes(p, Ended(mem[p])) /\ mishap' = (mishap \/ mem[p].request.kind = "activate")
  BY <1>1, <1>3, KeptByEnd DEF Activates
<1>4. QED  BY <1>2, <1>3 DEF Unanswered, Again

(* A process that is started again between calls reads what is on file.    *)
LEMMA KeptByRestart ==
  ASSUME TypeInv, TypeInv', TruthInv, KeptInv, [Next]_vars, ~mishap',
         NEW p \in Process, Restart(p)
  PROVE  KeptInv'
<1> DEFINE k == Configured[p]
<1>1. Becomes(p, Object(k, IF k \in DOMAIN file.entries THEN file.entries[k] ELSE Nothing))
  BY DEF Restart
<1> DEFINE i == IF k \in DOMAIN file.entries THEN file.entries[k] ELSE Nothing
<1>2. mem[p].step = "idle" /\ UNCHANGED <<cert, file>> /\ ~Activates(mem[p])
  BY DEF Restart, At, server, Activates
<1>3. k \in Key \cup {Nothing} /\ (k # Nothing => k \in Own(p))
  BY ObjectIs, SdkAssumption DEF Objects, Own
<1>4. i \in Identity \cup {Nothing} /\ (i # Nothing => k \in Key /\ OnFile(k, i))
  BY FilesType, FileIsRead DEF TypeInv, KeptInv
<1>5. Becomes(p, Object(k, i))
  BY <1>1
<1> HIDE DEF i
<1>6. QED  BY <1>2, <1>3, <1>4, <1>5, KeptByObject

(* The same identity and keys, at a step of the store's: what fits then.   *)
LEMMA KeptAtStore ==
  ASSUME TypeInv, TruthInv, KeptInv, NEW p \in Process, NEW m \in Objects,
         mem[p].step \in {"saving", "read", "truncated"}, mem[p].request.key = m.request.key \/ m.request.key = Nothing,
         m.key = mem[p].key, m.identity = mem[p].identity, m.drop \in {mem[p].drop, Nothing},
         m.step \in {"idle", "saving", "read", "truncated"},
         PutsYet(mem[p]) => PutsYet(m) /\ m.put = mem[p].put,
         DropsYet(mem[p]) => \/ DropsYet(m) /\ m.drop = mem[p].drop
                             \/ \A i : ~OnFile(mem[p].drop, i),
         PutsYet(m) => PutsYet(mem[p]),
         DropsYet(m) => DropsYet(mem[p]),
         UNCHANGED cert
  PROVE  Fits(p, m) /\ KeepsKeys(m)
<1>1. ASSUME NEW q \in Process \ {p}, NEW k \in {m.key, m.request.key, m.drop} \cap Own(q)
      PROVE  k = Nothing
  BY <1>1, ObjectIs
<1>2. m.drop # Nothing => m.drop # m.key /\ \E c \in Cert : cert[c].key = m.drop
  BY DEF KeptInv, KeysApart
<1>3. m.identity # Nothing => OnFile(m.key, m.identity) \/ PutsYet(m)
  BY DEF KeptInv, IdentitiesKept
<1>4. Fits(p, m)
  BY <1>1, <1>2, <1>3 DEF Fits
<1>5. DropsYet(m) => m.drop = mem[p].drop
  BY DEF DropsYet
<1>6. KeepsKeys(m)
  BY <1>5 DEF KeptInv, KeysKept, KeepsKeys, Live
<1>7. QED  BY <1>4, <1>6

(* save() and delete() read the file when nobody else is in it.            *)
LEMMA KeptByReadFile ==
  ASSUME TypeInv, TypeInv', TruthInv, KeptInv, [Next]_vars, ~mishap',
         NEW p \in Process, ReadFile(p)
  PROVE  KeptInv'
<1>1. /\ mem[p].step = "saving" /\ UNCHANGED <<cert, file>>
      /\ \A q \in Process : ~Writing(q)
      /\ ~Activates(mem[p])
      /\ mem[p] \in Objects /\ Coherent(mem[p]) /\ mem[p].identity # Nothing
  BY ObjectIs DEF ReadFile, At, server, Writing, Activates, Coherent
<1>2. file.entries \in Entries
  BY FilesType DEF TypeInv
<1>3. ASSUME NEW e \in Entries, Becomes(p, [mem[p] EXCEPT !.step = "read", !.data = e]),
             e = IF mem[p].put # Nothing THEN With(file.entries, mem[p].put, mem[p].identity)
                 ELSE Without(file.entries, mem[p].drop)
      PROVE  KeptInv'
  <2> DEFINE m == [mem[p] EXCEPT !.step = "read", !.data = e]
  <2>1. /\ m \in Objects /\ m.step = "read" /\ m.identity = mem[p].identity
        /\ m.put = mem[p].put /\ m.drop = mem[p].drop /\ m.key = mem[p].key
        /\ m.request = mem[p].request /\ m.data = e
    BY <1>1 DEF Objects, Step
  <2>2. Becomes(p, m)
    BY <1>3
  <2> HIDE DEF m
  <2>3. (PutsYet(mem[p]) <=> PutsYet(m)) /\ (DropsYet(mem[p]) <=> DropsYet(m))
    BY <1>1, <2>1 DEF PutsYet, DropsYet
  <2>4. Fits(p, m) /\ KeepsKeys(m)
    BY <1>1, <2>1, <2>3, KeptAtStore
  <2>5. QED  BY <1>1, <1>3, <2>1, <2>2, <2>4, KeptInMemory
<1>4. CASE mem[p].put # Nothing
  <2>1. With(file.entries, mem[p].put, mem[p].identity) \in Entries
    BY <1>1, <1>2, <1>4, EntriesType DEF Objects
  <2>2. QED  BY <1>3, <1>4, <2>1 DEF ReadFile
<1>5. CASE mem[p].put = Nothing /\ mem[p].drop \in DOMAIN file.entries
  <2>1. Without(file.entries, mem[p].drop) \in Entries
    BY <1>1, <1>2, EntriesType DEF Objects
  <2>2. QED  BY <1>3, <1>5, <2>1 DEF ReadFile
<1>6. CASE mem[p].put = Nothing /\ mem[p].drop \notin DOMAIN file.entries
  <2> DEFINE m == Object(mem[p].key, mem[p].identity)
  <2>1. Becomes(p, m)
    BY <1>6 DEF ReadFile, Ended
  <2>2. m \in Objects
    BY <1>1, ObjectType DEF Objects, Coherent
  <2>3. /\ m.key = mem[p].key /\ m.identity = mem[p].identity /\ m.step = "idle"
        /\ m.request.key = Nothing /\ m.put = Nothing /\ m.drop = Nothing
    BY DEF Object, NoRequest
  <2> HIDE DEF m
  <2>4. \A i : ~OnFile(mem[p].drop, i)
    BY <1>1, <1>6 DEF OnFile, Stored, Writing, At
  <2>5. ~PutsYet(mem[p]) /\ ~PutsYet(m) /\ ~DropsYet(m)
    BY <1>6, <2>3 DEF PutsYet, DropsYet
  <2>6. Fits(p, m) /\ KeepsKeys(m)
    BY <1>1, <2>2, <2>3, <2>4, <2>5, KeptAtStore
  <2>7. QED  BY <1>1, <2>1, <2>2, <2>3, <2>6, KeptInMemory
<1>7. QED  BY <1>4, <1>5, <1>6

(* The file comes to hold what its writer had to write.                    *)
LEMMA KeptByFill ==
  ASSUME TypeInv, TypeInv', TruthInv, KeptInv, [Next]_vars, NEW p \in Process, Fill(p)
  PROVE  KeptInv'
<1>1. /\ mem[p].step = "truncated" /\ UNCHANGED cert /\ OneWriter
      /\ ~Activates(mem[p]) /\ ~PutsYet(mem[p])
      /\ mem[p] \in Objects /\ Coherent(mem[p]) /\ mem[p].identity # Nothing
  BY ObjectIs DEF Fill, At, server, Activates, PutsYet, Coherent, KeptInv
<1>2. /\ \A q \in Process \ {p} : mem[q].step \notin {"read", "truncated"}
      /\ file = Unreadable("truncated")
  BY <1>1 DEF OneWriter, Truncating, Writing, At
<1>3. file' = [form |-> "json", entries |-> mem[p].data]
  BY <1>2 DEF Fill, Unreadable
<1>4. PICK m \in Objects :
        /\ Becomes(p, m) /\ m.key = mem[p].key /\ m.identity = mem[p].identity
        /\ m.request.key \in {mem[p].request.key, Nothing} /\ m.put = Nothing
        /\ m.step \in {"idle", "saving"}
        /\ IF mem[p].put # Nothing /\ mem[p].drop # Nothing
             THEN m.drop = mem[p].drop /\ m.step = "saving"
             ELSE m.drop = Nothing
  <2>1. CASE mem[p].put # Nothing /\ mem[p].drop # Nothing
    <3> DEFINE m == [mem[p] EXCEPT !.step = "saving", !.put = Nothing, !.data = Empty]
    <3>1. /\ m \in Objects /\ m.step = "saving" /\ m.identity = mem[p].identity
          /\ m.put = Nothing /\ m.key = mem[p].key /\ m.drop = mem[p].drop
          /\ m.request = mem[p].request
      BY <1>1, NothingIsNothing DEF Objects, Step
    <3>2. Becomes(p, m)
      BY <2>1 DEF Fill
    <3> HIDE DEF m
    <3>3. QED  BY <2>1, <3>1, <3>2
  <2>2. CASE ~(mem[p].put # Nothing /\ mem[p].drop # Nothing)
    <3> DEFINE m == Object(mem[p].key, mem[p].identity)
    <3>1. Becomes(p, m)
      BY <2>2 DEF Fill, Ended
    <3>2. m \in Objects
      BY <1>1, ObjectType DEF Objects, Coherent
    <3>3. /\ m.key = mem[p].key /\ m.identity = mem[p].identity /\ m.step = "idle"
          /\ m.request.key = Nothing /\ m.put = Nothing /\ m.drop = Nothing
      BY DEF Object, NoRequest
    <3> HIDE DEF m
    <3>4. QED  BY <2>2, <3>1, <3>2, <3>3
  <2>3. QED  BY <2>1, <2>2
<1>5. mem'[p] = m /\ \A q \in Process \ {p} : mem'[q] = mem[q]
  BY <1>4 DEF Becomes, TypeInv, TypeOK
<1>6. \A q \in Process : mem'[q].step \notin {"read", "truncated"}
  BY <1>2, <1>4, <1>5
<1>7. OneWriter'
  BY <1>3, <1>6 DEF OneWriter, Truncating, Writing, At
<1>8. \A k, i : Stored(file', mem', k, i) <=> OnFile(k, i)
  BY <1>1, <1>2, <1>3, <1>6 DEF OnFile, Stored
<1>9. /\ ~PutsYet(m) /\ (DropsYet(m) => DropsYet(mem[p]))
      /\ DropsYet(mem[p]) => DropsYet(m) /\ m.drop = mem[p].drop
  BY <1>1, <1>4 DEF PutsYet, DropsYet
<1>10. Fits(p, m) /\ KeepsKeys(m)
  BY <1>1, <1>4, <1>9, KeptAtStore
<1>11. Recertifies(p, m, {})
  BY <1>1 DEF Recertifies
<1>12. QED  BY <1>4, <1>7, <1>8, <1>10, <1>11, KeptGoesOn

(* The file is truncated by its one writer: what is on file from then on   *)
(* is what the writer has to write.                                        *)
LEMMA KeptByTruncate ==
  ASSUME TypeInv, TypeInv', TruthInv, KeptInv, [Next]_vars, NEW p \in Process, Truncate(p)
  PROVE  KeptInv'
<1> DEFINE m == [mem[p] EXCEPT !.step = "truncated"]
<1>1. /\ mem[p].step = "read" /\ UNCHANGED cert /\ file' = Unreadable("truncated")
      /\ mem[p] \in Objects /\ Coherent(mem[p]) /\ mem[p].identity # Nothing
      /\ KeysApart /\ OneWriter /\ LiveKept /\ EntriesKept /\ IdentitiesKept /\ KeysKept
  BY ObjectIs DEF Truncate, At, server, Coherent, KeptInv
<1>2. /\ m.step = "truncated" /\ m.identity = mem[p].identity /\ m.put = mem[p].put
      /\ m.drop = mem[p].drop /\ m.key = mem[p].key /\ m.request = mem[p].request
      /\ m.data = mem[p].data /\ m.made = mem[p].made
  BY <1>1 DEF Objects
<1>3. mem'[p] = m /\ \A q \in Process \ {p} : mem'[q] = mem[q]
  BY DEF Truncate, Becomes, TypeInv, TypeOK
<1> HIDE DEF m
<1>4. \A q \in Process \ {p} : mem[q].step \notin {"read", "truncated"}
  BY <1>1 DEF OneWriter, Writing, At
<1>5. mem[p].data = IF mem[p].put # Nothing THEN With(file.entries, mem[p].put, mem[p].identity)
                    ELSE Without(file.entries, mem[p].drop)
  BY <1>1 DEF OneWriter, At
<1>6. \A k, i : OnFile(k, i) <=> k \in DOMAIN file.entries /\ file.entries[k] = i
  BY <1>1, <1>4 DEF OnFile, Stored
<1>7. \A k, i : Stored(file', mem', k, i) <=> k \in DOMAIN mem[p].data /\ mem[p].data[k] = i
  BY <1>2, <1>3, <1>4 DEF Stored
<1>8. mem[p].put # Nothing =>
        \A k, i : Stored(file', mem', k, i) <=>
                   (k = mem[p].put /\ i = mem[p].identity) \/ (k # mem[p].put /\ OnFile(k, i))
  BY <1>5, <1>6, <1>7 DEF With
<1>9. mem[p].put = Nothing =>
        \A k, i : Stored(file', mem', k, i) <=> k # mem[p].drop /\ OnFile(k, i)
  BY <1>5, <1>6, <1>7 DEF Without
<1>10. /\ mem[p].put # Nothing => mem[p].put = mem[p].key
       /\ mem[p].key \in Key /\ mem[p].key \in Own(p) /\ mem[p].identity \in Identity
       /\ mem[p].identity.cert \in Cert /\ cert[mem[p].identity.cert].key = mem[p].key
       /\ mem[p].drop # Nothing => mem[p].drop \in Own(p) /\ mem[p].drop # mem[p].key
       /\ PutsYet(mem[p]) <=> mem[p].put # Nothing
       /\ DropsYet(mem[p]) <=> mem[p].drop # Nothing
       /\ ~Activates(mem[p]) /\ ~Activates(m) /\ ~PutsYet(m)
       /\ DropsYet(m) <=> mem[p].drop # Nothing /\ mem[p].put # Nothing
  BY <1>1, <1>2, ObjectIs, SdkAssumption DEF Coherent, PutsYet, DropsYet, Activates, KeysApart
<1>11. KeysApart'
  BY <1>1, <1>2, <1>3 DEF KeysApart, Own, At
<1>12. OneWriter'
  <2>1. \A q \in Process : mem'[q].step # "read" /\ (mem'[q].step = "truncated" <=> q = p)
    BY <1>2, <1>3, <1>4
  <2>2. QED  BY <1>1, <2>1 DEF OneWriter, Writing, Truncating, At
<1>13. ASSUME NEW c \in Live
       PROVE  \/ \E i \in Identity : Stored(file', mem', cert[c].key, i) /\ i.cert = c
              \/ \E q \in Process : PutsYet(mem'[q]) /\ mem'[q].identity.cert = c
              \/ \E q \in Process : Activates(mem'[q]) /\ mem'[q].made = c
  <2>0. cert[c].key # Nothing
    BY NothingIsNothing, SdkAssumption DEF Live, TypeInv, TypeOK, Certificates
  <2>1. ASSUME NEW i \in Identity, OnFile(cert[c].key, i), i.cert = c
        PROVE  \E j \in Identity : Stored(file', mem', cert[c].key, j) /\ j.cert = c
    <3>1. CASE mem[p].put # Nothing /\ cert[c].key = mem[p].put
      <4>1. c = mem[p].identity.cert
        BY <1>1, <1>10, <3>1 DEF KeysKept
      <4>2. QED  BY <1>8, <1>10, <3>1, <4>1
    <3>2. CASE mem[p].put # Nothing /\ cert[c].key # mem[p].put
      BY <1>8, <2>1, <3>2
    <3>3. CASE mem[p].put = Nothing
      <4>1. cert[c].key # mem[p].drop
        BY <1>1, <1>10, <2>0 DEF KeysKept
      <4>2. QED  BY <1>9, <2>1, <3>3, <4>1
    <3>4. QED  BY <3>1, <3>2, <3>3
  <2>2. ASSUME PutsYet(mem[p]), mem[p].identity.cert = c
        PROVE  \E j \in Identity : Stored(file', mem', cert[c].key, j) /\ j.cert = c
    BY <1>8, <1>10, <2>2
  <2>3. ASSUME NEW q \in Process, PutsYet(mem[q]), mem[q].identity.cert = c, q # p
        PROVE  PutsYet(mem'[q]) /\ mem'[q].identity.cert = c
    BY <1>3, <2>3
  <2>4. ASSUME NEW q \in Process, Activates(mem[q]), mem[q].made = c
        PROVE  Activates(mem'[q]) /\ mem'[q].made = c
    BY <1>3, <1>10, <2>4
  <2>5. QED  BY <1>1, <2>1, <2>2, <2>3, <2>4 DEF LiveKept
<1>14. LiveKept'
  BY <1>1, <1>13 DEF LiveKept, OnFile, Live
<1>15. ASSUME NEW k \in Key, NEW i \in Identity, Stored(file', mem', k, i), i.status = "active"
       PROVE  \/ cert[i.cert].status = "active"
              \/ \E q \in Process : DropsYet(mem'[q]) /\ mem'[q].drop = k
              \/ \E q \in Process : PutsYet(mem'[q]) /\ mem'[q].put = k
  <2>1. CASE mem[p].put # Nothing /\ k = mem[p].put
    <3>1. i = mem[p].identity
      BY <1>8, <1>15, <2>1
    <3>2. QED  BY <1>1, <1>10, <1>15, <2>1, <3>1 DEF KeysKept
  <2>2. CASE ~(mem[p].put # Nothing /\ k = mem[p].put)
    <3>1. OnFile(k, i) /\ (mem[p].put = Nothing => k # mem[p].drop)
      BY <1>8, <1>9, <1>15, <2>2
    <3>2. ASSUME NEW q \in Process, DropsYet(mem[q]), mem[q].drop = k
          PROVE  DropsYet(mem'[q]) /\ mem'[q].drop = k
      BY <1>2, <1>3, <1>10, <3>1, <3>2
    <3>3. ASSUME NEW q \in Process, PutsYet(mem[q]), mem[q].put = k
          PROVE  PutsYet(mem'[q]) /\ mem'[q].put = k
      BY <1>3, <1>10, <2>2, <3>3
    <3>4. QED  BY <1>1, <1>15, <3>1, <3>2, <3>3 DEF EntriesKept
  <2>3. QED  BY <2>1, <2>2
<1>16. EntriesKept'
  BY <1>1, <1>15 DEF EntriesKept, OnFile
<1>17. ASSUME NEW q \in Process, mem'[q].identity # Nothing
       PROVE  Stored(file', mem', mem'[q].key, mem'[q].identity) \/ PutsYet(mem'[q])
  <2>1. CASE q = p
    <3>1. CASE mem[p].put # Nothing
      BY <1>2, <1>3, <1>8, <1>10, <2>1, <3>1
    <3>2. CASE mem[p].put = Nothing
      <4>1. OnFile(mem[p].key, mem[p].identity)
        BY <1>1, <1>10, <3>2 DEF IdentitiesKept
      <4>2. mem[p].key # mem[p].drop
        BY <1>10, SdkAssumption
      <4>3. QED  BY <1>2, <1>3, <1>9, <2>1, <3>2, <4>1, <4>2
    <3>3. QED  BY <3>1, <3>2
  <2>2. CASE q # p
    <3>1. /\ mem[q].key \in Own(q) /\ mem[q].key # Nothing
          /\ \A k \in Own(p) : k # mem[q].key
      BY <1>3, <1>17, <2>2, ObjectIs, SdkAssumption
    <3>2. OnFile(mem[q].key, mem[q].identity) => Stored(file', mem', mem[q].key, mem[q].identity)
      BY <1>8, <1>9, <1>10, <3>1
    <3>3. QED  BY <1>1, <1>3, <1>17, <2>2, <3>2 DEF IdentitiesKept
  <2>3. QED  BY <2>1, <2>2
<1>18. IdentitiesKept'
  BY <1>17 DEF IdentitiesKept, OnFile
<1>19. KeysKept'
  <2>1. ASSUME NEW q \in Process
        PROVE  /\ PutsYet(mem'[q]) => PutsYet(mem[q]) /\ mem'[q] = mem[q]
               /\ DropsYet(mem'[q]) => DropsYet(mem[q]) /\ mem'[q].drop = mem[q].drop
               /\ mem'[q].step = "waiting" => mem'[q] = mem[q]
    BY <1>2, <1>3, <1>10
  <2>2. QED  BY <1>1, <2>1 DEF KeysKept, Live
<1>20. QED  BY <1>11, <1>12, <1>14, <1>16, <1>18, <1>19 DEF KeptInv

(* The object that has heard of success, once it is known to fit and to    *)
(* answer for the certificates that changed.                               *)
LEMMA KeptByHearing ==
  ASSUME TypeInv, TypeInv', TruthInv, KeptInv, [Next]_vars, UNCHANGED file,
         NEW p \in Process, mem[p].step = "waiting",
         NEW m \in Objects, Becomes(p, m), m.step \in {"waiting", "saving"},
         m.drop # Nothing => m.drop # m.key /\ \E c \in Cert : cert[c].key = m.drop,
         \A k \in {m.key, m.request.key, m.drop} : k # Nothing => k \in Own(p),
         m.step = "waiting" => m.request.kind # "rotate" /\ m.identity = Nothing,
         m.step = "saving" => PutsYet(m),
         NEW S \in SUBSET Cert, Recertifies(p, m, S), KeepsKeys(m)
  PROVE  KeptInv'
<1>1. OneWriter' /\ \A k, i : Stored(file', mem', k, i) <=> OnFile(k, i)
  BY StoreStands DEF KeptInv
<1>2. ASSUME NEW q \in Process \ {p}, NEW k \in {m.key, m.request.key, m.drop} \cap Own(q)
      PROVE  k = Nothing
  BY <1>2, ObjectIs
<1>3. Fits(p, m)
  BY <1>2, ObjectIs DEF Fits
<1>4. QED  BY <1>1, <1>3, KeptGoesOn

(* The certificate that a process holds is active while the agent is not   *)
(* retired, and is the only live one of the agent.                         *)
LEMMA HeldIsActive ==
  ASSUME TypeInv, TruthInv, ServerInv, KeptInv, NEW p \in Process, mem[p].step = "waiting",
         mem[p].identity # Nothing, agent[mem[p].identity.agent] # "retired"
  PROVE  LET c == mem[p].identity.cert
         IN  /\ c \in Live /\ cert[c].status = "active"
             /\ cert[c].key = mem[p].key /\ cert[c].agent = mem[p].identity.agent
             /\ \A d \in Live : cert[d].agent = mem[p].identity.agent \/ cert[d].key = mem[p].key => d = c
<1> DEFINE c == mem[p].identity.cert
<1>1. /\ mem[p].key \in Key /\ mem[p].identity \in Identity /\ c \in Cert
      /\ cert[c].key = mem[p].key /\ cert[c].agent = mem[p].identity.agent
      /\ mem[p].key \in Own(p) /\ OnFile(mem[p].key, mem[p].identity)
      /\ ~PutsYet(mem[p]) /\ ~DropsYet(mem[p])
      /\ \A q \in Process \ {p} : Own(p) \cap Own(q) = {}
  BY ObjectIs, SdkAssumption
<1>2. mem[p].identity.status = "active"
  BY <1>1, OnFileTruthful DEF Truthful, Identity
<1>3. ASSUME NEW q \in Process, PutsYet(mem[q]) PROVE mem[q].put # mem[p].key
  <2>1. mem[q].put = mem[q].key /\ q # p
    BY <1>1, <1>3, ObjectIs DEF PutsYet, Coherent
  <2>2. mem[q].key # Nothing => mem[q].key \in Own(q)
    BY ObjectIs
  <2>3. QED  BY <1>1, <1>3, <2>1, <2>2 DEF PutsYet
<1>4. ASSUME NEW q \in Process, DropsYet(mem[q]) PROVE mem[q].drop # mem[p].key
  <2>1. q # p /\ mem[q].drop \in Own(q)
    BY <1>1, <1>4, ObjectIs DEF DropsYet
  <2>2. QED  BY <1>1, <2>1
<1>5. cert[c].status = "active"
  BY <1>1, <1>2, <1>3, <1>4 DEF KeptInv, EntriesKept
<1>6. c \in Live
  BY <1>1, <1>5 DEF Live
<1>7. QED  BY <1>1, <1>5, <1>6 DEF ServerInv, KeptInv, KeysKept

(* register() hears that its agent is created, or that it is active.       *)
LEMMA KeptByRegistration ==
  ASSUME TypeInv, TypeInv', TruthInv, ServerInv, KeptInv, [Next]_vars, UNCHANGED file,
         NEW p \in Process, mem[p].step = "waiting", mem[p].request.kind \in {"create", "activate"},
         NEW x \in Answers(mem[p].request), x.ok, Serve(mem[p].request, x),
         Becomes(p, Heard(mem[p], x))
  PROVE  KeptInv'
<1> DEFINE r == mem[p].request
           m == Heard(mem[p], x)
<1>1. /\ TypeOK /\ KeysKept
      /\ mem[p] \in Objects /\ Coherent(mem[p]) /\ r \in Request /\ Complete(r)
      /\ mem[p].key \in Key /\ r.key = mem[p].key /\ mem[p].key \in Own(p)
      /\ mem[p].identity = Nothing
  BY ObjectIs, SdkAssumption DEF Objects, Coherent, KeptInv, KeysKept, TypeInv
<1>2. m \in Objects /\ Becomes(p, m)
  BY <1>1, HeardIs
<1>3. \A k \in Key, i \in Identity : OnFile(k, i) => cert[i.cert].key = k
  BY OnFileTruthful DEF Truthful
<1>4. \A c \in Cert : cert[c] \in Certificates \/ cert[c] = NoCert
  BY <1>1 DEF TypeOK
<1>5. CASE r.kind = "create"
  <2>1. /\ m.step = "waiting" /\ m.key = mem[p].key /\ m.identity = Nothing
        /\ m.made = x.cert /\ m.put = Nothing /\ m.drop = Nothing
        /\ m.request.kind = "activate" /\ m.request.key = mem[p].key
    BY <1>1, <1>5, HeardIs
  <2>2. /\ x.cert \in Cert /\ cert[x.cert] = NoCert /\ x.agent \in AgentId
        /\ agent[x.agent] = "none" /\ agent' = [agent EXCEPT ![x.agent] = "registered"]
        /\ cert'[x.cert] = [agent |-> x.agent, key |-> r.key, status |-> "issued"]
        /\ \A d \in Cert \ {x.cert} : cert'[d] = cert[d] /\ cert[d].agent # x.agent
    <3>1. TypeOK /\ r \in Request /\ Complete(r) /\ Serve(r, x) /\ r.kind = "create"
      BY <1>1, <1>5
    <3> HIDE DEF r, m
    <3>2. QED  BY <3>1, GrantedIs
  <2>3. \A c \in Live : cert[c].key # mem[p].key
    BY <1>1, <1>5 DEF KeysKept
  <2> HIDE DEF m
  <2>4. x.cert \notin Live
    BY <2>2, NothingIsNothing DEF Live
  <2>5. \A d \in Live' : cert'[d].key = m.key => d = x.cert
    BY <2>1, <2>2, <2>3 DEF Live
  <2>6. ASSUME NEW k \in Key, NEW i \in Identity, OnFile(k, i) PROVE i.cert # x.cert
    BY <1>3, <2>2, <2>6, NothingIsNothing, SdkAssumption
  <2>7. ~Activates(mem[p]) /\ Activates(m) /\ cert'[x.cert].key = m.key
    BY <1>1, <1>5, <2>1, <2>2 DEF Activates
  <2>8. Recertifies(p, m, {x.cert})
    BY <2>1, <2>2, <2>4, <2>5, <2>6, <2>7 DEF Recertifies
  <2>9. KeepsKeys(m)
    BY <2>1, <2>2 DEF KeepsKeys, PutsYet, DropsYet
  <2>10. QED  BY <1>1, <1>2, <2>1, <2>2, <2>8, <2>9, KeptByHearing
<1>6. CASE r.kind = "activate"
  <2> DEFINE c == mem[p].made
  <2>1. /\ m.step = "saving" /\ m.key = mem[p].key /\ m.request = NoRequest
        /\ m.identity.cert = c /\ m.identity.status = "active"
        /\ m.put = m.key /\ m.drop = Nothing
    BY <1>1, <1>6, HeardIs
  <2>2. /\ \A d \in Cert : cert[d].agent # r.agent \/ cert[d].status # "issued" => cert'[d] = cert[d]
        /\ \A d \in Cert : cert[d].agent = r.agent /\ cert[d].status = "issued" =>
             /\ cert'[d].agent = cert[d].agent /\ cert'[d].key = cert[d].key
             /\ cert'[d].status = "active"
    BY <1>1, <1>6, GrantedIs
  <2>3. /\ c \in Cert /\ cert[c].key = mem[p].key /\ cert[c].agent = r.agent
        /\ cert[c].status = "issued"
    BY <1>1, <1>6 DEF Coherent, KeysKept, TruthInv, At
  <2>4. c \in Live /\ \A d \in Live : cert[d].agent = r.agent \/ cert[d].key = mem[p].key => d = c
    BY <1>1, <2>3 DEF Live, ServerInv, KeysKept
  <2> HIDE DEF m, c
  <2>5. \A d \in Cert \ {c} : cert'[d] = cert[d]
    BY <2>2, <2>4 DEF Live
  <2>6. cert'[c].key = m.key /\ cert'[c].status = "active"
    BY <2>1, <2>2, <2>3
  <2>7. \A d \in Live' : cert'[d].key = m.key => d = c
    BY <2>1, <2>4, <2>5 DEF Live
  <2>8. PutsYet(m) /\ ~DropsYet(m)
    BY <1>1, <2>1, SdkAssumption DEF PutsYet, DropsYet
  <2>9. Recertifies(p, m, {c})
    BY <1>1, <2>1, <2>3, <2>5, <2>6, <2>7, <2>8 DEF Recertifies, c
  <2>10. KeepsKeys(m)
    BY <2>1, <2>6, <2>7, <2>8 DEF KeepsKeys
  <2>11. m.request.key = Nothing
    BY <2>1 DEF NoRequest
  <2>12. {c} \in SUBSET Cert
    BY <2>3
  <2>13. QED  BY <1>1, <1>2, <2>1, <2>8, <2>9, <2>10, <2>11, <2>12, KeptByHearing
<1>7. QED  BY <1>5, <1>6

(* rotate_keys() hears of its new certificate, or retire() that the agent  *)
(* is retired.                                                             *)
LEMMA KeptByReplacement ==
  ASSUME TypeInv, TypeInv', TruthInv, ServerInv, KeptInv, [Next]_vars, UNCHANGED file,
         NEW p \in Process, mem[p].step = "waiting", mem[p].request.kind \in {"rotate", "retire"},
         NEW x \in Answers(mem[p].request), x.ok, Serve(mem[p].request, x),
         Becomes(p, Heard(mem[p], x))
  PROVE  KeptInv'
<1> DEFINE r == mem[p].request
           m == Heard(mem[p], x)
           c == mem[p].identity.cert
<1>1. /\ TypeOK /\ KeysKept /\ KeysApart
      /\ mem[p] \in Objects /\ Coherent(mem[p]) /\ r \in Request /\ Complete(r)
      /\ mem[p].identity # Nothing /\ r.agent = mem[p].identity.agent
      /\ mem[p].identity.cert = c /\ c \in Cert
      /\ mem[p].key \in Key /\ mem[p].key \in Own(p)
      /\ \A k \in {r.key} : k # Nothing => k \in Own(p)
      /\ ~Activates(mem[p])
  BY ObjectIs, SdkAssumption DEF Objects, Coherent, KeptInv, TypeInv, Activates
<1>2. m \in Objects /\ Becomes(p, m)
  BY <1>1, HeardIs
<1>3. \A k \in Key, i \in Identity : OnFile(k, i) => cert[i.cert].key = k
  BY OnFileTruthful DEF Truthful
<1>4. agent[r.agent] \in {"registered", "active"}
  BY <1>1, GrantedIs
<1>5. /\ c \in Live /\ cert[c].status = "active"
      /\ cert[c].key = mem[p].key /\ cert[c].agent = r.agent
      /\ \A d \in Live : cert[d].agent = r.agent \/ cert[d].key = mem[p].key => d = c
  BY <1>1, <1>4, HeldIsActive
<1>6. ASSUME NEW k \in Key, NEW i \in Identity, OnFile(k, i), i.cert = c PROVE k = mem[p].key
  BY <1>3, <1>5, <1>6
<1>7. CASE r.kind = "rotate"
  <2>1. /\ m.step = "saving" /\ m.key = r.key /\ m.request = NoRequest
        /\ m.identity.cert = x.cert /\ m.put = r.key /\ m.drop = mem[p].key
    BY <1>1, <1>7, HeardIs
  <2>2. /\ agent[r.agent] = "active" /\ agent' = agent
        /\ x.cert \in Cert /\ cert[x.cert] = NoCert
        /\ cert'[x.cert] = [agent |-> r.agent, key |-> r.key, status |-> "active"]
        /\ \A d \in Cert \ {x.cert} :
             cert[d].agent # r.agent \/ cert[d].status # "active" => cert'[d] = cert[d]
        /\ \A d \in Cert : cert[d].agent = r.agent /\ cert[d].status = "active" =>
             /\ cert'[d].agent = cert[d].agent /\ cert'[d].key = cert[d].key
             /\ cert'[d].status = "rotated"
    <3>1. TypeOK /\ r \in Request /\ Complete(r) /\ Serve(r, x) /\ r.kind = "rotate"
      BY <1>1, <1>7
    <3> HIDE DEF r, m
    <3>2. QED  BY <3>1, GrantedIs
  <2>3. /\ \A d \in Live : cert[d].key # r.key
        /\ r.key # mem[p].key /\ r.key \in Key
    BY <1>1, <1>7 DEF KeysKept, KeysApart, At, Complete
  <2> HIDE DEF m, c
  <2>4. x.cert \notin Live /\ x.cert # c
    BY <1>5, <2>2, NothingIsNothing DEF Live
  <2>5. \A d \in Cert \ {c, x.cert} : cert'[d] = cert[d]
    BY <1>5, <2>2 DEF Live
  <2>6. c \notin Live' /\ cert'[x.cert].key = r.key /\ cert'[x.cert].status = "active"
    BY <1>1, <1>5, <2>2 DEF Live
  <2>7. \A d \in Live' : d \in Cert /\ (d = x.cert \/ (d \in Live /\ cert'[d].key = cert[d].key /\ d # c))
    BY <2>5, <2>6 DEF Live
  <2>8. \A d \in Live' : cert'[d].key = m.key => d = x.cert
    BY <2>1, <2>3, <2>7
  <2>9. \A d \in Live' : cert'[d].key # m.drop
    BY <1>5, <2>1, <2>3, <2>6, <2>7
  <2>10. ASSUME NEW k \in Key, NEW i \in Identity, OnFile(k, i) PROVE i.cert # x.cert
    BY <1>3, <2>2, <2>10, NothingIsNothing, SdkAssumption
  <2>11. PutsYet(m) /\ DropsYet(m) /\ m.drop # m.key
    BY <1>1, <2>1, <2>3, SdkAssumption DEF PutsYet, DropsYet
  <2>12. Recertifies(p, m, {c, x.cert})
    BY <1>1, <1>5, <1>6, <2>1, <2>4, <2>5, <2>6, <2>8, <2>10, <2>11 DEF Recertifies
  <2>13. KeepsKeys(m)
    BY <2>1, <2>6, <2>8, <2>9 DEF KeepsKeys
  <2>14. m.request.key = Nothing /\ {c, x.cert} \in SUBSET Cert
    BY <1>1, <2>1, <2>2 DEF NoRequest
  <2>15. QED
    BY <1>1, <1>2, <1>5, <2>1, <2>11, <2>12, <2>13, <2>14, KeptByHearing
<1>8. CASE r.kind = "retire"
  <2>1. /\ m.step = "saving" /\ m.key = mem[p].key /\ m.request = NoRequest
        /\ m.identity.cert = c /\ m.identity.status = "retired"
        /\ m.put = mem[p].key /\ m.drop = Nothing
    BY <1>1, <1>8, HeardIs
  <2>2. /\ \A d \in Cert : cert[d].agent # r.agent \/ d \notin Live => cert'[d] = cert[d]
        /\ \A d \in Live : cert[d].agent = r.agent =>
             /\ cert'[d].agent = cert[d].agent /\ cert'[d].key = cert[d].key
             /\ cert'[d].status = "expired"
    BY <1>1, <1>8, GrantedIs
  <2> HIDE DEF m, c
  <2>3. \A d \in Cert \ {c} : cert'[d] = cert[d]
    BY <1>5, <2>2
  <2>4. c \notin Live'
    BY <1>5, <2>2 DEF Live
  <2>5. \A d \in Live' : cert'[d].key # m.key
    BY <1>5, <2>1, <2>3, <2>4 DEF Live
  <2>6. PutsYet(m) /\ ~DropsYet(m)
    BY <1>1, <2>1, SdkAssumption DEF PutsYet, DropsYet
  <2>7. Recertifies(p, m, {c})
    BY <1>1, <1>5, <1>6, <2>1, <2>3, <2>4, <2>6 DEF Recertifies
  <2>8. KeepsKeys(m)
    BY <2>1, <2>5, <2>6 DEF KeepsKeys
  <2>9. m.request.key = Nothing /\ {c} \in SUBSET Cert
    BY <1>1, <2>1 DEF NoRequest
  <2>10. QED  BY <1>1, <1>2, <2>1, <2>6, <2>7, <2>8, <2>9, KeptByHearing
<1>9. QED  BY <1>7, <1>8

LEMMA KeptByAnswer ==
  ASSUME TypeInv, TypeInv', TruthInv, ServerInv, KeptInv, [Next]_vars,
         NEW p \in Process, Answered(p)
  PROVE  KeptInv'
<1>1. /\ mem[p].step = "waiting" /\ UNCHANGED file /\ TypeOK
      /\ mem[p] \in Objects /\ Coherent(mem[p])
      /\ mem[p].request \in Request /\ Complete(mem[p].request)
  BY ObjectIs DEF Answered, At, TypeInv, Objects, Coherent
<1>2. PICK x \in Answers(mem[p].request) :
        /\ Serve(mem[p].request, x)
        /\ Becomes(p, IF x.ok THEN Heard(mem[p], x) ELSE Ended(mem[p]))
  BY DEF Answered
<1>3. CASE ~x.ok
  <2>1. UNCHANGED cert /\ ~Grants(mem[p].request)
    BY <1>1, <1>2, <1>3, AnswerIs DEF Serve, server
  <2>2. ASSUME Activates(mem[p]) PROVE FALSE
    <3>1. /\ mem[p].made \in Cert /\ cert[mem[p].made].status = "issued"
          /\ cert[mem[p].made].agent = mem[p].request.agent
      BY <1>1, <2>2 DEF Activates, Coherent, KeptInv, KeysKept, TruthInv, At
    <3>2. agent[mem[p].request.agent] = "registered"
      BY <3>1 DEF ServerInv
    <3>3. QED  BY <2>1, <2>2, <3>2 DEF Grants, Activates
  <2>3. QED  BY <1>1, <1>2, <1>3, <2>1, <2>2, KeptByEnd
<1>4. CASE x.ok /\ mem[p].request.kind \in {"create", "activate"}
  BY <1>1, <1>2, <1>4, KeptByRegistration
<1>5. CASE x.ok /\ mem[p].request.kind \in {"rotate", "retire"}
  BY <1>1, <1>2, <1>5, KeptByReplacement
<1>6. CASE x.ok /\ mem[p].request.kind = "intent"
  <2>1. UNCHANGED cert
    BY <1>1, <1>2, <1>6, GrantedIs
  <2>2. Becomes(p, Ended(mem[p]))
    BY <1>1, <1>2, <1>6, HeardIs DEF Ended
  <2>3. QED  BY <1>1, <1>6, <2>1, <2>2, KeptByEnd DEF Activates
<1>7. QED  BY <1>1, <1>3, <1>4, <1>5, <1>6 DEF Request, Kind

LEMMA IdentityInvStep ==
  ASSUME TypeInv, TypeInv', TruthInv, IdentityInv, [Next]_vars
  PROVE  IdentityInv'
<1>1. ServerInv /\ ServerInv'
  BY ServerInvStep DEF IdentityInv
<1>2. SUFFICES ASSUME OwnKeys, ~mishap' PROVE KeptInv'
  BY <1>1 DEF IdentityInv, OwnKeys
<1>3. ~mishap
  BY <1>2
     DEF Next, vars, Register, RotateKeys, Retire, Authorize, Answered, Unanswered, ServeLate,
         ReadFile, Truncate, Fill, Restart, InMemory
<1>4. KeptInv
  BY <1>2, <1>3 DEF IdentityInv
<1>5. CASE UNCHANGED <<cert, file, mem>>
  BY <1>4, <1>5
     DEF KeptInv, KeysApart, Own, At, OneWriter, Writing, Truncating, LiveKept, EntriesKept,
         IdentitiesKept, KeysKept, OnFile, Live
<1>6. ASSUME NEW r \in late, ServeLate(r) PROVE KeptInv'
  <2>1. PICK x \in Answers(r) :
          /\ Serve(r, x)
          /\ mishap' = (mishap \/ (x.ok /\ r.kind \in {"create", "activate", "rotate", "retire"}))
    BY <1>6 DEF ServeLate
  <2>2. UNCHANGED cert
    BY <1>2, <2>1 DEF Serve, server
  <2>3. QED  BY <1>5, <1>6, <2>2 DEF ServeLate
<1>7. CASE UNCHANGED vars
  BY <1>5, <1>7 DEF vars
<1>8. ASSUME NEW p \in Process, Register(p) PROVE KeptInv'
  BY <1>2, <1>4, <1>8, KeptByRegister
<1>9. ASSUME NEW p \in Process, RotateKeys(p) \/ Retire(p) \/ \E call \in Call : Authorize(p, call)
      PROVE  KeptInv'
  BY <1>4, <1>9, KeptByFirstRequest
<1>10. ASSUME NEW p \in Process, Answered(p) PROVE KeptInv'
  BY <1>1, <1>4, <1>10, KeptByAnswer
<1>11. ASSUME NEW p \in Process, Unanswered(p) PROVE KeptInv'
  BY <1>2, <1>4, <1>11, KeptByUnanswered
<1>12. ASSUME NEW p \in Process, ReadFile(p) PROVE KeptInv'
  BY <1>2, <1>4, <1>12, KeptByReadFile
<1>13. ASSUME NEW p \in Process, Truncate(p) PROVE KeptInv'
  BY <1>4, <1>13, KeptByTruncate
<1>14. ASSUME NEW p \in Process, Fill(p) PROVE KeptInv'
  BY <1>4, <1>14, KeptByFill
<1>15. ASSUME NEW p \in Process, Restart(p) PROVE KeptInv'
  BY <1>2, <1>4, <1>15, KeptByRestart
<1>16. QED
  BY <1>6, <1>7, <1>8, <1>9, <1>10, <1>11, <1>12, <1>13, <1>14, <1>15 DEF Next

(* When no call is in progress, what the invariant says of one that is     *)
(* falls away.                                                             *)
LEMMA KeptWhenQuiet ==
  ASSUME TypeInv, TruthInv, IdentityInv
  PROVE  StoreIsCurrent
<1> SUFFICES ASSUME KeptInv, Quiet
             PROVE  /\ \A c \in Live : /\ cert[c].key \in DOMAIN file.entries
                                       /\ file.entries[cert[c].key].cert = c
                    /\ \A k \in DOMAIN file.entries :
                         file.entries[k].status = "active" => cert[file.entries[k].cert].status = "active"
                    /\ \A p \in Process :
                         mem[p].identity # Nothing =>
                           /\ mem[p].key \in DOMAIN file.entries
                           /\ file.entries[mem[p].key] = mem[p].identity
  BY DEF IdentityInv, StoreIsCurrent
<1>1. ASSUME NEW p \in Process
      PROVE  /\ mem[p].step = "idle" /\ ~PutsYet(mem[p]) /\ ~DropsYet(mem[p])
             /\ ~Activates(mem[p])
  BY ObjectIs DEF Quiet, At, Activates
<1>2. \A k, i : OnFile(k, i) <=> k \in DOMAIN file.entries /\ file.entries[k] = i
  BY <1>1 DEF OnFile, Stored
<1>3. \A k \in DOMAIN file.entries : k \in Key /\ file.entries[k] \in Identity
  BY FilesType DEF TypeInv
<1>4. ASSUME NEW c \in Live
      PROVE  cert[c].key \in DOMAIN file.entries /\ file.entries[cert[c].key].cert = c
  BY <1>1, <1>2 DEF KeptInv, LiveKept
<1>5. ASSUME NEW k \in DOMAIN file.entries, file.entries[k].status = "active"
      PROVE  cert[file.entries[k].cert].status = "active"
  BY <1>1, <1>2, <1>3, <1>5 DEF KeptInv, EntriesKept
<1>6. ASSUME NEW p \in Process, mem[p].identity # Nothing
      PROVE  mem[p].key \in DOMAIN file.entries /\ file.entries[mem[p].key] = mem[p].identity
  BY <1>1, <1>2, <1>6 DEF KeptInv, IdentitiesKept
<1>7. QED  BY <1>4, <1>5, <1>6

(* The store is at odds with the server only after what mishap records (a  *)
(* request served unheard, a registration given up half way, a process     *)
(* that dies inside a call, two processes in the credentials file at       *)
(* once), however many processes, keys, rotations and retries there are:   *)
(* otherwise, when no call is in progress, it holds exactly the live       *)
(* certificates, and an Agent object that has an identity has the one on   *)
(* file (register, rotate_keys, retire and CredentialStore).               *)
THEOREM StoreIsCurrentUnlessMishap == Spec => []StoreIsCurrent
<1>1. TypeInv /\ [Next]_vars => TypeInv'
  BY TypeInvStep
<1>2. TypeInv /\ TruthInv /\ [Next]_vars => TruthInv'
  BY TruthInvStep
<1>3. TypeInv /\ TypeInv' /\ TruthInv /\ IdentityInv /\ [Next]_vars => IdentityInv'
  BY IdentityInvStep
<1>4. TypeInv /\ TruthInv /\ IdentityInv => StoreIsCurrent
  BY KeptWhenQuiet
<1>5. QED
  BY TypeInvStart, TruthInvStart, IdentityInvStart, <1>1, <1>2, <1>3, <1>4, PTL DEF Spec

-----------------------------------------------------------------------------
(* Who holds the keys *)

(* The key of an Agent object that has one stays, as long as no answer     *)
(* comes and the process is not started again.                             *)
LEMMA KeyStays ==
  ASSUME TypeInv, Next, \A p \in Process : ~Answered(p),
         NEW q \in Process, mem[q].key # Nothing, ~Restart(q)
  PROVE  mem'[q].key = mem[q].key
<1>1. \A p \in Process : mem[p] \in Objects /\ Coherent(mem[p])
  BY DEF TypeInv, TypeOK, Coherence
<1>2. mem \in [Process -> Objects]
  BY DEF TypeInv, TypeOK
<1>3. ASSUME NEW p \in Process, NEW m, Becomes(p, m), p # q \/ m.key = mem[q].key
      PROVE  mem'[q].key = mem[q].key
  BY <1>2, <1>3 DEF Becomes
<1>4. ASSUME NEW k, NEW i PROVE Object(k, i).key = k
  BY DEF Object
<1>5. ASSUME NEW m \in Objects, NEW r PROVE Sends(m, r).key = m.key
  BY DEF Sends, Objects
<1>6. \A m : Ended(m).key = m.key
  BY DEF Ended, Object
<1>7. ASSUME NEW p \in Process, p # q,
             \E m : Becomes(p, m)
      PROVE  mem'[q].key = mem[q].key
  BY <1>3, <1>7
<1>8. ASSUME NEW p \in Process, Register(p) PROVE mem'[q].key = mem[q].key
  <2>1. PICK k \in (IF mem[p].key = Nothing THEN Unused ELSE {mem[p].key}) :
          \/ Becomes(p, Object(k, file.entries[k]))
          \/ Becomes(p, Sends([mem[p] EXCEPT !.key = k], [NoRequest EXCEPT !.key = k]))
    BY <1>8 DEF Register
  <2>2. CASE p # q
    BY <1>7, <2>1, <2>2
  <2>3. CASE p = q
    <3>1. k = mem[q].key
      BY <1>8, <2>1, <2>3
    <3>2. [mem[p] EXCEPT !.key = k] = mem[p]
      BY <1>1, <2>3, <3>1 DEF Objects
    <3>3. QED  BY <1>1, <1>3, <1>4, <1>5, <2>1, <2>3, <3>1, <3>2
  <2>4. QED  BY <2>2, <2>3
<1>9. ASSUME NEW p \in Process, RotateKeys(p) \/ Retire(p) \/ \E call \in Call : Authorize(p, call)
      PROVE  mem'[q].key = mem[q].key
  <2>1. PICK r : Becomes(p, Sends(mem[p], r))
    BY <1>9 DEF RotateKeys, Retire, Authorize
  <2>2. QED  BY <1>1, <1>3, <1>5, <2>1
<1>10. ASSUME NEW p \in Process, Unanswered(p) PROVE mem'[q].key = mem[q].key
  <2>1. Again(mem[p]).key = mem[p].key
    BY <1>1 DEF Again, Objects
  <2>2. Becomes(p, Again(mem[p])) \/ Becomes(p, Ended(mem[p]))
    BY <1>10 DEF Unanswered, Again
  <2>3. QED  BY <1>3, <1>6, <2>1, <2>2
<1>11. ASSUME NEW p \in Process, ReadFile(p) PROVE mem'[q].key = mem[q].key
  <2>1. \A e : [mem[p] EXCEPT !.step = "read", !.data = e].key = mem[p].key
    BY <1>1 DEF Objects
  <2>2. \/ \E e : Becomes(p, [mem[p] EXCEPT !.step = "read", !.data = e])
        \/ Becomes(p, Ended(mem[p]))
    BY <1>11 DEF ReadFile
  <2>3. QED  BY <1>3, <1>6, <2>1, <2>2
<1>12. ASSUME NEW p \in Process, Truncate(p) PROVE mem'[q].key = mem[q].key
  <2> DEFINE m == [mem[p] EXCEPT !.step = "truncated"]
  <2>1. m.key = mem[p].key
    BY <1>1 DEF Objects
  <2>2. Becomes(p, m)
    BY <1>12 DEF Truncate
  <2> HIDE DEF m
  <2>3. QED  BY <1>3, <2>1, <2>2
<1>13. ASSUME NEW p \in Process, Fill(p) PROVE mem'[q].key = mem[q].key
  <2>1. [mem[p] EXCEPT !.step = "saving", !.put = Nothing, !.data = Empty].key = mem[p].key
    BY <1>1 DEF Objects
  <2>2. \/ Becomes(p, [mem[p] EXCEPT !.step = "saving", !.put = Nothing, !.data = Empty])
        \/ Becomes(p, Ended(mem[p]))
    BY <1>13 DEF Fill
  <2>3. QED  BY <1>3, <1>6, <2>1, <2>2
<1>14. ASSUME NEW p \in Process, Restart(p) PROVE mem'[q].key = mem[q].key
  BY <1>7, <1>14 DEF Restart
<1>15. ASSUME NEW r \in late, ServeLate(r) PROVE mem'[q].key = mem[q].key
  BY <1>15 DEF ServeLate
<1>16. QED
  BY <1>8, <1>9, <1>10, <1>10, <1>11, <1>12, <1>13, <1>14, <1>15 DEF Next

(* What a granted request makes of one certificate.                        *)
LEMMA GrantedCert ==
  ASSUME TypeOK, ServerInv, NEW r \in Request, Complete(r), NEW x, Serve(r, x), x.ok,
         NEW c \in Cert
  PROVE  /\ r.kind \in {"create", "rotate"} /\ c = x.cert => cert'[c].key = r.key
         /\ r.kind = "create" /\ c # x.cert => cert'[c] = cert[c]
         /\ r.kind = "activate" =>
              \/ cert'[c] = cert[c]
              \/ cert[c].status = "issued" /\ cert'[c].key = cert[c].key
         /\ r.kind = "retire" =>
              cert'[c] = cert[c] \/ (c \in Live /\ cert'[c].status = "expired")
         /\ r.kind = "rotate" => agent[r.agent] = "active"
         /\ r.kind = "rotate" /\ c # x.cert =>
              \/ cert'[c].status = "rotated"
              \/ cert'[c] = cert[c] /\ ~(cert[c].agent = r.agent /\ cert[c].status = "active")
<1>1. CASE r.kind = "create"
  <2>1. /\ x.cert \in Cert /\ cert[x.cert] = NoCert /\ x.agent \in AgentId
        /\ agent[x.agent] = "none" /\ agent' = [agent EXCEPT ![x.agent] = "registered"]
        /\ cert'[x.cert] = [agent |-> x.agent, key |-> r.key, status |-> "issued"]
        /\ \A d \in Cert \ {x.cert} : cert'[d] = cert[d] /\ cert[d].agent # x.agent
    BY <1>1, GrantedIs, Zenon
  <2>2. QED  BY <1>1, <2>1
<1>2. CASE r.kind = "activate"
  <2>1. /\ agent[r.agent] = "registered" /\ agent' = [agent EXCEPT ![r.agent] = "active"]
        /\ \A d \in Cert : cert[d].agent # r.agent \/ cert[d].status # "issued" => cert'[d] = cert[d]
        /\ \A d \in Cert : cert[d].agent = r.agent /\ cert[d].status = "issued" =>
             /\ cert'[d].agent = cert[d].agent /\ cert'[d].key = cert[d].key
             /\ cert'[d].status = "active"
    BY <1>2, GrantedIs, Zenon
  <2>2. QED  BY <1>2, <2>1
<1>3. CASE r.kind = "rotate"
  <2>1. /\ agent[r.agent] = "active" /\ agent' = agent
        /\ x.cert \in Cert /\ cert[x.cert] = NoCert
        /\ cert'[x.cert] = [agent |-> r.agent, key |-> r.key, status |-> "active"]
        /\ \A d \in Cert \ {x.cert} :
             cert[d].agent # r.agent \/ cert[d].status # "active" => cert'[d] = cert[d]
        /\ \A d \in Cert : cert[d].agent = r.agent /\ cert[d].status = "active" =>
             /\ cert'[d].agent = cert[d].agent /\ cert'[d].key = cert[d].key
             /\ cert'[d].status = "rotated"
    BY <1>3, GrantedIs, Zenon
  <2>2. QED  BY <1>3, <2>1
<1>4. CASE r.kind = "retire"
  <2>1. /\ agent[r.agent] \in {"registered", "active"}
        /\ agent' = [agent EXCEPT ![r.agent] = "retired"]
        /\ \A d \in Cert : cert[d].agent # r.agent \/ d \notin Live => cert'[d] = cert[d]
        /\ \A d \in Live : cert[d].agent = r.agent =>
             /\ cert'[d].agent = cert[d].agent /\ cert'[d].key = cert[d].key
             /\ cert'[d].status = "expired"
    BY <1>4, GrantedIs, Zenon
  <2>2. cert[c].agent # r.agent \/ c \notin Live => cert'[c] = cert[c]
    BY <2>1
  <2>3. QED  BY <1>4, <2>1, <2>2
<1>5. QED  BY <1>1, <1>2, <1>3, <1>4 DEF Request, Kind

(* After a step in which nothing goes wrong, a live certificate has a      *)
(* holder, unless it had none before or the step takes its holder away.    *)
LEMMA HeldStep ==
  ASSUME TypeInv, TypeInv', TruthInv, ServerInv, KeptInv, Next, ~mishap', NEW c \in Live'
  PROVE  \/ Held(c)'
         \/ c \in Live /\ ~Held(c)
         \/ \E p \in Process : /\ Restart(p)
                              /\ mem[p].key = cert[c].key /\ Configured[p] # mem[p].key
<1>1. /\ c \in Cert /\ cert'[c].status \in {"issued", "active"}
      /\ mem \in [Process -> Objects] /\ TypeOK
      /\ \A p \in Process : mem[p] \in Objects /\ Coherent(mem[p])
  BY DEF Live, TypeInv, TypeOK, Coherence
<1>2. c \in Live => cert[c].key \in Key
  BY <1>1 DEF Live, TypeOK, Certificates, NoCert
<1>3. ASSUME cert'[c].key = cert[c].key,
             c \in Live,
             \A q \in Process : mem[q].key = cert[c].key => mem'[q].key = mem[q].key
      PROVE  Held(c)' \/ (c \in Live /\ ~Held(c))
  BY <1>3 DEF Held
<1>4. ASSUME UNCHANGED cert PROVE c \in Live /\ cert'[c].key = cert[c].key
  BY <1>1, <1>4 DEF Live
<1>5. ASSUME NEW p \in Process, Answered(p) PROVE Held(c)' \/ (c \in Live /\ ~Held(c))
  <2> DEFINE r == mem[p].request
  <2>1. mem[p].step = "waiting" /\ r \in Request /\ Complete(r) /\ r.kind \in Kind
    BY <1>1, <1>5 DEF Answered, At, Objects, Coherent, Request
  <2>2. PICK x \in Answers(r) :
          /\ Serve(r, x)
          /\ Becomes(p, IF x.ok THEN Heard(mem[p], x) ELSE Ended(mem[p]))
    BY <1>5 DEF Answered
  <2>3. \A q \in Process \ {p} : mem'[q].key = mem[q].key
    BY <1>1, <2>2 DEF Becomes
  <2>4. mem'[p] = IF x.ok THEN Heard(mem[p], x) ELSE Ended(mem[p])
    BY <1>1, <2>2 DEF Becomes
  <2>5. CASE ~x.ok \/ r.kind = "intent"
    <3>1. UNCHANGED cert
      BY <2>2, <2>5 DEF Serve, server, Refused
    <3>2. mem'[p].key = mem[p].key
      BY <1>1, <2>1, <2>4, <2>5, HeardIs DEF Ended, Object
    <3>3. QED  BY <1>3, <1>4, <2>3, <3>1, <3>2
  <2>6. CASE x.ok /\ r.kind # "intent"
    <3>0. /\ r.kind \in {"create", "rotate"} /\ c = x.cert => cert'[c].key = r.key
          /\ r.kind = "create" /\ c # x.cert => cert'[c] = cert[c]
          /\ r.kind = "activate" =>
               \/ cert'[c] = cert[c]
               \/ cert[c].status = "issued" /\ cert'[c].key = cert[c].key
          /\ r.kind = "retire" =>
               cert'[c] = cert[c] \/ (c \in Live /\ cert'[c].status = "expired")
          /\ r.kind = "rotate" => agent[r.agent] = "active"
          /\ r.kind = "rotate" /\ c # x.cert =>
               \/ cert'[c].status = "rotated"
               \/ cert'[c] = cert[c] /\ ~(cert[c].agent = r.agent /\ cert[c].status = "active")
      <4> HIDE DEF r
      <4>1. x.ok
        BY <2>6
      <4>2. QED  BY <1>1, <2>1, <2>2, <4>1, GrantedCert
    <3>1. /\ r.kind = "rotate" => mem'[p].key = r.key
          /\ r.kind # "rotate" => mem'[p].key = mem[p].key
      <4>1. Heard(mem[p], x).key = IF r.kind = "rotate" THEN r.key ELSE mem[p].key
        BY <1>1, <2>1, <2>6, HeardIs DEF Kind
      <4>2. QED  BY <2>4, <2>6, <4>1
    <3>2. r.kind = "create" => r.key = mem[p].key
      BY <1>1, <2>1 DEF Coherent
    <3>3. CASE r.kind \in {"create", "rotate"} /\ c = x.cert
      <4>1. cert'[c].key = r.key
        BY <3>0, <3>3
      <4>2. QED  BY <3>1, <3>2, <3>3, <4>1 DEF Held
    <3>4. CASE r.kind # "rotate" /\ ~(r.kind = "create" /\ c = x.cert)
      <4>1. c \in Live /\ cert'[c].key = cert[c].key
        <5>1. CASE r.kind = "create"
          <6>1. cert'[c] = cert[c]
            BY <3>0, <3>4, <5>1
          <6>2. QED  BY <1>1, <6>1 DEF Live
        <5>2. CASE r.kind = "activate"
          <6>1. \/ cert'[c] = cert[c]
                \/ cert[c].status = "issued" /\ cert'[c].key = cert[c].key
            BY <3>0, <5>2
          <6>2. QED  BY <1>1, <6>1 DEF Live
        <5>3. CASE r.kind = "retire"
          <6>1. cert'[c] = cert[c] \/ (c \in Live /\ cert'[c].status = "expired")
            BY <3>0, <5>3
          <6>2. QED  BY <1>1, <6>1 DEF Live
        <5>4. QED  BY <2>1, <2>6, <3>4, <5>1, <5>2, <5>3 DEF Kind
      <4>2. QED  BY <1>3, <2>3, <3>1, <3>4, <4>1
    <3>5. CASE r.kind = "rotate" /\ c # x.cert
      <4>1. /\ agent[r.agent] = "active" /\ mem[p].identity # Nothing
            /\ r.agent = mem[p].identity.agent
        BY <1>1, <2>1, <3>0, <3>5 DEF Coherent
      <4>2. \A d \in Live : cert[d].key = mem[p].key => cert[d].agent = r.agent /\ cert[d].status = "active"
        BY <2>1, <4>1, HeldIsActive
      <4>3. \/ cert'[c].status = "rotated"
            \/ cert'[c] = cert[c] /\ ~(cert[c].agent = r.agent /\ cert[c].status = "active")
        BY <3>0, <3>5
      <4>4. c \in Live /\ cert'[c].key = cert[c].key /\ cert[c].key # mem[p].key
        BY <1>1, <4>2, <4>3 DEF Live
      <4>5. QED  BY <1>3, <2>3, <4>4
    <3>6. QED  BY <3>3, <3>4, <3>5
  <2>7. QED  BY <2>5, <2>6
<1>6. CASE \A p \in Process : ~Answered(p)
  <2>1. UNCHANGED cert
    <3>1. ASSUME NEW r \in late, ServeLate(r) PROVE UNCHANGED cert
      BY <3>1 DEF ServeLate, Serve, server, Request, Kind, TypeInv, TypeOK
    <3>2. QED
      BY <1>6, <3>1
         DEF Next, Register, RotateKeys, Retire, Authorize, Unanswered, ReadFile, Truncate, Fill,
             Restart, InMemory, server
  <2>2. ASSUME NEW q \in Process, Restart(q), mem[q].key = cert[c].key, Configured[q] = mem[q].key
        PROVE  mem'[q].key = mem[q].key
    BY <1>1, <2>2 DEF Restart, Becomes, Object
  <2>3. QED  BY <1>2, <1>3, <1>4, <1>6, <2>1, <2>2, KeyStays, SdkAssumption
<1>7. QED  BY <1>5, <1>6

(* But for mishaps, the holder of a live certificate's key is lost only    *)
(* when its process ends and is not configured with that key: nothing that *)
(* register, rotate_keys or retire does parts a certificate from its key,  *)
(* for any number of processes and keys.                                   *)
THEOREM KeysLostOnlyAtRestart == Spec => KeyHeld
<1> DEFINE Kept(c) ==
      \/ Held(c)'
      \/ c \in Live /\ ~Held(c)
      \/ \E p \in Process : /\ Restart(p)
                           /\ mem[p].key = cert[c].key /\ Configured[p] # mem[p].key
<1>1. TypeInv /\ [Next]_vars => TypeInv'
  BY TypeInvStep
<1>2. TypeInv /\ TruthInv /\ [Next]_vars => TruthInv'
  BY TruthInvStep
<1>3. TypeInv /\ TypeInv' /\ TruthInv /\ IdentityInv /\ [Next]_vars => IdentityInv'
  BY IdentityInvStep
<1>4. TypeInv /\ TypeInv' /\ TruthInv /\ IdentityInv /\ [Next]_vars
        => [OwnKeys /\ ~mishap' => \A c \in Live' : Kept(c)]_vars
  <2> SUFFICES ASSUME TypeInv, TypeInv', TruthInv, IdentityInv, Next, OwnKeys, ~mishap',
                      NEW c \in Live'
               PROVE  Kept(c)
    OBVIOUS
  <2>1. ~mishap
    BY DEF Next, Register, RotateKeys, Retire, Authorize, Answered, Unanswered, ServeLate,
           ReadFile, Truncate, Fill, Restart, InMemory
  <2>2. ServerInv /\ KeptInv
    BY <2>1 DEF IdentityInv
  <2>3. QED  BY <2>2, HeldStep
<1>5. QED
  BY TypeInvStart, TruthInvStart, IdentityInvStart, <1>1, <1>2, <1>3, <1>4, PTL
     DEF Spec, KeyHeld
=============================================================================
