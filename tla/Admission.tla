------------------------------- MODULE Admission -------------------------------
(***************************************************************************)
(* How a request gets to do its work and gets its answer (server/app:      *)
(* security.py, dependencies.py, services/auth_service.py, db/session.py): *)
(* the rate limit, the credential, and what requests wait for on the way.  *)
(*                                                                         *)
(* One thread, the event loop, admits requests, checks credentials and     *)
(* closes database sessions; handlers run in a pool of other threads.      *)
(* require_permission and verify_agent_signature are coroutines that query *)
(* the database where they stand: while one waits for a connection the     *)
(* loop does nothing else.  A session keeps its connection from its first  *)
(* statement until it commits or is closed.                                *)
(***************************************************************************)
EXTENDS Integers, Sequences, FiniteSets

CONSTANTS
  Requests,   \* how many requests come: a bound
  Client,     \* _client_key: the addresses they come from
  User,       \* users
  Session,    \* ids of sessions, which are their bearer tokens
  ApiKey,     \* API keys made, with a role that permits what is asked
  Operator,   \* the operator key
  Nobody,
  Window,     \* _RATE_LIMIT_WINDOW_SECONDS
  Limit,      \* _RATE_LIMIT_MAX_REQUESTS
  Timeout,    \* session_timeout_minutes
  Pool,       \* connections there are
  Threads,    \* threads for handlers
  End         \* the last moment of the clock: a bound

ASSUME AdmissionAssumption ==
  /\ Requests \in Nat /\ Window \in Nat /\ Limit \in Nat \ {0} /\ Timeout \in Nat
  /\ Pool \in Nat \ {0} /\ Threads \in Nat \ {0} /\ End \in Nat
  /\ Operator \notin Session \cup ApiKey
  /\ Session \cap ApiKey = {}
  /\ Nobody \notin User

VARIABLES
  now,        \* the time
  log,        \* _request_log: when requests of each client were admitted
  admitted,   \* history: when every one was
  session,    \* the sessions table; NoSession: no such row
  permitted,  \* the users who are active and have a role that permits what is asked
  revoked,    \* the tokens whose row has a revoked_at
  req,        \* how far each request is
  held,       \* the requests whose session has a connection
  loop        \* the request the event loop is checking the token of; 0: none

vars == <<now, log, admitted, session, permitted, revoked, req, held, loop>>

-----------------------------------------------------------------------------
(* State *)

Request == 1..Requests

Credential == Session \cup ApiKey \cup {Operator}

NoSession == [user |-> Nobody, expires |-> 0]

(* The phases of a handler; "probing" is that of _database_reachable,      *)
(* which makes a session of its own.                                       *)
InThread == {"running", "probing", "queried", "saved"}

Phase == {"new", "entered", "checking", "known", "ready", "starved", "closing", "answered"}
           \cup InThread

(* A request until it is let through or refused, and the history of its    *)
(* token: fresh, whether it could be used when it came; may, whether its   *)
(* user has been permitted since.                                          *)
New == [phase |-> "new", cred |-> Operator, fresh |-> FALSE, may |-> FALSE]

Past(r, phase) == req' = [req EXCEPT ![r] = [New EXCEPT !.phase = phase]]

At(r, phase) == req[r].phase = phase

Goes(r, phase) == req' = [req EXCEPT ![r].phase = phase]

Busy == { r \in Request : req[r].phase \in InThread }

Free == Cardinality(held) < Pool

(* A statement in the request's session: with the connection it has, or    *)
(* with one from the pool.                                                 *)
Connects(r) ==
  /\ r \in held \/ Free
  /\ held' = held \cup {r}

(* resolve_user_for_session_token, _resolve_role_for_api_key: the token    *)
(* itself.                                                                 *)
UsableUnlessExpired(t) == t \in Session => session[t].expires > now

Usable(t) ==
  /\ t \notin revoked
  /\ t \in Session => session[t].expires > now

(* The user's status and role, for a session.                              *)
Permitted(t) == t \in Session => session[t].user \in permitted

(* History: how the token stands as the request comes.                     *)
Coming(t) ==
  [phase |-> "entered", cred |-> t,
   fresh |-> t \notin revoked /\ (t \in Session => now < session[t].expires),
   may   |-> t \in Session => session[t].user \in permitted]

Init ==
  /\ now = 0
  /\ log = [c \in Client |-> <<>>]
  /\ admitted = [c \in Client |-> <<>>]
  /\ session = [s \in Session |-> NoSession]
  /\ permitted = User
  /\ revoked = {}
  /\ req = [r \in Request |-> New]
  /\ held = {}
  /\ loop = 0

Tables == <<session, permitted, revoked>>

Limiter == <<now, log, admitted>>

-----------------------------------------------------------------------------
(* The event loop *)

(* An entry that has reached the age of the window is dropped.             *)
KeptAtEdge(t) == now - t < Window

(* The entries that observability_middleware does not pop.                 *)
Kept(t) == now - t <= Window

(* What is left of the log when the entries before the first to keep are   *)
(* popped.                                                                 *)
Popped(c) ==
  LET L == log[c]
  IN  { SubSeq(L, n + 1, Len(L)) :
          n \in { m \in 0..Len(L) : (\A i \in 1..m : ~Kept(L[i])) /\ (m < Len(L) => Kept(L[m + 1])) } }

(* observability_middleware: the request is counted and goes on, or is     *)
(* refused with 429 and not counted.                                       *)
Enter(r, c, cred) ==
  /\ loop = 0
  /\ At(r, "new") /\ \A x \in 1..(r - 1) : ~At(x, "new")
  /\ cred \in Session => session[cred] # NoSession
  /\ \E recent \in Popped(c) :
       \/ /\ Len(recent) < Limit
          /\ log' = [log EXCEPT ![c] = Append(recent, now)]
          /\ admitted' = [admitted EXCEPT ![c] = Append(@, now)]
          /\ req' = [req EXCEPT ![r] = Coming(cred)]
       \/ /\ Len(recent) >= Limit
          /\ log' = [log EXCEPT ![c] = recent]
          /\ Past(r, "answered")
          /\ UNCHANGED admitted
  /\ UNCHANGED <<now, Tables, held, loop>>

(* get_db makes the session, in a thread.  The operator key is compared    *)
(* without a query; for a token the loop is taken until its role is known. *)
Check(r) ==
  /\ loop = 0
  /\ At(r, "entered")
  /\ Cardinality(Busy) < Threads
  /\ IF req[r].cred = Operator
       THEN Goes(r, "ready") /\ UNCHANGED loop
       ELSE Goes(r, "checking") /\ loop' = r
  /\ UNCHANGED <<Limiter, Tables, held>>

(* The row of the token.  The use of an API key is stored and committed,   *)
(* which gives the connection back.                                        *)
LookUp(r) ==
  /\ loop = r
  /\ At(r, "checking")
  /\ r \in held \/ Free
  /\ IF Usable(req[r].cred)
       THEN /\ Goes(r, "known")
            /\ held' = IF req[r].cred \in ApiKey THEN held \ {r} ELSE held \cup {r}
            /\ UNCHANGED loop
       ELSE /\ Past(r, "closing")
            /\ held' = held \cup {r}
            /\ loop' = 0
  /\ UNCHANGED <<Limiter, Tables>>

(* The user of the session, or the API key's role, read again after the    *)
(* commit; then resolve_role_for_token returns.                            *)
ReadRole(r) ==
  /\ loop = r
  /\ At(r, "known")
  /\ Connects(r)
  /\ IF Permitted(req[r].cred) THEN Goes(r, "ready") ELSE Past(r, "closing")
  /\ loop' = 0
  /\ UNCHANGED <<Limiter, Tables>>

(* A request that fails is left without a place to go on from.             *)
StarvesLost(r) == ~Free /\ Past(r, "failed")

(* A pool without a timeout.                                               *)
StarvesNever(r) == FALSE

(* The pool gives no connection within its timeout: an exception, and the  *)
(* answer is a 500 (the check, the handler), or the database is reported   *)
(* not to be there (_database_reachable).                                  *)
Starves(r) == ~Free /\ Past(r, "starved")

StarveOnLoop(r) ==
  /\ loop = r
  /\ r \notin held
  /\ Starves(r)
  /\ loop' = 0
  /\ UNCHANGED <<Limiter, Tables, held>>

(* The loop hands the handler to a thread: one that uses its session, or   *)
(* one that probes the database.                                           *)
Begin(r) ==
  /\ loop = 0
  /\ At(r, "ready")
  /\ Cardinality(Busy) < Threads
  /\ \E phase \in {"running", "probing"} : Past(r, phase)
  /\ UNCHANGED <<Limiter, Tables, held, loop>>

(* The session is dropped without giving its connection back.              *)
CloseKeeping(r) ==
  /\ loop = 0
  /\ req[r].phase \in {"closing", "starved"}
  /\ Past(r, "answered")
  /\ UNCHANGED <<Limiter, Tables, held, loop>>

(* The response is sent and get_db closes the session.                     *)
Close(r) ==
  /\ loop = 0
  /\ req[r].phase \in {"closing", "starved"}
  /\ held' = held \ {r}
  /\ Past(r, "answered")
  /\ UNCHANGED <<Limiter, Tables, loop>>

-----------------------------------------------------------------------------
(* Handlers *)

Query(r) ==
  /\ At(r, "running")
  /\ Connects(r)
  /\ Goes(r, "queried")
  /\ UNCHANGED <<Limiter, Tables, loop>>

(* A handler that only reads is done.                                      *)
Finish(r) ==
  /\ At(r, "queried")
  /\ Goes(r, "closing")
  /\ UNCHANGED <<Limiter, Tables, held, loop>>

(* db.commit gives the connection back; db.refresh takes one again.        *)
Commit(r) ==
  /\ At(r, "queried")
  /\ Goes(r, "saved")
  /\ held' = held \ {r}
  /\ UNCHANGED <<Limiter, Tables, loop>>

Refresh(r) ==
  /\ At(r, "saved")
  /\ Connects(r)
  /\ Goes(r, "closing")
  /\ UNCHANGED <<Limiter, Tables, loop>>

(* _database_reachable: a connection besides that of the request, for one  *)
(* statement.                                                              *)
Probe(r) ==
  /\ At(r, "probing")
  /\ Free
  /\ Goes(r, "closing")
  /\ UNCHANGED <<Limiter, Tables, held, loop>>

StarveInThread(r) ==
  /\ req[r].phase \in {"running", "saved", "probing"}
  /\ r \in held => At(r, "probing")
  /\ Starves(r)
  /\ UNCHANGED <<Limiter, Tables, held, loop>>

-----------------------------------------------------------------------------
(* Meanwhile *)

Tick ==
  /\ now < End
  /\ now' = now + 1
  /\ UNCHANGED <<log, admitted, Tables, req, held, loop>>

(* create_session, for a user who is active.                               *)
Login(s, u) ==
  /\ session[s] = NoSession
  /\ u \in permitted
  /\ session' = [session EXCEPT ![s] = [user |-> u, expires |-> now + Timeout]]
  /\ UNCHANGED <<Limiter, permitted, revoked, req, held, loop>>

(* revoke_session, at a logout; revoke_api_key.                            *)
Revoke(t) ==
  /\ t \in Session => session[t] # NoSession
  /\ t \notin revoked
  /\ revoked' = revoked \cup {t}
  /\ UNCHANGED <<Limiter, session, permitted, req, held, loop>>

(* update_user_status and update_user_role.  Sessions are left as they     *)
(* are.                                                                    *)
ChangeUser(u) ==
  /\ permitted' = IF u \in permitted THEN permitted \ {u} ELSE permitted \cup {u}
  /\ req' = [r \in Request |->
       IF u \notin permitted /\ req[r].cred \in Session /\ session[req[r].cred].user = u
         THEN [req[r] EXCEPT !.may = TRUE] ELSE req[r]]
  /\ UNCHANGED <<Limiter, session, revoked, held, loop>>

(* What goes on by itself once the request has come.                       *)
Progress(r) ==
  \/ Check(r) \/ LookUp(r) \/ ReadRole(r) \/ StarveOnLoop(r)
  \/ Begin(r) \/ Query(r) \/ Finish(r) \/ Commit(r) \/ Refresh(r) \/ Probe(r) \/ StarveInThread(r)
  \/ Close(r)

Next ==
  \/ Tick
  \/ \E r \in Request :
       \/ \E c \in Client, cred \in Credential : Enter(r, c, cred)
       \/ Progress(r)
  \/ \E s \in Session, u \in User : Login(s, u)
  \/ \E t \in Session \cup ApiKey : Revoke(t)
  \/ \E u \in User : ChangeUser(u)

Spec == Init /\ [][Next]_vars

(* The loop and the threads run, and a wait for a connection ends by the   *)
(* pool's timeout (30 seconds, SQLAlchemy's default).                      *)
FairSpec == Spec /\ \A r \in Request : WF_vars(Progress(r))

-----------------------------------------------------------------------------
(* Properties *)

(* Type correctness.                                                       *)
TypeOK ==
  /\ now \in 0..End
  /\ log \in [Client -> Seq(0..End)]
  /\ admitted \in [Client -> Seq(0..End)]
  /\ session \in [Session -> [user : User \cup {Nobody}, expires : Nat]]
  /\ permitted \subseteq User
  /\ revoked \subseteq Session \cup ApiKey
  /\ req \in [Request -> [phase : Phase, cred : Credential,
                          fresh : BOOLEAN, may : BOOLEAN]]
  /\ held \subseteq Request
  /\ loop \in Request \cup {0}

(* Of any Limit + 1 requests of one client that were let in, the first and *)
(* the last are more than a window apart: no 60 seconds see more than 120, *)
(* wherever they begin (observability_middleware).                         *)
WithinRate ==
  \A c \in Client : \A i \in 1..(Len(admitted[c]) - Limit) :
    admitted[c][i + Limit] - admitted[c][i] > Window

(* A request is let through on a token only if the token could still be used when   *)
(* the request came, and its user was permitted at some time since, though *)
(* logouts, disabling and changes of role commit while it is being checked *)
(* (resolve_role_for_token).                                               *)
GrantedWhileGood ==
  \A r \in Request :
    At(r, "ready") /\ req[r].cred # Operator => req[r].fresh /\ req[r].may

InProgress == { r \in Request : req[r].phase \notin {"new", "answered"} }

(* A request waits for a connection in vain, and a probe finds the         *)
(* database missing that is there, only while the requests in progress,    *)
(* with one connection each and another to probe with, want more than      *)
(* there are: however requests end, each gives back its own (get_db).      *)
StarvedOnlyCrowded ==
  [][\A r \in Request : req'[r].phase = "starved" /\ ~At(r, "starved") =>
       Cardinality(InProgress) + Cardinality({ x \in held : At(x, "probing") }) > Pool]_vars

(* Every request that is let in is answered: again and again none is in    *)
(* progress, though requests that hold connections wait for each other's   *)
(* and the event loop waits for theirs (dependencies.py, the pool's        *)
(* timeout).                                                               *)
AllAnswered == []<>(InProgress = {})
=============================================================================
