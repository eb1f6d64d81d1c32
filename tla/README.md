# PayReality in TLA+

Specifications of PayReality: a server (`src/server/app`) of FastAPI handlers over
PostgreSQL, with an Open Policy Agent (OPA) process beside them that answers whether an
agent's intent is allowed, and the Python SDK its agents use (`src/sdk-python/payreality`).
Every handler is short; what is hard about them is that they run at the same time, fail
halfway, are retried, and restart. The modules here describe the handlers statement by
statement under those conditions; TLC checks them on small instances and TLAPS proves the
properties that matter for every instance.

    tlc -workers 2 -config MCEvidenceLedger_shared.cfg MCEvidenceLedger
    tlapm EvidenceLedgerProofs.tla

Source paths below are relative to `src/server/app` unless they begin with `src/`.

## 1. Inventory

How a request runs. uvicorn runs one event loop per process. A handler is an ordinary
function run in a thread pool; its async dependencies (`dependencies.py`) run on the event
loop. Each request has a database session of its own (`db/session.py`: `autoflush=False`,
no isolation level given, so READ COMMITTED). A statement sees what is committed when it
runs; an UPDATE is by primary key, of the columns that were changed, with no version
check; `now()`, and so every `created_at`, is the time the transaction started. OPA holds
its policy in memory only.

| Component | State | Operations | Interacts with | Module |
|---|---|---|---|---|
| Decision pipeline (`services/intent_service.py`, `resolution_service.py`) | `intents`, `decisions`, `evidence`, `decision_resolutions` | submit an intent, resolve a review | reads agents, policies, mandates; queries OPA; appends to the chain | EvidenceLedger, DecisionRegister, GovernedDecisions |
| Evidence verification (`services/evidence_service.py`) | none | verify a record, verify a chain from a date | reads `evidence`, signing keys | EvidenceChain, SigningKeys |
| Runtime policies and deploys (`services/runtime_policy_service.py`, `opa_client.py`, `main.py`) | `runtime_policy_records`, `policies`, `mandates`, OPA's bundle | create, edit, submit, approve, reject, compile, deploy, reconcile at startup | uploads to OPA; writes mandates | PolicyDeployment |
| Compiler V2 and the decision engine (`domain/compiler_v2`, `domain/decision`) | none | conflict detection, the compiled rules, OPA's answer to an outcome | called by compile, deploy, reconcile, and the pipeline | PolicyEvaluation |
| Agent lifecycle (`services/agent_service.py`) | `agents`, `certificates`, audit events | create, activate, suspend, retire, revoke, rotate, bulk forms; heartbeat, transfer, metadata | its status decides what the pipeline does | AgentLifecycle |
| Signing keys (`services/signing_key_service.py`) | `signing_keys` | register at startup, look up | every record is signed and verified with one | SigningKeys |
| AI policy and authority builders (`services/ai_policy_builder_service.py`, `ai_authority_builder_service.py`) | uploads, corpora, candidates, discoveries, relationships, principals, authorities | extract, review, promote, resolve, activate | create policies, principals, delegations | AuthorityBuilder |
| Organisation and users (`services/organization_service.py`, `routers/auth.py`, `users.py`, `organization.py`) | `organizations`, `users` | bootstrap at startup, claim, create and change users, settings | who may operate the rest | Console |
| Authentication, rate limit, pool and event loop (`security.py`, `dependencies.py`, `services/auth_service.py`, `db/session.py`) | a log of times per client, `sessions`, `api_keys`, 15 connections, one loop | admit, check a token, check out and give back connections | every request | Admission |
| Python SDK (`src/sdk-python`) | `credentials.json`, an Agent object per process | register, authorize, rotate, retire, retry | the HTTP API | SdkClient |
| Authority context, legacy listings, cryptography, frontend | - | reads, library calls, presentation | - | not modelled |

What is hard, and what makes each component correct:

- **Decision pipeline.** Concurrent intents of one organisation extend one hash chain;
  the same signed intent may arrive twice, also while its first copy is undecided; two
  reviewers may resolve one decision; an agent is suspended while its intent is being
  decided; a deploy commits between the reads a decision rests on; any request may die
  between two statements. Correct means: one decision per (agent, nonce); one verdict per
  reviewed decision; one Evidence record for each of them and none for anything else;
  links that lead back through committed records; a bound on how old the status behind an
  ALLOW can be; a decision that cites the policy and the mandates it was made under.
- **Verification.** A range must report exactly the breaks it contains, also when records
  are committed while it is read; a removed record must show; and a record must verify
  whatever keys have come and gone since.
- **Deploys.** OPA is told before the database commits; deploys overlap; uploads time
  out after taking effect; the container restarts with an empty OPA. Correct means: OPA
  never holds two policies that match one intent, nor anything unreviewed; one active
  version per policy; between deploys, exactly the active set is served; a policy names
  the mandate that was made for it, once.
- **Agents, builders, users, settings.** Operations check a loaded row and write it
  later. Correct means: states that belong together agree, terminal states stay, a
  promotion happens once, a delegation is between people a reviewer has identified, an
  owner is there, and nobody's change undoes another's.
- **Admission.** The loop waits for connections that only the loop can close. Correct
  means: every request is answered, no connection is lost, no window sees more than the
  limit, and nobody is let in on a token that was dead when the request came.
- **SDK.** Answers are lost after the server has acted, and processes die between that
  and the save. Correct means: one decision per call, a store that never pairs a key with
  someone else's certificate, a store that agrees with the server between calls, and a key
  that outlives the process that made it. (The last does not hold.)

`PROJECT.json` lists the components, the hazards with their lines, and which definition
translates which lines.

## 2. Modules

    EvidenceChain              the hash chain and verify_chain, as operators on a set of records
      EvidenceLedger           the decision pipeline; INSTANCE of DecisionRegister
        EvidenceLedgerProofs   types, replay protection, accounting, the refinement, the chain
    DecisionRegister           the abstract specification: a write-once register
    PolicyDeployment           policy lifecycle, deploys, mandates, OPA, restarts
      GovernedDecisions        composed with the pipeline's reads of policy, OPA and mandates
        GovernedDecisionsProofs  about both
    PolicyEvaluation           conflict detection, the compiled rules, the decision engine
      PolicyEvaluationProofs
    AgentLifecycle             one agent and its certificates
      AgentLifecycleProofs
    SigningKeys                the key registry, and verification by it
    Console                    the organization, its users and settings
      StartupProofs            about SigningKeys and Console: what processes find as they start
    Admission                  rate limit, credentials, event loop, connection pool
      AdmissionProofs
    AuthorityBuilder           from documents to policies and delegations
      AuthorityBuilderProofs
    SdkClient                  the Python SDK against the server's endpoints
      SdkClientProofs

SigningKeys and Console share no state; their names are kept apart (`KeysSpec`,
`KeysTypeOK`) so that one module can hold the proofs about what `main.lifespan` fills.

Each module that is checked has an `MC` module and a `.cfg` per run. A mutant of a
definition (a plausible bug in the same code) stands just before the definition it
replaces; no specification uses it.

### EvidenceLedger

A request is a record (`agent`, `nonce`, `attempt`, or `decision`, `resolution`,
`attempt`); `pc[r]` is the statement it has reached and `session[r]` what its session has
loaded or written but not committed. One action per statement that another request could
notice:

| Action | Code |
|---|---|
| `Open` | the first query of the request starts the transaction and fixes its `now()` (certificate lookup of `verify_agent_signature`; the decision or the reviewer's session for a resolve) |
| `LoadAgent` | the rest of `verify_agent_signature`, and the refusal of agents that are not operational |
| `InsertIntent` | the INSERT and flush under UNIQUE(agent_id, nonce): it waits for an open transaction with the same key, then succeeds or is a replay |
| `Decide` | suspended agents and unrecognised actions go to HUMAN_REVIEW, otherwise the engine answers anything |
| `AppendEvidence` | `append_evidence`: the tail read, the signed payload, the INSERT |
| `CommitIntent` | the single commit of `submit_intent` |
| `LoadDecision`, `CheckUnresolved` | the checks of `resolve_decision` |
| `CommitResolution`, `RefuseDuplicateResolution` | INSERT under UNIQUE(decision_id) and the commit, or the IntegrityError |
| `Abort` | the process, the connection or a statement fails; the session closes without a commit |
| `ChangeAgentStatus` | an operator's lifecycle call on an agent in `Managed` commits; its own check may be out of date (AgentLifecycle), so any status may follow any other |

Abstractions. A record's rank `created` is its transaction's start, one clock tick per
transaction, so no two are equal (in the code equal times are ordered by id). A hash is
the record it was computed from: the payload contains the decision id and time. OPA's
answer is any outcome. The verdict of a resolve and a replay are answers only.

`VerifyChain(S, T, since)` of EvidenceChain is `verify_chain` with its two queries: `S` is
what is committed when the range is read, `T` when the record before it is. A deletion is
no operation of the program; what verification would say after one is an operator applied
to the records without it.

### PolicyDeployment

`status`, `bundle` and `mandate` are columns of `runtime_policy_records` (the last one
inside the JSON content, where a client may have put it: `MayName` is what
`_build_runtime_policy` takes from the request when it has nothing to preserve, a mandate
of this policy, one of the `Foreign` ids, or none, and `sent` remembers it); `Delegated`
are the versions whose content names an Authority, by promotion or by the client;
`activePolicy` is the version of the single active row of
`policies`; `issued` counts the mandates of a policy's Authority; `opa` is what OPA holds;
`task[w]` is what the request on worker `w` has loaded. `Load` is `get_latest` with the
status check of the operation; `SaveStatus`, `SaveEdit`, `SaveCompiled` write and commit;
`GatherOthers`, `ReadPrior`, `Upload`, `Flush`, `CommitDeploy` are `deploy_policy` in its
order: read the others and compare the hash, read the active row, upload, flush under the
partial unique index, make the mandate and commit. `UploadFails` leaves OPA with the old or
the new bundle; `Abort` ends a request after any statement; `Crash` stops the container,
OPA's memory with it; `Reconcile` is the startup hook.

Abstractions. A bundle is the set of its versions (contents of versions are immutable
once compiled, so the hash is a function of the set; that rows come in no particular
order, which may change the hash and only refuses more deploys, is listed as a hazard).
A version that does not compile on its own never leaves `approved` and is not
represented. Whether two versions conflict is the constant relation `Conflict`. The check
for a foreign writer of `policies` is left out: no such writer is left in the code.

### GovernedDecisions

`PolicyDeployment` and, beside it, the part of `submit_intent` between loading the agent
and writing the decision: `ReadActivePolicy` (the active row of `policies`), `AskOpa` or
`OpaFails`, one `ResolveMandate` per policy that matched, `RecordDecision`, and
`AbortIntent`. `deployed` adds to the tables what each policies row was computed over.
The outcome is PolicyEvaluation's subject and the record's place in the chain
EvidenceLedger's; here a decision is what it cites.

### PolicyEvaluation

A value is a kind (boolean, number, string) and a number; `Py` and `RegoLess` are the two
ways in which the system compares values. `FieldsCanOverlap` is the interval check of
`scope_overlap.py` on the bounds, equalities, exclusions and lists that two policies put
on a field, `PolicyConflicts` the compiler's rule for two policies, `Compiles` the whole
of `compile_bundle`. `Matches` is the rule generated for a policy as OPA evaluates it on
what `build_opa_input` sends, `QueryFails` and `Denies` the aggregate rules, `Outcome`
the engine's precedence. `Deploy` installs a set that compiles, `Evaluate` is a decision,
`EvaluateWithoutAnswer` every path that ends in HUMAN_REVIEW without an answer.

Abstractions. `contains` is a relation between strings. Null, lists and objects as values
are left out (an equality with null counts as no equality, so it separates less). A
comparison that makes Python raise keeps the set from compiling, as an error does. The
rules' text, ids and order are left out. What OPA does (a missing path fails its line, a
rule with two values fails the query, values of all kinds are ordered) is external.

### AgentLifecycle

One agent, its certificates, and overlapping operations: `Load` (row and check),
`FindCert` (the certificate query), `Save` (UPDATEs, INSERTs, commit). The writes are one
step because the rows stay locked from the first write to the commit and nobody reads
them uncommitted. `raced` becomes TRUE when an operation commits over something another
operation changed after it had loaded.

### SigningKeys

`Boot`, `LookUp`, `RetireActive`, `Register` (or `RegistrationFails`, which `main.py`
swallows and serves on) are a start of a process; during a deploy several start at once.
`Sign` makes a record with whatever the process is configured with, registered or not;
`Verifies` asks the registry first and falls back on the configured key. `parted` collects
the records of processes whose key the registry does not have under that id.

### Admission

`Enter` is `observability_middleware`'s limiter; `Check`, `LookUp`, `ReadRole` the
statements of `resolve_role_for_token`, which for an API key commits in the middle;
`Begin`, `Query`, `Commit`, `Refresh`, `Probe`, `Finish` a handler's life in its thread;
`Close` the end of `get_db`, which runs on the loop. While a coroutine dependency waits
for a connection the loop takes no other step (`loop`), until it gets one or
`StarveOnLoop` times out; `StarveInThread` is the same wait off the loop. `Login`,
`Revoke`, `ChangeUser` commit at any moment.

Abstractions. The 30 s time-out may come whenever there is no free connection. Statements
take no time against the window. Left out: wrong credentials and the agent certificate's
check (the same waits with fewer outcomes), the log-in's own request, the thread that
`get_db` is entered in, and `/health/ready`.

### AuthorityBuilder

One document or corpus, its candidate policy, the people it names and one delegation.
`EditCandidate`, `DismissCandidate`; promotion as `FindDelegator`, `CreatePolicy` (its own
commit) and `CloseCandidate`; `Identify` resolves a discovery to a principal; `MatchFrom`,
`MatchTo`, `SaveEnds` are `resolve_relationship`; `Activate`. The extraction (`Extract`,
`ExtractFails`) finds anything: what a language model reads in a document is an input.
Who delegates a policy is what its content says (`Delegator`), and an edit may change it;
a promotion looks up the name in the content it has loaded. Left out: `answer_question`,
which changes no delegation.

### Console

`BootReadOrg`, `BootReadOwner`, `BootCommit` are `ensure_owner_bootstrapped`;
`LoadSettings`, `SaveSettings` are `update_settings` with any of the fields at once
(columns are written alone, the rest as one JSON value); a request is about its caller's
own organization, or, with the operator key, about the first; `LoadAddress`, `SaveOwner`
claim the bootstrapped account or do `create_user`'s check, `SaveUser` its INSERT under the
unique address; `LoadUser`, `SaveUserChange` change a role or a status. Passwords and the
claimed flag are left out; changes to the value already there change nothing and are left
out.

### SdkClient

Processes that share `credentials.json` call the server over a network that may drop a
request, drop its answer, or serve it late. `Serve` is what the server does with a request
(create, activate, rotate, retire an agent, decide an intent), `Answered` and `Unanswered`
what `HttpClient.request` makes of it, retries included; `ReadFile`, `Truncate`, `Fill` are
the store's read-modify-write, which is not atomic; `Restart` loses the process's memory
anywhere, and with it every private key that `register` or `rotate_keys` has made: the new
Agent object has the key it is configured with (`Configured`), or none, and looks for an
entry only under that. Heartbeats, the resolution of principals and the timestamp's five
minutes are left out.

## 3. Runs

`pass` runs end with no error; the `violation` run, deleted, shows a statement of the
documentation that the code does not keep.

| Run | Instance | Checks | States |
|---|---|---|---|
| shared | two agents of one organisation, one intent each, a reviewer, v1 records in both scopes, one agent's status changed at any time | TypeOK, LinksLeadBack, BrokenOnlyByOverlap, VerificationReliable, StaleAllowOnlyInFlight | 95,000 |
| fair | one intent sent twice, two disagreeing reviewers, fairness | EvidenceAccounts, RequestsEnd, ImplementsRegister | 30,000 |
| deploys | two operators, two policies of which one is edited and then conflicts with the other; failed uploads, aborts, restarts | TypeOK, OneActiveVersion, ServedIsSound, WholeSetServed, LifecycleFollowed | 1.8 million |
| governed | an intent, two operators on one delegated policy that is edited once; a mandate id of a client's own; refused deploys, aborted intents, restarts | RowOfAnswer, MandateKept, MandateOfMatch | 2.4 million |
| races | three overlapping operations on one agent, three certificates | ConsistentUnlessRaced, DeadStayDead | 110,000 |
| matching | every pair of condition lists over all operators, two fields, absent ones included; policies narrowed to agents and resources | AtMostOneMatch, AllowIsUnanimous, NarrowedNeverDecides | 12,000 |
| retries | two processes, one with a key of its own; two agents, three certificates; one intent of the other process, one retry of each request; one late request | TypeOK, AtMostOneDecision, StoreIsTruthful, StoreIsCurrent, KeyHeld | 1.5 million |
| builder | two reviewers; three people named, two of them alike; principals known, foreign, not there yet; a content, and an invalid one that names another delegator; two policies, one authority | TypeOK, PromotedOnce, DelegationIsReviewed, ActiveEndsStand | 1.5 million |
| keys | two processes, four configurations of which two share an id, two records | StaysVerifiable, OneActiveKey | 1.0 million |
| console | two workers, two organizations, two users, two addresses, two fields of the settings, both or one in an update | TypeOK, OwnerThere, NothingClobbered | 880,000 |
| admission | three requests of one client, limit 2 in a window of 1, two connections, two threads, fairness | TypeOK, WithinRate, GrantedWhileGood, StarvedOnlyCrowded, AllAnswered | 630,000 |
| deleted | two agents of one organisation, one intent each | DeletionShows (violated) | - |

### What they show

**The ledger.** The unique indexes and the single commits do their work: nothing a
concurrent, repeated or aborted request does shows through, and the pipeline is a
write-once register to its callers (`ImplementsRegister`). The hash chain does not have
the shape that `src/PHASE_5_EVIDENCE.md:13` and `src/SPECIFICATION/13_EVIDENCE_ENGINE.md:61`
describe: the tail is read without a lock, so two overlapping intents of one organisation
both follow the same record, and `verify_chain` reports a broken link where nothing was
deleted or reordered. `BrokenOnlyByOverlap` says that this is the only way to a broken
link, `VerificationReliable` that verification from any date says what verification of the
whole scope would, also when records are committed between its two queries, and what it
says of a removal: it is reported at every record that links to the removed one, and at the
record just after it, unless the transactions of these two overlapped. When they did, both
may link to the same record; the removal of the first of them then takes a reported break
away and adds none, whatever follows. That contradicts the same documents and the docstring
of `verify_chain`, which let every deletion leave a gap (deleted). The last record of a
scope leaves none either, as in any hash chain.

**Deploys.** OPA never holds two policies that can match one intent, nor one that nobody
approved, whatever races, fails or restarts. Everything else has one condition. A status
check, a reading of the other active policies, or a copy of a version's content is not
ordered with other writers: of two overlapping deploys the later one's upload lacks the
earlier one's policy although both are active (against
`src/SPECIFICATION/07_RUNTIME_POLICY_ENGINE.md:94`); an approval can be written over a
version that went on (against `src/POLICY_STUDIO_WORKFLOW.md:39`); an edit that was loaded
before a deploy committed starts a version without its mandate, and the next deploy makes a
second one. `raced` is TRUE once a request has written what it had loaded before others
wrote, `torn` while OPA has the bundle of a deploy that failed after its upload; without
them `WholeSetServed` and `LifecycleFollowed` hold, restarts included, and one mandate is
made for a policy at most. Whatever races, an active version with an Authority names a
mandate, which was made for its policy or given to it by a client (`MandateKept`): the
routers take `authority_id` and `mandate_id` from the request where there is nothing to
preserve, and no mandate is made for a version that names one. The lifecycle has a dead end
even for one operator: a compiled version that another deploy made stale can be neither
deployed nor compiled again (the error message asks for that), only edited into a new
version. And two conflicting policies that overlapping deploys have made active together
keep every later compile, and the reconciliation at startup, from succeeding: after a
restart OPA serves nothing.

**Decisions and deploys.** `submit_intent` reads the policies row first, then asks OPA,
then looks mandates up, and a deploy uploads before it writes. A decision therefore cites
the row of the bundle that answered unless the request crossed a deploy, between its upload
and its commit (`RowOfAnswer`); and it cites mandates for policies that matched only,
each made for its policy or given to it by a client, and that of the very version that was
active unless requests raced (`MandateOfMatch`). A client's mandate may be that of another
policy, or none at all, and needs no race to be cited: the comment in
`schemas/runtime_policy.py:25`, by which no client sets these ids, and the docstring of
`resolve_mandate_ids` (`services/runtime_policy_service.py:130`), by which it reads back
what `_ensure_mandate` stamped, both promise more than the code does.

**Evaluation.** Conflict detection keeps its word with one exception. `AtMostOneMatch`
says when two policies of a compiled bundle may still match one intent: when they put a
boolean and a number on one field, because the compiler compares as Python does
(`True == 1`) and OPA as Rego does (`true < 1`, `true != 1`). The engine's precedence
makes that harmless: an ALLOW is unanimous. A policy narrowed to an agent or a resource
never takes part in a decision (`NarrowedNeverDecides`): the generated rule compares with
`input.agent.id` and `input.intent.resource`, and the input has neither. What such a policy
should have allowed is denied as not covered, what it should have denied is decided without
it, against `domain/runtime_policy/runtime_policy.py:44` and
`src/RUNTIME_POLICY_LANGUAGE.md:22`, which calls the narrowing "a genuine capability".

**Agents.** One certificate at most is active, and status and certificates agree, as long
as no operation writes over what it has not seen. One can: an activation loaded before a
revocation commits after it and brings the agent back, where `src/AGENT_LIFECYCLE.md:21`
calls revoked terminal. `DeadStayDead` says that only such a write does.

**SDK.** One decision comes of one call, however often it is sent, and the store never
pairs a key with another key's certificate, even when a crash or a second process garbles
the file, which then reads as empty. Agents get lost in two ways. One is a mishap (`mishap`
marks it): a request that was served and not heard (a retried `POST /agents` registers a
second agent; a retried activate or retire is refused with 409; a rotation leaves the
client with a dead key, and a late copy of one rotates away the certificate the client has
just received), a `register` that gave up before it activated, a process that died inside a
call, two processes in the file at once. `StoreIsCurrent` says that nothing else parts the
store from the server: it excepts these cases and so shows neither that they are harmless
nor what comes of them. The other needs no mishap: the store keeps identities, not private
keys. A key that `register` or `rotate_keys` made is gone when its process ends. An
`Agent()` without a key registers a new agent at each start, and one with its configured
key is nobody after a rotation; the certificate stays active. `KeyHeld` says that,
mishaps apart, only that end of a process takes a live certificate's last holder away; that
the key is on file, as `src/SDK_SECURITY.md:11` and `src/SDK_QUICKSTART.md:26` have it, is
false: `RegisteredAgent`, which is what they save, has no key. And a retried intent is
refused as a replay, so that its caller never learns the decision.

**Builders.** A candidate is promoted once, into the content that was reviewed, unless
reviews overlap or a promotion is cut off between its two commits, which leaves the
candidate open for a second policy. A delegation's ends, and what an authority is of, are
people a reviewer has identified, of no foreign organisation; a policy's authority is of
somebody who bears the name its own content gives, also when an edit changes that name
while the promotion runs. `resolve_relationship`, run
again on an active delegation, rewrites an end when two people of the corpus bear its name,
and only then. A failed extraction cannot be repeated, though the docs say it may be,
because no endpoint does it; an unsupported file in the middle of an upload leaves a corpus
`uploaded` for ever.

**Keys.** Rotations, roll-backs, failed and overlapping registrations and a reused id leave
every record verifiable that was signed under a registered key; what a process signs under
an id that the registry holds with other material verifies nowhere. Two registrations that
overlap leave two active keys.

**Console.** `src/RBAC.md:63` says that every boot ensures one organization and one owner.
First boots that overlap make two of each; an owner who was given another role, and whose
address is `settings.owner_email`, makes every later boot fail on the unique address,
silently, and nobody keeps the last owner from being demoted or disabled. Otherwise
`OwnerThere` holds. Users' columns are safe from each other's changes; the settings' JSON
value is written whole, so an update loses another that was saved since it loaded, and
only then.

**Admission.** The limiter is a sliding log (the docs call it a fixed window): refused
requests do not count, an entry exactly 60 s old still does, and the count is per process.
While a coroutine dependency waits for a connection the loop stands still, so that the
requests that hold connections cannot be closed; only the pool's time-out ends that wait,
and it does (`AllAnswered`). What starves is refused: a health page reports the database
offline because it wants a second connection, a handler that only refreshes a row after
its commit answers 500 for a change that was saved. No connection is lost in any of this
(`StarvedOnlyCrowded`). A token that is revoked, or whose user is disabled or demoted,
during the check may still let that request through (an API key is committed as used and
its role read afterwards), a later one not; a user's sessions are not revoked with the
user, but each check looks at the user (`GrantedWhileGood`).

### Bounds

Two requests are enough to race for a nonce, a resolution, a chain tail, an upload or a
row; most runs have one more actor than that (a reviewer, a restart, a second policy, a
third operation) so that a race can happen around a third party's commit. Policies are
edited once because the operations look at the latest version and its predecessor only.
Conditions are on the numbers 1 and 3 and fields take 0 to 4, so that a field may lie
below, on, between and above any two bounds. Three certificates allow two rotations after
the first one; in retries, two agents and one rotation, or one agent and two. Two
connections and three requests are the least with a request that holds one, one that waits
for a second, and one that the loop waits for. A window of 1, a limit of 2 and a clock to 2
let a window begin, pass and be entered again at its edge. Two people of one name and one
of another, and principals of every kind, are the cases of the matching by name; the
builder's two policies are the first promotion and the one too many, one of them or none
with an authority. Of the settings' fields the console run has two without a column, which
may lose each other's update; a field with a column is written alone, as a user's columns
are, and the theorem is for any of both. One `Foreign` mandate stands for all a client may
send that is not of the policy; the deploys run has none, as nothing else depends on
mandates. The shared run changes one agent's status only: the other's would tell the same.
The governed run has one policy, as two are beyond its time, and no failed uploads or
aborted deploys, which the deploys run has; its theorems are for any number and any faults.
Clocks, versions, agents and policies are bounded by their finite sets, not by constraints.
Symmetry is used only in runs without liveness. Deadlock is checked in keys and matching:
elsewhere, once the requests have been sent or the versions used up, the system rightly
stops.

### Fairness

EvidenceLedger's `FairSpec` is weak fairness of `Serve(r)`, one request's next statement: a
thread of the pool runs until it returns, PostgreSQL grants a waiting lock when its holder
ends, and the calls to OPA have time-outs. Nothing is assumed of clients, operators or
failures. `RequestsEnd` is then the absence of a request that waits for a nonce for ever.
Admission's `FairSpec` is weak fairness of `Progress(r)`, the next step of a request in
progress: the loop and the threads run what can run, and the wait for a connection ends by
its time-out. Time need not pass, tokens need not change. `AllAnswered` is false when the
time-out is taken away.

## 4. Proofs

All for any sets of requests, agents, scopes, policies, versions, conflicts, workers,
certificates, keys, credentials, processes, calls, candidates, people, users and settings,
and any limits; the only assumptions are the named ones beside the constants, which the
runs evaluate. They say little: that "no row" is not a row, that what may be discovered is
finite (AuthorityBuilder) and not named like a candidate, that settings have a field
(Console). Every invariant and action property that a run checks is proved, but for the
one that is violated.

- `TypeCorrect`, `PolicyTypeCorrect`, `AgentTypeCorrect`, `EvaluationTypeCorrect`,
  `KeysTypeCorrect`, `AdmissionTypeCorrect`: each `TypeOK` is inductive. (Where no run checks
  it, in races, keys and matching, the proof is for every instance.)
  `ConsoleTypeCorrect`, `BuilderTypeCorrect`, `SdkTypeCorrect` need in addition what a
  request has loaded for its operation: `Fits`, `Extraction`, `Coherence` (a `TypeInv`
  each).
- `ReplayProtection`: an agent's nonce gets one decision. The property alone is not
  inductive: two requests may be about to commit the same nonce. `LabelInv` says which
  requests can stand at which statement, `NonceInv` that among the decided and the
  undecided holders of one nonce there is only one.
- `EvidenceAccounted` (`EvidenceAccounts`). `AccountInv` adds that a record appears with
  the request that is done, so that no two commits write the same record, and that a
  resolve past its checks is about a decision under review.
- `RegisterImplemented` (`ImplementsRegister`): the initial tables map to the empty
  register; `CommitIntent` maps to `Record`, `CommitResolution` to `Resolve`, every other
  step to a stutter. It needs `NonceInv` (the outcome of a nonce is a function) and
  `AccountInv`.
- `VerificationSound` (`VerificationReliable`), from `RangesAgree` and `RemovalsReported`:
  from `ChainInv`, in which records of one scope have different ranks and links lead to
  committed records, to the operators of EvidenceChain. That a successor whose transaction
  did not overlap its predecessor's links to it is again `ChainInv`: it had read the tail.
- `LinksCorrect`, `BreaksNeedOverlap`: `ChainInv` also says of a request past its tail
  read that every record committed before it began, or before the read, is known to it:
  what sorts before it and is not what it linked to was committed after it began.
- `StaleAllowBounded`: `StatusInv` ties the status a session loaded to `statusSince`.
- `OneVersionActive`: `FlushInv`, at most one request stands between its flush and its
  commit, and knows the active version of its policy.
- `ServedSound` (`ServedIsSound`): `BundleInv`, every bundle past compilation is
  unambiguous, which needs `FlushInv` because the active set given to the compiler must
  have one version per policy; `ApprovalInv` follows approval from the status through the
  requests and the bundles to OPA.
- `MandatesKept` (`MandateKept`), `LifecycleKept`: `OrderInv` holds whatever races
  (policies begin with their first version, no mandate is named that was neither issued
  nor sent, an active version with an Authority names one); `FreshInv` holds until somebody
  does: whoever is not stale acts on what is there, the active versions compile, and once
  a mandate was issued the latest version of its policy names it.
- `WholeSetIsServed` (`WholeSetServed`): `ServedInv` adds that, while a deploy that
  may still be committed is between its upload and its end, OPA has the bundle of one of
  these, and otherwise the active set; by `FreshInv` a commit that is not stale is the last.
- `DeploysAsBefore`: GovernedDecisions implements PolicyDeployment, so that every theorem
  above about deploys holds beside the requests that are decided meanwhile.
- `RowIsOfAnswer` (`RowOfAnswer`): by `RowInv` OPA holds the bundle of the last row, or of a
  deploy that has not ended; by `AskInv` a request that has read the row and crossed no
  deploy sees none out, and its row is the last, until OPA answers.
- `MandateIsOfMatch` (`MandateOfMatch`): by `CiteInv` a version that matched while it was
  active keeps the mandate it names, and so does whatever version of its policy is active
  since, until nobody has it left to look up.
- `JointMatchSound`: for any values, conditions and intents, a value that satisfies all
  conditions of two policies on a field keeps the interval check from separating them (the
  value lies between the tightest bounds in Rego's order, and Python's agrees with it
  where the bounds are of one kind). `OneMatch` (`AtMostOneMatch`) follows because only
  sets that compile are served; it says of `Conflict` in PolicyDeployment what
  `ServedSound` needs it to mean.
- `AllowUnanimous`, `AddingSafe`, `NarrowedNever`: the engine's precedence over the matches,
  the monotonicity of matching, and what the input lacks.
- `OneCertificateActive`, `Consistent`, `DeadAreDead`: `RaceInv` says that a task that is
  not stale still sees what it loaded.
- `RecordsVerify` (`StaysVerifiable`), `OneKeyActive`: a row, once there, never changes,
  and a registration retires all it found, which is all there is as long as no other has
  committed since.
- `RateHeld` (`WithinRate`): by `RateInv` the log of a client is the end of its history,
  and all that comes before it is past the window.
- `OnlyGoodGranted` (`GrantedWhileGood`): `TokenInv` follows what each statement of the
  check has seen; `NoConnectionLost` (`StarvedOnlyCrowded`): `HeldInv`, connections are
  held by requests in progress only.

- `PromotedOncePerReview` (`PromotedOnce`): by `PromotionInv` a review that was not
  overtaken is of a pending candidate, and every policy is that of the promoted candidate
  or of a promotion between its two commits, as long as reviews do not overlap and no
  promotion is cut off. That an authority is cited by one policy (`AuthorityWithPolicy`)
  needs no such condition.
- `DelegationsAreReviewed` (`DelegationIsReviewed`), `ActiveEndsStandUnlessTwo`
  (`ActiveEndsStand`): `DelegationInv` follows whoever is found by name (`Vouched`) from
  the discoveries through the requests to delegations and authorities; a second match
  finds another only if two people bear the name. A promotion carries its content with it,
  so that the name looked up is that of the policy it makes.
- `OneDecisionPerCall` (`AtMostOneDecision`): by `DecisionInv` the server's nonces and its
  decisions agree, and `Coherence` makes every copy of a call carry the call's own nonce.
- `StorePairsKeysAndCertificates` (`StoreIsTruthful`): `TruthInv` adds what a process has
  read and is about to write back, and the certificate that `register` is to activate.
  What is on file is garbled or whole, never mixed.
- `StoreIsCurrentUnlessMishap` (`StoreIsCurrent`): the property speaks of the moments
  between calls, `KeptInv` of all of them. As long as processes have keys of their own and
  no mishap has happened, one process at a time is in the file (`OneWriter`); a live
  certificate is on file, or is in the hands of a process that has yet to put it there or
  to activate it (`LiveKept`); an entry that says active is, or is about to be written over
  (`EntriesKept`); a process's identity is on file or about to be (`IdentitiesKept`); a key
  has one live certificate at most (`KeysKept`), and no two processes have to do with one
  key (`KeysApart`). The server's half, `ServerInv`, holds whatever happens. `KeptGoesOn`
  reduces a step to three questions (does the new object fit the file, does a certificate
  change, which keys does it touch); each action has a lemma.
- `KeysLostOnlyAtRestart` (`KeyHeld`) rests on the same invariant: a certificate that is
  granted is for the key of the process that hears of it (`GrantedCert`), and a process
  gives up a key only when its certificate is dead, or in `Restart` (`KeyStays`);
  `HeldStep` puts the actions together.
- `ChangesKept` (`NothingClobbered`): by `TypeInv` a row that was loaded is there when it
  is written, and settings that are not stale are those of now.
- `OwnerStands` (`OwnerThere`): by `OwnerInv` a boot that would make a second organization
  is stale, so that until such a boot commits all users are of the one organization, and
  the unique index on (organization, address) makes an address one user's.

Only model-checked: the liveness properties `RequestsEnd` and `AllAnswered`, as liveness
under fairness is beyond the provers. The violation run shows that its
property is false.

## 5. Not modelled

- **Authority context, legacy listings**: reads only; the former fill the engine's input,
  which PolicyEvaluation takes as any input.
- **Cryptography, OPA's evaluation, the language model, the browser**: libraries and
  services; they enter through what the server does with their answers. A hash stands for
  what it is of, a signature for its key.
- **The order of a bundle's rules**, and so that an unchanged set may hash differently: a
  bundle is a set here, and the deploy refused for that reason is an `Abort`.
- **OPA dying alone** (`src/server/entrypoint.sh:11`): nothing in the code notices it.
- **Passwords, log-in, issue of tokens, headers, exports, metadata, heartbeats, audit
  events**: one statement each, or presentation.
- **Validation and (de)serialisation of one document**: sequential, and covered by the
  unit tests; what it lets through is PolicyEvaluation's input.
- **Migrations** run once, offline.

Open for further work: `Conflict` of PolicyDeployment instantiated by `PolicyConflicts`,
and a bundle as a sequence.
