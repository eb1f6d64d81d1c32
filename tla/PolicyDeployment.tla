--------------------------- MODULE PolicyDeployment ---------------------------
(***************************************************************************)
(* Policy Studio's authoring lifecycle and its deploys                     *)
(* (server/app/services/runtime_policy_service.py): versions of runtime    *)
(* policies, the policies table, the mandates made at a deploy, and the    *)
(* one bundle OPA holds in memory.                                         *)
(*                                                                         *)
(* A request runs in a thread of its own with a database session of its    *)
(* own.  It loads the latest version of a policy, checks its status, and   *)
(* saves later by primary key: nothing makes it look at the row again.     *)
(* Between its statements other requests commit.                           *)
(***************************************************************************)
EXTENDS Naturals, FiniteSets

CONSTANTS
  Key,       \* policy keys
  Version,   \* <<key, n>>: the versions there may come to be, a bound on edits
  Delegated, \* the versions whose content names an Authority there is
  Foreign,   \* mandate ids of no version here that a client may send
  Conflict,  \* pairs of versions that policies_can_jointly_match relates
  Worker,    \* threads serving requests: how many overlap
  Faults     \* which of "crash", "upload" and "abort" may go wrong

ASSUME PolicyAssumption ==
  /\ Version \subseteq Key \X Nat
  /\ Delegated \subseteq Version
  /\ Foreign \cap Nat = {}
  /\ Conflict \subseteq Version \X Version
  /\ Faults \subseteq {"crash", "upload", "abort"}

VARIABLES
  status,        \* runtime_policy_records.status; "none": no such row
  bundle,        \* the versions bundle_hash was computed over; {}: never compiled
  activePolicy,  \* version of the active row of the policies table; 0: none
  mandate,       \* constraints.mandate_id in the content of each version: 0 is none,
                 \* n the n-th mandate made for its policy, others are Foreign
  issued,        \* how many mandates deploys have made for each policy
  opa,           \* the versions in OPA's bundle; {}: none loaded, it answers "undefined"
  task,          \* what each worker has loaded
  server,        \* "starting" until the startup reconciliation has run
  approvals,     \* history: versions a reviewer has approved
  sent,          \* history: <<k, m>>: a client's request gave policy k the mandate m
  raced,         \* history: a request has written what it had loaded before others wrote
  torn           \* history: a deploy has failed after it sent its bundle to OPA

records == <<status, bundle, activePolicy, mandate, issued>>

vars == <<records, opa, task, server, approvals, sent, raced, torn>>

-----------------------------------------------------------------------------
(* State *)

PolicyStatus ==
  {"draft", "pending_review", "approved", "rejected", "compiled", "active", "retired"}

Operation == {"edit", "submit", "approve", "reject", "compile", "deploy"}

(* A request in progress: the version it loaded and the mandate in its     *)
(* content, the versions of its bundle, the policies row it found active,  *)
(* the version it replaces; stale: others have written since it loaded.    *)
Idle == [step |-> "idle", op |-> "none", version |-> <<>>, mandate |-> 0, bundle |-> {},
         prior |-> 0, replaced |-> {}, stale |-> FALSE]

Step == {"loaded", "gathered", "checked", "uploaded", "flushed"}

KeyOf(v) == v[1]

NumberOf(v) == v[2]

Exists(v) == status[v] # "none"

(* get_latest *)
IsLatest(v) ==
  /\ Exists(v)
  /\ \A u \in Version : KeyOf(u) = KeyOf(v) /\ Exists(u) => NumberOf(u) <= NumberOf(v)

ActiveVersions == { v \in Version : status[v] = "active" }

(* Only the policy being compiled, without the others already active.      *)
OtherActiveNone(k) == {}

(* _other_active_policies *)
OtherActive(k) == { v \in ActiveVersions : KeyOf(v) # k }

(* Conflict detection left out.                                            *)
CompilesAlways(S) == TRUE

(* compile_bundle finds no errors: no two policies could match one Intent. *)
Compiles(S) == \A u, v \in S : u # v => <<u, v>> \notin Conflict

(* Compiling without a review.                                             *)
AllowedFromDraft(op) ==
  CASE op = "edit"    -> PolicyStatus
    [] op = "submit"  -> {"draft"}
    [] op = "approve" -> {"pending_review"}
    [] op = "reject"  -> {"pending_review"}
    [] op = "compile" -> {"approved", "draft"}
    [] op = "deploy"  -> {"compiled"}

(* The status check each operation begins with (InvalidTransitionError).   *)
AllowedFrom(op) ==
  CASE op = "edit"    -> PolicyStatus
    [] op = "submit"  -> {"draft"}
    [] op = "approve" -> {"pending_review"}
    [] op = "reject"  -> {"pending_review"}
    [] op = "compile" -> {"approved"}
    [] op = "deploy"  -> {"compiled"}

(* A verdict stored as the name of the operation.                          *)
TargetRaw(op) ==
  CASE op = "submit"  -> "pending_review"
    [] op = "approve" -> "approved"
    [] op = "reject"  -> "reject"

Target(op) ==
  CASE op = "submit"  -> "pending_review"
    [] op = "approve" -> "approved"
    [] op = "reject"  -> "rejected"

Init ==
  /\ status = [v \in Version |-> "none"]
  /\ bundle = [v \in Version |-> {}]
  /\ activePolicy = 0
  /\ mandate = [v \in Version |-> 0]
  /\ issued = [k \in Key |-> 0]
  /\ opa = {}
  /\ task = [w \in Worker |-> Idle]
  /\ server = "starting"
  /\ approvals = {}
  /\ sent = {}
  /\ raced = FALSE
  /\ torn = FALSE

(* The worker's request goes on to its next step, or ends.                 *)
Goes(w, t) == task' = [task EXCEPT ![w] = t]

Ends(w) == Goes(w, Idle)

(* w has written, and ends: requests about the policies K have loaded what *)
(* is no longer there.  (Once some have raced, that is not noted any more.)*)
Commits(w, K) ==
  /\ task' = [x \in Worker |->
                IF x = w THEN Idle
                ELSE IF task[x] # Idle /\ KeyOf(task[x].version) \in K
                  THEN [task[x] EXCEPT !.stale = ~raced]
                ELSE task[x]]
  /\ raced' = (raced \/ task[w].stale)

Own(w) == {KeyOf(task[w].version)}

At(w, step) == server = "up" /\ task[w].step = step

(* A statement that commits nothing and does not reach OPA.                *)
OnlyReads == UNCHANGED <<records, opa, server, approvals, sent, raced, torn>>

-----------------------------------------------------------------------------
(* Authoring *)

(* The mandate_id the new version of k gets (_build_runtime_policy): m,    *)
(* that of the version it is built from, or, if that names none, whatever  *)
(* the client's request says, which may be a mandate of this policy, of    *)
(* another one, or of none.                                                *)
MayName(k, m) == IF m # 0 THEN {m} ELSE {0} \cup Foreign \cup 1..issued[k]

Sent(k, m, n) == sent' = IF n = m THEN sent ELSE sent \cup {<<k, n>>}

(* create_policy inserts version 1 under a fresh key.                      *)
Create(k) ==
  /\ server = "up"
  /\ <<k, 1>> \in Version
  /\ ~Exists(<<k, 1>>)
  /\ status' = [status EXCEPT ![<<k, 1>>] = "draft"]
  /\ \E n \in MayName(k, 0) :
       mandate' = [mandate EXCEPT ![<<k, 1>>] = n] /\ Sent(k, 0, n)
  /\ UNCHANGED <<bundle, activePolicy, issued, opa, task, server, approvals, raced, torn>>

(* An operation on a policy loads its latest version and checks its        *)
(* status; a deploy has loaded bundle_hash with the row.  Version bounds   *)
(* the edits.                                                              *)
Load(w, op, v) ==
  /\ At(w, "idle")
  /\ IsLatest(v)
  /\ op = "edit" => <<KeyOf(v), NumberOf(v) + 1>> \in Version
  /\ status[v] \in AllowedFrom(op)
  /\ Goes(w, [Idle EXCEPT !.step = "loaded", !.op = op, !.version = v,
                          !.mandate = IF op \in {"submit", "compile"} THEN 0 ELSE mandate[v],
                          !.bundle = IF op = "deploy" THEN bundle[v] ELSE {}])
  /\ OnlyReads

(* submit_for_review, approve and reject write the status and commit; the  *)
(* latter two also the content they loaded, with the verdict added.        *)
SaveStatus(w) ==
  /\ At(w, "loaded")
  /\ task[w].op \in {"submit", "approve", "reject"}
  /\ status' = [status EXCEPT ![task[w].version] = Target(task[w].op)]
  /\ mandate' = IF task[w].op = "submit" THEN mandate
                ELSE [mandate EXCEPT ![task[w].version] = task[w].mandate]
  /\ approvals' = IF task[w].op = "approve"
                    THEN approvals \cup {task[w].version} ELSE approvals
  /\ Commits(w, Own(w))
  /\ UNCHANGED <<bundle, activePolicy, issued, opa, server, sent, torn>>

(* The edit overwrites the row it loaded.                                  *)
SaveEditInPlace(w) ==
  /\ At(w, "loaded")
  /\ task[w].op = "edit"
  /\ status' = [status EXCEPT ![task[w].version] = "draft"]
  /\ Commits(w, Own(w))
  /\ UNCHANGED <<bundle, activePolicy, mandate, issued, opa, server, approvals, sent, torn>>

(* The new version starts without the mandate of the one before.           *)
SaveEditAfresh(w) ==
  /\ At(w, "loaded")
  /\ task[w].op = "edit"
  /\ \E v \in Version :
       /\ ~Exists(v) /\ KeyOf(v) = KeyOf(task[w].version)
       /\ Exists(<<KeyOf(v), NumberOf(v) - 1>>)
       /\ status' = [status EXCEPT ![v] = "draft"]
  /\ Commits(w, Own(w))
  /\ UNCHANGED <<bundle, activePolicy, mandate, issued, opa, server, approvals, sent, torn>>

(* edit_policy's router has built the new version's content from the one   *)
(* it loaded: an authority_id or a mandate_id that is there is kept, and   *)
(* where there is none the client's is taken.  The service looks for the   *)
(* latest version again, so it may find a later one, and inserts the next  *)
(* as a draft.  If somebody else has inserted that, UNIQUE(policy_key,     *)
(* version) refuses it.                                                    *)
SaveEdit(w) ==
  /\ At(w, "loaded")
  /\ task[w].op = "edit"
  /\ \E u, v \in Version :
       /\ Exists(u) /\ NumberOf(u) >= NumberOf(task[w].version)
       /\ KeyOf(u) = KeyOf(task[w].version) /\ v = <<KeyOf(u), NumberOf(u) + 1>>
       /\ \/ /\ ~Exists(v)
             /\ task[w].version \in Delegated => v \in Delegated
             /\ status' = [status EXCEPT ![v] = "draft"]
             /\ \E n \in MayName(KeyOf(u), task[w].mandate) :
                  mandate' = [mandate EXCEPT ![v] = n] /\ Sent(KeyOf(u), task[w].mandate, n)
             /\ Commits(w, Own(w))
          \/ Exists(v) /\ Ends(w) /\ UNCHANGED <<status, mandate, sent, raced>>
  /\ UNCHANGED <<bundle, activePolicy, issued, opa, server, approvals, torn>>

-----------------------------------------------------------------------------
(* Compiling and deploying *)

(* Both read the other active policies and compile the whole set.  Compile *)
(* keeps the result; deploy requires the hash that compile stored, and     *)
(* otherwise raises CompilationRequiredError or                            *)
(* BundleChangedSinceCompileError.                                         *)
GatherOthers(w) ==
  LET t == task[w]
      S == {t.version} \cup OtherActive(KeyOf(t.version))
  IN  /\ At(w, "loaded")
      /\ t.op \in {"compile", "deploy"}
      /\ IF Compiles(S) /\ (t.op = "deploy" => S = t.bundle)
           THEN Goes(w, [t EXCEPT !.step = "gathered", !.bundle = S])
           ELSE Ends(w)
      /\ OnlyReads

(* compile_policy stores status and bundle_hash, and commits.              *)
SaveCompiled(w) ==
  LET t == task[w]
  IN  /\ At(w, "gathered")
      /\ t.op = "compile"
      /\ status' = [status EXCEPT ![t.version] = "compiled"]
      /\ bundle' = [bundle EXCEPT ![t.version] = t.bundle]
      /\ Commits(w, Own(w))
      /\ UNCHANGED <<activePolicy, mandate, issued, opa, server, approvals, sent, torn>>

(* deploy_policy reads the row of the policies table that is active.       *)
ReadPrior(w) ==
  /\ At(w, "gathered")
  /\ task[w].op = "deploy"
  /\ Goes(w, [task[w] EXCEPT !.step = "checked", !.prior = activePolicy])
  /\ OnlyReads

(* opa.upload_policy replaces whatever OPA held, before anything is        *)
(* written to the database.                                                *)
Upload(w) ==
  /\ At(w, "checked")
  /\ opa' = task[w].bundle
  /\ torn' = FALSE
  /\ Goes(w, [task[w] EXCEPT !.step = "uploaded"])
  /\ UNCHANGED <<records, server, approvals, sent, raced>>

(* The upload raises (no connection, an error answer, or an answer that    *)
(* does not come in five seconds), OPA having replaced its policy or not.  *)
UploadFails(w) ==
  /\ "upload" \in Faults
  /\ At(w, "checked")
  /\ opa' \in {opa, task[w].bundle}
  /\ torn' = TRUE
  /\ Ends(w)
  /\ UNCHANGED <<records, server, approvals, sent, raced>>

(* The query for the policy's active version returns one row of those      *)
(* there are; it is to be retired unless it is the version deployed.       *)
ToRetire(v) ==
  LET active == { u \in ActiveVersions : KeyOf(u) = KeyOf(v) }
  IN  IF active = {} THEN {{}} ELSE { {u} \ {v} : u \in active }

(* The request goes on, its rows written but not committed.                *)
Flushed(w) ==
  \E R \in ToRetire(task[w].version) :
    Goes(w, [task[w] EXCEPT !.step = "flushed", !.replaced = R])

(* No unique index over the active row.                                    *)
FlushUnchecked(w) ==
  /\ At(w, "uploaded")
  /\ Flushed(w)
  /\ OnlyReads

(* Retire the prior row and insert a new active one: the partial unique    *)
(* index admits one active row, so an uncommitted insert makes this one    *)
(* wait, and a row that became active since ReadPrior refuses it.  Then    *)
(* read the policy's active version, to be retired.                        *)
Flush(w) ==
  /\ At(w, "uploaded")
  /\ \A x \in Worker : task[x].step # "flushed"
  /\ \/ activePolicy = task[w].prior /\ Flushed(w) /\ UNCHANGED torn
     \/ activePolicy # task[w].prior /\ Ends(w) /\ torn' = TRUE
  /\ UNCHANGED <<records, opa, server, approvals, sent, raced>>

(* _ensure_mandate makes one for every version that is deployed.           *)
NeedsMandateAlways(t) == t.version \in Delegated

(* _ensure_mandate: for a version with an Authority, unless the content    *)
(* loaded names a mandate, whoever put it there.  (An authority_id that is *)
(* not a UUID raises here: an Abort.)                                      *)
NeedsMandate(t) == t.version \in Delegated /\ t.mandate = 0

(* The commit of deploy_policy: the rows, and the content it loaded with   *)
(* the mandate filled in.                                                  *)
CommitDeploy(w) ==
  LET t == task[w]
      k == KeyOf(t.version)
  IN  /\ At(w, "flushed")
      /\ status' = [v \in Version |-> IF v = t.version THEN "active"
                                      ELSE IF v \in t.replaced THEN "retired"
                                      ELSE status[v]]
      /\ activePolicy' = activePolicy + 1
      /\ IF NeedsMandate(t)
           THEN /\ issued' = [issued EXCEPT ![k] = @ + 1]
                /\ mandate' = [mandate EXCEPT ![t.version] = issued[k] + 1]
           ELSE /\ UNCHANGED issued
                /\ mandate' = [mandate EXCEPT ![t.version] = t.mandate]
      /\ Commits(w, Key)
      /\ UNCHANGED <<bundle, opa, server, approvals, sent, torn>>

-----------------------------------------------------------------------------
(* The process *)

(* A statement fails or the connection is lost: the request ends, and what *)
(* it had flushed is rolled back.  What it sent to OPA stays.              *)
Abort(w) ==
  /\ "abort" \in Faults
  /\ task[w] # Idle
  /\ torn' = (torn \/ task[w].step \in {"uploaded", "flushed"})
  /\ Ends(w)
  /\ UNCHANGED <<records, opa, server, approvals, sent, raced>>

(* The container stops, and OPA's memory with it; every open transaction   *)
(* is rolled back.                                                         *)
Crash ==
  /\ "crash" \in Faults
  /\ server = "up"
  /\ server' = "starting"
  /\ opa' = {}
  /\ task' = [w \in Worker |-> Idle]
  /\ torn' = FALSE
  /\ UNCHANGED <<records, approvals, sent, raced>>

(* _reconcile_opa_with_active_policies: a set that does not compile, and   *)
(* an upload that fails, are logged and the server starts all the same.    *)
Reconcile ==
  /\ server = "starting"
  /\ server' = "up"
  /\ \/ ActiveVersions # {} /\ Compiles(ActiveVersions) /\ opa' = ActiveVersions /\ UNCHANGED torn
     \/ (ActiveVersions = {} \/ ~Compiles(ActiveVersions)) /\ UNCHANGED <<opa, torn>>
     \/ "upload" \in Faults /\ UNCHANGED opa /\ torn' = TRUE
  /\ UNCHANGED <<records, task, approvals, sent, raced>>

Next ==
  \/ Crash \/ Reconcile
  \/ \E k \in Key : Create(k)
  \/ \E w \in Worker :
       \/ \E op \in Operation, v \in Version : Load(w, op, v)
       \/ SaveStatus(w) \/ SaveEdit(w)
       \/ GatherOthers(w) \/ SaveCompiled(w)
       \/ ReadPrior(w) \/ Upload(w) \/ UploadFails(w) \/ Flush(w) \/ CommitDeploy(w)
       \/ Abort(w)

Spec == Init /\ [][Next]_vars

-----------------------------------------------------------------------------
(* Properties *)

MandateId == Nat \cup Foreign

Tasks ==
  [step : Step, op : Operation, version : Version, mandate : MandateId, bundle : SUBSET Version,
   prior : Nat, replaced : SUBSET Version, stale : BOOLEAN]

(* Type correctness.                                                       *)
TypeOK ==
  /\ status \in [Version -> PolicyStatus \cup {"none"}]
  /\ bundle \in [Version -> SUBSET Version]
  /\ activePolicy \in Nat
  /\ mandate \in [Version -> MandateId]
  /\ issued \in [Key -> Nat]
  /\ opa \subseteq Version
  /\ task \in [Worker -> Tasks \cup {Idle}]
  /\ server \in {"starting", "up"}
  /\ approvals \subseteq Version
  /\ sent \subseteq Key \X MandateId
  /\ raced \in BOOLEAN
  /\ torn \in BOOLEAN

(* However deploys overlap, at most one version of a policy is active: the *)
(* index on the policies table serialises deploys from the flush to the    *)
(* commit, and the version to retire is read inside (deploy_policy).       *)
OneActiveVersion ==
  \A u, v \in ActiveVersions : KeyOf(u) = KeyOf(v) => u = v

Unambiguous(S) ==
  \A u, v \in S : u # v => KeyOf(u) # KeyOf(v) /\ <<u, v>> \notin Conflict

(* OPA never holds two policies that could match one Intent, nor two       *)
(* versions of one policy, nor one that no reviewer has approved, whatever *)
(* races and restarts came before (conflict detection of compile_bundle on *)
(* every path to upload_policy; the status checks that lead to a deploy).  *)
ServedIsSound == Unambiguous(opa) /\ opa \subseteq approvals

(* Between an upload and the end of its deploy apart, OPA holds the whole  *)
(* active set and nothing else, also after a restart (deploy_policy's      *)
(* recompilation of the whole set, reconciliation at startup): unless a    *)
(* request wrote what it had loaded before others wrote, or the last       *)
(* upload's deploy failed, which leaves OPA ahead of the database.         *)
WholeSetServed ==
  /\ server = "up"
  /\ \A w \in Worker : task[w].step \notin {"uploaded", "flushed"}
  /\ ~raced /\ ~torn
  => opa = ActiveVersions

(* A mandate made for the policy k by a deploy (or none), or one that a    *)
(* client's request gave it.                                               *)
Accounted(k, m) == m \in 0..issued[k] \/ <<k, m>> \in sent

(* The active version of a policy with an Authority names a mandate, and   *)
(* whatever a version names was made for its policy or given to its policy *)
(* by a client, whatever overlaps; and through edits and deploys one is    *)
(* made at most, unless a request wrote what it had loaded before others   *)
(* wrote: an edit loaded before a deploy commits starts a version without  *)
(* its mandate (_ensure_mandate, edit_policy).  ConstraintsSchema says no  *)
(* client ever sets a mandate_id; nothing keeps one from it.               *)
MandateKept ==
  /\ \A v \in ActiveVersions \cap Delegated : mandate[v] # 0
  /\ \A v \in Version : Accounted(KeyOf(v), mandate[v])
  /\ ~raced => \A k \in Key : issued[k] <= 1

LifecycleArrows ==
  { <<"none", "draft">>, <<"draft", "pending_review">>, <<"pending_review", "approved">>,
    <<"pending_review", "rejected">>, <<"approved", "compiled">>, <<"compiled", "active">>,
    <<"active", "retired">> }

(* A version moves along the documented lifecycle only, and an active      *)
(* version stays active until a later version of its policy takes over in  *)
(* the same commit, unless a request writes what it had loaded before      *)
(* others wrote (a deployed version becomes "approved" again).             *)
LifecycleFollowed ==
  [][~raced' => \A v \in Version : status'[v] # status[v] =>
       /\ <<status[v], status'[v]>> \in LifecycleArrows
       /\ status'[v] = "retired" =>
            \E u \in Version : /\ KeyOf(u) = KeyOf(v) /\ NumberOf(u) > NumberOf(v)
                               /\ status[u] = "compiled" /\ status'[u] = "active"]_vars
=============================================================================
