------------------------ MODULE GovernedDecisionsProofs ------------------------
(***************************************************************************)
(* Deploys, for every set of policies, versions and conflicts, and however *)
(* many requests overlap: type correctness, one active version per policy, *)
(* OPA serving only approved policies, no two of which could match one     *)
(* Intent; and, unless requests race, the lifecycle, one mandate per       *)
(* policy, and OPA serving the whole active set.                           *)
(*                                                                         *)
(* Then what a decision cites, for any intents.  GovernedDecisions         *)
(* implements PolicyDeployment, so that what is proved of deploys holds    *)
(* beside the requests that decide intents; the policies row is that of    *)
(* the answering bundle, and the mandate that of the version that matched, *)
(* whether a deploy made it or a client's request named it.                *)
(***************************************************************************)
EXTENDS GovernedDecisions, TLAPS

-----------------------------------------------------------------------------
(* Type correctness *)

(* A request whose rows have been overwritten goes on as it was, but for   *)
(* being noted as stale.                                                   *)
Alike(t, u) ==
  /\ t.step = u.step /\ t.op = u.op /\ t.version = u.version /\ t.mandate = u.mandate
  /\ t.bundle = u.bundle /\ t.prior = u.prior /\ t.replaced = u.replaced

LEMMA OthersGoOn ==
  ASSUME task \in [Worker -> Tasks \cup {Idle}], raced \in BOOLEAN,
         NEW w \in Worker, NEW K, Commits(w, K)
  PROVE  /\ task' \in [Worker -> Tasks \cup {Idle}]
         /\ task'[w] = Idle
         /\ \A x \in Worker \ {w} : Alike(task'[x], task[x])
<1>1. ASSUME NEW x \in Worker, task[x] # Idle
      PROVE  /\ [task[x] EXCEPT !.stale = ~raced] \in Tasks
             /\ Alike([task[x] EXCEPT !.stale = ~raced], task[x])
  <2>1. task[x] \in Tasks
    BY <1>1
  <2>2. QED  BY <2>1 DEF Tasks, Alike
<1>2. \A x \in Worker : Alike(task[x], task[x])
  BY DEF Alike
<1>3. QED  BY <1>1, <1>2 DEF Commits

(* When a request ends, whoever has not ended goes on as it was.           *)
LEMMA EndsQuietly ==
  ASSUME task \in [Worker -> Tasks \cup {Idle}], raced \in BOOLEAN,
         NEW w \in Worker, NEW K, Commits(w, K) \/ Ends(w)
  PROVE  \A x \in Worker : task'[x].step # "idle" => Alike(task'[x], task[x])
<1>1. CASE Commits(w, K)
  BY <1>1, OthersGoOn DEF Idle
<1>2. CASE Ends(w)
  BY <1>2 DEF Ends, Goes, Idle, Alike
<1>3. QED  BY <1>1, <1>2

LEMMA NoneIsAnId == 0 \in MandateId
BY DEF MandateId

(* What a request may name is an id, and is noted when a client sent it.   *)
LEMMA NamedIsAnId ==
  ASSUME sent \subseteq Key \X MandateId, issued \in [Key -> Nat],
         NEW k \in Key, NEW m \in MandateId, NEW n \in MayName(k, m), Sent(k, m, n)
  PROVE  n \in MandateId /\ sent' \subseteq Key \X MandateId /\ sent \subseteq sent'
<1>1. n \in MandateId
  BY DEF MayName, MandateId
<1>2. QED  BY <1>1 DEF Sent

(* Every variable keeps to its type (runtime_policy_service.py).           *)
THEOREM PolicyTypeCorrect == Spec => []TypeOK
<1>1. Init => TypeOK
  <2>1. ASSUME NEW idle PROVE [w \in Worker |-> idle] \in [Worker -> Tasks \cup {idle}]
    OBVIOUS
  <2>2. Init => task \in [Worker -> Tasks \cup {Idle}]
    BY <2>1 DEF Init
  <2>3. Init => /\ activePolicy \in Nat /\ opa \subseteq Version
                /\ approvals \subseteq Version /\ sent \subseteq Key \X MandateId
    BY DEF Init
  <2>4. Init => status \in [Version -> PolicyStatus \cup {"none"}]
    BY DEF Init
  <2>5. Init => bundle \in [Version -> SUBSET Version]
    BY DEF Init
  <2>6. Init => mandate \in [Version -> MandateId] /\ issued \in [Key -> Nat]
    BY NoneIsAnId DEF Init
  <2>7. Init => server \in {"starting", "up"} /\ raced \in BOOLEAN /\ torn \in BOOLEAN
    BY DEF Init
  <2>8. QED  BY <2>2, <2>3, <2>4, <2>5, <2>6, <2>7 DEF TypeOK
<1>2. TypeOK /\ [Next]_vars => TypeOK'
  <2> SUFFICES ASSUME TypeOK, [Next]_vars PROVE TypeOK'
    OBVIOUS
  <2> USE DEF TypeOK, records
  <2>0. ASSUME NEW w \in Worker, task[w].step # "idle" PROVE task[w] \in Tasks
    BY <2>0 DEF Idle
  <2>01. ASSUME NEW w \in Worker, NEW K, Commits(w, K)
         PROVE  task' \in [Worker -> Tasks \cup {Idle}] /\ raced' \in BOOLEAN
    <3>1. task[w].stale \in BOOLEAN
      <4>1. CASE task[w] = Idle
        BY <4>1 DEF Idle
      <4>2. CASE task[w] \in Tasks
        BY <4>2 DEF Tasks
      <4>3. QED  BY <4>1, <4>2
    <3>2. QED  BY <2>01, <3>1, OthersGoOn DEF Commits
  <2>1. CASE Crash
    BY <2>1 DEF Crash
  <2>2. CASE Reconcile
    BY <2>2 DEF Reconcile, ActiveVersions
  <2>3. ASSUME NEW k \in Key, Create(k) PROVE TypeOK'
    <3>1. PICK n \in MayName(k, 0) :
            mandate' = [mandate EXCEPT ![<<k, 1>>] = n] /\ Sent(k, 0, n)
      BY <2>3 DEF Create
    <3>2. n \in MandateId /\ sent' \subseteq Key \X MandateId
      BY <3>1, NoneIsAnId, NamedIsAnId
    <3>3. mandate' \in [Version -> MandateId]
      BY <3>1, <3>2
    <3>4. QED  BY <2>3, <3>2, <3>3 DEF Create, PolicyStatus
  <2>4. ASSUME NEW w \in Worker, NEW op \in Operation, NEW v \in Version, Load(w, op, v)
        PROVE TypeOK'
    <3>1. [Idle EXCEPT !.step = "loaded", !.op = op, !.version = v,
                       !.mandate = IF op \in {"submit", "compile"} THEN 0 ELSE mandate[v],
                       !.bundle = IF op = "deploy" THEN bundle[v] ELSE {}] \in Tasks
      BY NoneIsAnId DEF Idle, Tasks, Step
    <3>2. QED  BY <2>4, <3>1 DEF Load, Goes, OnlyReads
  <2>5. ASSUME NEW w \in Worker, SaveStatus(w) PROVE TypeOK'
    <3>1. task[w] \in Tasks
      BY <2>5, <2>0 DEF SaveStatus, At
    <3>2. Target(task[w].op) \in PolicyStatus
      BY <2>5 DEF SaveStatus, Target, PolicyStatus
    <3>3. task[w].version \in Version /\ task[w].mandate \in MandateId
      BY <3>1 DEF Tasks
    <3>4. QED  BY <2>5, <2>01, <3>2, <3>3 DEF SaveStatus
  <2>6. ASSUME NEW w \in Worker, SaveEdit(w) PROVE TypeOK'
    <3>1. task[w].mandate \in MandateId
      BY <2>6, <2>0 DEF SaveEdit, At, Tasks
    <3>2. CASE Ends(w) /\ UNCHANGED <<status, mandate, sent, raced>>
      BY <2>6, <3>2 DEF SaveEdit, Ends, Goes
    <3>3. ASSUME NEW u \in Version, NEW v \in Version,
                 NEW n \in MayName(KeyOf(u), task[w].mandate),
                 status' = [status EXCEPT ![v] = "draft"],
                 mandate' = [mandate EXCEPT ![v] = n],
                 Sent(KeyOf(u), task[w].mandate, n), Commits(w, Own(w))
          PROVE  TypeOK'
      <4>1. KeyOf(u) \in Key
        BY PolicyAssumption DEF KeyOf
      <4>2. n \in MandateId /\ sent' \subseteq Key \X MandateId
        BY <3>1, <3>3, <4>1, NamedIsAnId
      <4>3. mandate' \in [Version -> MandateId]
        BY <3>3, <4>2
      <4>4. QED  BY <2>6, <2>01, <3>3, <4>2, <4>3 DEF SaveEdit, PolicyStatus
    <3>4. QED  BY <2>6, <3>2, <3>3 DEF SaveEdit
  <2>7. ASSUME NEW w \in Worker, GatherOthers(w) PROVE TypeOK'
    <3>1. task[w] \in Tasks
      BY <2>7, <2>0 DEF GatherOthers, At
    <3> DEFINE S == {task[w].version} \cup OtherActive(KeyOf(task[w].version))
    <3>2. S \subseteq Version
      BY <3>1 DEF Tasks, OtherActive, ActiveVersions
    <3>3. [task[w] EXCEPT !.step = "gathered", !.bundle = S] \in Tasks
      BY <3>1, <3>2 DEF Tasks, Step
    <3>4. QED  BY <2>7, <3>3 DEF GatherOthers, Ends, Goes, OnlyReads
  <2>8. ASSUME NEW w \in Worker, SaveCompiled(w) PROVE TypeOK'
    <3>1. task[w].version \in Version /\ task[w].bundle \subseteq Version
      BY <2>8, <2>0 DEF SaveCompiled, At, Tasks
    <3>2. QED  BY <2>8, <2>01, <3>1 DEF SaveCompiled, PolicyStatus
  <2>9. ASSUME NEW w \in Worker, ReadPrior(w) PROVE TypeOK'
    <3>1. [task[w] EXCEPT !.step = "checked", !.prior = activePolicy] \in Tasks
      BY <2>9, <2>0 DEF ReadPrior, At, Tasks, Step
    <3>2. QED  BY <2>9, <3>1 DEF ReadPrior, Goes, OnlyReads
  <2>10. ASSUME NEW w \in Worker, Upload(w) \/ UploadFails(w) PROVE TypeOK'
    <3>1. task[w] \in Tasks
      BY <2>10, <2>0 DEF Upload, UploadFails, At
    <3>2. [task[w] EXCEPT !.step = "uploaded"] \in Tasks
      BY <3>1 DEF Tasks, Step
    <3>3. task[w].bundle \subseteq Version
      BY <3>1 DEF Tasks
    <3>4. QED  BY <2>10, <3>2, <3>3 DEF Upload, UploadFails, Ends, Goes
  <2>11. ASSUME NEW w \in Worker, Flush(w) PROVE TypeOK'
    <3>1. ASSUME NEW R \in ToRetire(task[w].version)
          PROVE  [task[w] EXCEPT !.step = "flushed", !.replaced = R] \in Tasks
      <4>1. R \subseteq Version
        BY <3>1 DEF ToRetire, ActiveVersions
      <4>2. QED  BY <2>11, <2>0, <4>1 DEF Flush, At, Tasks, Step
    <3>2. QED  BY <2>11, <3>1 DEF Flush, Flushed, Ends, Goes
  <2>12. ASSUME NEW w \in Worker, CommitDeploy(w) PROVE TypeOK'
    <3>1. task[w].version \in Version /\ task[w].mandate \in MandateId
      BY <2>12, <2>0 DEF CommitDeploy, At, Tasks
    <3>2. KeyOf(task[w].version) \in Key
      BY <3>1, PolicyAssumption DEF KeyOf
    <3>3. issued' \in [Key -> Nat]
      BY <2>12, <3>2 DEF CommitDeploy
    <3>31. issued[KeyOf(task[w].version)] + 1 \in MandateId
      BY <3>2 DEF MandateId
    <3>32. mandate' \in [Version -> MandateId]
      BY <2>12, <3>1, <3>31 DEF CommitDeploy
    <3>4. QED  BY <2>12, <2>01, <3>3, <3>32 DEF CommitDeploy, PolicyStatus
  <2>13. ASSUME NEW w \in Worker, Abort(w) PROVE TypeOK'
    BY <2>13 DEF Abort, Ends, Goes
  <2>14. CASE UNCHANGED vars
    BY <2>14 DEF vars
  <2>15. QED
    BY <2>1, <2>2, <2>3, <2>4, <2>5, <2>6, <2>7, <2>8, <2>9, <2>10, <2>11, <2>12, <2>13,
       <2>14 DEF Next
<1>3. QED  BY <1>1, <1>2, PTL DEF Spec

-----------------------------------------------------------------------------
(* One active version *)

(* From the flush to the commit a deploy is alone, and knows every active  *)
(* version of its policy but its own.                                      *)
FlushInv ==
  /\ \A w, x \in Worker : task[w].step = "flushed" /\ task[x].step = "flushed" => w = x
  /\ \A w \in Worker : task[w].step = "flushed" =>
       \A u \in ActiveVersions : KeyOf(u) = KeyOf(task[w].version) =>
                                  u = task[w].version \/ u \in task[w].replaced
  /\ OneActiveVersion

(* A step that makes no version active and flushes nothing.                *)
LEMMA QuietStepFlush ==
  ASSUME FlushInv,
         ActiveVersions' \subseteq ActiveVersions,
         \A w \in Worker : task'[w].step = "flushed" => Alike(task'[w], task[w])
  PROVE  FlushInv'
BY DEF FlushInv, OneActiveVersion, Alike

LEMMA FlushInvariant == Spec => []FlushInv
<1>1. Init => FlushInv
  BY DEF Init, FlushInv, OneActiveVersion, ActiveVersions, Idle
<1>2. TypeOK /\ FlushInv /\ [Next]_vars => FlushInv'
  <2> SUFFICES ASSUME TypeOK, FlushInv, [Next]_vars PROVE FlushInv'
    OBVIOUS
  <2> USE DEF records
  <2>0. ASSUME NEW w \in Worker, NEW K, Commits(w, K) \/ Ends(w),
               ActiveVersions' \subseteq ActiveVersions
        PROVE  FlushInv'
    BY <2>0, EndsQuietly, QuietStepFlush DEF TypeOK
  <2>1. CASE Crash
    BY <2>1, QuietStepFlush DEF Crash, ActiveVersions, Idle
  <2>2. CASE Reconcile
    BY <2>2, QuietStepFlush DEF Reconcile, ActiveVersions, Alike
  <2>3. ASSUME NEW k \in Key, Create(k) PROVE FlushInv'
    <3>1. ActiveVersions' \subseteq ActiveVersions
      BY <2>3 DEF Create, ActiveVersions, TypeOK
    <3>2. QED  BY <2>3, <3>1, QuietStepFlush DEF Create, Alike
  <2>4. ASSUME NEW w \in Worker, NEW op \in Operation, NEW v \in Version, Load(w, op, v)
        PROVE FlushInv'
    <3>1. ActiveVersions' = ActiveVersions
      BY <2>4 DEF Load, OnlyReads, ActiveVersions
    <3>2. \A x \in Worker : task'[x].step = "flushed" => task'[x] = task[x]
      BY <2>4 DEF Load, Goes, Idle, TypeOK
    <3>3. QED  BY <3>1, <3>2, QuietStepFlush DEF Alike
  <2>5. ASSUME NEW w \in Worker, SaveStatus(w) PROVE FlushInv'
    <3>1. Target(task[w].op) # "active"
      BY <2>5 DEF SaveStatus, Target
    <3>2. ActiveVersions' \subseteq ActiveVersions
      BY <2>5, <3>1 DEF SaveStatus, ActiveVersions, TypeOK
    <3>3. QED  BY <2>5, <2>0, <3>2 DEF SaveStatus
  <2>6. ASSUME NEW w \in Worker, SaveEdit(w) PROVE FlushInv'
    <3>1. ActiveVersions' \subseteq ActiveVersions
      BY <2>6 DEF SaveEdit, ActiveVersions, TypeOK
    <3>2. Commits(w, Own(w)) \/ Ends(w)
      BY <2>6 DEF SaveEdit
    <3>3. QED  BY <2>0, <3>1, <3>2
  <2>7. ASSUME NEW w \in Worker,
               GatherOthers(w) \/ ReadPrior(w) \/ Upload(w) \/ UploadFails(w)
        PROVE FlushInv'
    <3>1. ActiveVersions' = ActiveVersions
      BY <2>7 DEF GatherOthers, ReadPrior, Upload, UploadFails, OnlyReads, ActiveVersions
    <3>2. ASSUME NEW t, t.step # "flushed", Goes(w, t) PROVE FlushInv'
      BY <3>1, <3>2, QuietStepFlush DEF Goes, TypeOK, Alike
    <3>3. CASE Goes(w, Idle)
      BY <3>2, <3>3 DEF Idle
    <3>4. task[w].step # "idle" => task[w] \in Tasks
      BY DEF TypeOK, Idle
    <3>5. CASE GatherOthers(w)
      <4> DEFINE S == {task[w].version} \cup OtherActive(KeyOf(task[w].version))
                 t == [task[w] EXCEPT !.step = "gathered", !.bundle = S]
      <4>1. t.step # "flushed"
        BY <3>4, <3>5 DEF GatherOthers, At, Tasks
      <4>2. QED  BY <3>2, <3>3, <3>5, <4>1 DEF GatherOthers, Ends
    <3>6. CASE ReadPrior(w)
      <4> DEFINE t == [task[w] EXCEPT !.step = "checked", !.prior = activePolicy]
      <4>1. t.step # "flushed"
        BY <3>4, <3>6 DEF ReadPrior, At, Tasks
      <4>2. QED  BY <3>2, <3>6, <4>1 DEF ReadPrior
    <3>7. CASE Upload(w)
      <4> DEFINE t == [task[w] EXCEPT !.step = "uploaded"]
      <4>1. t.step # "flushed"
        BY <3>4, <3>7 DEF Upload, At, Tasks
      <4>2. QED  BY <3>2, <3>7, <4>1 DEF Upload
    <3>8. CASE UploadFails(w)
      BY <3>3, <3>8 DEF UploadFails, Ends
    <3>9. QED  BY <2>7, <3>5, <3>6, <3>7, <3>8
  <2>8. ASSUME NEW w \in Worker, SaveCompiled(w) PROVE FlushInv'
    <3>1. ActiveVersions' \subseteq ActiveVersions
      BY <2>8 DEF SaveCompiled, ActiveVersions, TypeOK
    <3>2. QED  BY <2>8, <2>0, <3>1 DEF SaveCompiled
  <2>9. ASSUME NEW w \in Worker, Flush(w) PROVE FlushInv'
    <3>1. ActiveVersions' = ActiveVersions
      BY <2>9 DEF Flush, OnlyReads, ActiveVersions
    <3>2. ASSUME NEW R \in ToRetire(task[w].version), NEW t,
                 t = [task[w] EXCEPT !.step = "flushed", !.replaced = R],
                 Goes(w, t)
          PROVE  FlushInv'
      <4>1. task[w] \in Tasks
        BY <2>9 DEF Flush, At, TypeOK, Idle
      <4>2. t.version = task[w].version /\ t.replaced = R
        BY <3>2, <4>1 DEF Tasks
      <4>3. task'[w] = t /\ \A x \in Worker \ {w} : task'[x] = task[x]
        BY <3>2 DEF Goes, TypeOK
      <4>4. \A x \in Worker : task[x].step # "flushed"
        BY <2>9 DEF Flush
      <4>5. \A x \in Worker : task'[x].step = "flushed" => x = w
        BY <4>3, <4>4
      <4>6. \A u \in ActiveVersions : KeyOf(u) = KeyOf(task[w].version) =>
                                       u = task[w].version \/ u \in R
        BY <3>2 DEF ToRetire, FlushInv, OneActiveVersion
      <4>7. \A u \in ActiveVersions : KeyOf(u) = KeyOf(task'[w].version) =>
                                       u = task'[w].version \/ u \in task'[w].replaced
        BY <4>2, <4>3, <4>6
      <4>8. QED  BY <3>1, <4>5, <4>7 DEF FlushInv, OneActiveVersion
    <3>3. CASE Goes(w, Idle)
      BY <2>0, <3>1, <3>3 DEF Ends
    <3>4. QED  BY <2>9, <3>2, <3>3 DEF Flush, Flushed, Ends
  <2>10. ASSUME NEW w \in Worker, CommitDeploy(w) PROVE FlushInv'
    <3>1. task[w].step = "flushed"
      BY <2>10 DEF CommitDeploy, At
    <3>2. \A x \in Worker : task'[x].step # "flushed"
      <4>1. \A x \in Worker : task'[x].step = "flushed" => x # w /\ task[x].step = "flushed"
        BY <2>10, OthersGoOn DEF CommitDeploy, TypeOK, Idle, Alike
      <4>2. QED  BY <3>1, <4>1 DEF FlushInv
    <3>3. \A u \in ActiveVersions' :
            u = task[w].version \/ (u \in ActiveVersions /\ u \notin task[w].replaced)
      BY <2>10 DEF CommitDeploy, ActiveVersions, TypeOK
    <3>4. OneActiveVersion'
      BY <3>1, <3>3 DEF FlushInv, OneActiveVersion
    <3>5. QED  BY <3>2, <3>4 DEF FlushInv
  <2>11. ASSUME NEW w \in Worker, Abort(w) PROVE FlushInv'
    BY <2>11, <2>0 DEF Abort, ActiveVersions
  <2>12. CASE UNCHANGED vars
    BY <2>12, QuietStepFlush DEF vars, ActiveVersions, Alike
  <2>13. QED
    BY <2>1, <2>2, <2>3, <2>4, <2>5, <2>6, <2>7, <2>8, <2>9, <2>10, <2>11, <2>12 DEF Next
<1>3. QED  BY <1>1, <1>2, PolicyTypeCorrect, PTL DEF Spec

(* However deploys overlap, crash and fail, at most one version of a       *)
(* policy is active (deploy_policy).                                       *)
THEOREM OneVersionActive == Spec => []OneActiveVersion
<1>1. FlushInv => OneActiveVersion
  BY DEF FlushInv
<1>2. QED  BY <1>1, FlushInvariant, PTL

-----------------------------------------------------------------------------
(* What is served *)

Past == {"gathered", "checked", "uploaded", "flushed"}

(* The two halves of ServedIsSound.                                        *)
ServedIsUnambiguous == Unambiguous(opa)

ServedWasApproved == opa \subseteq approvals

(* What a request past its compilation carries, and what OPA holds.        *)
BundleInv ==
  /\ \A w \in Worker : task[w].step \in Past => Unambiguous(task[w].bundle)
  /\ ServedIsUnambiguous

(* A step that sends nothing to OPA and compiles nothing.                  *)
LEMMA QuietStepBundle ==
  ASSUME BundleInv,
         opa' = opa,
         \A w \in Worker : task'[w].step \in Past =>
           task[w].step \in Past /\ task'[w].bundle = task[w].bundle
  PROVE  BundleInv'
BY DEF BundleInv, ServedIsUnambiguous, Unambiguous

LEMMA BundleInvariant == Spec => []BundleInv
<1>1. Init => BundleInv
  BY DEF Init, BundleInv, ServedIsUnambiguous, Unambiguous, Idle, Past
<1>2. TypeOK /\ FlushInv /\ BundleInv /\ [Next]_vars => BundleInv'
  <2> SUFFICES ASSUME TypeOK, FlushInv, BundleInv, [Next]_vars PROVE BundleInv'
    OBVIOUS
  <2>01. ASSUME NEW w \in Worker, NEW K, Commits(w, K) \/ Ends(w), opa' = opa
         PROVE  BundleInv'
    <3>1. \A x \in Worker : task'[x].step \in Past => Alike(task'[x], task[x])
      BY <2>01, EndsQuietly DEF TypeOK, Past
    <3>2. QED  BY <2>01, <3>1, QuietStepBundle DEF Alike
  <2>0. ASSUME NEW w \in Worker, task[w].step # "idle" PROVE task[w] \in Tasks
    BY <2>0 DEF TypeOK, Idle
  <2>1. CASE Crash
    BY <2>1 DEF Crash, BundleInv, ServedIsUnambiguous, Unambiguous, Idle, Past
  <2>2. CASE Reconcile
    <3>1. Compiles(ActiveVersions) => Unambiguous(ActiveVersions)
      BY DEF FlushInv, OneActiveVersion, Compiles, Unambiguous
    <3>2. CASE opa' = opa
      BY <2>2, <3>2, QuietStepBundle DEF Reconcile
    <3>3. CASE Compiles(ActiveVersions) /\ opa' = ActiveVersions
      BY <2>2, <3>1, <3>3 DEF Reconcile, BundleInv, ServedIsUnambiguous, Unambiguous
    <3>4. QED  BY <2>2, <3>2, <3>3 DEF Reconcile
  <2>3. ASSUME NEW k \in Key, Create(k) PROVE BundleInv'
    BY <2>3, QuietStepBundle DEF Create
  <2>4. ASSUME NEW w \in Worker, NEW op \in Operation, NEW v \in Version, Load(w, op, v)
        PROVE BundleInv'
    <3>1. task' = [task EXCEPT ![w] = task'[w]] /\ task'[w].step = "loaded"
      BY <2>4 DEF Load, Goes, Idle, TypeOK
    <3>2. QED  BY <2>4, <3>1, QuietStepBundle DEF Load, OnlyReads, Past, TypeOK
  <2>5. ASSUME NEW w \in Worker, SaveStatus(w) \/ SaveEdit(w) \/ SaveCompiled(w)
        PROVE BundleInv'
    <3>1. opa' = opa /\ (Commits(w, Own(w)) \/ Ends(w))
      BY <2>5 DEF SaveStatus, SaveEdit, SaveCompiled
    <3>2. QED  BY <2>01, <3>1
  <2>6. ASSUME NEW w \in Worker, GatherOthers(w) PROVE BundleInv'
    <3> DEFINE S == {task[w].version} \cup OtherActive(KeyOf(task[w].version))
               t == [task[w] EXCEPT !.step = "gathered", !.bundle = S]
    <3>1. Compiles(S) => Unambiguous(S)
      BY DEF FlushInv, OneActiveVersion, Compiles, Unambiguous, OtherActive
    <3>2. CASE Compiles(S) /\ task' = [task EXCEPT ![w] = t]
      <4>1. t.bundle = S
        BY <2>0, <2>6 DEF GatherOthers, At, Tasks
      <4>2. task'[w] = t /\ \A x \in Worker \ {w} : task'[x] = task[x]
        BY <3>2 DEF TypeOK
      <4>3. opa' = opa
        BY <2>6 DEF GatherOthers, OnlyReads
      <4> HIDE DEF t
      <4>4. QED  BY <3>1, <3>2, <4>1, <4>2, <4>3
                 DEF BundleInv, ServedIsUnambiguous, Unambiguous
    <3>3. CASE Goes(w, Idle)
      BY <2>6, <3>3, QuietStepBundle DEF GatherOthers, OnlyReads, Goes, Idle, Past, TypeOK
    <3>4. QED  BY <2>6, <3>2, <3>3 DEF GatherOthers, Ends, Goes
  <2>7. ASSUME NEW w \in Worker, ReadPrior(w) PROVE BundleInv'
    <3> DEFINE t == [task[w] EXCEPT !.step = "checked", !.prior = activePolicy]
    <3>1. t.bundle = task[w].bundle /\ task[w].step \in Past
      BY <2>0, <2>7 DEF ReadPrior, At, Tasks, Past
    <3>2. QED  BY <2>7, <3>1, QuietStepBundle DEF ReadPrior, OnlyReads, Goes, TypeOK
  <2>8. ASSUME NEW w \in Worker, Upload(w) PROVE BundleInv'
    <3> DEFINE t == [task[w] EXCEPT !.step = "uploaded"]
    <3>1. t.bundle = task[w].bundle /\ task[w].step \in Past
      BY <2>0, <2>8 DEF Upload, At, Tasks, Past
    <3>2. task'[w] = t /\ \A x \in Worker \ {w} : task'[x] = task[x]
      BY <2>8 DEF Upload, Goes, TypeOK
    <3>3. opa' = task[w].bundle
      BY <2>8 DEF Upload
    <3> HIDE DEF t
    <3>4. QED  BY <3>1, <3>2, <3>3 DEF BundleInv, ServedIsUnambiguous, Unambiguous
  <2>9. ASSUME NEW w \in Worker, UploadFails(w) PROVE BundleInv'
    <3>1. \A x \in Worker : task'[x].step \in Past => x # w /\ task'[x] = task[x]
      BY <2>9 DEF UploadFails, Ends, Goes, Idle, Past, TypeOK
    <3>2. opa' = opa \/ opa' = task[w].bundle
      BY <2>9 DEF UploadFails
    <3>3. task[w].step \in Past
      BY <2>9 DEF UploadFails, At, Past
    <3>4. QED  BY <3>1, <3>2, <3>3 DEF BundleInv, ServedIsUnambiguous, Unambiguous
  <2>10. ASSUME NEW w \in Worker, Flush(w) PROVE BundleInv'
    <3>1. ASSUME NEW R, NEW t, t = [task[w] EXCEPT !.step = "flushed", !.replaced = R]
          PROVE  t.bundle = task[w].bundle /\ task[w].step \in Past
      BY <2>0, <2>10, <3>1 DEF Flush, At, Tasks, Past
    <3>2. ASSUME NEW t, Goes(w, t),
                 t = Idle \/ (t.bundle = task[w].bundle /\ task[w].step \in Past)
          PROVE  BundleInv'
      <4>1. \A x \in Worker : task'[x].step \in Past =>
              task[x].step \in Past /\ task'[x].bundle = task[x].bundle
        BY <3>2 DEF Goes, Idle, Past, TypeOK
      <4>2. QED  BY <2>10, <4>1, QuietStepBundle DEF Flush, OnlyReads
    <3>3. QED  BY <2>10, <3>1, <3>2 DEF Flush, Flushed, Ends
  <2>11. ASSUME NEW w \in Worker, CommitDeploy(w) PROVE BundleInv'
    BY <2>11, <2>01 DEF CommitDeploy
  <2>12. ASSUME NEW w \in Worker, Abort(w) PROVE BundleInv'
    BY <2>12, <2>01 DEF Abort
  <2>13. CASE UNCHANGED vars
    BY <2>13, QuietStepBundle DEF vars
  <2>14. QED
    BY <2>1, <2>2, <2>3, <2>4, <2>5, <2>6, <2>7, <2>8, <2>9, <2>10, <2>11, <2>12, <2>13
       DEF Next
<1>3. QED  BY <1>1, <1>2, PolicyTypeCorrect, FlushInvariant, PTL DEF Spec

(* Approval follows a version from its review to what OPA holds: through   *)
(* its status, the request that compiles or deploys it, and every bundle.  *)
(* A retired version is left out: nothing deploys it again.                *)
StatusApproved ==
  \A v \in Version : status[v] \in {"approved", "compiled", "active"} => v \in approvals

TaskApproved ==
  \A w \in Worker :
    /\ task[w].op \in {"compile", "deploy"} => task[w].version \in approvals
    /\ task[w].step \in Past =>
         task[w].op \in {"compile", "deploy"} /\ task[w].bundle \subseteq approvals

ApprovalInv == StatusApproved /\ TaskApproved /\ ServedWasApproved

(* A step of one worker that keeps the approvals and goes on with no more  *)
(* than was approved.                                                      *)
LEMMA QuietStepTask ==
  ASSUME TypeOK, TaskApproved,
         NEW w \in Worker, NEW t, Goes(w, t),
         approvals \subseteq approvals',
         t.op \in {"compile", "deploy"} => t.version \in approvals,
         t.step \in Past => t.op \in {"compile", "deploy"} /\ t.bundle \subseteq approvals
  PROVE  TaskApproved'
BY DEF TypeOK, TaskApproved, Goes

LEMMA ApprovalInvariant == Spec => []ApprovalInv
<1>1. Init => ApprovalInv
  BY DEF Init, ApprovalInv, StatusApproved, TaskApproved, ServedWasApproved, Idle, Past
<1>2. TypeOK /\ ApprovalInv /\ [Next]_vars => ApprovalInv'
  <2> SUFFICES ASSUME TypeOK, ApprovalInv, [Next]_vars PROVE ApprovalInv'
    OBVIOUS
  <2> USE DEF ApprovalInv, ServedWasApproved, records
  <2>0. ASSUME NEW w \in Worker, task[w].step # "idle" PROVE task[w] \in Tasks
    BY <2>0 DEF TypeOK, Idle
  <2>01. ASSUME NEW w \in Worker, NEW K, Commits(w, K) \/ Ends(w),
                approvals \subseteq approvals'
         PROVE  TaskApproved'
    <3>1. ASSUME NEW x \in Worker, task'[x].step # "idle"
          PROVE  Alike(task'[x], task[x])
      BY <2>01, <3>1, EndsQuietly DEF TypeOK
    <3>2. ASSUME NEW x \in Worker, task'[x].step = "idle"
          PROVE  task'[x].op \notin {"compile", "deploy"} /\ task'[x].step \notin Past
      <4>1. task'[x] \in Tasks \cup {Idle}
        BY <2>01, OthersGoOn DEF Ends, Goes, TypeOK
      <4>2. task'[x] = Idle
        BY <3>2, <4>1 DEF Tasks, Step
      <4>3. QED  BY <4>2 DEF Idle, Past
    <3>3. QED  BY <2>01, <3>1, <3>2 DEF TaskApproved, Alike
  <2>02. ActiveVersions \subseteq approvals
    BY DEF StatusApproved, ActiveVersions
  <2>1. CASE Crash
    BY <2>1 DEF Crash, StatusApproved, TaskApproved, Idle, Past
  <2>2. CASE Reconcile
    BY <2>2, <2>02 DEF Reconcile, StatusApproved, TaskApproved
  <2>3. ASSUME NEW k \in Key, Create(k) PROVE ApprovalInv'
    BY <2>3 DEF Create, StatusApproved, TaskApproved, TypeOK
  <2>4. ASSUME NEW w \in Worker, NEW op \in Operation, NEW v \in Version, Load(w, op, v)
        PROVE ApprovalInv'
    <3> DEFINE t == [Idle EXCEPT !.step = "loaded", !.op = op, !.version = v,
                                 !.mandate = IF op \in {"submit", "compile"} THEN 0
                                             ELSE mandate[v],
                                 !.bundle = IF op = "deploy" THEN bundle[v] ELSE {}]
    <3>1. t.step = "loaded" /\ t.op = op /\ t.version = v
      BY DEF Idle
    <3>2. op \in {"compile", "deploy"} => v \in approvals
      BY <2>4 DEF Load, AllowedFrom, StatusApproved
    <3>3. TaskApproved'
      <4>1. Goes(w, t) /\ approvals' = approvals
        BY <2>4 DEF Load, OnlyReads
      <4> HIDE DEF t
      <4>2. QED  BY <3>1, <3>2, <4>1, QuietStepTask DEF Past
    <3>4. QED  BY <2>4, <3>3 DEF Load, OnlyReads, StatusApproved
  <2>5. ASSUME NEW w \in Worker, SaveStatus(w) PROVE ApprovalInv'
    <3>1. task[w] \in Tasks
      BY <2>0, <2>5 DEF SaveStatus, At
    <3>2. Target(task[w].op) \in {"approved", "compiled", "active"} => task[w].op = "approve"
      BY <2>5 DEF SaveStatus, Target
    <3>3. StatusApproved'
      BY <2>5, <3>1, <3>2 DEF SaveStatus, StatusApproved, TypeOK
    <3>4. QED  BY <2>5, <2>01, <3>3 DEF SaveStatus
  <2>6. ASSUME NEW w \in Worker, SaveEdit(w) PROVE ApprovalInv'
    <3>1. Commits(w, Own(w)) \/ Ends(w)
      BY <2>6 DEF SaveEdit
    <3>2. StatusApproved'
      BY <2>6 DEF SaveEdit, StatusApproved, TypeOK
    <3>3. approvals' = approvals /\ opa' = opa
      BY <2>6 DEF SaveEdit
    <3>4. QED  BY <2>01, <3>1, <3>2, <3>3
  <2>7. ASSUME NEW w \in Worker, GatherOthers(w) PROVE ApprovalInv'
    <3> DEFINE S == {task[w].version} \cup OtherActive(KeyOf(task[w].version))
               t == [task[w] EXCEPT !.step = "gathered", !.bundle = S]
    <3>1. task[w].op \in {"compile", "deploy"} /\ task[w] \in Tasks
      BY <2>0, <2>7 DEF GatherOthers, At
    <3>2. S \subseteq approvals
      BY <2>02, <3>1 DEF TaskApproved, OtherActive
    <3>3. t.op = task[w].op /\ t.version = task[w].version /\ t.bundle = S
      BY <3>1 DEF Tasks
    <3>4. Goes(w, t) \/ Ends(w)
      BY <2>7 DEF GatherOthers
    <3>5. approvals' = approvals /\ opa' = opa /\ status' = status
      BY <2>7 DEF GatherOthers, OnlyReads
    <3> HIDE DEF t
    <3>6. TaskApproved'
      BY <2>01, <3>1, <3>2, <3>3, <3>4, <3>5, QuietStepTask DEF TaskApproved
    <3>7. QED  BY <3>5, <3>6 DEF StatusApproved
  <2>8. ASSUME NEW w \in Worker, SaveCompiled(w) PROVE ApprovalInv'
    <3>1. task[w].version \in approvals
      BY <2>8 DEF SaveCompiled, TaskApproved
    <3>2. StatusApproved'
      BY <2>8, <3>1 DEF SaveCompiled, StatusApproved, TypeOK
    <3>3. QED  BY <2>8, <2>01, <3>2 DEF SaveCompiled
  <2>9. ASSUME NEW w \in Worker, NEW t, Goes(w, t),
               ReadPrior(w) \/ Upload(w) \/ Flush(w),
               t = Idle \/ (/\ t.op = task[w].op /\ t.version = task[w].version
                            /\ t.bundle = task[w].bundle)
        PROVE ApprovalInv'
    <3>1. task[w].step \in Past
      BY <2>9 DEF ReadPrior, Upload, Flush, At, Past
    <3>2. task[w].op \in {"compile", "deploy"} /\ task[w].version \in approvals
          /\ task[w].bundle \subseteq approvals
      BY <3>1 DEF TaskApproved
    <3>3. approvals' = approvals /\ status' = status
      BY <2>9 DEF ReadPrior, Upload, Flush, OnlyReads
    <3>4. TaskApproved'
      BY <2>9, <3>2, <3>3, QuietStepTask DEF Idle, Past
    <3>5. opa' = opa \/ opa' = task[w].bundle
      BY <2>9 DEF ReadPrior, Upload, Flush, OnlyReads
    <3>6. QED  BY <3>2, <3>3, <3>4, <3>5 DEF StatusApproved
  <2>10. ASSUME NEW w \in Worker, ReadPrior(w) PROVE ApprovalInv'
    <3> DEFINE t == [task[w] EXCEPT !.step = "checked", !.prior = activePolicy]
    <3>1. t.op = task[w].op /\ t.version = task[w].version /\ t.bundle = task[w].bundle
      BY <2>0, <2>10 DEF ReadPrior, At, Tasks
    <3>2. Goes(w, t)
      BY <2>10 DEF ReadPrior
    <3> HIDE DEF t
    <3>3. QED  BY <2>9, <2>10, <3>1, <3>2
  <2>11. ASSUME NEW w \in Worker, Upload(w) PROVE ApprovalInv'
    <3> DEFINE t == [task[w] EXCEPT !.step = "uploaded"]
    <3>1. t.op = task[w].op /\ t.version = task[w].version /\ t.bundle = task[w].bundle
      BY <2>0, <2>11 DEF Upload, At, Tasks
    <3>2. Goes(w, t)
      BY <2>11 DEF Upload
    <3> HIDE DEF t
    <3>3. QED  BY <2>9, <2>11, <3>1, <3>2
  <2>12. ASSUME NEW w \in Worker, UploadFails(w) PROVE ApprovalInv'
    <3>1. task[w].bundle \subseteq approvals
      BY <2>12 DEF UploadFails, At, TaskApproved, Past
    <3>2. QED  BY <2>01, <2>12, <3>1 DEF UploadFails, StatusApproved
  <2>13. ASSUME NEW w \in Worker, Flush(w) PROVE ApprovalInv'
    <3>1. ASSUME NEW R, NEW t, t = [task[w] EXCEPT !.step = "flushed", !.replaced = R]
          PROVE  /\ t.op = task[w].op /\ t.version = task[w].version
                 /\ t.bundle = task[w].bundle
      BY <2>0, <2>13, <3>1 DEF Flush, At, Tasks
    <3>2. QED  BY <2>9, <2>13, <3>1 DEF Flush, Flushed, Ends
  <2>14. ASSUME NEW w \in Worker, CommitDeploy(w) PROVE ApprovalInv'
    <3>1. task[w].version \in approvals
      BY <2>14 DEF CommitDeploy, At, TaskApproved, Past
    <3>2. StatusApproved'
      BY <2>14, <3>1 DEF CommitDeploy, StatusApproved, TypeOK
    <3>3. QED  BY <2>14, <2>01, <3>2 DEF CommitDeploy
  <2>15. ASSUME NEW w \in Worker, Abort(w) PROVE ApprovalInv'
    BY <2>15, <2>01 DEF Abort, OnlyReads, StatusApproved
  <2>16. CASE UNCHANGED vars
    BY <2>16 DEF vars, StatusApproved, TaskApproved
  <2>17. QED
    BY <2>1, <2>2, <2>3, <2>4, <2>5, <2>6, <2>7, <2>8, <2>10, <2>11, <2>12, <2>13, <2>14,
       <2>15, <2>16 DEF Next
<1>3. QED  BY <1>1, <1>2, PolicyTypeCorrect, PTL DEF Spec

(* OPA never holds two policies that could match one Intent: conflict      *)
(* detection (compile_bundle) is on every path to upload_policy, and the   *)
(* set it is given holds one version of each policy.  Nor does it hold one *)
(* that was not approved: deploy and reconciliation serve what the review  *)
(* has let through.                                                        *)
THEOREM ServedSound == Spec => []ServedIsSound
<1>1. BundleInv /\ ApprovalInv => ServedIsSound
  BY DEF BundleInv, ApprovalInv, ServedIsUnambiguous, ServedWasApproved, ServedIsSound
<1>2. QED  BY <1>1, BundleInvariant, ApprovalInvariant, PTL

-----------------------------------------------------------------------------
(* The order of things *)

Began(k) == <<k, 1>> \in Version /\ Exists(<<k, 1>>)

(* A request is about versions there are.                                  *)
Ordered(t) ==
  /\ Exists(t.version) /\ \A u \in t.replaced : Exists(u)
  /\ Accounted(KeyOf(t.version), t.mandate)
  /\ t.step = "gathered" => t.op \in {"compile", "deploy"}
  /\ t.step \in {"checked", "uploaded", "flushed"} => t.op = "deploy"

(* What holds whatever has raced: policies begin with their first version, *)
(* and no mandate is named that was neither issued nor sent.               *)
OrderInv ==
  /\ \A v \in Version : Exists(v) => Began(KeyOf(v))
  /\ \A k \in Key : issued[k] > 0 => Began(k)
  /\ \A v \in Version : Accounted(KeyOf(v), mandate[v])
  /\ \A v \in ActiveVersions \cap Delegated : mandate[v] # 0
  /\ \A w \in Worker : task[w] # Idle => Ordered(task[w])

(* w writes the status s and the mandate m of one version v, which it may  *)
(* insert, of the policy it has loaded.                                    *)
Saved(w, v, s, m) ==
  /\ v \in Version /\ KeyOf(v) = KeyOf(task[w].version)
  /\ s \in PolicyStatus \ {"active", "retired"}
  /\ status' = [status EXCEPT ![v] = s]
  /\ sent \subseteq sent'
  /\ m = task[w].mandate \/ m = mandate[v] \/ <<KeyOf(v), m>> \in sent'
  /\ mandate' = [mandate EXCEPT ![v] = m]
  /\ Commits(w, Own(w))

(* What a request that is not stale may rely on.                           *)
Current(t) ==
  /\ IsLatest(t.version)
  /\ status[t.version] \in AllowedFrom(t.op)
  /\ t.op \notin {"submit", "compile"} => t.mandate = mandate[t.version]
  /\ t.step \in Past => t.bundle = {t.version} \cup OtherActive(KeyOf(t.version))
  /\ t.step = "flushed" =>
       \A u \in t.replaced : u \in ActiveVersions /\ KeyOf(u) = KeyOf(t.version)

(* The saves are of that form, and a save that is not stale follows the    *)
(* lifecycle and keeps a mandate that is there.                            *)
FreshSave(w, v, s, m) ==
  /\ <<status[v], s>> \in LifecycleArrows
  /\ \/ v = task[w].version /\ m = mandate[v]
     \/ /\ NumberOf(v) = NumberOf(task[w].version) + 1
        /\ ~Exists(v)
        /\ mandate[task[w].version] # 0 => m = mandate[task[w].version]

LEMMA StaysAccounted ==
  ASSUME TypeOK, TypeOK', NEW k \in Key, issued[k] <= issued'[k], sent \subseteq sent',
         NEW m, Accounted(k, m)
  PROVE  m \in 0..issued'[k] \/ <<k, m>> \in sent'
BY DEF TypeOK, Accounted

LEMMA SaveStep ==
  ASSUME TypeOK, OrderInv, NEW w \in Worker,
         SaveStatus(w) \/ SaveEdit(w) \/ SaveCompiled(w)
  PROVE  /\ task[w] \in Tasks /\ task[w] # Idle
         /\ UNCHANGED <<activePolicy, issued, opa, server, torn>>
         /\ \/ Ends(w) /\ UNCHANGED <<status, mandate, sent, raced>>
            \/ \E v \in Version, s \in PolicyStatus, m \in MandateId :
                 Saved(w, v, s, m) /\ (Current(task[w]) => FreshSave(w, v, s, m))
<1>1. task[w] \in Tasks /\ task[w].step # "idle"
  BY DEF SaveStatus, SaveEdit, SaveCompiled, At, TypeOK, Idle
<1>2. task[w] # Idle
  BY <1>1 DEF Idle
<1>3. UNCHANGED <<activePolicy, issued, opa, server, torn>>
  BY DEF SaveStatus, SaveEdit, SaveCompiled
<1>4. /\ task[w].version \in Version /\ task[w].mandate \in MandateId
      /\ mandate[task[w].version] \in MandateId
  BY <1>1 DEF Tasks, TypeOK
<1>5. CASE SaveStatus(w)
  <2> DEFINE v == task[w].version
             s == Target(task[w].op)
             m == IF task[w].op = "submit" THEN mandate[v] ELSE task[w].mandate
  <2>1. s \in PolicyStatus \ {"active", "retired"} /\ m \in MandateId
    BY <1>4, <1>5 DEF SaveStatus, Target, PolicyStatus
  <2>2. mandate' = [mandate EXCEPT ![v] = m]
    BY <1>4, <1>5 DEF SaveStatus, TypeOK
  <2>3. Saved(w, v, s, m)
    BY <1>4, <1>5, <2>1, <2>2 DEF SaveStatus, Saved
  <2>4. Current(task[w]) => FreshSave(w, v, s, m)
    BY <1>5 DEF SaveStatus, Current, FreshSave, AllowedFrom, Target, LifecycleArrows
  <2> HIDE DEF v, s, m
  <2>5. QED  BY <1>1, <1>2, <1>3, <1>4, <2>1, <2>3, <2>4 DEF v
<1>6. CASE SaveEdit(w)
  <2>1. CASE Ends(w) /\ UNCHANGED <<status, mandate, sent, raced>>
    BY <1>1, <1>2, <1>3, <2>1
  <2>2. ASSUME NEW u \in Version, NEW v \in Version,
               NEW n \in MayName(KeyOf(u), task[w].mandate),
               Exists(u), NumberOf(u) >= NumberOf(task[w].version),
               KeyOf(u) = KeyOf(task[w].version), v = <<KeyOf(u), NumberOf(u) + 1>>,
               ~Exists(v),
               status' = [status EXCEPT ![v] = "draft"],
               mandate' = [mandate EXCEPT ![v] = n], Sent(KeyOf(u), task[w].mandate, n),
               Commits(w, Own(w))
        PROVE  /\ n \in MandateId /\ Saved(w, v, "draft", n)
               /\ Current(task[w]) => FreshSave(w, v, "draft", n)
    <3>0. KeyOf(u) \in Key
      BY PolicyAssumption DEF KeyOf
    <3>01. n \in MandateId /\ sent \subseteq sent'
      BY <1>4, <2>2, <3>0, NamedIsAnId DEF TypeOK
    <3>02. n = task[w].mandate \/ <<KeyOf(u), n>> \in sent'
      BY <2>2 DEF Sent
    <3>1. Saved(w, v, "draft", n)
      BY <2>2, <3>01, <3>02 DEF Saved, PolicyStatus, KeyOf
    <3>2. ASSUME Current(task[w]) PROVE FreshSave(w, v, "draft", n)
      <4>1. NumberOf(u) <= NumberOf(task[w].version)
        BY <2>2, <3>2 DEF Current, IsLatest
      <4>2. NumberOf(u) \in Nat /\ NumberOf(task[w].version) \in Nat
        BY <1>4, PolicyAssumption DEF NumberOf
      <4>3. NumberOf(u) = NumberOf(task[w].version)
        BY <2>2, <4>1, <4>2
      <4>4. NumberOf(v) = NumberOf(u) + 1
        BY <2>2 DEF NumberOf
      <4>5. task[w].mandate = mandate[task[w].version]
        BY <1>6, <3>2 DEF Current, SaveEdit
      <4>6. mandate[task[w].version] # 0 => n = mandate[task[w].version]
        BY <2>2, <4>5 DEF MayName
      <4>7. <<status[v], "draft">> \in LifecycleArrows
        BY <2>2 DEF Exists, LifecycleArrows
      <4>8. QED  BY <2>2, <4>3, <4>4, <4>6, <4>7 DEF FreshSave
    <3>3. QED  BY <3>01, <3>1, <3>2
  <2>3. "draft" \in PolicyStatus
    BY DEF PolicyStatus
  <2>4. QED  BY <1>1, <1>2, <1>3, <1>4, <1>6, <2>1, <2>2, <2>3 DEF SaveEdit
<1>7. CASE SaveCompiled(w)
  <2> DEFINE v == task[w].version
             m == mandate[v]
  <2>1. "compiled" \in PolicyStatus \ {"active", "retired"}
    BY DEF PolicyStatus
  <2>2. mandate' = [mandate EXCEPT ![v] = m]
    BY <1>4, <1>7 DEF SaveCompiled, TypeOK
  <2>3. Saved(w, v, "compiled", m)
    BY <1>4, <1>7, <2>1, <2>2 DEF SaveCompiled, Saved
  <2>4. Current(task[w]) => FreshSave(w, v, "compiled", m)
    BY <1>7 DEF SaveCompiled, Current, FreshSave, AllowedFrom, LifecycleArrows
  <2> HIDE DEF v, m
  <2>5. QED  BY <1>1, <1>2, <1>3, <1>4, <2>1, <2>3, <2>4 DEF v, m
<1>8. QED  BY <1>5, <1>6, <1>7

(* A step of one request that writes nothing.                              *)
LEMMA OrderOwnStep ==
  ASSUME TypeOK, OrderInv, UNCHANGED <<records, sent>>,
         NEW w \in Worker, NEW t, Goes(w, t), t # Idle => Ordered(t)
  PROVE  OrderInv'
<1>1. \A x \in Worker : task'[x] = IF x = w THEN t ELSE task[x]
  BY DEF TypeOK, Goes
<1>2. ASSUME NEW x \in Worker, task'[x] # Idle PROVE Ordered(task[x])'
  BY <1>1, <1>2 DEF OrderInv, Ordered, Exists, records, Accounted
<1>3. QED  BY <1>2 DEF OrderInv, Began, Exists, ActiveVersions, records, Accounted

(* A step that adds versions and mandates, while requests end or go on.    *)
LEMMA OrderKept ==
  ASSUME TypeOK, TypeOK', OrderInv,
         \A v \in Version : Exists(v) => Exists(v)',
         \A v \in Version : Exists(v)' => Exists(v) \/ Began(KeyOf(v))',
         \A k \in Key : issued[k] <= issued'[k],
         \A k \in Key : issued'[k] > 0 => issued[k] > 0 \/ Began(k)',
         sent \subseteq sent',
         \A v \in Version : Accounted(KeyOf(v), mandate[v])',
         \A v \in ActiveVersions' \cap Delegated : mandate'[v] # 0,
         \A w \in Worker : task'[w].step # "idle" => Alike(task'[w], task[w])
  PROVE  OrderInv'
<1>1. ASSUME NEW k \in Key, Began(k) PROVE Began(k)'
  BY <1>1 DEF Began
<1>2. \A v \in Version : KeyOf(v) \in Key
  BY PolicyAssumption DEF KeyOf
<1>3. ASSUME NEW w \in Worker, task'[w] # Idle PROVE Ordered(task[w])'
  <2>1. task'[w] \in Tasks /\ task'[w].step # "idle"
    BY <1>3 DEF TypeOK, Tasks, Step
  <2>2. Alike(task'[w], task[w])
    BY <2>1
  <2>3. task[w] # Idle
    BY <2>1, <2>2 DEF Alike, Idle
  <2>4. task[w] \in Tasks
    BY <2>3 DEF TypeOK
  <2>5. task[w].version \in Version /\ task[w].replaced \subseteq Version
    BY <2>4 DEF Tasks
  <2> DEFINE k == KeyOf(task[w].version)
  <2>6. k \in Key /\ issued[k] <= issued'[k]
    BY <1>2, <2>5
  <2>7. Ordered(task[w])
    BY <2>3 DEF OrderInv
  <2>8. task[w].mandate \in 0..issued'[k] \/ <<k, task[w].mandate>> \in sent'
    BY <2>6, <2>7, StaysAccounted DEF Ordered
  <2>9. /\ status'[task[w].version] # "none"
        /\ \A u \in task[w].replaced : status'[u] # "none"
    BY <2>5, <2>7 DEF Ordered, Exists
  <2> HIDE DEF k
  <2>10. QED  BY <2>2, <2>7, <2>8, <2>9 DEF Ordered, Alike, k, Exists, Accounted
<1>4. \A v \in Version : Exists(v)' => Began(KeyOf(v))'
  BY <1>1, <1>2 DEF OrderInv
<1>5. \A k \in Key : issued'[k] > 0 => Began(k)'
  BY <1>1 DEF OrderInv
<1>6. QED  BY <1>3, <1>4, <1>5 DEF OrderInv

LEMMA OrderInvariant == Spec => []OrderInv
<1>1. Init => OrderInv
  BY PolicyAssumption DEF Init, OrderInv, Exists, ActiveVersions, KeyOf, Accounted
<1>2. TypeOK /\ TypeOK' /\ OrderInv /\ [Next]_vars => OrderInv'
  <2> SUFFICES ASSUME TypeOK, TypeOK', OrderInv, [Next]_vars PROVE OrderInv'
    OBVIOUS
  <2>0. ASSUME NEW w \in Worker, task[w].step # "idle"
        PROVE  task[w] \in Tasks /\ task[w] # Idle /\ Ordered(task[w])
    BY <2>0 DEF TypeOK, Idle, OrderInv
  <2>01. \A v \in Version : KeyOf(v) \in Key
    BY PolicyAssumption DEF KeyOf
  <2>02. ASSUME UNCHANGED <<records, sent>>,
                \A x \in Worker : task'[x].step # "idle" => Alike(task'[x], task[x])
         PROVE  OrderInv'
    <3>1. UNCHANGED <<status, mandate, issued>> /\ ActiveVersions' = ActiveVersions
      BY <2>02 DEF records, ActiveVersions
    <3>2. \A k \in Key : issued[k] \in Nat
      BY DEF TypeOK
    <3>3. QED  BY <2>02, <3>1, <3>2, OrderKept DEF OrderInv, Exists, Began, Accounted
  <2>1. CASE Crash
    BY <2>1, <2>02 DEF Crash, Idle
  <2>2. CASE Reconcile
    BY <2>2, <2>02 DEF Reconcile, Alike
  <2>3. ASSUME NEW k \in Key, Create(k) PROVE OrderInv'
    <3>1. status' = [status EXCEPT ![<<k, 1>>] = "draft"] /\ UNCHANGED <<issued, task>>
          /\ <<k, 1>> \in Version /\ ~Exists(<<k, 1>>)
      BY <2>3 DEF Create
    <3>2. \A v \in Version : Exists(v) => Exists(v)'
      BY <3>1 DEF Exists, TypeOK
    <3>3. \A v \in Version : Exists(v)' => Exists(v) \/ Began(KeyOf(v))'
      BY <3>1 DEF Exists, TypeOK, Began, KeyOf
    <3>4. ActiveVersions' \subseteq ActiveVersions \ {<<k, 1>>}
      BY <3>1 DEF ActiveVersions, Exists, TypeOK
    <3>5. \A k1 \in Key : issued[k1] \in Nat
      BY DEF TypeOK
    <3>6. PICK n \in MayName(k, 0) :
            mandate' = [mandate EXCEPT ![<<k, 1>>] = n] /\ Sent(k, 0, n)
      BY <2>3 DEF Create
    <3>7. sent \subseteq sent' /\ (n = 0 \/ <<k, n>> \in sent')
      BY <3>6 DEF Sent
    <3>8. ASSUME NEW v \in Version PROVE Accounted(KeyOf(v), mandate[v])'
      <4>1. CASE v = <<k, 1>>
        BY <3>1, <3>5, <3>6, <3>7, <4>1 DEF Accounted, KeyOf, TypeOK
      <4>2. CASE v # <<k, 1>>
        BY <3>1, <3>6, <3>7, <4>2 DEF Accounted, OrderInv, TypeOK
      <4>3. QED  BY <4>1, <4>2
    <3>9. \A v \in ActiveVersions' \cap Delegated : mandate'[v] # 0
      BY <3>4, <3>6 DEF OrderInv, ActiveVersions, TypeOK
    <3>10. QED  BY <3>1, <3>2, <3>3, <3>5, <3>7, <3>8, <3>9, OrderKept DEF OrderInv, Alike
  <2>4. ASSUME NEW w \in Worker, NEW op \in Operation, NEW v \in Version, Load(w, op, v)
        PROVE OrderInv'
    <3> DEFINE t == [Idle EXCEPT !.step = "loaded", !.op = op, !.version = v,
                                 !.mandate = IF op \in {"submit", "compile"} THEN 0
                                             ELSE mandate[v],
                                 !.bundle = IF op = "deploy" THEN bundle[v] ELSE {}]
    <3>1. /\ t.step = "loaded" /\ t.version = v /\ t.replaced = {}
          /\ t.mandate = IF op \in {"submit", "compile"} THEN 0 ELSE mandate[v]
      BY DEF Idle
    <3>2. Exists(v) /\ Goes(w, t) /\ UNCHANGED <<records, sent>>
      BY <2>4 DEF Load, OnlyReads, IsLatest
    <3> HIDE DEF t
    <3>3. issued[KeyOf(v)] \in Nat /\ Accounted(KeyOf(v), mandate[v])
      BY <2>01 DEF TypeOK, OrderInv
    <3>31. Accounted(KeyOf(v), 0)
      BY <3>3 DEF Accounted
    <3>4. Ordered(t)
      BY <3>1, <3>2, <3>3, <3>31 DEF Ordered
    <3>5. QED  BY <3>2, <3>4, OrderOwnStep
  <2>5. ASSUME NEW w \in Worker, SaveStatus(w) \/ SaveEdit(w) \/ SaveCompiled(w)
        PROVE OrderInv'
    <3>1. task[w] \in Tasks /\ task[w] # Idle /\ issued' = issued
      BY <2>5, SaveStep
    <3>2. \A x \in Worker : task'[x].step # "idle" => Alike(task'[x], task[x])
      BY <2>5, SaveStep, EndsQuietly DEF TypeOK, Saved
    <3>3. \A k \in Key : issued[k] \in Nat
      BY DEF TypeOK
    <3>4. CASE UNCHANGED <<status, mandate, sent>>
      BY <3>1, <3>2, <3>3, <3>4, OrderKept
         DEF OrderInv, Exists, Began, ActiveVersions, Accounted
    <3>5. ASSUME NEW v \in Version, NEW s \in PolicyStatus, NEW m \in MandateId, Saved(w, v, s, m)
          PROVE  OrderInv'
      <4>1. /\ KeyOf(v) = KeyOf(task[w].version) /\ s \notin {"none", "active"}
            /\ status' = [status EXCEPT ![v] = s] /\ mandate' = [mandate EXCEPT ![v] = m]
        BY <3>5 DEF Saved, PolicyStatus
      <4>2. Ordered(task[w])
        BY <3>1 DEF OrderInv
      <4>03. KeyOf(v) \in Key /\ issued'[KeyOf(v)] = issued[KeyOf(v)] /\ sent \subseteq sent'
        BY <2>01, <3>1, <3>5 DEF Saved
      <4>3. m \in 0..issued'[KeyOf(v)] \/ <<KeyOf(v), m>> \in sent'
        <5>1. CASE Accounted(KeyOf(v), m)
          BY <3>3, <4>03, <5>1, StaysAccounted
        <5>2. CASE <<KeyOf(v), m>> \in sent'
          BY <5>2
        <5>3. QED  BY <3>5, <4>1, <4>2, <5>1, <5>2 DEF Saved, Ordered, OrderInv
      <4>4. ASSUME NEW u \in Version PROVE Accounted(KeyOf(u), mandate[u])'
        <5>1. CASE u = v
          BY <4>1, <4>3, <5>1 DEF TypeOK, Accounted
        <5>2. CASE u # v
          BY <3>1, <4>1, <4>03, <5>2 DEF TypeOK, Accounted, OrderInv
        <5>3. QED  BY <5>1, <5>2
      <4>5. \A u \in Version : Exists(u) => Exists(u)'
        BY <4>1 DEF Exists, TypeOK
      <4>6. task[w].version \in Version
        BY <3>1 DEF Tasks
      <4>7. Began(KeyOf(v))
        BY <4>1, <4>2, <4>6 DEF OrderInv, Ordered
      <4>8. Began(KeyOf(v))'
        BY <4>5, <4>7 DEF Began
      <4>9. \A u \in Version : Exists(u)' => Exists(u) \/ Began(KeyOf(u))'
        BY <4>1, <4>8 DEF Exists, TypeOK
      <4>10. \A u \in ActiveVersions' : u \in ActiveVersions /\ mandate'[u] = mandate[u]
        BY <4>1 DEF ActiveVersions, TypeOK
      <4>11. \A u \in ActiveVersions' \cap Delegated : mandate'[u] # 0
        BY <4>10 DEF OrderInv
      <4>12. QED  BY <3>1, <3>2, <3>3, <4>03, <4>4, <4>5, <4>9, <4>11, OrderKept
    <3>6. QED  BY <2>5, <3>4, <3>5, SaveStep
  <2>6. ASSUME NEW w \in Worker, GatherOthers(w) PROVE OrderInv'
    <3> DEFINE S == {task[w].version} \cup OtherActive(KeyOf(task[w].version))
               t == [task[w] EXCEPT !.step = "gathered", !.bundle = S]
    <3>1. task[w] \in Tasks /\ Ordered(task[w]) /\ task[w].op \in {"compile", "deploy"}
      BY <2>0, <2>6 DEF GatherOthers, At
    <3>2. t.step = "gathered" /\ t.version = task[w].version /\ t.mandate = task[w].mandate
          /\ t.op = task[w].op /\ t.replaced = task[w].replaced
      BY <3>1 DEF Tasks
    <3>3. UNCHANGED <<records, sent>> /\ (Goes(w, t) \/ Goes(w, Idle))
      BY <2>6 DEF GatherOthers, OnlyReads, Ends
    <3> HIDE DEF t
    <3>4. QED  BY <3>1, <3>2, <3>3, OrderOwnStep DEF Ordered
  <2>7. ASSUME NEW w \in Worker, ReadPrior(w) PROVE OrderInv'
    <3> DEFINE t == [task[w] EXCEPT !.step = "checked", !.prior = activePolicy]
    <3>1. task[w] \in Tasks /\ Ordered(task[w]) /\ task[w].op = "deploy"
      BY <2>0, <2>7 DEF ReadPrior, At
    <3>2. t.step = "checked" /\ t.version = task[w].version /\ t.mandate = task[w].mandate
          /\ t.op = task[w].op /\ t.replaced = task[w].replaced
      BY <3>1 DEF Tasks
    <3>3. UNCHANGED <<records, sent>> /\ Goes(w, t)
      BY <2>7 DEF ReadPrior, OnlyReads
    <3> HIDE DEF t
    <3>4. QED  BY <3>1, <3>2, <3>3, OrderOwnStep DEF Ordered
  <2>8. ASSUME NEW w \in Worker, Upload(w) PROVE OrderInv'
    <3> DEFINE t == [task[w] EXCEPT !.step = "uploaded"]
    <3>1. task[w] \in Tasks /\ Ordered(task[w]) /\ task[w].step = "checked"
      BY <2>0, <2>8 DEF Upload, At
    <3>2. t.step = "uploaded" /\ t.version = task[w].version /\ t.mandate = task[w].mandate
          /\ t.op = task[w].op /\ t.replaced = task[w].replaced
      BY <3>1 DEF Tasks
    <3>3. UNCHANGED <<records, sent>> /\ Goes(w, t)
      BY <2>8 DEF Upload
    <3> HIDE DEF t
    <3>4. QED  BY <3>1, <3>2, <3>3, OrderOwnStep DEF Ordered
  <2>9. ASSUME NEW w \in Worker, UploadFails(w) \/ Abort(w) PROVE OrderInv'
    <3>1. UNCHANGED <<records, sent>> /\ Goes(w, Idle)
      BY <2>9 DEF UploadFails, Abort, Ends
    <3>2. QED  BY <3>1, OrderOwnStep
  <2>10. ASSUME NEW w \in Worker, Flush(w) PROVE OrderInv'
    <3>1. task[w] \in Tasks /\ Ordered(task[w]) /\ task[w].step = "uploaded"
      BY <2>0, <2>10 DEF Flush, At
    <3>2. ASSUME NEW R \in ToRetire(task[w].version), NEW t,
                 t = [task[w] EXCEPT !.step = "flushed", !.replaced = R]
          PROVE  Ordered(t)
      <4>1. t.step = "flushed" /\ t.version = task[w].version /\ t.mandate = task[w].mandate
            /\ t.op = task[w].op /\ t.replaced = R
        BY <3>1, <3>2 DEF Tasks
      <4>2. \A u \in R : Exists(u)
        BY DEF ToRetire, ActiveVersions, Exists
      <4>3. QED  BY <3>1, <4>1, <4>2 DEF Ordered
    <3>3. UNCHANGED <<records, sent>>
      BY <2>10 DEF Flush
    <3>4. ASSUME NEW t, Goes(w, t), t = Idle \/ Ordered(t) PROVE OrderInv'
      BY <3>3, <3>4, OrderOwnStep
    <3>5. QED  BY <2>10, <3>2, <3>4 DEF Flush, Flushed, Ends
  <2>11. ASSUME NEW w \in Worker, CommitDeploy(w) PROVE OrderInv'
    <3>1. task[w] \in Tasks /\ Ordered(task[w])
      BY <2>0, <2>11 DEF CommitDeploy, At
    <3>01. PICK v \in Version : v = task[w].version
      BY <3>1 DEF Tasks
    <3>02. PICK k \in Key : k = KeyOf(v)
      BY <2>01
    <3>2. Accounted(k, task[w].mandate) /\ sent' = sent
      BY <2>11, <3>1, <3>01, <3>02 DEF Ordered, CommitDeploy
    <3>3. \A x \in Worker : task'[x].step # "idle" => Alike(task'[x], task[x])
      BY <2>11, EndsQuietly DEF CommitDeploy, TypeOK
    <3>4. /\ \A u \in Version : status'[u] = IF u = v THEN "active"
                                             ELSE IF u \in task[w].replaced THEN "retired"
                                             ELSE status[u]
          /\ \/ /\ v \in Delegated /\ task[w].mandate = 0
                /\ issued' = [issued EXCEPT ![k] = issued[k] + 1]
                /\ mandate' = [mandate EXCEPT ![v] = issued[k] + 1]
             \/ /\ ~(v \in Delegated /\ task[w].mandate = 0)
                /\ issued' = issued
                /\ mandate' = [mandate EXCEPT ![v] = task[w].mandate]
      BY <2>11, <3>01, <3>02 DEF CommitDeploy, NeedsMandate
    <3>5. \A j \in Key : issued[j] \in Nat
      BY DEF TypeOK
    <3>6. \A j \in Key : issued[j] <= issued'[j] /\ (j # k => issued'[j] = issued[j])
      BY <3>4, <3>5 DEF TypeOK
    <3>7. /\ Accounted(k, mandate[v])'
          /\ v \in Delegated => mandate'[v] # 0
          /\ \A u \in Version \ {v} : mandate'[u] = mandate[u]
      BY <3>2, <3>4, <3>5 DEF TypeOK, Accounted
    <3>8. \A u \in Version : Exists(u) => Exists(u)'
      BY <3>4 DEF Exists
    <3>9. Exists(v) /\ Began(k)
      BY <3>1, <3>01, <3>02 DEF OrderInv, Ordered
    <3>10. Began(k)'
      BY <3>8, <3>9 DEF Began
    <3>11. ActiveVersions' \subseteq ActiveVersions \cup {v}
      BY <3>4 DEF ActiveVersions
    <3>12. \A u \in Version : Exists(u)' => Exists(u) \/ Began(KeyOf(u))'
      BY <3>1, <3>02, <3>4, <3>9, <3>10 DEF Exists, Ordered
    <3>13. \A u \in Version : Accounted(KeyOf(u), mandate[u])'
      <4>1. ASSUME NEW u \in Version, u # v PROVE Accounted(KeyOf(u), mandate[u])'
        <5>1. Accounted(KeyOf(u), mandate[u]) /\ issued[KeyOf(u)] <= issued'[KeyOf(u)]
          BY <2>01, <3>6 DEF OrderInv
        <5>2. \/ mandate[u] \in 0..issued'[KeyOf(u)]
              \/ <<KeyOf(u), mandate[u]>> \in sent'
          BY <2>01, <3>2, <5>1, StaysAccounted
        <5>3. QED  BY <3>7, <4>1, <5>2 DEF Accounted
      <4>2. QED  BY <3>02, <3>7, <4>1
    <3>14. \A u \in ActiveVersions' \cap Delegated : mandate'[u] # 0
      <4>1. ActiveVersions \subseteq Version
        BY DEF ActiveVersions
      <4>2. QED  BY <3>7, <3>11, <4>1 DEF OrderInv
    <3>15. \A j \in Key : issued'[j] > 0 => issued[j] > 0 \/ Began(j)'
      BY <3>6, <3>10
    <3>16. QED  BY <3>2, <3>3, <3>6, <3>8, <3>12, <3>13, <3>14, <3>15, OrderKept
  <2>12. CASE UNCHANGED vars
    BY <2>12, <2>02 DEF vars, Alike
  <2>13. QED
    BY <2>1, <2>2, <2>3, <2>4, <2>5, <2>6, <2>7, <2>8, <2>9, <2>10, <2>11, <2>12 DEF Next
<1>3. QED  BY <1>1, <1>2, PolicyTypeCorrect, PTL DEF Spec

-----------------------------------------------------------------------------
(* Requests that are not stale *)

Fresh(t) == t # Idle /\ ~t.stale

(* A version names what an earlier version of its policy names.            *)
Inherited ==
  \A u, v \in Version :
    /\ Exists(u) /\ Exists(v) /\ KeyOf(u) = KeyOf(v)
    /\ NumberOf(v) <= NumberOf(u) /\ mandate[v] # 0
    => mandate[u] = mandate[v]

(* Unless requests have raced: whoever is not stale acts on what is there, *)
(* the active versions compile, and the latest version of a policy names   *)
(* the one mandate issued for it.                                          *)
FreshInv ==
  ~raced =>
    /\ \A w \in Worker : Fresh(task[w]) => Current(task[w])
    /\ Compiles(ActiveVersions)
    /\ \A k \in Key : issued[k] <= 1
    /\ \A v \in Version : IsLatest(v) /\ issued[KeyOf(v)] = 1 => mandate[v] = 1
    /\ Inherited

(* Of the requests about policies that have been written, none is fresh.   *)
LEMMA OthersStale ==
  ASSUME TypeOK, NEW w \in Worker, NEW K, Commits(w, K), ~raced',
         NEW x \in Worker, Fresh(task'[x])
  PROVE  /\ ~raced /\ ~task[w].stale /\ x # w
         /\ task'[x] = task[x] /\ KeyOf(task[x].version) \notin K
<1>1. ~raced /\ ~task[w].stale
  BY DEF Commits
<1>2. x # w /\ task[x] # Idle
  BY DEF Commits, Fresh, TypeOK
<1>3. CASE KeyOf(task[x].version) \in K
  <2>1. task[x] \in Tasks /\ task'[x] = [task[x] EXCEPT !.stale = ~raced]
    BY <1>2, <1>3 DEF Commits, TypeOK
  <2>2. task'[x].stale
    BY <1>1, <2>1 DEF Tasks
  <2>3. QED  BY <2>2 DEF Fresh
<1>4. CASE KeyOf(task[x].version) \notin K
  BY <1>1, <1>2, <1>4 DEF Commits, TypeOK
<1>5. QED  BY <1>3, <1>4

LEMMA FreshOwnStep ==
  ASSUME TypeOK, FreshInv, UNCHANGED records, raced' = raced,
         NEW w \in Worker, NEW t, Goes(w, t), ~raced /\ Fresh(t) => Current(t)
  PROVE  FreshInv'
<1> SUFFICES ASSUME ~raced' PROVE FreshInv'
  BY DEF FreshInv
<1>1. \A x \in Worker : task'[x] = IF x = w THEN t ELSE task[x]
  BY DEF TypeOK, Goes
<1>2. /\ \A u \in Version : IsLatest(u)' <=> IsLatest(u)
      /\ ActiveVersions' = ActiveVersions /\ UNCHANGED <<status, mandate, issued>>
  BY DEF records, IsLatest, Exists, ActiveVersions
<1>3. ASSUME NEW x \in Worker, Fresh(task'[x]) PROVE Current(task[x])'
  <2>1. Current(task'[x])
    BY <1>1, <1>3 DEF FreshInv
  <2>2. QED  BY <1>2, <2>1 DEF Current, OtherActive, IsLatest, Exists
<1>4. Inherited => Inherited'
  BY <1>2 DEF Inherited, Exists
<1>5. QED  BY <1>2, <1>3, <1>4 DEF FreshInv, Compiles

LEMMA LatestUnique ==
  ASSUME NEW u \in Version, NEW v \in Version, IsLatest(u), IsLatest(v), KeyOf(u) = KeyOf(v)
  PROVE  u = v
<1>1. NumberOf(u) \in Nat /\ NumberOf(v) \in Nat
  BY PolicyAssumption DEF NumberOf
<1>2. NumberOf(u) = NumberOf(v)
  BY <1>1 DEF IsLatest
<1>3. QED  BY <1>2, PolicyAssumption DEF KeyOf, NumberOf

(* What a save that is not stale leaves as it was.                         *)
LEMMA FreshSaveKept ==
  ASSUME TypeOK, TypeOK', OrderInv, FreshInv, ~raced', NEW w \in Worker, task[w] # Idle,
         NEW v \in Version, NEW s \in PolicyStatus, NEW m \in MandateId,
         Saved(w, v, s, m), Current(task[w]) => FreshSave(w, v, s, m)
  PROVE  /\ FreshSave(w, v, s, m) /\ Current(task[w])
         /\ ActiveVersions' = ActiveVersions
         /\ \A u \in Version : KeyOf(u) # KeyOf(v) =>
              /\ status'[u] = status[u] /\ mandate'[u] = mandate[u]
              /\ IsLatest(u)' <=> IsLatest(u)
<1>1. Current(task[w])
  BY DEF Saved, Commits, FreshInv, Fresh
<1>2. FreshSave(w, v, s, m)
  BY <1>1
<1>3. /\ status[v] # "active" /\ s # "active" /\ s # "none"
      /\ \A u \in Version : status'[u] = IF u = v THEN s ELSE status[u]
      /\ \A u \in Version : mandate'[u] = IF u = v THEN m ELSE mandate[u]
  BY <1>2 DEF FreshSave, LifecycleArrows, Saved, PolicyStatus, TypeOK
<1>4. ActiveVersions' = ActiveVersions
  BY <1>3 DEF ActiveVersions
<1>5. QED  BY <1>1, <1>2, <1>3, <1>4 DEF IsLatest, Exists

(* The version that is inserted names what the latest does, if that names  *)
(* any; else no earlier version names any.                                 *)
LEMMA SaveInherits ==
  ASSUME TypeOK, Inherited, NEW w \in Worker, task[w] # Idle, Current(task[w]),
         NEW v \in Version, NEW s \in PolicyStatus, NEW m \in MandateId,
         Saved(w, v, s, m), FreshSave(w, v, s, m)
  PROVE  Inherited'
<1>1. PICK l \in Version : l = task[w].version
  BY DEF TypeOK, Tasks
<1>2. /\ IsLatest(l) /\ KeyOf(v) = KeyOf(l)
      /\ \A x \in Version : Exists(x)' <=> Exists(x) \/ x = v
      /\ \A x \in Version : mandate'[x] = IF x = v THEN m ELSE mandate[x]
  BY <1>1 DEF Current, Saved, Exists, TypeOK, PolicyStatus
<1>3. CASE v = l /\ m = mandate[v]
  BY <1>2, <1>3 DEF Inherited, IsLatest
<1>4. CASE /\ NumberOf(v) = NumberOf(l) + 1 /\ ~Exists(v)
           /\ mandate[l] # 0 => m = mandate[l]
  <2> SUFFICES ASSUME NEW x \in Version, NEW y \in Version, Exists(x)', Exists(y)',
                      KeyOf(x) = KeyOf(y), NumberOf(y) <= NumberOf(x), mandate'[y] # 0
               PROVE  mandate'[x] = mandate'[y]
    BY DEF Inherited
  <2>1. CASE x = y
    BY <2>1
  <2>2. CASE x # v /\ y # v
    BY <1>2, <2>2 DEF Inherited
  <2>3. CASE x = v /\ y # v
    <3>1. Exists(y) /\ KeyOf(y) = KeyOf(l)
      BY <1>2, <2>3
    <3>2. NumberOf(y) <= NumberOf(l) /\ Exists(l)
      BY <1>2, <3>1 DEF IsLatest
    <3>3. mandate[l] = mandate[y] /\ mandate[y] # 0
      BY <1>2, <2>3, <3>1, <3>2 DEF Inherited
    <3>4. QED  BY <1>2, <1>4, <2>3, <3>3
  <2>4. CASE y = v /\ x # v
    <3>1. NumberOf(x) <= NumberOf(l)
      BY <1>2, <2>4 DEF IsLatest
    <3>2. NumberOf(x) \in Nat /\ NumberOf(l) \in Nat
      BY PolicyAssumption DEF NumberOf
    <3>3. QED  BY <1>4, <2>4, <3>1, <3>2
  <2>5. QED  BY <2>1, <2>2, <2>3, <2>4
<1>5. QED  BY <1>1, <1>3, <1>4 DEF FreshSave

LEMMA FreshSaveStep ==
  ASSUME TypeOK, TypeOK', OrderInv, FreshInv, NEW w \in Worker, task[w] # Idle,
         issued' = issued,
         NEW v \in Version, NEW s \in PolicyStatus, NEW m \in MandateId,
         Saved(w, v, s, m), Current(task[w]) => FreshSave(w, v, s, m)
  PROVE  FreshInv'
<1> SUFFICES ASSUME ~raced' PROVE FreshInv'
  BY DEF FreshInv
<1>1. /\ FreshSave(w, v, s, m) /\ Current(task[w])
      /\ ActiveVersions' = ActiveVersions
      /\ \A u \in Version : KeyOf(u) # KeyOf(v) =>
           /\ status'[u] = status[u] /\ mandate'[u] = mandate[u]
           /\ IsLatest(u)' <=> IsLatest(u)
  BY FreshSaveKept
<1>2. ~raced /\ KeyOf(v) = KeyOf(task[w].version) /\ Commits(w, {KeyOf(v)})
  BY DEF Saved, Commits, Own
<1>3. ASSUME NEW x \in Worker, Fresh(task'[x]) PROVE Current(task[x])'
  <2>1. task'[x] = task[x] /\ KeyOf(task[x].version) # KeyOf(v)
    BY <1>2, <1>3, OthersStale
  <2>2. PICK u \in Version : u = task[x].version
    BY <1>3, <2>1 DEF Fresh, TypeOK, Tasks
  <2>3. Current(task[x])
    BY <1>2, <1>3, <2>1 DEF FreshInv
  <2>4. status'[u] = status[u] /\ mandate'[u] = mandate[u] /\ IsLatest(u)'
    BY <1>1, <2>1, <2>2, <2>3 DEF Current
  <2>5. QED  BY <1>1, <2>1, <2>2, <2>3, <2>4 DEF Current, OtherActive
<1>4. ASSUME NEW u \in Version, IsLatest(u)', issued'[KeyOf(u)] = 1 PROVE mandate'[u] = 1
  <2>1. CASE KeyOf(u) # KeyOf(v)
    BY <1>1, <1>2, <1>4, <2>1 DEF FreshInv
  <2>2. CASE KeyOf(u) = KeyOf(v)
    <3>1. PICK l \in Version : l = task[w].version
      BY DEF TypeOK, Tasks
    <3>2. IsLatest(l) /\ mandate[l] = 1
      BY <1>1, <1>2, <1>4, <2>2, <3>1 DEF Current, FreshInv
    <3>3. /\ \A x \in Version : Exists(x)' <=> Exists(x) \/ x = v
          /\ \A x \in Version : mandate'[x] = IF x = v THEN m ELSE mandate[x]
      BY DEF Saved, Exists, TypeOK, PolicyStatus
    <3>4. CASE v = l /\ m = mandate[v]
      <4>1. IsLatest(u)
        BY <1>4, <3>2, <3>3, <3>4 DEF IsLatest
      <4>2. u = l
        BY <1>2, <2>2, <3>1, <3>2, <4>1, LatestUnique
      <4>3. QED  BY <3>2, <3>3, <3>4, <4>2
    <3>5. CASE /\ NumberOf(v) = NumberOf(l) + 1 /\ ~Exists(v)
               /\ mandate[l] # 0 => m = mandate[l]
      <4>1. NumberOf(u) >= NumberOf(v)
        BY <1>4, <2>2, <3>3 DEF IsLatest
      <4>2. NumberOf(u) \in Nat /\ NumberOf(v) \in Nat /\ NumberOf(l) \in Nat
        BY PolicyAssumption DEF NumberOf
      <4>3. ~(NumberOf(u) <= NumberOf(l))
        BY <3>5, <4>1, <4>2
      <4>4. ~Exists(u)
        BY <1>2, <2>2, <3>1, <3>2, <4>3 DEF IsLatest
      <4>5. u = v
        BY <1>4, <3>3, <4>4 DEF IsLatest
      <4>6. QED  BY <3>2, <3>3, <3>5, <4>5
    <3>6. QED  BY <1>1, <3>1, <3>4, <3>5 DEF FreshSave
  <2>3. QED  BY <2>1, <2>2
<1>5. Inherited'
  BY <1>1, <1>2, SaveInherits DEF FreshInv
<1>6. QED  BY <1>1, <1>2, <1>3, <1>4, <1>5 DEF FreshInv, Compiles

LEMMA FreshCreateStep ==
  ASSUME TypeOK, OrderInv, FreshInv, NEW k \in Key, Create(k)
  PROVE  FreshInv'
<1> SUFFICES ASSUME ~raced' PROVE FreshInv'
  BY DEF FreshInv
<1>1. /\ ~raced /\ task' = task /\ issued' = issued
      /\ \A u \in Version \ {<<k, 1>>} : mandate'[u] = mandate[u]
      /\ \A u \in Version : status'[u] = IF u = <<k, 1>> THEN "draft" ELSE status[u]
      /\ <<k, 1>> \in Version /\ ~Exists(<<k, 1>>)
  BY DEF Create, TypeOK
<1>2. \A u \in Version : KeyOf(u) = k => ~Exists(u)
  BY <1>1 DEF OrderInv, Began
<1>3. issued[k] = 0
  BY <1>1 DEF OrderInv, Began, TypeOK
<1>4. ActiveVersions' = ActiveVersions
  BY <1>1 DEF ActiveVersions, Exists
<1>5. \A u \in Version : KeyOf(u) # k => (IsLatest(u)' <=> IsLatest(u))
  BY <1>1 DEF IsLatest, Exists, KeyOf
<1>6. ASSUME NEW x \in Worker, Fresh(task[x]) PROVE Current(task[x])'
  <2>1. Current(task[x])
    BY <1>1, <1>6 DEF FreshInv
  <2>2. PICK u \in Version : u = task[x].version
    BY <1>6 DEF Fresh, TypeOK, Tasks
  <2>3. KeyOf(u) # k /\ u # <<k, 1>>
    BY <1>1, <1>2, <2>1, <2>2 DEF Current, IsLatest
  <2>4. QED  BY <1>1, <1>4, <1>5, <2>1, <2>2, <2>3 DEF Current, OtherActive
<1>7. ASSUME NEW u \in Version, IsLatest(u)', issued'[KeyOf(u)] = 1 PROVE mandate'[u] = 1
  <2>1. KeyOf(u) # k /\ u # <<k, 1>>
    BY <1>1, <1>3, <1>7 DEF KeyOf
  <2>2. QED  BY <1>1, <1>5, <1>7, <2>1 DEF FreshInv
<1>8. Inherited'
  <2> SUFFICES ASSUME NEW x \in Version, NEW y \in Version, Exists(x)', Exists(y)',
                      KeyOf(x) = KeyOf(y), NumberOf(y) <= NumberOf(x), mandate'[y] # 0
               PROVE  mandate'[x] = mandate'[y]
    BY DEF Inherited
  <2>1. \A u \in Version : Exists(u)' => Exists(u) \/ u = <<k, 1>>
    BY <1>1 DEF Exists
  <2>2. KeyOf(<<k, 1>>) = k
    BY DEF KeyOf
  <2>3. CASE KeyOf(x) = k
    BY <1>2, <2>1, <2>3
  <2>4. CASE KeyOf(x) # k
    <3>1. Exists(x) /\ Exists(y) /\ x # <<k, 1>> /\ y # <<k, 1>>
      BY <2>1, <2>2, <2>4
    <3>2. QED  BY <1>1, <3>1 DEF FreshInv, Inherited
  <2>5. QED  BY <2>3, <2>4
<1>9. QED  BY <1>1, <1>4, <1>6, <1>7, <1>8 DEF FreshInv, Compiles

(* A deploy that is not stale makes exactly its bundle the active set.     *)
LEMMA FreshCommitKept ==
  ASSUME TypeOK, FlushInv, FreshInv, ~raced', NEW w \in Worker, CommitDeploy(w)
  PROVE  /\ task[w] \in Tasks /\ Current(task[w]) /\ ~raced
         /\ ActiveVersions' = task[w].bundle
<1>1. task[w] \in Tasks /\ task[w].step = "flushed" /\ task[w] # Idle
  BY DEF CommitDeploy, At, TypeOK, Idle
<1>2. ~raced /\ ~task[w].stale
  BY DEF CommitDeploy, Commits
<1>3. Current(task[w])
  BY <1>1, <1>2 DEF FreshInv, Fresh
<1>4. PICK v \in Version : v = task[w].version
  BY <1>1 DEF Tasks
<1>5. \A u \in Version : status'[u] = IF u = v THEN "active"
                                      ELSE IF u \in task[w].replaced THEN "retired"
                                      ELSE status[u]
  BY <1>4 DEF CommitDeploy
<1>6. task[w].bundle = {v} \cup { u \in ActiveVersions : KeyOf(u) # KeyOf(v) }
  BY <1>1, <1>3, <1>4 DEF Current, Past, OtherActive
<1>7. \A u \in ActiveVersions : KeyOf(u) = KeyOf(v) => u = v \/ u \in task[w].replaced
  BY <1>1, <1>4 DEF FlushInv
<1>8. \A u \in task[w].replaced : KeyOf(u) = KeyOf(v)
  BY <1>1, <1>3, <1>4 DEF Current
<1>9. ActiveVersions' = {v} \cup { u \in ActiveVersions : KeyOf(u) # KeyOf(v) }
  BY <1>5, <1>7, <1>8 DEF ActiveVersions
<1>10. QED  BY <1>1, <1>2, <1>3, <1>6, <1>9

LEMMA FreshCommitStep ==
  ASSUME TypeOK, TypeOK', FlushInv, BundleInv, OrderInv, FreshInv,
         NEW w \in Worker, CommitDeploy(w)
  PROVE  FreshInv'
<1> SUFFICES ASSUME ~raced' PROVE FreshInv'
  BY DEF FreshInv
<1>1. /\ task[w] \in Tasks /\ Current(task[w]) /\ ~raced
      /\ ActiveVersions' = task[w].bundle
  BY FreshCommitKept
<1>2. PICK v \in Version : v = task[w].version
  BY <1>1 DEF Tasks
<1>3. PICK k \in Key : k = KeyOf(v)
  BY PolicyAssumption DEF KeyOf
<1>4. task[w].step = "flushed" /\ task[w].op = "deploy" /\ Ordered(task[w])
  BY DEF CommitDeploy, At, OrderInv, Ordered, Idle
<1>5. ASSUME NEW x \in Worker, Fresh(task'[x]) PROVE FALSE
  <2>1. task'[x] = task[x] /\ KeyOf(task[x].version) \notin Key
    BY <1>5, OthersStale DEF CommitDeploy
  <2>2. task[x].version \in Version
    BY <1>5, <2>1 DEF Fresh, TypeOK, Tasks
  <2>3. QED  BY <2>1, <2>2, PolicyAssumption DEF KeyOf
<1>6. Compiles(ActiveVersions)'
  <2>1. Unambiguous(task[w].bundle)
    BY <1>4 DEF BundleInv, Past
  <2>2. QED  BY <1>1, <2>1 DEF Unambiguous, Compiles
<1>7. IsLatest(v) /\ task[w].mandate = mandate[v]
  BY <1>1, <1>2, <1>4 DEF Current
<1>8. \A u \in Version : Exists(u)' <=> Exists(u)
  BY <1>2, <1>4 DEF CommitDeploy, Exists, Ordered
<1>9. \A u \in Version : IsLatest(u)' <=> IsLatest(u)
  BY <1>8 DEF IsLatest
<1>10. \/ /\ mandate[v] = 0
          /\ issued' = [issued EXCEPT ![k] = issued[k] + 1]
          /\ mandate' = [mandate EXCEPT ![v] = issued[k] + 1]
       \/ issued' = issued /\ mandate' = [mandate EXCEPT ![v] = mandate[v]]
  BY <1>2, <1>3, <1>7 DEF CommitDeploy, NeedsMandate
<1>11. CASE issued' = issued /\ mandate' = [mandate EXCEPT ![v] = mandate[v]]
  <2>1. mandate' = mandate
    BY <1>11 DEF TypeOK
  <2>2. Inherited'
    BY <1>1, <1>8, <2>1 DEF FreshInv, Inherited
  <2>3. QED  BY <1>1, <1>5, <1>6, <1>9, <1>11, <2>1, <2>2 DEF FreshInv
<1>12. CASE /\ mandate[v] = 0
            /\ issued' = [issued EXCEPT ![k] = issued[k] + 1]
            /\ mandate' = [mandate EXCEPT ![v] = issued[k] + 1]
  <2>1. issued[k] = 0
    BY <1>1, <1>3, <1>7, <1>12 DEF FreshInv, TypeOK
  <2>2. \A j \in Key : issued'[j] = IF j = k THEN 1 ELSE issued[j]
    BY <1>12, <2>1 DEF TypeOK
  <2>3. \A u \in Version : mandate'[u] = IF u = v THEN 1 ELSE mandate[u]
    BY <1>12, <2>1 DEF TypeOK
  <2>4. ASSUME NEW u \in Version, IsLatest(u)', issued'[KeyOf(u)] = 1 PROVE mandate'[u] = 1
    <3>1. CASE KeyOf(u) = k
      <4>1. u = v
        BY <1>3, <1>7, <1>9, <2>4, <3>1, LatestUnique
      <4>2. QED  BY <2>3, <4>1
    <3>2. CASE KeyOf(u) # k
      <4>1. KeyOf(u) \in Key
        BY PolicyAssumption DEF KeyOf
      <4>2. u # v /\ IsLatest(u) /\ issued[KeyOf(u)] = 1
        BY <1>3, <1>9, <2>2, <2>4, <3>2, <4>1
      <4>3. QED  BY <1>1, <2>3, <4>2 DEF FreshInv
    <3>3. QED  BY <3>1, <3>2
  <2>5. \A j \in Key : issued'[j] <= 1
    BY <1>1, <2>2 DEF FreshInv
  <2>6. Inherited'
    <3> SUFFICES ASSUME NEW x \in Version, NEW y \in Version, Exists(x), Exists(y),
                        KeyOf(x) = KeyOf(y), NumberOf(y) <= NumberOf(x), mandate'[y] # 0
                 PROVE  mandate'[x] = mandate'[y]
      BY <1>8 DEF Inherited
    <3>1. CASE x = y
      BY <3>1
    <3>2. CASE x # v /\ y # v
      BY <1>1, <2>3, <3>2 DEF FreshInv, Inherited
    <3>3. CASE x = v /\ y # v
      BY <1>1, <1>12, <2>3, <3>3 DEF FreshInv, Inherited
    <3>4. CASE y = v /\ x # v
      <4>1. NumberOf(x) \in Nat /\ NumberOf(v) \in Nat
        BY PolicyAssumption DEF NumberOf
      <4>2. NumberOf(x) = NumberOf(v)
        BY <1>7, <3>4, <4>1 DEF IsLatest
      <4>3. QED  BY <3>4, <4>2, PolicyAssumption DEF KeyOf, NumberOf
    <3>5. QED  BY <3>1, <3>2, <3>3, <3>4
  <2>7. QED  BY <1>5, <1>6, <2>4, <2>5, <2>6 DEF FreshInv
<1>13. QED  BY <1>10, <1>11, <1>12

LEMMA FreshInvariant == Spec => []FreshInv
<1>1. Init => FreshInv
  BY DEF Init, FreshInv, Fresh, IsLatest, Exists, Compiles, ActiveVersions, Inherited
<1>2. TypeOK /\ TypeOK' /\ FlushInv /\ BundleInv /\ OrderInv /\ FreshInv /\ [Next]_vars
        => FreshInv'
  <2> SUFFICES ASSUME TypeOK, TypeOK', FlushInv, BundleInv, OrderInv, FreshInv, [Next]_vars
               PROVE  FreshInv'
    OBVIOUS
  <2>0. ASSUME NEW w \in Worker, task[w].step # "idle"
        PROVE  task[w] \in Tasks /\ task[w] # Idle
    BY <2>0 DEF TypeOK, Idle
  <2>01. ASSUME UNCHANGED records, raced' = raced,
                \A x \in Worker : task'[x] = Idle \/ task'[x] = task[x]
         PROVE  FreshInv'
    <3>1. /\ \A u \in Version : IsLatest(u)' <=> IsLatest(u)
          /\ ActiveVersions' = ActiveVersions /\ UNCHANGED <<status, mandate, issued>>
      BY <2>01 DEF records, IsLatest, Exists, ActiveVersions
    <3>2. ASSUME NEW x \in Worker, ~raced, Fresh(task'[x]) PROVE Current(task[x])'
      <4>1. task'[x] = task[x] /\ Current(task[x])
        BY <2>01, <3>2 DEF Fresh, FreshInv
      <4>2. QED  BY <3>1, <4>1 DEF Current, OtherActive, IsLatest, Exists
    <3>3. Inherited => Inherited'
      BY <3>1 DEF Inherited, Exists
    <3>4. QED  BY <2>01, <3>1, <3>2, <3>3 DEF FreshInv, Compiles
  <2>1. CASE Crash
    BY <2>1, <2>01 DEF Crash
  <2>2. CASE Reconcile
    BY <2>2, <2>01 DEF Reconcile
  <2>3. ASSUME NEW k \in Key, Create(k) PROVE FreshInv'
    BY <2>3, FreshCreateStep
  <2>4. ASSUME NEW w \in Worker, NEW op \in Operation, NEW v \in Version, Load(w, op, v)
        PROVE FreshInv'
    <3> DEFINE t == [Idle EXCEPT !.step = "loaded", !.op = op, !.version = v,
                                 !.mandate = IF op \in {"submit", "compile"} THEN 0
                                             ELSE mandate[v],
                                 !.bundle = IF op = "deploy" THEN bundle[v] ELSE {}]
    <3>1. /\ t.step = "loaded" /\ t.version = v /\ t.op = op
          /\ t.mandate = IF op \in {"submit", "compile"} THEN 0 ELSE mandate[v]
      BY DEF Idle
    <3>2. /\ IsLatest(v) /\ status[v] \in AllowedFrom(op) /\ Goes(w, t)
          /\ UNCHANGED records /\ raced' = raced
      BY <2>4 DEF Load, OnlyReads
    <3> HIDE DEF t
    <3>3. Current(t)
      BY <3>1, <3>2 DEF Current, Past
    <3>4. QED  BY <3>2, <3>3, FreshOwnStep
  <2>5. ASSUME NEW w \in Worker, SaveStatus(w) \/ SaveEdit(w) \/ SaveCompiled(w)
        PROVE FreshInv'
    <3>1. /\ task[w] # Idle /\ issued' = issued
          /\ \/ Ends(w) /\ UNCHANGED <<status, mandate, sent, raced>>
             \/ \E v \in Version, s \in PolicyStatus, m \in MandateId :
                  Saved(w, v, s, m) /\ (Current(task[w]) => FreshSave(w, v, s, m))
      BY <2>5, SaveStep
    <3>2. CASE Ends(w) /\ UNCHANGED <<status, mandate, sent, raced>>
      <4>1. ActiveVersions' = ActiveVersions /\ \A u \in Version : IsLatest(u)' <=> IsLatest(u)
        BY <3>2 DEF IsLatest, Exists, ActiveVersions
      <4>2. ASSUME NEW x \in Worker, ~raced, Fresh(task'[x]) PROVE Current(task[x])'
        <5>1. task'[x] = task[x] /\ Current(task[x])
          BY <3>2, <4>2 DEF Fresh, FreshInv, Ends, Goes, TypeOK
        <5>2. QED  BY <3>2, <4>1, <5>1 DEF Current, OtherActive, IsLatest, Exists
      <4>3. Inherited => Inherited'
        BY <3>2 DEF Inherited, Exists
      <4>4. QED  BY <3>1, <3>2, <4>1, <4>2, <4>3 DEF FreshInv, Compiles
    <3>3. QED  BY <3>1, <3>2, FreshSaveStep
  <2>6. ASSUME NEW w \in Worker, GatherOthers(w) PROVE FreshInv'
    <3> DEFINE S == {task[w].version} \cup OtherActive(KeyOf(task[w].version))
               t == [task[w] EXCEPT !.step = "gathered", !.bundle = S]
    <3>1. task[w] \in Tasks /\ task[w] # Idle
      BY <2>0, <2>6 DEF GatherOthers, At
    <3>2. /\ t.step = "gathered" /\ t.version = task[w].version /\ t.mandate = task[w].mandate
          /\ t.op = task[w].op /\ t.bundle = S /\ t.stale = task[w].stale
      BY <3>1 DEF Tasks
    <3>3. UNCHANGED records /\ raced' = raced /\ (Goes(w, t) \/ Goes(w, Idle))
      BY <2>6 DEF GatherOthers, OnlyReads, Ends
    <3> HIDE DEF t
    <3>4. ~raced /\ Fresh(t) => Current(t)
      BY <3>1, <3>2 DEF FreshInv, Fresh, Current
    <3>5. QED  BY <3>3, <3>4, FreshOwnStep DEF Fresh
  <2>7. ASSUME NEW w \in Worker, ReadPrior(w) PROVE FreshInv'
    <3> DEFINE t == [task[w] EXCEPT !.step = "checked", !.prior = activePolicy]
    <3>1. task[w] \in Tasks /\ task[w] # Idle /\ task[w].step \in Past
      BY <2>0, <2>7 DEF ReadPrior, At, Past
    <3>2. /\ t.step = "checked" /\ t.version = task[w].version /\ t.mandate = task[w].mandate
          /\ t.op = task[w].op /\ t.bundle = task[w].bundle /\ t.stale = task[w].stale
      BY <3>1 DEF Tasks
    <3>3. UNCHANGED records /\ raced' = raced /\ Goes(w, t)
      BY <2>7 DEF ReadPrior, OnlyReads
    <3> HIDE DEF t
    <3>4. ~raced /\ Fresh(t) => Current(t)
      BY <3>1, <3>2 DEF FreshInv, Fresh, Current
    <3>5. QED  BY <3>3, <3>4, FreshOwnStep
  <2>8. ASSUME NEW w \in Worker, Upload(w) PROVE FreshInv'
    <3> DEFINE t == [task[w] EXCEPT !.step = "uploaded"]
    <3>1. task[w] \in Tasks /\ task[w] # Idle /\ task[w].step \in Past
      BY <2>0, <2>8 DEF Upload, At, Past
    <3>2. /\ t.step = "uploaded" /\ t.version = task[w].version /\ t.mandate = task[w].mandate
          /\ t.op = task[w].op /\ t.bundle = task[w].bundle /\ t.stale = task[w].stale
      BY <3>1 DEF Tasks
    <3>3. UNCHANGED records /\ raced' = raced /\ Goes(w, t)
      BY <2>8 DEF Upload
    <3> HIDE DEF t
    <3>4. ~raced /\ Fresh(t) => Current(t)
      BY <3>1, <3>2 DEF FreshInv, Fresh, Current
    <3>5. QED  BY <3>3, <3>4, FreshOwnStep
  <2>9. ASSUME NEW w \in Worker, UploadFails(w) \/ Abort(w) PROVE FreshInv'
    <3>1. UNCHANGED records /\ raced' = raced /\ Goes(w, Idle)
      BY <2>9 DEF UploadFails, Abort, Ends
    <3>2. QED  BY <3>1, FreshOwnStep DEF Fresh
  <2>10. ASSUME NEW w \in Worker, Flush(w) PROVE FreshInv'
    <3>1. task[w] \in Tasks /\ task[w] # Idle /\ task[w].step \in Past
      BY <2>0, <2>10 DEF Flush, At, Past
    <3>2. UNCHANGED records /\ raced' = raced
      BY <2>10 DEF Flush
    <3>3. ASSUME NEW R \in ToRetire(task[w].version), NEW t,
                 t = [task[w] EXCEPT !.step = "flushed", !.replaced = R], ~raced, Fresh(t)
          PROVE  Current(t)
      <4>1. /\ t.step = "flushed" /\ t.version = task[w].version /\ t.mandate = task[w].mandate
            /\ t.op = task[w].op /\ t.bundle = task[w].bundle /\ t.stale = task[w].stale
            /\ t.replaced = R
        BY <3>1, <3>3 DEF Tasks
      <4>2. \A u \in R : u \in ActiveVersions /\ KeyOf(u) = KeyOf(task[w].version)
        BY DEF ToRetire
      <4>3. Current(task[w])
        BY <3>1, <3>3, <4>1 DEF FreshInv, Fresh
      <4>4. QED  BY <3>1, <4>1, <4>2, <4>3 DEF Current
    <3>4. QED  BY <2>10, <3>2, <3>3, FreshOwnStep DEF Flush, Flushed, Ends, Fresh
  <2>11. ASSUME NEW w \in Worker, CommitDeploy(w) PROVE FreshInv'
    BY <2>11, FreshCommitStep
  <2>12. CASE UNCHANGED vars
    BY <2>12, <2>01 DEF vars
  <2>13. QED
    BY <2>1, <2>2, <2>3, <2>4, <2>5, <2>6, <2>7, <2>8, <2>9, <2>10, <2>11, <2>12 DEF Next
<1>3. QED  BY <1>1, <1>2, PolicyTypeCorrect, FlushInvariant, BundleInvariant, OrderInvariant,
              PTL DEF Spec

(* The active version of a policy with an Authority names a mandate, and   *)
(* each version only one made for its policy or given to its policy by a   *)
(* client; unless requests have raced one is made at most (_ensure_mandate,*)
(* _build_runtime_policy, edit_policy).                                    *)
THEOREM MandatesKept == Spec => []MandateKept
<1>1. OrderInv /\ FreshInv => MandateKept
  BY DEF OrderInv, FreshInv, MandateKept
<1>2. QED  BY <1>1, OrderInvariant, FreshInvariant, PTL

(* Unless requests have raced, a version moves along the lifecycle, and    *)
(* retires only as a later one of its policy becomes active                *)
(* (InvalidTransitionError's checks, deploy_policy).                       *)
THEOREM LifecycleKept == Spec => LifecycleFollowed
<1> DEFINE Follows(v) ==
      status'[v] # status[v] =>
        /\ <<status[v], status'[v]>> \in LifecycleArrows
        /\ status'[v] = "retired" =>
             \E u \in Version : /\ KeyOf(u) = KeyOf(v) /\ NumberOf(u) > NumberOf(v)
                                /\ status[u] = "compiled" /\ status'[u] = "active"
<1>1. ASSUME TypeOK, TypeOK', FlushInv, OrderInv, FreshInv, [Next]_vars, ~raced',
             NEW v \in Version
      PROVE  Follows(v)
  <2>1. CASE UNCHANGED status
    BY <2>1
  <2>2. ASSUME NEW k \in Key, Create(k) PROVE Follows(v)
    BY <1>1, <2>2 DEF Create, Exists, TypeOK, LifecycleArrows
  <2>3. ASSUME NEW w \in Worker, SaveStatus(w) \/ SaveEdit(w) \/ SaveCompiled(w)
        PROVE  Follows(v)
    <3>1. ASSUME NEW u \in Version, NEW s \in PolicyStatus, NEW m \in MandateId,
                 Saved(w, u, s, m), Current(task[w]) => FreshSave(w, u, s, m)
          PROVE  Follows(v)
      <4>1. task[w] # Idle
        BY <1>1, <2>3, SaveStep
      <4>2. FreshSave(w, u, s, m)
        BY <1>1, <3>1, <4>1, FreshSaveKept
      <4>3. s # "retired" /\ status' = [status EXCEPT ![u] = s]
        BY <3>1 DEF Saved
      <4>4. QED  BY <1>1, <4>2, <4>3 DEF FreshSave, TypeOK
    <3>2. QED  BY <1>1, <2>1, <2>3, <3>1, SaveStep
  <2>4. ASSUME NEW w \in Worker, CommitDeploy(w) PROVE Follows(v)
    <3>1. task[w] \in Tasks /\ Current(task[w])
      BY <1>1, <2>4, FreshCommitKept
    <3>2. PICK u \in Version : u = task[w].version
      BY <3>1 DEF Tasks
    <3>3. \A x \in Version : status'[x] = IF x = u THEN "active"
                                          ELSE IF x \in task[w].replaced THEN "retired"
                                          ELSE status[x]
      BY <2>4, <3>2 DEF CommitDeploy
    <3>4. task[w].step = "flushed" /\ task[w].op = "deploy"
      BY <1>1, <2>4 DEF CommitDeploy, At, OrderInv, Ordered, Idle
    <3>5. status[u] = "compiled" /\ IsLatest(u)
      BY <3>1, <3>2, <3>4 DEF Current, AllowedFrom
    <3>6. CASE v = u
      BY <3>3, <3>5, <3>6 DEF LifecycleArrows
    <3>7. CASE v # u /\ v \in task[w].replaced
      <4>1. status[v] = "active" /\ KeyOf(v) = KeyOf(u)
        BY <3>1, <3>2, <3>4, <3>7 DEF Current, ActiveVersions
      <4>2. NumberOf(v) <= NumberOf(u)
        BY <3>5, <4>1 DEF IsLatest, Exists
      <4>3. NumberOf(v) # NumberOf(u)
        BY <3>7, <4>1, PolicyAssumption DEF KeyOf, NumberOf
      <4>4. NumberOf(v) \in Nat /\ NumberOf(u) \in Nat
        BY PolicyAssumption DEF NumberOf
      <4>5. NumberOf(u) > NumberOf(v)
        BY <4>2, <4>3, <4>4
      <4>6. QED  BY <3>3, <3>5, <3>7, <4>1, <4>5 DEF LifecycleArrows
    <3>8. CASE v # u /\ v \notin task[w].replaced
      BY <3>3, <3>8
    <3>9. QED  BY <3>6, <3>7, <3>8
  <2>5. QED
    BY <1>1, <2>1, <2>2, <2>3, <2>4
    DEF Next, vars, records, Crash, Reconcile, Load, OnlyReads, GatherOthers, ReadPrior, Upload,
        UploadFails, Flush, Abort
<1>2. TypeOK /\ TypeOK' /\ FlushInv /\ OrderInv /\ FreshInv /\ [Next]_vars
        => [~raced' => \A v \in Version : Follows(v)]_vars
  BY <1>1
<1>3. QED
  BY <1>2, PolicyTypeCorrect, FlushInvariant, OrderInvariant, FreshInvariant, PTL
  DEF Spec, LifecycleFollowed

-----------------------------------------------------------------------------
(* The whole set *)

(* A deploy between its upload and its end.                                *)
Out(t) == t.step \in {"uploaded", "flushed"}

(* While the last upload may still come to be committed, it is that of a   *)
(* deploy that has not ended; a commit that is not stale is the last.      *)
ServedInv ==
  /\ server = "starting" => opa = {} /\ \A w \in Worker : task[w] = Idle
  /\ server = "up" /\ ~raced /\ ~torn =>
       /\ (\A w \in Worker : ~Out(task[w])) => opa = ActiveVersions
       /\ \A w \in Worker : Out(task[w]) /\ ~task[w].stale =>
            \E x \in Worker : Out(task[x]) /\ opa = task[x].bundle

(* A step that sends nothing to OPA, and begins or ends no deploy's upload.*)
LEMMA ServedKept ==
  ASSUME ServedInv, server = "up", server' = "up", opa' = opa, ~torn' => ~torn,
         ~raced' => ~raced /\ ActiveVersions' = ActiveVersions,
         \A x \in Worker : /\ Out(task'[x]) <=> Out(task[x])
                           /\ Out(task[x]) => /\ task'[x].bundle = task[x].bundle
                                              /\ ~task'[x].stale => ~task[x].stale
  PROVE  ServedInv'
BY DEF ServedInv, Out

LEMMA ServedOwnStep ==
  ASSUME TypeOK, ServedInv, server = "up", server' = "up", opa' = opa, torn' = torn,
         raced' = raced, UNCHANGED records, NEW w \in Worker, NEW t, Goes(w, t),
         Out(t) <=> Out(task[w]),
         Out(t) => t.bundle = task[w].bundle /\ t.stale = task[w].stale
  PROVE  ServedInv'
<1>1. \A x \in Worker : task'[x] = IF x = w THEN t ELSE task[x]
  BY DEF TypeOK, Goes
<1>2. ActiveVersions' = ActiveVersions
  BY DEF ActiveVersions, records
<1>3. QED  BY <1>1, <1>2, ServedKept

LEMMA ServedInvariant == Spec => []ServedInv
<1>1. Init => ServedInv
  BY DEF Init, ServedInv
<1>2. TypeOK /\ TypeOK' /\ FlushInv /\ OrderInv /\ FreshInv /\ ServedInv /\ [Next]_vars
        => ServedInv'
  <2> SUFFICES ASSUME TypeOK, TypeOK', FlushInv, OrderInv, FreshInv, ServedInv, [Next]_vars
               PROVE  ServedInv'
    OBVIOUS
  <2>0. ASSUME NEW w \in Worker, task[w].step # "idle"
        PROVE  task[w] \in Tasks /\ task[w] # Idle
    BY <2>0 DEF TypeOK, Idle
  <2>1. CASE Crash
    BY <2>1 DEF Crash, ServedInv
  <2>2. CASE Reconcile
    <3>1. /\ server' = "up" /\ task' = task /\ raced' = raced
          /\ ActiveVersions' = ActiveVersions
      BY <2>2 DEF Reconcile, records, ActiveVersions
    <3>2. opa = {} /\ \A w \in Worker : ~Out(task[w])
      BY <2>2 DEF Reconcile, ServedInv, Out, Idle
    <3>3. ~raced /\ ~torn' => opa' = ActiveVersions
      BY <2>2, <3>2 DEF Reconcile, FreshInv
    <3>4. QED  BY <3>1, <3>2, <3>3 DEF ServedInv
  <2>3. ASSUME NEW k \in Key, Create(k) PROVE ServedInv'
    <3>1. ActiveVersions' = ActiveVersions
      BY <2>3 DEF Create, ActiveVersions, Exists, TypeOK
    <3>2. QED  BY <2>3, <3>1, ServedKept DEF Create
  <2>4. ASSUME NEW w \in Worker, NEW op \in Operation, NEW v \in Version, Load(w, op, v)
        PROVE ServedInv'
    <3> DEFINE t == [Idle EXCEPT !.step = "loaded", !.op = op, !.version = v,
                                 !.mandate = IF op \in {"submit", "compile"} THEN 0
                                             ELSE mandate[v],
                                 !.bundle = IF op = "deploy" THEN bundle[v] ELSE {}]
    <3>1. t.step = "loaded"
      BY DEF Idle
    <3>2. /\ Goes(w, t) /\ UNCHANGED records /\ raced' = raced /\ opa' = opa /\ torn' = torn
          /\ server = "up" /\ server' = "up" /\ task[w].step = "idle"
      BY <2>4 DEF Load, OnlyReads, At
    <3> HIDE DEF t
    <3>3. QED  BY <3>1, <3>2, ServedOwnStep DEF Out
  <2>5. ASSUME NEW w \in Worker, SaveStatus(w) \/ SaveEdit(w) \/ SaveCompiled(w)
        PROVE ServedInv'
    <3>1. /\ server = "up" /\ server' = "up" /\ opa' = opa /\ torn' = torn /\ ~Out(task[w])
      BY <2>5 DEF SaveStatus, SaveEdit, SaveCompiled, At, Out
    <3>2. CASE Ends(w) /\ UNCHANGED <<status, mandate, sent, raced>>
      <4>1. ActiveVersions' = ActiveVersions
        BY <3>2 DEF ActiveVersions
      <4>2. \A x \in Worker : task'[x] = IF x = w THEN Idle ELSE task[x]
        BY <3>2 DEF Ends, Goes, TypeOK
      <4>3. ~Out(Idle)
        BY DEF Out, Idle
      <4>4. QED  BY <3>1, <3>2, <4>1, <4>2, <4>3, ServedKept
    <3>3. ASSUME NEW v \in Version, NEW s \in PolicyStatus, NEW m \in MandateId,
                 Saved(w, v, s, m), Current(task[w]) => FreshSave(w, v, s, m)
          PROVE  ServedInv'
      <4>1. task[w] # Idle
        BY <2>5, SaveStep
      <4>2. ~raced' => ~raced /\ ActiveVersions' = ActiveVersions
        BY <3>3, <4>1, FreshSaveKept DEF Saved, Commits
      <4>3. ASSUME ~raced', NEW x \in Worker
            PROVE  /\ Out(task'[x]) <=> Out(task[x])
                   /\ Out(task[x]) => /\ task'[x].bundle = task[x].bundle
                                      /\ ~task'[x].stale => ~task[x].stale
        <5>1. CASE x = w
          BY <3>1, <3>3, <5>1 DEF Saved, Commits, Out, Idle
        <5>2. CASE x # w
          <6>1. Alike(task'[x], task[x])
            BY <3>3, <5>2, OthersGoOn DEF Saved, TypeOK
          <6>2. ASSUME Out(task[x]), ~task'[x].stale PROVE ~task[x].stale
            <7>1. task'[x] # Idle
              BY <6>1, <6>2 DEF Alike, Out, Idle
            <7>2. task'[x] = task[x]
              BY <3>3, <4>3, <6>2, <7>1, OthersStale DEF Saved, Fresh
            <7>3. QED  BY <6>2, <7>2
          <6>3. QED  BY <6>1, <6>2 DEF Alike, Out
        <5>3. QED  BY <5>1, <5>2
      <4>4. CASE ~raced'
        BY <3>1, <4>2, <4>3, <4>4, ServedKept
      <4>5. CASE raced'
        BY <3>1, <4>5 DEF ServedInv
      <4>6. QED  BY <4>4, <4>5
    <3>4. QED  BY <2>5, <3>2, <3>3, SaveStep
  <2>6. ASSUME NEW w \in Worker, GatherOthers(w) PROVE ServedInv'
    <3> DEFINE S == {task[w].version} \cup OtherActive(KeyOf(task[w].version))
               t == [task[w] EXCEPT !.step = "gathered", !.bundle = S]
    <3>1. t.step = "gathered" /\ Idle.step = "idle"
      BY <2>0, <2>6 DEF GatherOthers, At, Tasks, Idle
    <3>2. /\ UNCHANGED records /\ raced' = raced /\ opa' = opa /\ torn' = torn
          /\ server = "up" /\ server' = "up" /\ task[w].step = "loaded"
          /\ Goes(w, t) \/ Goes(w, Idle)
      BY <2>6 DEF GatherOthers, OnlyReads, Ends, At
    <3> HIDE DEF t
    <3>3. QED  BY <3>1, <3>2, ServedOwnStep DEF Out
  <2>7. ASSUME NEW w \in Worker, ReadPrior(w) PROVE ServedInv'
    <3> DEFINE t == [task[w] EXCEPT !.step = "checked", !.prior = activePolicy]
    <3>1. t.step = "checked"
      BY <2>0, <2>7 DEF ReadPrior, At, Tasks
    <3>2. /\ UNCHANGED records /\ raced' = raced /\ opa' = opa /\ torn' = torn
          /\ server = "up" /\ server' = "up" /\ task[w].step = "gathered" /\ Goes(w, t)
      BY <2>7 DEF ReadPrior, OnlyReads, At
    <3> HIDE DEF t
    <3>3. QED  BY <3>1, <3>2, ServedOwnStep DEF Out
  <2>8. ASSUME NEW w \in Worker, Upload(w) PROVE ServedInv'
    <3>1. task'[w] = [task[w] EXCEPT !.step = "uploaded"]
      BY <2>8 DEF Upload, Goes, TypeOK
    <3>2. task'[w].step = "uploaded" /\ task'[w].bundle = task[w].bundle
      BY <2>0, <2>8, <3>1 DEF Upload, At, Tasks
    <3>3. opa' = task[w].bundle /\ server' = "up"
      BY <2>8 DEF Upload, At
    <3>4. QED  BY <3>2, <3>3 DEF ServedInv, Out
  <2>9. ASSUME NEW w \in Worker, UploadFails(w) \/ Abort(w) PROVE ServedInv'
    <3>1. server = "up" /\ server' = "up"
      BY <2>9 DEF UploadFails, Abort, At, ServedInv, TypeOK
    <3>2. CASE torn'
      BY <3>1, <3>2 DEF ServedInv
    <3>3. CASE ~torn'
      <4>1. /\ Abort(w) /\ ~Out(task[w]) /\ ~torn
        BY <2>9, <3>3 DEF UploadFails, Abort, Out
      <4>2. ~Out(Idle)
        BY DEF Out, Idle
      <4>3. QED  BY <3>1, <3>3, <4>1, <4>2, ServedOwnStep DEF Abort, Ends, TypeOK
    <3>4. QED  BY <3>2, <3>3
  <2>10. ASSUME NEW w \in Worker, Flush(w) PROVE ServedInv'
    <3>1. server = "up" /\ server' = "up"
      BY <2>10 DEF Flush, At
    <3>2. CASE torn'
      BY <3>1, <3>2 DEF ServedInv
    <3>3. CASE ~torn'
      <4>1. PICK R \in ToRetire(task[w].version) :
              Goes(w, [task[w] EXCEPT !.step = "flushed", !.replaced = R])
        BY <2>10, <3>3 DEF Flush, Flushed
      <4>2. PICK t : t = [task[w] EXCEPT !.step = "flushed", !.replaced = R]
        OBVIOUS
      <4>3. t.step = "flushed" /\ t.bundle = task[w].bundle /\ t.stale = task[w].stale
        BY <2>0, <2>10, <4>2 DEF Flush, At, Tasks
      <4>4. Out(task[w]) /\ torn' = torn /\ UNCHANGED <<records, opa, raced>>
        BY <2>10, <3>3 DEF Flush, At, Out
      <4>5. QED  BY <3>1, <4>1, <4>2, <4>3, <4>4, ServedOwnStep DEF Out
    <3>4. QED  BY <3>2, <3>3
  <2>11. ASSUME NEW w \in Worker, CommitDeploy(w) PROVE ServedInv'
    <3>1. server = "up" /\ server' = "up" /\ opa' = opa /\ torn' = torn /\ Out(task[w])
          /\ Commits(w, Key)
      BY <2>11 DEF CommitDeploy, At, Out
    <3>2. SUFFICES ASSUME ~raced', ~torn
                   PROVE  /\ (\A y \in Worker : ~Out(task'[y])) => opa = ActiveVersions'
                          /\ \A y \in Worker : ~(Out(task'[y]) /\ ~task'[y].stale)
      BY <3>1 DEF ServedInv, Out
    <3>3. ActiveVersions' = task[w].bundle /\ ~raced /\ ~task[w].stale
      BY <2>11, <3>1, <3>2, FreshCommitKept DEF Commits
    <3>4. PICK x \in Worker : Out(task[x]) /\ opa = task[x].bundle
      BY <3>1, <3>2, <3>3 DEF ServedInv
    <3>5. ASSUME NEW y \in Worker, Out(task'[y]), ~task'[y].stale PROVE FALSE
      <4>1. Fresh(task'[y])
        BY <3>5 DEF Fresh, Out, Idle
      <4>2. task'[y] = task[y] /\ KeyOf(task[y].version) \notin Key
        BY <3>1, <3>2, <4>1, OthersStale
      <4>3. task[y] \in Tasks
        BY <2>0, <3>5, <4>2 DEF Out
      <4>4. task[y].version \in Version
        BY <4>3 DEF Tasks
      <4>5. \A v \in Version : KeyOf(v) \in Key
        BY PolicyAssumption DEF KeyOf
      <4>6. QED  BY <4>2, <4>4, <4>5
    <3>6. x # w => Out(task'[x])
      BY <3>1, <3>4, OthersGoOn DEF TypeOK, Alike, Out
    <3>7. QED  BY <3>3, <3>4, <3>5, <3>6
  <2>12. CASE UNCHANGED vars
    BY <2>12 DEF vars, records, ServedInv, Out, ActiveVersions
  <2>13. QED
    BY <2>1, <2>2, <2>3, <2>4, <2>5, <2>6, <2>7, <2>8, <2>9, <2>10, <2>11, <2>12 DEF Next
<1>3. QED  BY <1>1, <1>2, PolicyTypeCorrect, FlushInvariant, OrderInvariant, FreshInvariant,
              PTL DEF Spec

(* Unless requests have raced or the last upload's deploy failed, OPA      *)
(* holds the whole active set between deploys (deploy_policy,              *)
(* _reconcile_opa_with_active_policies).                                   *)
THEOREM WholeSetIsServed == Spec => []WholeSetServed
<1>1. ServedInv => WholeSetServed
  BY DEF ServedInv, WholeSetServed, Out
<1>2. QED  BY <1>1, ServedInvariant, PTL

-----------------------------------------------------------------------------
(* The composition *)

(* A step of a request that decides an intent.                             *)
Decides(i) ==
  \/ ReadActivePolicy(i) \/ AskOpa(i) \/ OpaFails(i) \/ ResolveMandate(i)
  \/ RecordDecision(i) \/ AbortIntent(i)

(* It changes its own decision only.                                       *)
LEMMA DecidesAlone ==
  ASSUME NEW i \in Intent, Decides(i)
  PROVE  OnlyDecides /\ \E d : Becomes(i, d)
BY DEF Decides, ReadActivePolicy, AskOpa, OpaFails, ResolveMandate, RecordDecision, AbortIntent

(* Every other step is one of PolicyDeployment.                            *)
LEMMA GovernedStep ==
  ASSUME [GovernedNext]_governedVars
  PROVE  /\ [Next]_vars
         /\ \/ UNCHANGED governedVars
            \/ \E i \in Intent : Decides(i)
            \/ Author \/ Stop \/ Restore
            \/ \E w \in Worker : SendBundle(w) \/ InsertPolicyRow(w)
<1>1. CASE UNCHANGED governedVars
  BY <1>1 DEF governedVars
<1>2. ASSUME NEW i \in Intent, Decides(i) PROVE UNCHANGED vars
  BY <1>2, DecidesAlone DEF OnlyDecides
<1>3. CASE Author
  BY <1>3 DEF Author, Next
<1>4. CASE Stop \/ Restore
  BY <1>4 DEF Stop, Restore, Next
<1>5. ASSUME NEW w \in Worker, SendBundle(w) \/ InsertPolicyRow(w) PROVE Next
  BY <1>5 DEF SendBundle, InsertPolicyRow, Next
<1>6. QED  BY <1>1, <1>2, <1>3, <1>4, <1>5 DEF GovernedNext, Decides

(* Beside the requests that decide intents, policies are deployed as       *)
(* PolicyDeployment says (intent_service.py only reads what they write).   *)
THEOREM DeploysAsBefore == GovernedSpec => Spec
<1>1. GovernedInit => Init
  BY DEF GovernedInit
<1>2. [GovernedNext]_governedVars => [Next]_vars
  BY GovernedStep
<1>3. QED  BY <1>1, <1>2, PTL DEF GovernedSpec, Spec

DeployInv ==
  TypeOK /\ FlushInv /\ OrderInv /\ FreshInv /\ ServedInv

LEMMA DeployInvariant == GovernedSpec => []DeployInv
BY DeploysAsBefore, PolicyTypeCorrect, FlushInvariant, OrderInvariant, FreshInvariant,
   ServedInvariant, PTL DEF DeployInv

Decisions ==
  [step : {"none", "asking", "resolving", "failed", "answered", "unanswered"},
   policy : Nat, bundle : SUBSET Version, matched : SUBSET Version, live : SUBSET Version,
   todo : SUBSET Key, mandates : SUBSET (Key \X MandateId), crossed : BOOLEAN]

GovernedTypeOK ==
  /\ deployed \in Seq(SUBSET Version)
  /\ decision \in [Intent -> Decisions]
  /\ restored \in BOOLEAN

(* What a request makes of its decision has the type of one.               *)
LEMMA DecisionTypes ==
  ASSUME TypeOK, GovernedTypeOK, NEW i \in Intent, Decides(i)
  PROVE  GovernedTypeOK'
<1> USE DEF OnlyDecides, vars, records
<1>1. decision[i] \in Decisions /\ Undecided \in Decisions
  BY DEF GovernedTypeOK, Undecided, Decisions
<1>2. \A v \in Version : KeyOf(v) \in Key
  BY PolicyAssumption DEF KeyOf
<1>3. ASSUME NEW d, d \in Decisions, Becomes(i, d), OnlyDecides PROVE GovernedTypeOK'
  BY <1>3 DEF Becomes, GovernedTypeOK
<1>4. CASE ReadActivePolicy(i)
  <2> DEFINE d == [Undecided EXCEPT !.step = IF activePolicy = 0 THEN "failed" ELSE "asking",
                                    !.policy = activePolicy,
                                    !.crossed = torn \/ Pending]
  <2>1. activePolicy \in Nat /\ (torn \/ Pending) \in BOOLEAN
    BY DEF TypeOK
  <2>2. d \in Decisions
    BY <2>1 DEF Undecided, Decisions
  <2> HIDE DEF d
  <2>3. QED  BY <1>3, <1>4, <2>2 DEF ReadActivePolicy, d
<1>5. CASE AskOpa(i)
  <2> DEFINE matched == { v \in opa : <<i, v>> \in Covers }
             d == [decision[i] EXCEPT !.step = "resolving",
                                      !.bundle = opa,
                                      !.crossed = @ \/ (restored /\ raced),
                                      !.matched = matched,
                                      !.live = matched \cap ActiveVersions,
                                      !.todo = { KeyOf(v) : v \in matched }]
  <2>1. opa \subseteq Version /\ matched \subseteq Version
    BY DEF TypeOK
  <2>2. { KeyOf(v) : v \in matched } \subseteq Key
    BY <1>2, <2>1
  <2>3. (decision[i].crossed \/ (restored /\ raced)) \in BOOLEAN
    OBVIOUS
  <2>4. d \in Decisions
    BY <1>1, <2>1, <2>2, <2>3 DEF Decisions
  <2> HIDE DEF d
  <2>5. QED  BY <1>3, <1>5, <2>4 DEF AskOpa, d
<1>6. CASE OpaFails(i)
  <2>1. [Undecided EXCEPT !.step = "failed", !.policy = decision[i].policy] \in Decisions
    BY <1>1 DEF Undecided, Decisions
  <2>2. QED  BY <1>3, <1>6, <2>1 DEF OpaFails
<1>7. CASE ResolveMandate(i)
  <2>1. ASSUME NEW k \in decision[i].todo, NEW m \in SUBSET (Key \X MandateId)
        PROVE  [decision[i] EXCEPT !.todo = @ \ {k}, !.mandates = @ \cup m] \in Decisions
    BY <1>1 DEF Decisions
  <2>2. ASSUME NEW k \in decision[i].todo, NEW v \in ActiveVersions
        PROVE  (IF mandate[v] = 0 THEN {} ELSE {<<k, mandate[v]>>}) \in SUBSET (Key \X MandateId)
    BY <1>1 DEF Decisions, ActiveVersions, TypeOK
  <2>3. PICK k \in decision[i].todo :
          \E m : /\ m = {} \/ \E v \in ActiveVersions :
                                m = IF mandate[v] = 0 THEN {} ELSE {<<k, mandate[v]>>}
                 /\ Becomes(i, [decision[i] EXCEPT !.todo = @ \ {k}, !.mandates = @ \cup m])
    BY <1>7 DEF ResolveMandate
  <2>4. PICK m :
          /\ m = {} \/ \E v \in ActiveVersions :
                          m = IF mandate[v] = 0 THEN {} ELSE {<<k, mandate[v]>>}
          /\ Becomes(i, [decision[i] EXCEPT !.todo = @ \ {k}, !.mandates = @ \cup m])
    BY <2>3
  <2>5. m \in SUBSET (Key \X MandateId)
    BY <2>2, <2>4
  <2>6. QED  BY <1>3, <1>7, <2>1, <2>4, <2>5 DEF ResolveMandate
<1>8. CASE RecordDecision(i)
  <2>1. [decision[i] EXCEPT !.step = IF @ = "failed" THEN "unanswered" ELSE "answered"]
          \in Decisions
    BY <1>1 DEF Decisions
  <2>2. QED  BY <1>3, <1>8, <2>1 DEF RecordDecision
<1>9. CASE AbortIntent(i)
  BY <1>1, <1>3, <1>9 DEF AbortIntent
<1>10. QED  BY <1>4, <1>5, <1>6, <1>7, <1>8, <1>9 DEF Decides

LEMMA GovernedTypes == GovernedSpec => []GovernedTypeOK
<1>1. GovernedInit => GovernedTypeOK
  <2>1. Undecided \in Decisions
    BY DEF Undecided, Decisions
  <2>2. ASSUME NEW d \in Decisions PROVE [i \in Intent |-> d] \in [Intent -> Decisions]
    OBVIOUS
  <2>3. <<>> \in Seq(SUBSET Version)
    OBVIOUS
  <2> HIDE DEF Decisions
  <2>4. [i \in Intent |-> Undecided] \in [Intent -> Decisions]
    BY <2>1, <2>2
  <2>5. QED  BY <2>3, <2>4 DEF GovernedInit, GovernedTypeOK
<1>2. TypeOK /\ GovernedTypeOK /\ [GovernedNext]_governedVars => GovernedTypeOK'
  <2> SUFFICES ASSUME TypeOK, GovernedTypeOK, [GovernedNext]_governedVars
               PROVE  GovernedTypeOK'
    OBVIOUS
  <2>1. CASE UNCHANGED governedVars
    BY <2>1 DEF governedVars, GovernedTypeOK
  <2>2. CASE Author \/ Restore
    BY <2>2 DEF Author, Restore, GovernedTypeOK
  <2>3. CASE Stop
    <3>1. Undecided \in Decisions
      BY DEF Undecided, Decisions
    <3>2. QED  BY <2>3, <3>1 DEF Stop, GovernedTypeOK
  <2>4. ASSUME NEW w \in Worker, SendBundle(w) PROVE GovernedTypeOK'
    <3>1. \A i \in Intent : [decision[i] EXCEPT !.crossed = TRUE] \in Decisions
      BY DEF GovernedTypeOK, Decisions
    <3>2. QED  BY <2>4, <3>1 DEF SendBundle, GovernedTypeOK
  <2>5. ASSUME NEW w \in Worker, InsertPolicyRow(w) PROVE GovernedTypeOK'
    <3>1. task[w] \in Tasks
      BY <2>5 DEF InsertPolicyRow, CommitDeploy, At, TypeOK, Idle
    <3>2. task[w].bundle \in SUBSET Version
      BY <3>1 DEF Tasks
    <3>3. QED  BY <2>5, <3>2 DEF InsertPolicyRow, GovernedTypeOK
  <2>6. QED  BY <2>1, <2>2, <2>3, <2>4, <2>5, DecisionTypes, GovernedStep
<1>3. QED  BY <1>1, <1>2, DeployInvariant, PTL DEF GovernedSpec, DeployInv

-----------------------------------------------------------------------------
(* The policies row *)

(* What OPA holds after the last upload: the bundle of a deploy that has   *)
(* not ended, or else that of the last row, and no deploy that could still *)
(* be committed is out.                                                    *)
LastSent ==
  \/ \E x \in Worker : Out(task[x]) /\ opa = task[x].bundle
  \/ /\ \A x \in Worker : Out(task[x]) => task[x].prior < activePolicy
     /\ activePolicy > 0 => opa = deployed[activePolicy]

(* The rows that a deploy has seen are there; the last row is of the       *)
(* active set unless requests have raced.                                  *)
RowInv ==
  /\ Len(deployed) = activePolicy
  /\ \A w \in Worker : /\ task[w].step \in {"checked", "uploaded", "flushed"} =>
                            task[w].prior <= activePolicy
                       /\ task[w].step = "flushed" => task[w].prior = activePolicy
  /\ restored /\ server = "up" => ~Pending
  /\ ~raced /\ activePolicy > 0 => deployed[activePolicy] = ActiveVersions
  /\ server = "up" /\ ~torn /\ ~restored => LastSent

(* A step of a request about policies that inserts no row and sends        *)
(* nothing: it only ends a deploy that is out by leaving OPA torn.         *)
LEMMA RowKept ==
  ASSUME RowInv, UNCHANGED <<deployed, activePolicy, restored, opa>>,
         server = "up", server' = "up",
         ~raced' => ~raced /\ ActiveVersions' = ActiveVersions,
         ~torn' => ~torn /\ \A x \in Worker : Out(task[x]) => Out(task'[x]),
         \A x \in Worker :
           \/ task'[x].step \notin {"checked", "uploaded", "flushed"}
           \/ task'[x].step = "checked" /\ task'[x].prior <= activePolicy
           \/ /\ Out(task[x]) /\ task'[x].bundle = task[x].bundle
              /\ task'[x].prior = task[x].prior
              /\ task'[x].step = "flushed" => task[x].prior = activePolicy
  PROVE  RowInv'
<1>1. \A x \in Worker : Out(task'[x]) =>
        /\ Out(task[x]) /\ task'[x].bundle = task[x].bundle /\ task'[x].prior = task[x].prior
  BY DEF Out
<1>2. ~torn' /\ LastSent => LastSent'
  BY <1>1 DEF LastSent
<1>3. Pending' => Pending
  BY <1>1 DEF Pending, Out
<1>4. \A w \in Worker : /\ task'[w].step \in {"checked", "uploaded", "flushed"} =>
                             task'[w].prior <= activePolicy
                        /\ task'[w].step = "flushed" => task'[w].prior = activePolicy
  BY DEF RowInv, Out
<1>5. QED  BY <1>2, <1>3, <1>4 DEF RowInv

(* What a task of a step that only goes on may have become.                *)
LEMMA RowOwnStep ==
  ASSUME TypeOK, RowInv, UNCHANGED <<deployed, restored, opa, torn, raced, records>>,
         server = "up", server' = "up",
         NEW w \in Worker, NEW t, Goes(w, t),
         \/ ~Out(task[w]) /\ t.step \notin {"checked", "uploaded", "flushed"}
         \/ ~Out(task[w]) /\ t.step = "checked" /\ t.prior <= activePolicy
         \/ /\ Out(task[w]) /\ Out(t) /\ t.bundle = task[w].bundle
            /\ t.prior = task[w].prior /\ t.prior = activePolicy
  PROVE  RowInv'
<1>1. \A x \in Worker : task'[x] = IF x = w THEN t ELSE task[x]
  BY DEF TypeOK, Goes
<1>2. activePolicy' = activePolicy /\ ActiveVersions' = ActiveVersions
  BY DEF records, ActiveVersions
<1>3. \A x \in Worker : Out(task[x]) => Out(task'[x])
  BY <1>1
<1>4. \A x \in Worker :
        \/ task'[x].step \notin {"checked", "uploaded", "flushed"}
        \/ task'[x].step = "checked" /\ task'[x].prior <= activePolicy
        \/ /\ Out(task[x]) /\ task'[x].bundle = task[x].bundle
           /\ task'[x].prior = task[x].prior
           /\ task'[x].step = "flushed" => task[x].prior = activePolicy
  BY <1>1 DEF RowInv, Out
<1>5. QED  BY <1>2, <1>3, <1>4, RowKept

(* A save: the others go on.                                               *)
LEMMA RowSaveStep ==
  ASSUME DeployInv, TypeOK', RowInv, UNCHANGED <<deployed, restored>>,
         NEW w \in Worker, SaveStatus(w) \/ SaveEdit(w) \/ SaveCompiled(w)
  PROVE  RowInv'
<1> USE DEF DeployInv
<1>1. /\ server = "up" /\ server' = "up" /\ ~Out(task[w])
      /\ UNCHANGED <<activePolicy, opa, torn>>
  BY DEF SaveStatus, SaveEdit, SaveCompiled, At, Out
<1>2. CASE Ends(w) /\ UNCHANGED <<status, mandate, sent, raced>>
  <2>1. ActiveVersions' = ActiveVersions
    BY <1>2 DEF ActiveVersions
  <2>2. \A x \in Worker : task'[x] = IF x = w THEN Idle ELSE task[x]
    BY <1>2 DEF Ends, Goes, TypeOK
  <2>3. Idle.step = "idle"
    BY DEF Idle
  <2>4. \A x \in Worker :
          \/ task'[x].step \notin {"checked", "uploaded", "flushed"}
          \/ task'[x].step = "checked" /\ task'[x].prior <= activePolicy
          \/ /\ Out(task[x]) /\ task'[x].bundle = task[x].bundle
             /\ task'[x].prior = task[x].prior
             /\ task'[x].step = "flushed" => task[x].prior = activePolicy
    BY <2>2, <2>3 DEF RowInv, Out
  <2>5. \A x \in Worker : Out(task[x]) => Out(task'[x])
    BY <1>1, <2>2
  <2>6. QED  BY <1>1, <1>2, <2>1, <2>4, <2>5, RowKept
<1>3. ASSUME NEW v \in Version, NEW s \in PolicyStatus, NEW m \in MandateId,
             Saved(w, v, s, m), Current(task[w]) => FreshSave(w, v, s, m)
      PROVE  RowInv'
  <2>1. task[w] # Idle
    BY SaveStep
  <2>2. ~raced' => ~raced /\ ActiveVersions' = ActiveVersions
    BY <1>3, <2>1, FreshSaveKept DEF Saved, Commits
  <2>3. task'[w] = Idle /\ \A x \in Worker \ {w} : Alike(task'[x], task[x])
    BY <1>3, OthersGoOn DEF Saved, TypeOK
  <2>4. Idle.step = "idle"
    BY DEF Idle
  <2>5. \A x \in Worker :
          \/ task'[x].step \notin {"checked", "uploaded", "flushed"}
          \/ task'[x].step = "checked" /\ task'[x].prior <= activePolicy
          \/ /\ Out(task[x]) /\ task'[x].bundle = task[x].bundle
             /\ task'[x].prior = task[x].prior
             /\ task'[x].step = "flushed" => task[x].prior = activePolicy
    BY <2>3, <2>4 DEF RowInv, Out, Alike
  <2>6. \A x \in Worker : Out(task[x]) => Out(task'[x])
    BY <1>1, <2>3 DEF Alike, Out
  <2>7. QED  BY <1>1, <2>2, <2>5, <2>6, RowKept
<1>4. QED  BY <1>2, <1>3, SaveStep

(* The commit of a deploy: OPA holds its bundle, or that of a deploy that  *)
(* is still out.                                                           *)
LEMMA RowCommitStep ==
  ASSUME DeployInv, TypeOK', GovernedTypeOK, RowInv, NEW w \in Worker, InsertPolicyRow(w)
  PROVE  RowInv'
<1> USE DEF DeployInv
<1>1. /\ CommitDeploy(w) /\ deployed' = Append(deployed, task[w].bundle)
      /\ restored' = restored /\ activePolicy' = activePolicy + 1
      /\ server = "up" /\ server' = "up" /\ opa' = opa /\ torn' = torn
      /\ task[w].step = "flushed" /\ Out(task[w]) /\ Commits(w, Key)
  BY DEF InsertPolicyRow, CommitDeploy, At, Out
<1>2. task[w] \in Tasks /\ activePolicy \in Nat
  BY <1>1 DEF TypeOK, Idle
<1>3. task[w].bundle \in SUBSET Version
  BY <1>2 DEF Tasks
<1>4. Len(deployed') = activePolicy' /\ deployed'[activePolicy'] = task[w].bundle
  BY <1>1, <1>2, <1>3 DEF GovernedTypeOK, RowInv
<1>5. task'[w] = Idle /\ \A x \in Worker \ {w} : Alike(task'[x], task[x])
  BY <1>1, OthersGoOn DEF TypeOK
<1>6. \A x \in Worker : x # w => task[x].step # "flushed"
  BY <1>1 DEF FlushInv
<1>7. ASSUME NEW x \in Worker, task'[x].step \in {"checked", "uploaded", "flushed"}
      PROVE  x # w /\ task'[x].step # "flushed" /\ task'[x].prior < activePolicy'
  <2>1. x # w
    BY <1>5, <1>7 DEF Idle
  <2>2. Alike(task'[x], task[x])
    BY <1>5, <2>1
  <2>3. task'[x].step # "flushed"
    BY <1>6, <2>1, <2>2 DEF Alike
  <2>4. task[x].prior <= activePolicy /\ task'[x].prior = task[x].prior
    BY <1>7, <2>2 DEF Alike, RowInv
  <2>5. task'[x] \in Tasks
    BY <1>7 DEF TypeOK, Idle
  <2>6. task'[x].prior \in Nat
    BY <2>5 DEF Tasks
  <2>7. QED  BY <1>1, <1>2, <2>1, <2>3, <2>4, <2>6
<1>8. ~restored
  BY <1>1 DEF RowInv, Pending
<1>9. ~raced' => ActiveVersions' = task[w].bundle
  BY <1>1, FreshCommitKept
<1>10. ASSUME ~torn PROVE LastSent'
  <2>1. ~(task[w].prior < activePolicy)
    BY <1>1, <1>2 DEF RowInv
  <2>2. PICK x \in Worker : Out(task[x]) /\ opa = task[x].bundle
    BY <1>1, <1>8, <1>10, <2>1 DEF RowInv, LastSent
  <2>3. CASE x = w
    BY <1>1, <1>4, <1>7, <2>2, <2>3 DEF LastSent, Out
  <2>4. CASE x # w
    BY <1>1, <1>5, <2>2, <2>4 DEF LastSent, Alike, Out
  <2>5. QED  BY <2>3, <2>4
<1>11. \A x \in Worker :
         /\ task'[x].step \in {"checked", "uploaded", "flushed"} =>
              task'[x].prior <= activePolicy'
         /\ task'[x].step = "flushed" => task'[x].prior = activePolicy'
  <2>1. ASSUME NEW x \in Worker, task'[x].step \in {"checked", "uploaded", "flushed"}
        PROVE  task'[x].prior \in Nat
    <3>1. task'[x] \in Tasks
      BY <2>1 DEF TypeOK, Idle
    <3>2. QED  BY <3>1 DEF Tasks
  <2>2. QED  BY <1>1, <1>2, <1>7, <2>1
<1>12. QED  BY <1>1, <1>4, <1>8, <1>9, <1>10, <1>11 DEF RowInv

LEMMA RowInvariant == GovernedSpec => []RowInv
<1>1. GovernedInit => RowInv
  BY DEF GovernedInit, Init, RowInv, Idle
<1>2. DeployInv /\ DeployInv' /\ GovernedTypeOK /\ RowInv /\ [GovernedNext]_governedVars
        => RowInv'
  <2> SUFFICES ASSUME DeployInv, DeployInv', GovernedTypeOK, RowInv,
                      [GovernedNext]_governedVars
               PROVE  RowInv'
    OBVIOUS
  <2> USE DEF DeployInv
  <2>0. ASSUME NEW w \in Worker, task[w].step # "idle" PROVE task[w] \in Tasks
    BY <2>0 DEF TypeOK, Idle
  <2>1. ASSUME UNCHANGED <<vars, deployed, restored>> PROVE RowInv'
    BY <2>1 DEF vars, records, RowInv, Pending, LastSent, Out, ActiveVersions
  <2>2. CASE Stop
    <3>1. /\ UNCHANGED <<records, raced, deployed>> /\ server' = "starting"
          /\ \A x \in Worker : task'[x] = Idle
      BY <2>2 DEF Stop, Crash
    <3>2. activePolicy' = activePolicy /\ ActiveVersions' = ActiveVersions
      BY <3>1 DEF records, ActiveVersions
    <3>3. Idle.step = "idle"
      BY DEF Idle
    <3>4. QED  BY <3>1, <3>2, <3>3 DEF RowInv
  <2>3. CASE Restore
    <3>1. /\ \A x \in Worker : task[x] = Idle
          /\ UNCHANGED <<records, task, raced, deployed>> /\ restored'
      BY <2>3 DEF Restore, Reconcile, ServedInv
    <3>2. QED  BY <3>1 DEF RowInv, Pending, Idle, records, ActiveVersions
  <2>4. ASSUME NEW w \in Worker, SendBundle(w) PROVE RowInv'
    <3>1. /\ server = "up" /\ server' = "up" /\ task[w].step = "checked"
          /\ UNCHANGED <<records, raced, deployed>> /\ ~restored'
          /\ task[w] \in Tasks
      BY <2>0, <2>4 DEF SendBundle, Upload, UploadFails, At
    <3>2. activePolicy' = activePolicy /\ ActiveVersions' = ActiveVersions
      BY <3>1 DEF records, ActiveVersions
    <3>3. CASE Upload(w)
      <4>1. task'[w] = [task[w] EXCEPT !.step = "uploaded"]
            /\ \A x \in Worker \ {w} : task'[x] = task[x]
        BY <3>3 DEF Upload, Goes, TypeOK
      <4>2. task'[w].step = "uploaded" /\ task'[w].bundle = task[w].bundle
            /\ task'[w].prior = task[w].prior
        BY <3>1, <4>1 DEF Tasks
      <4>3. LastSent'
        BY <3>3, <4>2 DEF Upload, LastSent, Out
      <4>4. \A x \in Worker :
              /\ task'[x].step \in {"checked", "uploaded", "flushed"} =>
                   task'[x].prior <= activePolicy
              /\ task'[x].step = "flushed" => task'[x].prior = activePolicy
        BY <3>1, <4>1, <4>2 DEF RowInv
      <4>5. QED  BY <3>1, <3>2, <4>3, <4>4 DEF RowInv
    <3>4. CASE UploadFails(w)
      <4>1. torn' /\ \A x \in Worker : task'[x] = IF x = w THEN Idle ELSE task[x]
        BY <3>4 DEF UploadFails, Ends, Goes, TypeOK
      <4>2. \A x \in Worker :
              /\ task'[x].step \in {"checked", "uploaded", "flushed"} =>
                   task'[x].prior <= activePolicy
              /\ task'[x].step = "flushed" => task'[x].prior = activePolicy
        BY <4>1 DEF RowInv, Idle
      <4>3. QED  BY <3>1, <3>2, <4>1, <4>2 DEF RowInv
    <3>5. QED  BY <2>4, <3>3, <3>4 DEF SendBundle
  <2>5. ASSUME NEW w \in Worker, InsertPolicyRow(w) PROVE RowInv'
    BY <2>5, RowCommitStep
  <2>6. CASE Author
    <3>0. UNCHANGED <<deployed, restored>>
      BY <2>6 DEF Author
    <3>1. ASSUME NEW k \in Key, Create(k) PROVE RowInv'
      <4>1. ActiveVersions' = ActiveVersions
        BY <3>1 DEF Create, ActiveVersions, Exists, TypeOK
      <4>2. QED  BY <3>0, <3>1, <4>1 DEF Create, RowInv, Pending, LastSent, Out
    <3>2. ASSUME NEW w \in Worker, NEW op \in Operation, NEW v \in Version, Load(w, op, v)
          PROVE  RowInv'
      <4> DEFINE t == [Idle EXCEPT !.step = "loaded", !.op = op, !.version = v,
                                   !.mandate = IF op \in {"submit", "compile"} THEN 0
                                               ELSE mandate[v],
                                   !.bundle = IF op = "deploy" THEN bundle[v] ELSE {}]
      <4>1. t.step = "loaded"
        BY DEF Idle
      <4>2. Goes(w, t) /\ OnlyReads /\ server = "up" /\ task[w].step = "idle"
        BY <3>2 DEF Load, At
      <4> HIDE DEF t
      <4>3. QED  BY <3>0, <4>1, <4>2, RowOwnStep DEF Out, OnlyReads
    <3>3. ASSUME NEW w \in Worker, SaveStatus(w) \/ SaveEdit(w) \/ SaveCompiled(w)
          PROVE  RowInv'
      BY <3>0, <3>3, RowSaveStep
    <3>4. ASSUME NEW w \in Worker, GatherOthers(w) PROVE RowInv'
      <4> DEFINE S == {task[w].version} \cup OtherActive(KeyOf(task[w].version))
                 t == [task[w] EXCEPT !.step = "gathered", !.bundle = S]
      <4>1. t.step = "gathered" /\ Idle.step = "idle"
        BY <2>0, <3>4 DEF GatherOthers, At, Tasks, Idle
      <4>2. /\ OnlyReads /\ server = "up" /\ task[w].step = "loaded"
            /\ Goes(w, t) \/ Goes(w, Idle)
        BY <3>4 DEF GatherOthers, Ends, At
      <4> HIDE DEF t
      <4>3. QED  BY <3>0, <4>1, <4>2, RowOwnStep DEF Out, OnlyReads
    <3>5. ASSUME NEW w \in Worker, ReadPrior(w) PROVE RowInv'
      <4> DEFINE t == [task[w] EXCEPT !.step = "checked", !.prior = activePolicy]
      <4>1. t.step = "checked" /\ t.prior = activePolicy /\ activePolicy \in Nat
        BY <2>0, <3>5 DEF ReadPrior, At, Tasks, TypeOK
      <4>2. OnlyReads /\ server = "up" /\ task[w].step = "gathered" /\ Goes(w, t)
        BY <3>5 DEF ReadPrior, At
      <4> HIDE DEF t
      <4>3. QED  BY <3>0, <4>1, <4>2, RowOwnStep DEF Out, OnlyReads
    <3>6. ASSUME NEW w \in Worker, Flush(w) PROVE RowInv'
      <4>1. /\ server = "up" /\ server' = "up" /\ task[w].step = "uploaded"
            /\ UNCHANGED <<records, opa, raced>>
        BY <3>6 DEF Flush, At
      <4>2. CASE activePolicy = task[w].prior /\ Flushed(w) /\ UNCHANGED torn
        <5>1. PICK R \in ToRetire(task[w].version) :
                Goes(w, [task[w] EXCEPT !.step = "flushed", !.replaced = R])
          BY <4>2 DEF Flushed
        <5>2. PICK t : t = [task[w] EXCEPT !.step = "flushed", !.replaced = R]
          OBVIOUS
        <5>3. t.step = "flushed" /\ t.bundle = task[w].bundle /\ t.prior = task[w].prior
          BY <2>0, <4>1, <5>2 DEF Tasks
        <5>4. QED  BY <3>0, <4>1, <4>2, <5>1, <5>2, <5>3, RowOwnStep DEF Out
      <4>3. CASE Ends(w) /\ torn'
        <5>1. \A x \in Worker : task'[x] = IF x = w THEN Idle ELSE task[x]
          BY <4>3 DEF Ends, Goes, TypeOK
        <5>2. activePolicy' = activePolicy /\ ActiveVersions' = ActiveVersions
          BY <4>1 DEF records, ActiveVersions
        <5>3. \A x \in Worker :
                \/ task'[x].step \notin {"checked", "uploaded", "flushed"}
                \/ task'[x].step = "checked" /\ task'[x].prior <= activePolicy
                \/ /\ Out(task[x]) /\ task'[x].bundle = task[x].bundle
                   /\ task'[x].prior = task[x].prior
                   /\ task'[x].step = "flushed" => task[x].prior = activePolicy
          BY <5>1 DEF RowInv, Out, Idle
        <5>4. QED  BY <3>0, <4>1, <4>3, <5>2, <5>3, RowKept
      <4>4. QED  BY <3>6, <4>2, <4>3 DEF Flush
    <3>7. ASSUME NEW w \in Worker, Abort(w) PROVE RowInv'
      <4>1. server = "up" /\ server' = "up" /\ UNCHANGED <<records, opa, raced>>
        BY <3>7 DEF Abort, ServedInv, TypeOK
      <4>2. \A x \in Worker : task'[x] = IF x = w THEN Idle ELSE task[x]
        BY <3>7 DEF Abort, Ends, Goes, TypeOK
      <4>3. activePolicy' = activePolicy /\ ActiveVersions' = ActiveVersions
        BY <4>1 DEF records, ActiveVersions
      <4>4. \A x \in Worker :
              \/ task'[x].step \notin {"checked", "uploaded", "flushed"}
              \/ task'[x].step = "checked" /\ task'[x].prior <= activePolicy
              \/ /\ Out(task[x]) /\ task'[x].bundle = task[x].bundle
                 /\ task'[x].prior = task[x].prior
                 /\ task'[x].step = "flushed" => task[x].prior = activePolicy
        BY <4>2 DEF RowInv, Out, Idle
      <4>5. ~torn' => ~torn /\ \A x \in Worker : Out(task[x]) => Out(task'[x])
        BY <3>7, <4>2 DEF Abort, Out
      <4>6. QED  BY <3>0, <4>1, <4>3, <4>4, <4>5, RowKept
    <3>8. QED
      BY <2>6, <3>1, <3>2, <3>3, <3>4, <3>5, <3>6, <3>7 DEF Author
  <2>7. ASSUME NEW i \in Intent, Decides(i) PROVE RowInv'
    BY <2>1, <2>7, DecidesAlone DEF OnlyDecides
  <2>8. QED  BY <2>1, <2>2, <2>3, <2>4, <2>5, <2>6, <2>7, GovernedStep DEF governedVars
<1>3. QED  BY <1>1, <1>2, DeployInvariant, GovernedTypes, PTL DEF GovernedSpec

(* What a request that decides an intent may rely on: until OPA answers,   *)
(* unless it crossed a deploy, none is out and its row is the last; from   *)
(* then on, that row is the answer's.                                      *)
AskInv ==
  \A i \in Intent :
    /\ decision[i].step = "asking" =>
         /\ server = "up" /\ 0 < decision[i].policy /\ decision[i].policy <= activePolicy
         /\ ~decision[i].crossed => /\ ~torn /\ ~Pending
                                    /\ decision[i].policy = activePolicy
    /\ decision[i].step \in {"resolving", "answered"} =>
         /\ 0 < decision[i].policy /\ decision[i].policy <= Len(deployed)
         /\ ~decision[i].crossed => decision[i].bundle = deployed[decision[i].policy]

(* What authors do, apart from deploys, puts no deploy out.                *)
LEMMA AuthorPutsNoneOut ==
  ASSUME TypeOK, OrderInv, Author
  PROVE  /\ activePolicy' = activePolicy /\ server' = server
         /\ ~torn /\ ~Pending => ~torn' /\ ~Pending'
<1>1. CASE UNCHANGED <<activePolicy, server, torn, task>>
  BY <1>1 DEF Pending
<1>2. ASSUME NEW w \in Worker, NEW t, Goes(w, t), t.step \notin {"uploaded", "flushed"},
             UNCHANGED <<activePolicy, server>>,
             torn' => torn \/ task[w].step \in {"uploaded", "flushed"}
      PROVE  ~torn /\ ~Pending => ~torn' /\ ~Pending'
  <2>1. \A x \in Worker : task'[x] = IF x = w THEN t ELSE task[x]
    BY <1>2 DEF TypeOK, Goes
  <2>2. QED  BY <1>2, <2>1 DEF Pending
<1>3. Idle.step = "idle"
  BY DEF Idle
<1>4. ASSUME NEW w \in Worker, task[w].step # "idle" PROVE task[w] \in Tasks
  BY <1>3, <1>4 DEF TypeOK
<1>5. ASSUME NEW k \in Key, Create(k) PROVE UNCHANGED <<activePolicy, server, torn, task>>
  BY <1>5 DEF Create
<1>6. ASSUME NEW w \in Worker, NEW op \in Operation, NEW v \in Version, Load(w, op, v)
      PROVE  /\ UNCHANGED <<activePolicy, server>>
             /\ ~torn /\ ~Pending => ~torn' /\ ~Pending'
  <2> DEFINE t == [Idle EXCEPT !.step = "loaded", !.op = op, !.version = v,
                               !.mandate = IF op \in {"submit", "compile"} THEN 0
                                           ELSE mandate[v],
                               !.bundle = IF op = "deploy" THEN bundle[v] ELSE {}]
  <2>1. t.step = "loaded"
    BY DEF Idle
  <2>2. Goes(w, t) /\ UNCHANGED <<activePolicy, server, torn>>
    BY <1>6 DEF Load, OnlyReads, records
  <2> HIDE DEF t
  <2>3. QED  BY <1>2, <2>1, <2>2
<1>7. ASSUME NEW w \in Worker, SaveStatus(w) \/ SaveEdit(w) \/ SaveCompiled(w)
      PROVE  /\ UNCHANGED <<activePolicy, server>>
             /\ ~torn /\ ~Pending => ~torn' /\ ~Pending'
  <2>1. UNCHANGED <<activePolicy, server, torn>>
    BY <1>7, SaveStep
  <2>2. Commits(w, Own(w)) \/ Ends(w)
    BY <1>7, SaveStep DEF Saved
  <2>3. \A x \in Worker : task'[x].step # "idle" => Alike(task'[x], task[x])
    BY <2>2, EndsQuietly DEF TypeOK
  <2>4. QED  BY <2>1, <2>3 DEF Pending, Alike
<1>8. ASSUME NEW w \in Worker, GatherOthers(w) \/ ReadPrior(w)
      PROVE  /\ UNCHANGED <<activePolicy, server>>
             /\ ~torn /\ ~Pending => ~torn' /\ ~Pending'
  <2>1. task[w] \in Tasks /\ UNCHANGED <<activePolicy, server, torn>>
    BY <1>4, <1>8 DEF GatherOthers, ReadPrior, At, OnlyReads, records
  <2>2. ASSUME NEW S, NEW n
        PROVE  /\ [task[w] EXCEPT !.step = "gathered", !.bundle = S].step = "gathered"
               /\ [task[w] EXCEPT !.step = "checked", !.prior = n].step = "checked"
    BY <2>1 DEF Tasks
  <2>3. PICK t : Goes(w, t) /\ t.step \in {"gathered", "checked", "idle"}
    BY <1>3, <1>8, <2>2 DEF GatherOthers, ReadPrior, Ends
  <2>4. QED  BY <1>2, <2>1, <2>3
<1>9. ASSUME NEW w \in Worker, Flush(w)
      PROVE  /\ UNCHANGED <<activePolicy, server>>
             /\ ~torn /\ ~Pending => ~torn' /\ ~Pending'
  BY <1>9 DEF Flush, At, Pending, records
<1>10. ASSUME NEW w \in Worker, Abort(w)
       PROVE  /\ UNCHANGED <<activePolicy, server>>
              /\ ~torn /\ ~Pending => ~torn' /\ ~Pending'
  BY <1>2, <1>3, <1>10 DEF Abort, Ends, records
<1>11. QED  BY <1>1, <1>5, <1>6, <1>7, <1>8, <1>9, <1>10 DEF Author

(* The answer of OPA, to a request that has crossed no deploy.             *)
LEMMA AnswerOfRow ==
  ASSUME DeployInv, RowInv, NEW i \in Intent, AskInv, decision[i].step = "asking",
         ~decision[i].crossed, ~(restored /\ raced)
  PROVE  opa = deployed[decision[i].policy]
<1>1. /\ server = "up" /\ activePolicy > 0 /\ ~torn /\ decision[i].policy = activePolicy
      /\ \A x \in Worker : ~Out(task[x])
  BY DEF AskInv, Pending, Out, DeployInv, TypeOK
<1>2. CASE restored
  BY <1>1, <1>2 DEF RowInv, DeployInv, ServedInv
<1>3. CASE ~restored
  BY <1>1, <1>3 DEF RowInv, LastSent
<1>4. QED  BY <1>2, <1>3

(* A step of the request itself.                                           *)
LEMMA AskOwnStep ==
  ASSUME DeployInv, GovernedTypeOK, RowInv, AskInv, NEW i \in Intent, Decides(i)
  PROVE  AskInv'
<1>1. OnlyDecides /\ activePolicy \in Nat
  BY DecidesAlone DEF DeployInv, TypeOK
<1>2. decision[i] \in Decisions /\ decision[i].policy \in Nat
  BY DEF GovernedTypeOK, Decisions
<1> DEFINE Holds(d) ==
      /\ d.step = "asking" =>
           /\ server = "up" /\ 0 < d.policy /\ d.policy <= activePolicy
           /\ ~d.crossed => ~torn /\ ~Pending /\ d.policy = activePolicy
      /\ d.step \in {"resolving", "answered"} =>
           /\ 0 < d.policy /\ d.policy <= Len(deployed)
           /\ ~d.crossed => d.bundle = deployed[d.policy]
<1>3. ASSUME NEW d, Becomes(i, d), Holds(d) PROVE AskInv'
  <2>1. \A j \in Intent : decision'[j] = IF j = i THEN d ELSE decision[j]
    BY <1>3 DEF Becomes, GovernedTypeOK
  <2>2. /\ UNCHANGED <<server, activePolicy, torn, task, deployed>>
        /\ Pending' <=> Pending
    BY <1>1 DEF OnlyDecides, vars, records, Pending
  <2>3. \A j \in Intent : Holds(decision[j])
    BY DEF AskInv
  <2>4. \A j \in Intent : Holds(decision'[j])
    BY <1>3, <2>1, <2>3
  <2>5. QED  BY <2>2, <2>4 DEF AskInv
<1>4. Holds(decision[i])
  BY DEF AskInv
<1>5. CASE ReadActivePolicy(i)
  <2> DEFINE d == [Undecided EXCEPT !.step = IF activePolicy = 0 THEN "failed" ELSE "asking",
                                    !.policy = activePolicy,
                                    !.crossed = torn \/ Pending]
  <2>1. /\ d.step = IF activePolicy = 0 THEN "failed" ELSE "asking"
        /\ d.policy = activePolicy
    BY DEF Undecided
  <2>2. Becomes(i, d) /\ server = "up"
    BY <1>5 DEF ReadActivePolicy
  <2>3. ~d.crossed => ~torn /\ ~Pending
    BY DEF Undecided
  <2> HIDE DEF d
  <2>4. Holds(d)
    BY <1>1, <2>1, <2>2, <2>3
  <2>5. QED  BY <1>3, <2>2, <2>4
<1>6. CASE AskOpa(i)
  <2> DEFINE matched == { v \in opa : <<i, v>> \in Covers }
             d == [decision[i] EXCEPT !.step = "resolving",
                                      !.bundle = opa,
                                      !.crossed = @ \/ (restored /\ raced),
                                      !.matched = matched,
                                      !.live = matched \cap ActiveVersions,
                                      !.todo = { KeyOf(v) : v \in matched }]
  <2>1. d.step = "resolving" /\ d.policy = decision[i].policy /\ d.bundle = opa
    BY <1>2 DEF Decisions
  <2>2. ~d.crossed => ~decision[i].crossed /\ ~(restored /\ raced)
    BY <1>2 DEF Decisions
  <2>3. Becomes(i, d) /\ decision[i].step = "asking"
    BY <1>6 DEF AskOpa
  <2> HIDE DEF d
  <2>4. 0 < d.policy /\ d.policy <= Len(deployed)
    BY <1>4, <2>1, <2>3 DEF RowInv
  <2>5. ~d.crossed => d.bundle = deployed[d.policy]
    BY <2>1, <2>2, <2>3, AnswerOfRow
  <2>6. Holds(d)
    BY <2>1, <2>4, <2>5
  <2>7. QED  BY <1>3, <2>3, <2>6
<1>7. CASE OpaFails(i) \/ AbortIntent(i)
  <2>1. /\ [Undecided EXCEPT !.step = "failed", !.policy = decision[i].policy].step = "failed"
        /\ Undecided.step = "none"
    BY DEF Undecided
  <2>2. PICK d : Becomes(i, d) /\ d.step \in {"failed", "none"}
    BY <1>7, <2>1 DEF OpaFails, AbortIntent
  <2>3. QED  BY <1>3, <2>2
<1>8. CASE ResolveMandate(i)
  <2>1. PICK T, M : Becomes(i, [decision[i] EXCEPT !.todo = T, !.mandates = M])
    BY <1>8 DEF ResolveMandate
  <2>2. PICK d : d = [decision[i] EXCEPT !.todo = T, !.mandates = M]
    OBVIOUS
  <2>3. /\ d.step = decision[i].step /\ d.policy = decision[i].policy
        /\ d.bundle = decision[i].bundle /\ d.crossed = decision[i].crossed
    BY <1>2, <2>2 DEF Decisions
  <2>4. QED  BY <1>3, <1>4, <2>1, <2>2, <2>3
<1>9. CASE RecordDecision(i)
  <2>1. PICK d : d = [decision[i] EXCEPT !.step = IF @ = "failed" THEN "unanswered"
                                                  ELSE "answered"]
    OBVIOUS
  <2>2. /\ d.step = IF decision[i].step = "failed" THEN "unanswered" ELSE "answered"
        /\ d.policy = decision[i].policy /\ d.bundle = decision[i].bundle
        /\ d.crossed = decision[i].crossed
    BY <1>2, <2>1 DEF Decisions
  <2>3. decision[i].step \in {"failed", "resolving"} /\ Becomes(i, d)
    BY <1>9, <2>1 DEF RecordDecision
  <2>4. QED  BY <1>3, <1>4, <2>2, <2>3
<1>10. QED  BY <1>5, <1>6, <1>7, <1>8, <1>9 DEF Decides

LEMMA AskInvariant == GovernedSpec => []AskInv
<1>1. GovernedInit => AskInv
  BY DEF GovernedInit, AskInv, Undecided
<1>2. DeployInv /\ GovernedTypeOK /\ RowInv /\ AskInv /\ [GovernedNext]_governedVars => AskInv'
  <2> SUFFICES ASSUME DeployInv, GovernedTypeOK, RowInv, AskInv, [GovernedNext]_governedVars
               PROVE  AskInv'
    OBVIOUS
  <2> USE DEF DeployInv
  <2>0. activePolicy \in Nat /\ \A i \in Intent : decision[i].policy \in Nat
    BY DEF TypeOK, GovernedTypeOK, Decisions
  <2>1. CASE UNCHANGED governedVars
    BY <2>1 DEF governedVars, vars, records, AskInv, Pending
  <2>2. CASE Author
    <3>1. UNCHANGED <<deployed, decision>>
      BY <2>2 DEF Author
    <3>2. QED  BY <2>2, <3>1, AuthorPutsNoneOut DEF AskInv
  <2>3. CASE Stop
    <3>1. /\ deployed' = deployed
          /\ \A i \in Intent : decision'[i] = IF decision[i].step \in InProgress
                                                THEN Undecided ELSE decision[i]
      BY <2>3 DEF Stop
    <3>2. \A i \in Intent : \/ decision'[i].step = "none"
                            \/ decision'[i] = decision[i] /\ decision[i].step # "asking"
      BY <3>1 DEF Undecided, InProgress
    <3>3. QED  BY <3>1, <3>2 DEF AskInv
  <2>4. CASE Restore
    <3>1. server = "starting" /\ UNCHANGED <<deployed, decision>>
      BY <2>4 DEF Restore, Reconcile
    <3>2. QED  BY <3>1 DEF AskInv
  <2>5. ASSUME NEW w \in Worker, SendBundle(w) PROVE AskInv'
    <3>1. UNCHANGED <<activePolicy, server, deployed>>
      BY <2>5 DEF SendBundle, Upload, UploadFails, records
    <3>2. \A i \in Intent : decision'[i] = IF decision[i].step = "asking"
                                             THEN [decision[i] EXCEPT !.crossed = TRUE]
                                             ELSE decision[i]
      BY <2>5 DEF SendBundle
    <3>3. \A i \in Intent : decision[i] \in Decisions
      BY DEF GovernedTypeOK
    <3>4. \A i \in Intent :
            /\ decision'[i].step = decision[i].step /\ decision'[i].policy = decision[i].policy
            /\ decision[i].step = "asking" => decision'[i].crossed
            /\ decision[i].step # "asking" => decision'[i] = decision[i]
      BY <3>2, <3>3 DEF Decisions
    <3>5. QED  BY <3>1, <3>4 DEF AskInv
  <2>6. ASSUME NEW w \in Worker, InsertPolicyRow(w) PROVE AskInv'
    <3>1. /\ Pending /\ decision' = decision /\ server' = server
          /\ activePolicy' = activePolicy + 1 /\ deployed' = Append(deployed, task[w].bundle)
      BY <2>6 DEF InsertPolicyRow, CommitDeploy, At, Pending
    <3>2. /\ Len(deployed') = Len(deployed) + 1 /\ Len(deployed) \in Nat
          /\ \A n \in Nat : 0 < n /\ n <= Len(deployed) => deployed'[n] = deployed[n]
      BY <3>1 DEF GovernedTypeOK
    <3>3. QED  BY <2>0, <3>1, <3>2 DEF AskInv
  <2>7. ASSUME NEW i \in Intent, Decides(i) PROVE AskInv'
    BY <2>7, AskOwnStep
  <2>8. QED  BY <2>1, <2>2, <2>3, <2>4, <2>5, <2>6, <2>7, GovernedStep
<1>3. QED  BY <1>1, <1>2, DeployInvariant, GovernedTypes, RowInvariant, PTL DEF GovernedSpec

(* Unless its request crossed a deploy, a decision cites the row of the    *)
(* bundle that answered it (submit_intent, deploy_policy).                 *)
THEOREM RowIsOfAnswer == GovernedSpec => []RowOfAnswer
<1>1. AskInv => RowOfAnswer
  BY DEF AskInv, RowOfAnswer, Recorded
<1>2. QED  BY <1>1, AskInvariant, PTL

-----------------------------------------------------------------------------
(* The mandates *)

(* A version that names a mandate, as the version in force then does.      *)
Named(v) ==
  /\ Exists(v) /\ mandate[v] # 0
  /\ \E u \in ActiveVersions : KeyOf(u) = KeyOf(v) /\ NumberOf(u) >= NumberOf(v)

(* The active version of a policy with an Authority is one.                *)
LEMMA ActiveIsNamed ==
  ASSUME DeployInv, NEW v \in ActiveVersions \cap Delegated
  PROVE  Named(v)
<1>1. v \in Version /\ Exists(v) /\ NumberOf(v) \in Nat
  BY PolicyAssumption DEF ActiveVersions, Exists, NumberOf
<1>2. mandate[v] # 0
  BY DEF DeployInv, OrderInv
<1>3. QED  BY <1>1, <1>2 DEF Named

(* Unless requests have raced, it is the mandate of the version in force.  *)
LEMMA NamedInForce ==
  ASSUME DeployInv, ~raced, NEW v \in Version, Named(v),
         NEW u \in ActiveVersions, KeyOf(u) = KeyOf(v)
  PROVE  mandate[u] = mandate[v] /\ mandate[v] # 0
<1>1. PICK x \in ActiveVersions : KeyOf(x) = KeyOf(v) /\ NumberOf(x) >= NumberOf(v)
  BY DEF Named
<1>2. x = u
  BY <1>1 DEF DeployInv, FlushInv, OneActiveVersion
<1>3. x \in Version /\ Exists(x) /\ NumberOf(x) \in Nat /\ NumberOf(v) \in Nat
  BY PolicyAssumption DEF ActiveVersions, Exists, NumberOf
<1>4. QED  BY <1>1, <1>2, <1>3 DEF Named, DeployInv, FreshInv, Inherited

(* Mandates are not withdrawn, and what was sent stays noted.              *)
LEMMA IssuedGrows ==
  ASSUME DeployInv, DeployInv', [Next]_vars, NEW k \in Key
  PROVE  issued[k] <= issued'[k] /\ sent \subseteq sent'
<1>1. \A j \in Key : issued[j] \in Nat
  BY DEF DeployInv, TypeOK
<1>2. CASE UNCHANGED <<issued, sent>>
  BY <1>1, <1>2
<1>3. ASSUME NEW w \in Worker, CommitDeploy(w)
      PROVE  issued[k] <= issued'[k] /\ sent \subseteq sent'
  <2>1. CASE issued' = [issued EXCEPT ![KeyOf(task[w].version)] = @ + 1]
    BY <1>1, <1>3, <2>1 DEF DeployInv, TypeOK, CommitDeploy
  <2>2. QED  BY <1>2, <1>3, <2>1 DEF CommitDeploy
<1>4. ASSUME NEW j \in Key, Create(j) PROVE issued[k] <= issued'[k] /\ sent \subseteq sent'
  BY <1>1, <1>4 DEF Create, Sent
<1>5. ASSUME NEW w \in Worker, SaveEdit(w)
      PROVE  issued[k] <= issued'[k] /\ sent \subseteq sent'
  BY <1>1, <1>5 DEF SaveEdit, Sent
<1>6. QED
  BY <1>2, <1>3, <1>4, <1>5
  DEF Next, vars, records, Crash, Reconcile, Load, OnlyReads, SaveStatus,
      GatherOthers, SaveCompiled, ReadPrior, Upload, UploadFails, Flush, Abort

(* Unless requests have raced, such a version stays one.                   *)
LEMMA NamedKept ==
  ASSUME DeployInv, DeployInv', [Next]_vars, ~raced', NEW v \in Version, Named(v)
  PROVE  ~raced /\ mandate'[v] = mandate[v] /\ Named(v)'
<1> USE DEF DeployInv
<1>1. CASE UNCHANGED <<status, mandate, sent, raced>>
  BY <1>1 DEF Named, Exists, ActiveVersions
<1>2. ASSUME NEW k \in Key, Create(k) PROVE ~raced /\ mandate'[v] = mandate[v] /\ Named(v)'
  <2>1. /\ <<k, 1>> \in Version /\ ~Exists(<<k, 1>>) /\ raced' = raced
        /\ status' = [status EXCEPT ![<<k, 1>>] = "draft"]
        /\ \A u \in Version \ {<<k, 1>>} : mandate'[u] = mandate[u]
    BY <1>2 DEF Create, TypeOK
  <2>2. ActiveVersions' = ActiveVersions
    BY <2>1 DEF ActiveVersions, Exists, TypeOK
  <2>3. QED  BY <2>1, <2>2 DEF Named, Exists, TypeOK
<1>3. ASSUME NEW w \in Worker, SaveStatus(w) \/ SaveEdit(w) \/ SaveCompiled(w)
      PROVE  ~raced /\ mandate'[v] = mandate[v] /\ Named(v)'
  <2>1. ASSUME NEW u \in Version, NEW s \in PolicyStatus, NEW m \in MandateId,
               Saved(w, u, s, m), Current(task[w]) => FreshSave(w, u, s, m)
        PROVE  ~raced /\ mandate'[v] = mandate[v] /\ Named(v)'
    <3>1. task[w] # Idle
      BY <1>3, SaveStep
    <3>2. FreshSave(w, u, s, m) /\ ActiveVersions' = ActiveVersions
      BY <2>1, <3>1, FreshSaveKept
    <3>3. ~raced
      BY <2>1 DEF Saved, Commits
    <3>4. /\ \A x \in Version : status'[x] = IF x = u THEN s ELSE status[x]
          /\ \A x \in Version : mandate'[x] = IF x = u THEN m ELSE mandate[x]
      BY <2>1 DEF Saved, TypeOK
    <3>5. s # "none"
      BY DEF PolicyStatus
    <3>6. Exists(v)' /\ mandate'[v] = mandate[v]
      BY <3>2, <3>4, <3>5 DEF FreshSave, Named, Exists
    <3>7. QED  BY <3>2, <3>3, <3>6 DEF Named
  <2>2. QED  BY <1>1, <1>3, <2>1, SaveStep
<1>4. ASSUME NEW w \in Worker, CommitDeploy(w)
      PROVE  ~raced /\ mandate'[v] = mandate[v] /\ Named(v)'
  <2>1. /\ task[w] \in Tasks /\ Current(task[w]) /\ ~raced
        /\ ActiveVersions' = task[w].bundle
    BY <1>4, FreshCommitKept
  <2>2. PICK u \in Version : u = task[w].version
    BY <2>1 DEF Tasks
  <2>3. task[w].step = "flushed" /\ task[w].op = "deploy"
    BY <1>4 DEF CommitDeploy, At, OrderInv, Ordered, Idle
  <2>4. task[w].mandate = mandate[u]
    BY <2>1, <2>2, <2>3 DEF Current
  <2>5. mandate'[v] = mandate[v]
    BY <1>4, <2>2, <2>4 DEF CommitDeploy, NeedsMandate, Named, TypeOK
  <2>6. Exists(v)'
    BY <1>4, <2>2 DEF CommitDeploy, Exists, Named
  <2>7. ActiveVersions' = {u} \cup { x \in ActiveVersions : KeyOf(x) # KeyOf(u) }
    BY <2>1, <2>2, <2>3 DEF Current, Past, OtherActive
  <2>8. \E x \in ActiveVersions' : KeyOf(x) = KeyOf(v) /\ NumberOf(x) >= NumberOf(v)
    <3>1. CASE KeyOf(v) = KeyOf(u)
      <4>1. NumberOf(v) <= NumberOf(u)
        BY <2>1, <2>2, <3>1 DEF Current, IsLatest, Named
      <4>2. NumberOf(u) \in Nat /\ NumberOf(v) \in Nat
        BY PolicyAssumption DEF NumberOf
      <4>3. QED  BY <2>7, <3>1, <4>1, <4>2
    <3>2. CASE KeyOf(v) # KeyOf(u)
      BY <2>7, <3>2 DEF Named
    <3>3. QED  BY <3>1, <3>2
  <2>9. QED  BY <2>1, <2>5, <2>6, <2>8 DEF Named
<1>5. QED
  BY <1>1, <1>2, <1>3, <1>4
  DEF Next, vars, records, Crash, Reconcile, Load, OnlyReads, GatherOthers, ReadPrior, Upload,
      UploadFails, Flush, Abort

(* What a decision cites: mandates issued or sent to policies that         *)
(* matched; and of each version with an Authority that matched while it    *)
(* was active, that version's, or it is still to be looked up.             *)
Cited(d) ==
  /\ d.step \in {"resolving", "answered"} =>
       /\ \A c \in d.mandates : /\ \E v \in d.matched : c[1] = KeyOf(v)
                                /\ Accounted(c[1], c[2])
       /\ \A k \in d.todo : \E v \in d.matched : k = KeyOf(v)
       /\ ~raced => \A v \in d.live \cap Delegated :
            /\ Named(v)
            /\ KeyOf(v) \in d.todo \/ <<KeyOf(v), mandate[v]>> \in d.mandates
  /\ d.step = "answered" => d.todo = {}
  /\ d.step = "asking" => d.mandates = {}

CiteInv == \A i \in Intent : Cited(decision[i])

(* Whatever else happens to policies, a decision's citations stay good.    *)
LEMMA CitedKept ==
  ASSUME DeployInv, DeployInv', [Next]_vars, NEW d \in Decisions, Cited(d)
  PROVE  Cited(d)'
<1>1. ASSUME NEW c \in d.mandates, Accounted(c[1], c[2])
      PROVE  c[2] \in 0..issued'[c[1]] \/ <<c[1], c[2]>> \in sent'
  <2>1. c[1] \in Key
    BY DEF Decisions
  <2>2. issued[c[1]] <= issued'[c[1]] /\ sent \subseteq sent'
    BY <2>1, IssuedGrows
  <2>3. QED  BY <1>1, <2>1, <2>2, StaysAccounted DEF DeployInv
<1>2. ASSUME ~raced', NEW v \in d.live, Named(v)
      PROVE  ~raced /\ mandate'[v] = mandate[v] /\ Named(v)'
  BY <1>2, NamedKept DEF Decisions
<1>3. ~raced' => ~raced
  <2>1. ASSUME NEW k \in Key, Create(k) PROVE raced' = raced
    BY <2>1 DEF Create
  <2>2. ASSUME NEW w \in Worker, SaveEdit(w) PROVE ~raced' => ~raced
    <3>1. Commits(w, Own(w)) \/ raced' = raced
      BY <2>2 DEF SaveEdit
    <3>2. QED  BY <3>1 DEF Commits
  <2>3. QED
    BY <2>1, <2>2
    DEF Next, vars, records, Crash, Reconcile, Load, OnlyReads, SaveStatus, GatherOthers,
        SaveCompiled, ReadPrior, Upload, UploadFails, Flush, CommitDeploy, Abort, Commits
<1>4. QED  BY <1>1, <1>2, <1>3 DEF Cited, Accounted

(* A step of the request itself.                                           *)
LEMMA CiteOwnStep ==
  ASSUME DeployInv, DeployInv', GovernedTypeOK, CiteInv, NEW i \in Intent, Decides(i)
  PROVE  CiteInv'
<1>1. UNCHANGED vars /\ decision[i] \in Decisions /\ Cited(decision[i])
  BY DecidesAlone DEF OnlyDecides, GovernedTypeOK, CiteInv
<1>2. ASSUME NEW d, Becomes(i, d), Cited(d) PROVE CiteInv'
  <2>1. \A j \in Intent : decision'[j] = IF j = i THEN d ELSE decision[j]
    BY <1>2 DEF Becomes, GovernedTypeOK
  <2>2. \A j \in Intent : Cited(decision'[j])
    BY <1>2, <2>1 DEF CiteInv
  <2>3. UNCHANGED <<issued, raced, status, mandate, sent>>
    BY <1>1 DEF vars, records
  <2>4. QED  BY <2>2, <2>3 DEF CiteInv, Cited, Named, Exists, ActiveVersions, Accounted
<1>3. CASE AskOpa(i)
  <2> DEFINE matched == { v \in opa : <<i, v>> \in Covers }
             d == [decision[i] EXCEPT !.step = "resolving",
                                      !.bundle = opa,
                                      !.crossed = @ \/ (restored /\ raced),
                                      !.matched = matched,
                                      !.live = matched \cap ActiveVersions,
                                      !.todo = { KeyOf(v) : v \in matched }]
  <2>1. /\ d.step = "resolving" /\ d.matched = matched /\ d.live = matched \cap ActiveVersions
        /\ d.todo = { KeyOf(v) : v \in matched } /\ d.mandates = decision[i].mandates
    BY <1>1 DEF Decisions
  <2>2. Becomes(i, d) /\ decision[i].step = "asking"
    BY <1>3 DEF AskOpa
  <2>3. decision[i].mandates = {}
    BY <1>1, <2>2 DEF Cited
  <2> HIDE DEF d
  <2>4. Cited(d)
    BY <2>1, <2>3, ActiveIsNamed DEF Cited
  <2>5. QED  BY <1>2, <2>2, <2>4
<1>4. CASE ResolveMandate(i)
  <2>0. PICK k \in decision[i].todo :
          LET active == { v \in ActiveVersions : KeyOf(v) = k }
              named(v) == IF mandate[v] = 0 THEN {} ELSE {<<k, mandate[v]>>}
          IN  \E m \in IF active = {} THEN {{}} ELSE { named(v) : v \in active } :
                Becomes(i, [decision[i] EXCEPT !.todo = @ \ {k}, !.mandates = @ \cup m])
    BY <1>4 DEF ResolveMandate
  <2>1. PICK m :
          /\ LET active == { v \in ActiveVersions : KeyOf(v) = k }
                 named(v) == IF mandate[v] = 0 THEN {} ELSE {<<k, mandate[v]>>}
             IN  m \in IF active = {} THEN {{}} ELSE { named(v) : v \in active }
          /\ Becomes(i, [decision[i] EXCEPT !.todo = @ \ {k}, !.mandates = @ \cup m])
    BY <2>0
  <2>2. PICK d : d = [decision[i] EXCEPT !.todo = @ \ {k}, !.mandates = @ \cup m]
    OBVIOUS
  <2>3. /\ d.step = decision[i].step /\ d.matched = decision[i].matched
        /\ d.live = decision[i].live /\ d.todo = decision[i].todo \ {k}
        /\ d.mandates = decision[i].mandates \cup m
    BY <1>1, <2>2 DEF Decisions
  <2>4. decision[i].step = "resolving" /\ k \in Key
    BY <1>1, <1>4 DEF ResolveMandate, Decisions
  <2>5. ASSUME NEW c \in m
        PROVE  (\E v \in d.matched : c[1] = KeyOf(v)) /\ Accounted(c[1], c[2])
    <3>1. PICK u \in ActiveVersions : KeyOf(u) = k /\ mandate[u] # 0 /\ c = <<k, mandate[u]>>
      BY <2>1, <2>5
    <3>2. Accounted(k, mandate[u])
      BY <2>4, <3>1 DEF DeployInv, OrderInv, ActiveVersions
    <3>3. c[1] = k /\ Accounted(c[1], c[2])
      BY <3>1, <3>2
    <3>4. \E v \in d.matched : k = KeyOf(v)
      BY <1>1, <2>3, <2>4 DEF Cited
    <3>5. QED  BY <3>3, <3>4
  <2>6. ASSUME ~raced, NEW v \in d.live \cap Delegated
        PROVE  KeyOf(v) \in d.todo \/ <<KeyOf(v), mandate[v]>> \in d.mandates
    <3>1. Named(v) /\ (KeyOf(v) \in decision[i].todo
                       \/ <<KeyOf(v), mandate[v]>> \in decision[i].mandates)
      BY <1>1, <2>3, <2>4, <2>6 DEF Cited
    <3>2. CASE KeyOf(v) # k
      BY <2>3, <3>1, <3>2
    <3>3. CASE KeyOf(v) = k
      <4>1. PICK u \in ActiveVersions :
              KeyOf(u) = k /\ m = IF mandate[u] = 0 THEN {} ELSE {<<k, mandate[u]>>}
        BY <2>1, <3>1, <3>3 DEF Named
      <4>2. mandate[u] = mandate[v] /\ mandate[v] # 0
        BY <1>1, <2>3, <2>6, <3>1, <3>3, <4>1, NamedInForce DEF Decisions
      <4>3. <<KeyOf(v), mandate[v]>> \in m
        BY <3>3, <4>1, <4>2
      <4>4. QED  BY <2>3, <4>3
    <3>4. QED  BY <3>2, <3>3
  <2>7. Cited(d)
    BY <1>1, <2>3, <2>4, <2>5, <2>6 DEF Cited
  <2>8. QED  BY <1>2, <2>1, <2>2, <2>7
<1>5. CASE RecordDecision(i)
  <2>1. PICK d : d = [decision[i] EXCEPT !.step = IF @ = "failed" THEN "unanswered"
                                                  ELSE "answered"]
    OBVIOUS
  <2>2. /\ d.step = IF decision[i].step = "failed" THEN "unanswered" ELSE "answered"
        /\ d.matched = decision[i].matched /\ d.live = decision[i].live
        /\ d.todo = decision[i].todo /\ d.mandates = decision[i].mandates
    BY <1>1, <2>1 DEF Decisions
  <2>3. /\ decision[i].step \in {"failed", "resolving"} /\ Becomes(i, d)
        /\ decision[i].step = "resolving" => decision[i].todo = {}
    BY <1>5, <2>1 DEF RecordDecision
  <2>4. Cited(d)
    BY <1>1, <2>2, <2>3 DEF Cited
  <2>5. QED  BY <1>2, <2>3, <2>4
<1>6. CASE ReadActivePolicy(i)
  <2> DEFINE d == [Undecided EXCEPT !.step = IF activePolicy = 0 THEN "failed" ELSE "asking",
                                    !.policy = activePolicy,
                                    !.crossed = torn \/ Pending]
  <2>1. d.step = IF activePolicy = 0 THEN "failed" ELSE "asking"
    BY DEF Undecided
  <2>2. d.mandates = {}
    BY DEF Undecided
  <2>3. Becomes(i, d)
    BY <1>6 DEF ReadActivePolicy
  <2> HIDE DEF d
  <2>4. QED  BY <1>2, <2>1, <2>2, <2>3 DEF Cited
<1>7. CASE OpaFails(i) \/ AbortIntent(i)
  <2>1. /\ [Undecided EXCEPT !.step = "failed", !.policy = decision[i].policy].step = "failed"
        /\ Undecided.step = "none"
    BY DEF Undecided
  <2>2. PICK d : Becomes(i, d) /\ d.step \in {"failed", "none"}
    BY <1>7, <2>1 DEF OpaFails, AbortIntent
  <2>3. QED  BY <1>2, <2>2 DEF Cited
<1>8. QED  BY <1>3, <1>4, <1>5, <1>6, <1>7 DEF Decides

LEMMA CiteInvariant == GovernedSpec => []CiteInv
<1>1. GovernedInit => CiteInv
  BY DEF GovernedInit, CiteInv, Cited, Undecided
<1>2. DeployInv /\ DeployInv' /\ GovernedTypeOK /\ CiteInv /\ [GovernedNext]_governedVars
        => CiteInv'
  <2> SUFFICES ASSUME DeployInv, DeployInv', GovernedTypeOK, CiteInv,
                      [GovernedNext]_governedVars
               PROVE  CiteInv'
    OBVIOUS
  <2>1. ASSUME NEW i \in Intent, NEW d, d = decision[i]
        PROVE  d \in Decisions /\ Cited(d) /\ Cited(d)'
    <3>1. d \in Decisions /\ Cited(d)
      BY <2>1 DEF GovernedTypeOK, CiteInv
    <3>2. QED  BY <3>1, CitedKept, GovernedStep
  <2>2. ASSUME \A i \in Intent : \/ decision'[i] = decision[i]
                                 \/ decision'[i].step = "none"
                                 \/ /\ decision'[i].step = decision[i].step
                                    /\ decision'[i].step = "asking"
                                    /\ decision'[i].mandates = decision[i].mandates
        PROVE  CiteInv'
    <3>1. ASSUME NEW i \in Intent PROVE Cited(decision[i])'
      <4>1. PICK d : d = decision[i]
        OBVIOUS
      <4>2. Cited(d) /\ Cited(d)'
        BY <2>1, <4>1
      <4>3. CASE decision'[i] = decision[i]
        BY <4>1, <4>2, <4>3 DEF Cited
      <4>4. CASE decision'[i].step = "none"
        BY <4>4 DEF Cited
      <4>5. CASE /\ decision'[i].step = decision[i].step /\ decision'[i].step = "asking"
                 /\ decision'[i].mandates = decision[i].mandates
        BY <4>1, <4>2, <4>5 DEF Cited
      <4>6. QED  BY <2>2, <4>3, <4>4, <4>5
    <3>2. QED  BY <3>1 DEF CiteInv
  <2>3. CASE UNCHANGED governedVars \/ Author \/ Restore
    BY <2>2, <2>3 DEF governedVars, Author, Restore
  <2>4. CASE Stop
    <3>1. \A i \in Intent : decision'[i] = IF decision[i].step \in InProgress
                                             THEN Undecided ELSE decision[i]
      BY <2>4 DEF Stop
    <3>2. Undecided.step = "none"
      BY DEF Undecided
    <3>3. QED  BY <2>2, <3>1, <3>2
  <2>5. ASSUME NEW w \in Worker, SendBundle(w) PROVE CiteInv'
    <3>1. \A i \in Intent : decision'[i] = IF decision[i].step = "asking"
                                             THEN [decision[i] EXCEPT !.crossed = TRUE]
                                             ELSE decision[i]
      BY <2>5 DEF SendBundle
    <3>2. \A i \in Intent :
            /\ [decision[i] EXCEPT !.crossed = TRUE].step = decision[i].step
            /\ [decision[i] EXCEPT !.crossed = TRUE].mandates = decision[i].mandates
      BY DEF GovernedTypeOK, Decisions
    <3>3. QED  BY <2>2, <3>1, <3>2
  <2>6. ASSUME NEW w \in Worker, InsertPolicyRow(w) PROVE CiteInv'
    BY <2>2, <2>6 DEF InsertPolicyRow
  <2>7. ASSUME NEW i \in Intent, Decides(i) PROVE CiteInv'
    BY <2>7, CiteOwnStep
  <2>8. QED  BY <2>3, <2>4, <2>5, <2>6, <2>7, GovernedStep
<1>3. QED  BY <1>1, <1>2, DeployInvariant, GovernedTypes, PTL DEF GovernedSpec

(* A decision cites for policies that matched only, and mandates made for  *)
(* them or given to them by a client; and, unless requests have raced,     *)
(* that of each version with an Authority that matched while it was active *)
(* (resolve_mandate_ids, _ensure_mandate, _build_runtime_policy).          *)
THEOREM MandateIsOfMatch == GovernedSpec => []MandateOfMatch
<1>1. CiteInv => MandateOfMatch
  BY DEF CiteInv, Cited, MandateOfMatch, Recorded
<1>2. QED  BY <1>1, CiteInvariant, PTL
=============================================================================
