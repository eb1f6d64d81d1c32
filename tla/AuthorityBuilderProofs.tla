------------------------ MODULE AuthorityBuilderProofs ------------------------
(***************************************************************************)
(* Promotions and delegations, for any candidates, people, policies and    *)
(* numbers of overlapping requests: one policy per reviewed candidate, an  *)
(* Authority for each policy that cites one, and delegations between       *)
(* people whom a reviewer has resolved.                                    *)
(***************************************************************************)
EXTENDS AuthorityBuilder, FiniteSetTheorems, TLAPS

-----------------------------------------------------------------------------
(* Type correctness *)

(* What is stored, apart from the requests.                                *)
records == <<intake, origin, candidate, resolved, person, delegation, authority, policy>>

(* A request that another has overtaken goes on as it was, but for being   *)
(* noted as stale.                                                         *)
Alike(t, u) ==
  /\ t.op = u.op /\ t.step = u.step /\ t.row = u.row /\ t.content = u.content
  /\ t.person = u.person /\ t.policy = u.policy /\ t.from = u.from /\ t.to = u.to

LEMMA IdleIsIdle ==
  /\ Idle.op = "none" /\ Idle.step = "idle" /\ Idle.person = None /\ Idle.from = None
  /\ Idle.to = None /\ Idle.stale = FALSE
  /\ Idle \notin Tasks
BY DEF Idle, Tasks, Operation

(* What a commit does to the requests: its own ends, those that have       *)
(* loaded the same row become stale.                                       *)
LEMMA OthersGoOn ==
  ASSUME TypeOK, NEW w \in Worker, Commits(w, Idle)
  PROVE  /\ task' \in [Worker -> Tasks \cup {Idle}]
         /\ raced' \subseteq {"candidate", "people"}
         /\ raced \subseteq raced'
         /\ task'[w] = Idle
         /\ \A x \in Worker \ {w} : Alike(task'[x], task[x])
         /\ \A x \in Worker : task'[x] # Idle =>
              /\ x # w
              /\ Alike(task'[x], task[x])
              /\ task[x] # Idle
              /\ ~task'[x].stale => ~task[x].stale /\ task[x].row # task[w].row
<1>1. ASSUME NEW x \in Worker, task[x] # Idle
      PROVE  /\ [task[x] EXCEPT !.stale = TRUE] \in Tasks
             /\ Alike([task[x] EXCEPT !.stale = TRUE], task[x])
             /\ [task[x] EXCEPT !.stale = TRUE].stale = TRUE
  <2>1. task[x] \in Tasks
    BY <1>1 DEF TypeOK
  <2>2. QED  BY <2>1 DEF Tasks, Alike
<1>2. \A x \in Worker : Alike(task[x], task[x])
  BY DEF Alike
<1>3. task' \in [Worker -> Tasks \cup {Idle}]
  BY <1>1 DEF Commits, TypeOK
<1>4. raced \subseteq raced' /\ raced' \subseteq {"candidate", "people"}
  BY DEF Commits, TypeOK
<1>5. task'[w] = Idle
  BY DEF Commits
<1>6. ASSUME NEW x \in Worker, task'[x] # Idle
      PROVE  /\ x # w
             /\ Alike(task'[x], task[x])
             /\ task[x] # Idle
             /\ ~task'[x].stale => ~task[x].stale /\ task[x].row # task[w].row
  BY <1>1, <1>2, <1>6 DEF Commits
<1>7. ASSUME NEW x \in Worker \ {w} PROVE Alike(task'[x], task[x])
  BY <1>1, <1>2 DEF Commits
<1>8. QED  BY <1>3, <1>4, <1>5, <1>6, <1>7

(* What the types of the requests leave open: a candidate is there, and    *)
(* requests are, only once a document has been extracted; a promotion has  *)
(* loaded what the candidate says.                                         *)
Extraction ==
  /\ intake = "extracted" => candidate \in Candidates
  /\ intake # "extracted" => candidate = NoCandidate /\ \A w \in Worker : task[w] = Idle
  /\ \A w \in Worker : task[w].op = "promote" => task[w].content \in Content

TypeInv == TypeOK /\ Extraction

LEMMA TypeInvStart == Init => TypeInv
<1> SUFFICES ASSUME Init PROVE TypeInv
  OBVIOUS
<1>1. candidate = NoCandidate /\ \A w \in Worker : task[w] = Idle
  BY DEF Init
<1>2. task \in [Worker -> Tasks \cup {Idle}] /\ raced \subseteq {"candidate", "people"}
  BY DEF Init
<1>3. /\ intake \in {"none", "uploaded", "failed", "extracted"}
      /\ origin \in {"none", "upload", "corpus"} /\ torn \in BOOLEAN
      /\ candidate \in Candidates \cup {NoCandidate}
  BY DEF Init
<1>4. delegation \in Delegations
  BY DEF Init, Delegations
<1>5. /\ resolved \in [Discovery -> Person \cup {None}]
      /\ person \in [Person -> Organization]
      /\ authority \in [Authority -> Person \cup {None}]
      /\ policy \in [Policy -> Policies \cup {NoPolicy}]
  BY BuilderAssumption DEF Init
<1>6. QED
  BY <1>1, <1>2, <1>3, <1>4, <1>5 DEF TypeInv, TypeOK, Extraction, Init, Idle

(* A request goes on with another task.                                    *)
LEMMA GoesType ==
  ASSUME TypeInv, NEW w \in Worker, NEW t \in Tasks \cup {Idle}, Goes(w, t),
         t.op = "promote" => t.content \in Content,
         intake = "extracted", UNCHANGED <<documents, candidate>>
  PROVE  task' \in [Worker -> Tasks \cup {Idle}] /\ Extraction'
BY DEF TypeInv, TypeOK, Extraction, Goes, documents

(* A commit that leaves a candidate.                                       *)
LEMMA CommitsType ==
  ASSUME TypeInv, NEW w \in Worker, Commits(w, Idle),
         intake = "extracted", UNCHANGED documents, candidate' \in Candidates
  PROVE  task' \in [Worker -> Tasks \cup {Idle}] /\ Extraction'
<1>1. task' \in [Worker -> Tasks \cup {Idle}]
  BY OthersGoOn DEF TypeInv
<1>2. ASSUME NEW x \in Worker, task'[x].op = "promote" PROVE task'[x].content \in Content
  <2>1. Alike(task'[x], task[x])
    BY <1>2, OthersGoOn, IdleIsIdle DEF TypeInv
  <2>2. QED  BY <1>2, <2>1 DEF Alike, TypeInv, Extraction
<1>3. QED  BY <1>1, <1>2 DEF Extraction, documents

LEMMA TypeInvStep ==
  ASSUME TypeInv, [Next]_vars
  PROVE  TypeInv'
<1> USE DEF documents, people, rules
<1>0. ASSUME NEW w \in Worker, task[w] # Idle
      PROVE  intake = "extracted" /\ candidate \in Candidates /\ task[w] \in Tasks
  BY <1>0 DEF TypeInv, TypeOK, Extraction
<1>1. ASSUME NEW o \in {"upload", "corpus"}, Submit(o) PROVE TypeInv'
  BY <1>1 DEF Submit, TypeInv, TypeOK, Extraction
<1>2. CASE Extract
  <2>1. candidate' \in Candidates
    BY <1>2, BuilderAssumption DEF Extract, Candidates
  <2>2. delegation' \in Delegations
    BY <1>2 DEF Extract, Delegations, TypeInv, TypeOK
  <2>3. \A w \in Worker : task[w] = Idle
    BY <1>2 DEF Extract, TypeInv, Extraction
  <2>4. QED
    BY <1>2, <2>1, <2>2, <2>3, IdleIsIdle DEF Extract, TypeInv, TypeOK, Extraction
<1>3. CASE ExtractFails
  BY <1>3 DEF ExtractFails, TypeInv, TypeOK, Extraction
<1>4. ASSUME NEW w \in Worker, NEW op \in Operation, LoadCandidate(w, op) PROVE TypeInv'
  <2>1. candidate \in Candidates /\ intake = "extracted"
    BY <1>4 DEF LoadCandidate, UnderReview, NoCandidate, TypeInv, TypeOK, Extraction
  <2> DEFINE t == [Idle EXCEPT !.op = op, !.step = "loaded",
                               !.content = IF op = "promote" THEN candidate.content ELSE None]
  <2>2. t \in Tasks /\ t.op = op /\ (op = "promote" => t.content \in Content)
    BY <1>4, <2>1 DEF LoadCandidate, Idle, Tasks, Row, Candidates
  <2>3. Goes(w, t) /\ UNCHANGED <<records, raced, torn>>
    BY <1>4 DEF LoadCandidate, OnlyReads, records
  <2>4. QED  BY <1>4, <2>1, <2>2, <2>3, GoesType DEF records, TypeInv, TypeOK
<1>5. ASSUME NEW w \in Worker, NEW d \in Discovery, LoadDiscovery(w, d) PROVE TypeInv'
  <2> DEFINE t == [Idle EXCEPT !.op = "identify", !.step = "loaded", !.row = d]
  <2>1. t \in Tasks /\ t.op = "identify"
    BY DEF Idle, Tasks, Row, Operation
  <2>2. Goes(w, t) /\ UNCHANGED <<records, raced, torn>> /\ intake = "extracted"
    BY <1>5 DEF LoadDiscovery, OnlyReads, records, InCorpus
  <2>3. QED  BY <2>1, <2>2, GoesType DEF records, TypeInv, TypeOK
<1>6. ASSUME NEW w \in Worker, EditCandidate(w) PROVE TypeInv'
  <2>1. candidate' \in Candidates
    <3>1. task[w] # Idle
      BY <1>6, IdleIsIdle DEF EditCandidate, At
    <3>2. QED  BY <1>0, <1>6, <3>1 DEF EditCandidate, Candidates
  <2>2. intake = "extracted" /\ Commits(w, Idle)
    BY <1>0, <1>6, IdleIsIdle DEF EditCandidate, At
  <2>3. QED
    BY <1>6, <2>1, <2>2, CommitsType, OthersGoOn DEF EditCandidate, TypeInv, TypeOK
<1>7. ASSUME NEW w \in Worker, DismissCandidate(w) PROVE TypeInv'
  <2>1. candidate' \in Candidates
    <3>1. task[w] # Idle
      BY <1>7, IdleIsIdle DEF DismissCandidate, At
    <3>2. QED  BY <1>0, <1>7, <3>1 DEF DismissCandidate, Candidates
  <2>2. intake = "extracted" /\ Commits(w, Idle)
    BY <1>0, <1>7, IdleIsIdle DEF DismissCandidate, At
  <2>3. QED
    BY <1>7, <2>1, <2>2, CommitsType, OthersGoOn DEF DismissCandidate, TypeInv, TypeOK
<1>8. ASSUME NEW n, NEW p \in Resolution(n) PROVE p \in Person \cup {None}
  BY <1>8 DEF Resolution, Resolutions, TypeInv, TypeOK
<1>9. ASSUME NEW w \in Worker, FindDelegator(w) PROVE TypeInv'
  <2>1. task[w] # Idle /\ intake = "extracted" /\ task[w] \in Tasks
    BY <1>0, <1>9, IdleIsIdle DEF FindDelegator, At
  <2>2. PICK t \in Tasks \cup {Idle} :
          Goes(w, t) /\ (t.op = "promote" => t.content \in Content)
    <3>1. CASE task[w].content \in Valid
      <4>1. PICK p \in Person \cup {None} :
              Goes(w, [task[w] EXCEPT !.step = "read", !.person = p])
        BY <1>8, <1>9, <3>1 DEF FindDelegator
      <4>2. /\ [task[w] EXCEPT !.step = "read", !.person = p] \in Tasks
            /\ [task[w] EXCEPT !.step = "read", !.person = p].content = task[w].content
        BY <2>1 DEF Tasks
      <4>3. QED  BY <3>1, <4>1, <4>2, BuilderAssumption
    <3>2. CASE task[w].content \notin Valid
      BY <1>9, <3>2, IdleIsIdle DEF FindDelegator
    <3>3. QED  BY <3>1, <3>2
  <2>3. UNCHANGED <<records, raced, torn>>
    BY <1>9 DEF FindDelegator, OnlyReads, records
  <2>4. QED  BY <2>1, <2>2, <2>3, GoesType DEF records, TypeInv, TypeOK
<1>10. ASSUME NEW w \in Worker, CreatePolicy(w) PROVE TypeInv'
  <2>1. /\ task[w] # Idle /\ intake = "extracted" /\ task[w] \in Tasks
        /\ task[w].content \in Content
    BY <1>0, <1>10, IdleIsIdle DEF CreatePolicy, At, TypeInv, Extraction
  <2>2. PICK q \in Policy, a \in Authority :
          /\ authority' = [authority EXCEPT ![a] = task[w].person]
          /\ policy' = [policy EXCEPT ![q] =
               [content |-> task[w].content,
                authority |-> IF task[w].person = None THEN None ELSE a]]
          /\ Goes(w, [task[w] EXCEPT !.step = "created", !.policy = q])
    BY <1>10 DEF CreatePolicy
  <2>3. /\ [task[w] EXCEPT !.step = "created", !.policy = q] \in Tasks
        /\ [task[w] EXCEPT !.step = "created", !.policy = q].content = task[w].content
    BY <2>1 DEF Tasks
  <2>4. task' \in [Worker -> Tasks \cup {Idle}] /\ Extraction'
    BY <1>10, <2>1, <2>2, <2>3, GoesType DEF CreatePolicy
  <2>5. authority' \in [Authority -> Person \cup {None}]
    BY <2>1, <2>2 DEF Tasks, TypeInv, TypeOK
  <2>6. policy' \in [Policy -> Policies \cup {NoPolicy}]
    BY <2>1, <2>2 DEF Policies, TypeInv, TypeOK
  <2>7. raced' \subseteq {"candidate", "people"}
    BY <1>10 DEF CreatePolicy, TypeInv, TypeOK
  <2>8. QED
    BY <1>10, <2>4, <2>5, <2>6, <2>7 DEF CreatePolicy, TypeInv, TypeOK
<1>11. ASSUME NEW w \in Worker, CloseCandidate(w) PROVE TypeInv'
  <2>1. intake = "extracted" /\ Commits(w, Idle) /\ candidate \in Candidates /\ task[w] \in Tasks
    BY <1>0, <1>11, IdleIsIdle DEF CloseCandidate, At
  <2>2. candidate' \in Candidates
    BY <1>11, <2>1 DEF CloseCandidate, Candidates, Tasks
  <2>3. QED
    BY <1>11, <2>1, <2>2, CommitsType, OthersGoOn DEF CloseCandidate, TypeInv, TypeOK
<1>12. ASSUME NEW w \in Worker, Identify(w) PROVE TypeInv'
  <2>1. intake = "extracted" /\ Commits(w, Idle) /\ candidate \in Candidates
    BY <1>0, <1>12, IdleIsIdle DEF Identify, At
  <2>2. /\ resolved' \in [Discovery -> Person \cup {None}]
        /\ person' \in [Person -> Organization]
    BY <1>12 DEF Identify, Organization, TypeInv, TypeOK
  <2>3. candidate' \in Candidates /\ UNCHANGED documents
    BY <1>12, <2>1 DEF Identify
  <2>4. QED
    BY <1>12, <2>1, <2>2, <2>3, CommitsType, OthersGoOn DEF Identify, TypeInv, TypeOK
<1>13. ASSUME NEW w \in Worker, LoadDelegation(w) PROVE TypeInv'
  <2> DEFINE t == [Idle EXCEPT !.op = "activate", !.step = "loaded", !.row = "delegation"]
  <2>1. t \in Tasks /\ t.op = "activate"
    BY DEF Idle, Tasks, Row, Operation
  <2>2. Goes(w, t) /\ UNCHANGED <<records, raced, torn>> /\ intake = "extracted"
    BY <1>13 DEF LoadDelegation, OnlyReads, records, InCorpus
  <2>3. QED  BY <2>1, <2>2, GoesType DEF records, TypeInv, TypeOK
<1>14. ASSUME NEW w \in Worker, MatchFrom(w) PROVE TypeInv'
  <2>1. PICK p \in Person \cup {None} :
          Goes(w, [Idle EXCEPT !.op = "derive", !.step = "half",
                               !.row = "delegation", !.from = p])
    BY <1>8, <1>14 DEF MatchFrom
  <2> DEFINE t == [Idle EXCEPT !.op = "derive", !.step = "half",
                               !.row = "delegation", !.from = p]
  <2>2. t \in Tasks /\ t.op = "derive"
    BY DEF Idle, Tasks, Row, Operation
  <2>3. UNCHANGED <<records, raced, torn>> /\ intake = "extracted"
    BY <1>14 DEF MatchFrom, OnlyReads, records, InCorpus
  <2>4. QED  BY <2>1, <2>2, <2>3, GoesType DEF records, TypeInv, TypeOK
<1>15. ASSUME NEW w \in Worker, MatchTo(w) PROVE TypeInv'
  <2>1. task[w] # Idle /\ intake = "extracted" /\ task[w] \in Tasks /\ task[w].op = "derive"
    BY <1>0, <1>15, IdleIsIdle DEF MatchTo, At
  <2>2. PICK p \in Person \cup {None} :
          Goes(w, IF p = None /\ task[w].from = None THEN Idle
                  ELSE [task[w] EXCEPT !.step = "read", !.to = p])
    BY <1>8, <1>15 DEF MatchTo
  <2>3. /\ [task[w] EXCEPT !.step = "read", !.to = p] \in Tasks
        /\ [task[w] EXCEPT !.step = "read", !.to = p].op = "derive"
    BY <2>1 DEF Tasks
  <2>4. UNCHANGED <<records, raced, torn>>
    BY <1>15 DEF MatchTo, OnlyReads, records
  <2>5. QED  BY <2>1, <2>2, <2>3, <2>4, IdleIsIdle, GoesType DEF records, TypeInv, TypeOK
<1>16. ASSUME NEW w \in Worker, SaveEnds(w) PROVE TypeInv'
  <2>1. task[w] # Idle /\ intake = "extracted" /\ task[w] \in Tasks
    BY <1>0, <1>16, IdleIsIdle DEF SaveEnds, At
  <2>2. delegation' \in Delegations
    BY <1>16, <2>1 DEF SaveEnds, Delegations, Tasks, TypeInv, TypeOK
  <2>3. QED
    BY <1>16, <2>1, <2>2, IdleIsIdle, GoesType DEF SaveEnds, TypeInv, TypeOK
<1>17. ASSUME NEW w \in Worker, Activate(w) PROVE TypeInv'
  <2>1. task[w] # Idle /\ intake = "extracted"
    BY <1>0, <1>17, IdleIsIdle DEF Activate, At
  <2>2. delegation' \in Delegations
    BY <1>17 DEF Activate, Delegations, TypeInv, TypeOK
  <2>3. QED
    BY <1>17, <2>1, <2>2, IdleIsIdle, GoesType DEF Activate, TypeInv, TypeOK
<1>18. ASSUME NEW w \in Worker, Abort(w) PROVE TypeInv'
  <2>1. intake = "extracted" /\ torn' \in BOOLEAN
    BY <1>0, <1>18 DEF Abort, TypeInv, TypeOK
  <2>2. QED
    BY <1>18, <2>1, IdleIsIdle, GoesType DEF Abort, TypeInv, TypeOK
<1>19. CASE UNCHANGED vars
  BY <1>19 DEF vars, TypeInv, TypeOK, Extraction
<1>20. QED
  BY <1>1, <1>2, <1>3, <1>4, <1>5, <1>6, <1>7, <1>9, <1>10, <1>11, <1>12, <1>13, <1>14,
     <1>15, <1>16, <1>17, <1>18, <1>19 DEF Next

(* Whatever overlaps and fails, candidates, delegations, policies,         *)
(* authorities and requests are of the declared types (type correctness of *)
(* ai_policy_builder_service and ai_authority_builder_service).            *)
THEOREM BuilderTypeCorrect == Spec => []TypeOK
<1>1. TypeInv /\ [Next]_vars => TypeInv'
  BY TypeInvStep
<1>2. TypeInv => TypeOK
  BY DEF TypeInv
<1>3. QED
  BY TypeInvStart, <1>1, <1>2, PTL DEF Spec

-----------------------------------------------------------------------------
(* What promotions rest on *)

Review == {"edit", "dismiss", "promote"}

(* Unless it is overtaken, a review is of a candidate that is still        *)
(* pending, and a promotion of what the candidate says.                    *)
FreshReview ==
  \A w \in Worker : task[w].op \in Review =>
    /\ task[w].row = "candidate"
    /\ ~task[w].stale =>
         /\ candidate.status = "pending_review"
         /\ task[w].op = "promote" => task[w].content = candidate.content

(* Between its two commits, a promotion has the policy it made.            *)
HasPolicy ==
  \A w \in Worker : At(w, "promote", "created") =>
    /\ task[w].policy \in Policy
    /\ policy[task[w].policy] # NoPolicy
    /\ policy[task[w].policy].content = task[w].content

KeyStands == candidate.key # None => policy[candidate.key] # NoPolicy

IsPromotion(q) ==
  candidate.status = "promoted" /\ candidate.key = q /\ policy[q].content = candidate.content

(* Unless reviews overlap or a promotion is cut off, every policy is that  *)
(* of the promoted candidate or of a promotion between its commits.        *)
Accounted ==
  "candidate" \notin raced /\ ~torn =>
    \A q \in Policy : policy[q] # NoPolicy =>
      \/ IsPromotion(q)
      \/ \E w \in Worker : At(w, "promote", "created") /\ task[w].policy = q

PromotionInv == FreshReview /\ HasPolicy /\ KeyStands /\ Accounted /\ AuthorityWithPolicy

LEMMA PromotionInvStart == Init => PromotionInv
BY DEF Init, PromotionInv, FreshReview, HasPolicy, KeyStands, Accounted, AuthorityWithPolicy,
       Review, At, Idle, NoCandidate, NoPolicy

(* Policies and authorities are as they were, and so is what they owe to   *)
(* each other.                                                             *)
LEMMA RulesStand ==
  ASSUME AuthorityWithPolicy, UNCHANGED rules
  PROVE  AuthorityWithPolicy'
BY DEF AuthorityWithPolicy, rules

(* A request that commits nothing goes on with a task t that suits the     *)
(* candidate; it was not between the commits of a promotion, or has cut    *)
(* that promotion off.                                                     *)
LEMMA ReviewGoesOn ==
  ASSUME TypeInv, PromotionInv, NEW w \in Worker, NEW t, Goes(w, t),
         t.op \in Review =>
           /\ t.step # "created" /\ t.row = "candidate"
           /\ ~t.stale => /\ candidate.status = "pending_review"
                          /\ t.op = "promote" => t.content = candidate.content,
         At(w, "promote", "created") => torn',
         torn => torn',
         UNCHANGED <<candidate, rules, raced>>
  PROVE  PromotionInv'
<1>1. /\ task'[w] = t
      /\ \A x \in Worker \ {w} : task'[x] = task[x]
  BY DEF Goes, TypeInv, TypeOK
<1>2. FreshReview'
  BY <1>1 DEF PromotionInv, FreshReview
<1>3. \A x \in Worker : At(x, "promote", "created")' => x # w /\ At(x, "promote", "created")
  BY <1>1 DEF At, Review
<1>4. HasPolicy'
  BY <1>1, <1>3 DEF PromotionInv, HasPolicy, rules
<1>5. KeyStands'
  BY DEF PromotionInv, KeyStands, rules
<1>6. Accounted'
  <2> SUFFICES ASSUME "candidate" \notin raced', ~torn',
                      NEW q \in Policy, policy'[q] # NoPolicy, ~IsPromotion(q)'
               PROVE  \E x \in Worker : At(x, "promote", "created")' /\ task'[x].policy = q
    BY DEF Accounted
  <2>1. ~IsPromotion(q) /\ policy[q] # NoPolicy
    BY DEF IsPromotion, rules
  <2>2. PICK x \in Worker : At(x, "promote", "created") /\ task[x].policy = q
    BY <2>1 DEF PromotionInv, Accounted
  <2>3. x # w
    BY <2>2
  <2>4. QED  BY <1>1, <2>2, <2>3 DEF At
<1>7. QED
  BY <1>2, <1>4, <1>5, <1>6, RulesStand DEF PromotionInv

(* A review commits and ends; whatever it has written, it names a policy   *)
(* that is there, and a promotion that was not overtaken leaves the        *)
(* candidate as the record of its policy.                                  *)
LEMMA ReviewCommits ==
  ASSUME TypeInv, PromotionInv, NEW w \in Worker, task[w].op \in Review, Commits(w, Idle),
         candidate'.key # None => policy[candidate'.key] # NoPolicy,
         \A q \in Policy : At(w, "promote", "created") /\ ~task[w].stale /\ task[w].policy = q
                          => IsPromotion(q)',
         UNCHANGED <<rules, torn>>
  PROVE  PromotionInv'
<1>1. task[w].row = "candidate"
  BY DEF PromotionInv, FreshReview
<1>2. \A x \in Worker : task'[x].op # "none" => x # w /\ Alike(task'[x], task[x])
                          /\ (~task'[x].stale => ~task[x].stale /\ task[x].row # "candidate")
  BY <1>1, OthersGoOn, IdleIsIdle DEF TypeInv
<1>3. FreshReview'
  BY <1>2 DEF PromotionInv, FreshReview, Alike, Review
<1>4. HasPolicy'
  BY <1>2 DEF PromotionInv, HasPolicy, At, Alike, rules
<1>5. KeyStands'
  BY DEF KeyStands, rules
<1>6. Accounted'
  <2> SUFFICES ASSUME "candidate" \notin raced', ~torn',
                      NEW q \in Policy, policy'[q] # NoPolicy, ~IsPromotion(q)'
               PROVE  \E x \in Worker : At(x, "promote", "created")' /\ task'[x].policy = q
    BY DEF Accounted
  <2>1. "candidate" \notin raced /\ ~task[w].stale
    BY <1>1, BuilderAssumption DEF Commits
  <2>2. candidate.status = "pending_review"
    BY <2>1 DEF PromotionInv, FreshReview
  <2>3. PICK x \in Worker : At(x, "promote", "created") /\ task[x].policy = q
    BY <2>1, <2>2 DEF PromotionInv, Accounted, IsPromotion, rules
  <2>4. x # w
    BY <2>1, <2>3
  <2>5. Alike(task'[x], task[x])
    BY <2>4, OthersGoOn DEF TypeInv
  <2>6. QED  BY <2>3, <2>5 DEF At, Alike
<1>7. QED
  BY <1>3, <1>4, <1>5, <1>6, RulesStand DEF PromotionInv

(* A promotion makes a policy that was not there, and with it the          *)
(* Authority the policy cites.                                             *)
LEMMA PolicyWithAuthority ==
  ASSUME TypeInv, AuthorityWithPolicy, NEW q \in Policy, NEW a \in Authority,
         NEW c \in Content, NEW p \in Person \cup {None},
         policy[q] = NoPolicy, authority[a] = None,
         authority' = [authority EXCEPT ![a] = p],
         policy' = [policy EXCEPT ![q] =
           [content |-> c, authority |-> IF p = None THEN None ELSE a]]
  PROVE  AuthorityWithPolicy'
<1>1. /\ authority'[a] = p /\ \A b \in Authority \ {a} : authority'[b] = authority[b]
      /\ policy'[q].authority = (IF p = None THEN None ELSE a)
      /\ \A r \in Policy \ {q} : policy'[r] = policy[r]
  BY DEF TypeInv, TypeOK
<1>2. policy[q].authority = None /\ a # None
  BY BuilderAssumption DEF NoPolicy
<1>3. \A r \in Policy : policy[r].authority # a
  BY <1>2 DEF AuthorityWithPolicy
<1>4. ASSUME NEW b \in Authority, authority'[b] # None
      PROVE  \E r \in Policy : policy'[r].authority = b
  <2>1. CASE b = a
    BY <1>1, <1>4, <2>1
  <2>2. CASE b # a
    <3>1. PICK r \in Policy : policy[r].authority = b
      BY <1>1, <1>4, <2>2 DEF AuthorityWithPolicy
    <3>2. r # q
      BY <1>1, <1>2, <1>4, <2>2, <3>1, BuilderAssumption
    <3>3. QED  BY <1>1, <3>1, <3>2
  <2>3. QED  BY <2>1, <2>2
<1>5. ASSUME NEW r \in Policy, policy'[r].authority # None
      PROVE  /\ authority'[policy'[r].authority] # None
             /\ \A s \in Policy : policy'[r].authority = policy'[s].authority => r = s
  <2>1. CASE r = q
    BY <1>1, <1>3, <1>5, <2>1
  <2>2. CASE r # q
    <3>1. policy'[r] = policy[r] /\ policy[r].authority # a /\ authority[policy[r].authority] # None
      BY <1>1, <1>3, <1>5, <2>2 DEF AuthorityWithPolicy
    <3>2. policy[r].authority \in Authority
      BY <1>5, <3>1 DEF TypeInv, TypeOK, Policies, NoPolicy
    <3>3. QED  BY <1>1, <1>5, <3>1, <3>2 DEF AuthorityWithPolicy
  <2>3. QED  BY <2>1, <2>2
<1>6. QED  BY <1>4, <1>5 DEF AuthorityWithPolicy

LEMMA PromotionInvStep ==
  ASSUME TypeInv, PromotionInv, [Next]_vars
  PROVE  PromotionInv'
<1> USE DEF documents, people
<1>1. ASSUME UNCHANGED <<candidate, rules, task, raced, torn>> PROVE PromotionInv'
  BY <1>1 DEF PromotionInv, FreshReview, HasPolicy, KeyStands, Accounted, IsPromotion,
              AuthorityWithPolicy, At, rules
<1>2. CASE \E o \in {"upload", "corpus"} : Submit(o)
  BY <1>1, <1>2 DEF Submit
<1>3. CASE Extract
  <2>1. candidate = NoCandidate /\ \A w \in Worker : task[w] = Idle
    BY <1>3 DEF Extract, TypeInv, Extraction
  <2>2. candidate'.key = None /\ UNCHANGED <<rules, task, raced, torn>>
    BY <1>3 DEF Extract
  <2>3. Accounted'
    <3>1. \A q \in Policy : ~IsPromotion(q)
      BY <2>1 DEF IsPromotion, NoCandidate
    <3>2. \A w \in Worker : ~At(w, "promote", "created")
      BY <2>1, IdleIsIdle DEF At
    <3>3. QED  BY <2>2, <3>1, <3>2 DEF PromotionInv, Accounted, rules
  <2>4. FreshReview' /\ HasPolicy'
    BY <2>1, <2>2, IdleIsIdle DEF FreshReview, HasPolicy, Review, At
  <2>5. QED
    BY <2>2, <2>3, <2>4, RulesStand DEF PromotionInv, KeyStands
<1>4. CASE ExtractFails
  BY <1>1, <1>4 DEF ExtractFails
<1>5. ASSUME NEW w \in Worker, NEW t, Goes(w, t), UNCHANGED <<candidate, rules, raced, torn>>,
             task[w] = Idle \/ ~At(w, "promote", "created"), t.op \notin Review
      PROVE  PromotionInv'
  BY <1>5, IdleIsIdle, ReviewGoesOn DEF At
<1>6. ASSUME NEW w \in Worker, NEW op \in Operation, LoadCandidate(w, op) PROVE PromotionInv'
  <2> DEFINE t == [Idle EXCEPT !.op = op, !.step = "loaded",
                               !.content = IF op = "promote" THEN candidate.content ELSE None]
  <2>1. /\ t.op = op /\ t.step = "loaded" /\ t.row = "candidate"
        /\ op = "promote" => t.content = candidate.content
    BY DEF Idle
  <2>2. Goes(w, t) /\ UNCHANGED <<candidate, rules, raced, torn>>
    BY <1>6 DEF LoadCandidate, OnlyReads
  <2>3. ~At(w, "promote", "created") /\ candidate.status = "pending_review"
    BY <1>6, IdleIsIdle DEF LoadCandidate, UnderReview, At
  <2>4. QED  BY <2>1, <2>2, <2>3, ReviewGoesOn
<1>7. ASSUME NEW w \in Worker, NEW d \in Discovery, LoadDiscovery(w, d) PROVE PromotionInv'
  <2> DEFINE t == [Idle EXCEPT !.op = "identify", !.step = "loaded", !.row = d]
  <2>1. t.op \notin Review
    BY DEF Idle, Review
  <2>2. QED  BY <1>5, <1>7, <2>1 DEF LoadDiscovery, OnlyReads
<1>8. ASSUME NEW w \in Worker, EditCandidate(w) PROVE PromotionInv'
  <2>1. candidate'.key = candidate.key
    BY <1>8, IdleIsIdle DEF EditCandidate, At, TypeInv, TypeOK, Candidates, NoCandidate
  <2>2. /\ Commits(w, Idle) /\ UNCHANGED <<rules, torn>>
        /\ task[w].op \in Review /\ ~At(w, "promote", "created")
    BY <1>8 DEF EditCandidate, At, Review
  <2>3. QED  BY <2>1, <2>2, ReviewCommits DEF PromotionInv, KeyStands
<1>9. ASSUME NEW w \in Worker, DismissCandidate(w) PROVE PromotionInv'
  <2>1. candidate'.key = candidate.key
    BY <1>9, IdleIsIdle DEF DismissCandidate, At, TypeInv, TypeOK, Candidates, NoCandidate
  <2>2. /\ Commits(w, Idle) /\ UNCHANGED <<rules, torn>>
        /\ task[w].op \in Review /\ ~At(w, "promote", "created")
    BY <1>9 DEF DismissCandidate, At, Review
  <2>3. QED  BY <2>1, <2>2, ReviewCommits DEF PromotionInv, KeyStands
<1>10. ASSUME NEW w \in Worker, FindDelegator(w) PROVE PromotionInv'
  <2>1. /\ task[w].op = "promote" /\ task[w].step = "loaded" /\ task[w] \in Tasks
    BY <1>10, IdleIsIdle DEF FindDelegator, At, TypeInv, TypeOK
  <2>2. UNCHANGED <<candidate, rules, raced, torn>> /\ ~At(w, "promote", "created")
    BY <1>10 DEF FindDelegator, OnlyReads, At
  <2>3. CASE Goes(w, Idle)
    BY <1>5, <2>2, <2>3, IdleIsIdle DEF Review
  <2>4. ASSUME NEW p, Goes(w, [task[w] EXCEPT !.step = "read", !.person = p])
        PROVE  PromotionInv'
    <3> DEFINE t == [task[w] EXCEPT !.step = "read", !.person = p]
    <3>1. /\ t.op = "promote" /\ t.step = "read" /\ t.row = task[w].row
          /\ t.content = task[w].content /\ t.stale = task[w].stale
      BY <2>1 DEF Tasks
    <3>2. /\ t.step # "created" /\ t.row = "candidate"
          /\ ~t.stale => /\ candidate.status = "pending_review"
                         /\ t.op = "promote" => t.content = candidate.content
      BY <2>1, <3>1 DEF PromotionInv, FreshReview, Review
    <3> HIDE DEF t
    <3>3. Goes(w, t)
      BY <2>4 DEF t
    <3>4. QED  BY <2>2, <3>2, <3>3, ReviewGoesOn
  <2>5. QED  BY <1>10, <2>3, <2>4 DEF FindDelegator
<1>11. ASSUME NEW w \in Worker, CreatePolicy(w) PROVE PromotionInv'
  <2>1. /\ task[w].op = "promote" /\ task[w].step = "read" /\ task[w] \in Tasks
        /\ task[w].content \in Content /\ task[w].row = "candidate"
    BY <1>11, IdleIsIdle
       DEF CreatePolicy, At, TypeInv, TypeOK, Extraction, PromotionInv, FreshReview, Review
  <2>2. PICK q \in Policy, a \in Authority :
          /\ policy[q] = NoPolicy
          /\ authority[a] = None
          /\ authority' = [authority EXCEPT ![a] = task[w].person]
          /\ policy' = [policy EXCEPT ![q] =
               [content |-> task[w].content,
                authority |-> IF task[w].person = None THEN None ELSE a]]
          /\ Goes(w, [task[w] EXCEPT !.step = "created", !.policy = q])
    BY <1>11 DEF CreatePolicy
  <2> DEFINE t == [task[w] EXCEPT !.step = "created", !.policy = q]
  <2>3. /\ t.op = "promote" /\ t.step = "created" /\ t.row = task[w].row
        /\ t.content = task[w].content /\ t.stale = task[w].stale /\ t.policy = q
    BY <2>1 DEF Tasks
  <2>4. task'[w] = t /\ \A x \in Worker \ {w} : task'[x] = task[x]
    BY <2>2 DEF Goes, TypeInv, TypeOK
  <2>5. /\ policy'[q].content = task[w].content /\ policy'[q] # NoPolicy
        /\ \A r \in Policy \ {q} : policy'[r] = policy[r]
    BY <2>1, <2>2, BuilderAssumption DEF NoPolicy, TypeInv, TypeOK
  <2>6. UNCHANGED <<candidate, torn>> /\ (~task[w].stale => raced' = raced)
        /\ ("candidate" \in raced => "candidate" \in raced')
    BY <1>11 DEF CreatePolicy
  <2> HIDE DEF t
  <2>7. FreshReview'
    BY <2>1, <2>3, <2>4, <2>6 DEF PromotionInv, FreshReview, Review
  <2>8. HasPolicy'
    BY <2>2, <2>3, <2>4, <2>5 DEF PromotionInv, HasPolicy, At
  <2>9. KeyStands'
    <3>1. candidate.key # None => candidate.key \in Policy
      BY DEF TypeInv, TypeOK, Candidates, NoCandidate
    <3>2. QED  BY <2>2, <2>5, <2>6, <3>1 DEF PromotionInv, KeyStands
  <2>10. Accounted'
    <3> SUFFICES ASSUME "candidate" \notin raced', ~torn',
                        NEW r \in Policy, policy'[r] # NoPolicy, ~IsPromotion(r)'
                 PROVE  \E x \in Worker : At(x, "promote", "created")' /\ task'[x].policy = r
      BY DEF Accounted
    <3>1. CASE r = q
      BY <2>3, <2>4, <3>1 DEF At
    <3>2. CASE r # q
      <4>1. policy[r] # NoPolicy /\ ~IsPromotion(r)
        BY <2>5, <2>6, <3>2 DEF IsPromotion
      <4>2. PICK x \in Worker : At(x, "promote", "created") /\ task[x].policy = r
        BY <2>6, <4>1 DEF PromotionInv, Accounted
      <4>3. x # w
        BY <2>1, <4>2 DEF At
      <4>4. QED  BY <2>4, <4>2, <4>3 DEF At
    <3>3. QED  BY <3>1, <3>2
  <2>11. AuthorityWithPolicy'
    <3>1. task[w].person \in Person \cup {None}
      BY <2>1 DEF Tasks
    <3>2. QED  BY <2>1, <2>2, <3>1, PolicyWithAuthority DEF PromotionInv
  <2>12. QED  BY <2>7, <2>8, <2>9, <2>10, <2>11 DEF PromotionInv
<1>12. ASSUME NEW w \in Worker, CloseCandidate(w) PROVE PromotionInv'
  <2>1. /\ At(w, "promote", "created") /\ Commits(w, Idle) /\ UNCHANGED <<rules, torn>>
        /\ task[w].op \in Review
    BY <1>12 DEF CloseCandidate, At, Review
  <2>2. candidate \in Candidates
    BY <2>1, IdleIsIdle DEF At, TypeInv, TypeOK, Extraction
  <2>3. /\ candidate'.status = "promoted" /\ candidate'.key = task[w].policy
        /\ candidate'.content = candidate.content
    BY <1>12, <2>2 DEF CloseCandidate, Candidates
  <2>4. /\ task[w].policy \in Policy /\ policy[task[w].policy] # NoPolicy
        /\ policy[task[w].policy].content = task[w].content
    BY <2>1 DEF PromotionInv, HasPolicy
  <2>5. ~task[w].stale => task[w].content = candidate.content
    BY <2>1 DEF PromotionInv, FreshReview, Review, At
  <2>6. \A q \in Policy : ~task[w].stale /\ task[w].policy = q => IsPromotion(q)'
    BY <2>1, <2>3, <2>4, <2>5 DEF IsPromotion, rules
  <2>7. QED  BY <2>1, <2>3, <2>4, <2>6, ReviewCommits
<1>13. ASSUME NEW w \in Worker, Identify(w) PROVE PromotionInv'
  <2>1. task[w].op = "identify" /\ Commits(w, Idle) /\ UNCHANGED <<candidate, rules, torn>>
    BY <1>13 DEF Identify, At
  <2>2. \A x \in Worker : task'[x].op # "none" =>
          Alike(task'[x], task[x]) /\ (~task'[x].stale => ~task[x].stale)
    BY <2>1, OthersGoOn, IdleIsIdle DEF TypeInv
  <2>3. FreshReview'
    BY <2>1, <2>2 DEF PromotionInv, FreshReview, Alike, Review
  <2>4. HasPolicy'
    BY <2>1, <2>2 DEF PromotionInv, HasPolicy, At, Alike, rules
  <2>5. Accounted'
    <3> SUFFICES ASSUME "candidate" \notin raced', ~torn',
                        NEW q \in Policy, policy'[q] # NoPolicy, ~IsPromotion(q)'
                 PROVE  \E x \in Worker : At(x, "promote", "created")' /\ task'[x].policy = q
      BY DEF Accounted
    <3>1. /\ "candidate" \notin raced /\ ~torn
          /\ policy[q] # NoPolicy /\ ~IsPromotion(q)
      BY <2>1, OthersGoOn DEF IsPromotion, rules, TypeInv
    <3>2. PICK x \in Worker : At(x, "promote", "created") /\ task[x].policy = q
      BY <3>1 DEF PromotionInv, Accounted
    <3>3. Alike(task'[x], task[x])
      BY <2>1, <3>2, OthersGoOn DEF TypeInv, At
    <3>4. QED  BY <3>2, <3>3 DEF At, Alike
  <2>6. KeyStands'
    BY <2>1 DEF PromotionInv, KeyStands, rules
  <2>7. QED  BY <2>1, <2>3, <2>4, <2>5, <2>6, RulesStand DEF PromotionInv
<1>14. ASSUME NEW w \in Worker, LoadDelegation(w) PROVE PromotionInv'
  <2> DEFINE t == [Idle EXCEPT !.op = "activate", !.step = "loaded", !.row = "delegation"]
  <2>1. t.op \notin Review
    BY DEF Idle, Review
  <2>2. QED  BY <1>5, <1>14, <2>1 DEF LoadDelegation, OnlyReads
<1>15. ASSUME NEW w \in Worker, MatchFrom(w) PROVE PromotionInv'
  <2>1. PICK p : Goes(w, [Idle EXCEPT !.op = "derive", !.step = "half",
                                      !.row = "delegation", !.from = p])
    BY <1>15 DEF MatchFrom
  <2> DEFINE t == [Idle EXCEPT !.op = "derive", !.step = "half",
                               !.row = "delegation", !.from = p]
  <2>2. t.op \notin Review
    BY DEF Idle, Review
  <2>3. QED  BY <1>5, <1>15, <2>1, <2>2 DEF MatchFrom, OnlyReads
<1>16. ASSUME NEW w \in Worker, MatchTo(w) PROVE PromotionInv'
  <2>1. task[w] \in Tasks /\ task[w].op = "derive" /\ ~At(w, "promote", "created")
    BY <1>16, IdleIsIdle DEF MatchTo, At, TypeInv, TypeOK
  <2>2. PICK p : Goes(w, IF p = None /\ task[w].from = None THEN Idle
                         ELSE [task[w] EXCEPT !.step = "read", !.to = p])
    BY <1>16 DEF MatchTo
  <2>3. [task[w] EXCEPT !.step = "read", !.to = p].op = "derive"
    BY <2>1 DEF Tasks
  <2>4. QED
    BY <1>5, <1>16, <2>1, <2>2, <2>3, IdleIsIdle DEF MatchTo, OnlyReads, Review
<1>17. ASSUME NEW w \in Worker, SaveEnds(w) PROVE PromotionInv'
  BY <1>5, <1>17, IdleIsIdle DEF SaveEnds, At, Review
<1>18. ASSUME NEW w \in Worker, Activate(w) PROVE PromotionInv'
  BY <1>5, <1>18, IdleIsIdle DEF Activate, At, Review
<1>19. ASSUME NEW w \in Worker, Abort(w) PROVE PromotionInv'
  <2>1. /\ Goes(w, Idle) /\ UNCHANGED <<candidate, rules, raced>>
        /\ torn => torn'
        /\ At(w, "promote", "created") => torn'
    BY <1>19 DEF Abort
  <2>2. Idle.op \notin Review
    BY IdleIsIdle DEF Review
  <2>3. QED  BY <1>19, <2>1, <2>2, ReviewGoesOn DEF Abort
<1>20. CASE UNCHANGED vars
  BY <1>1, <1>20 DEF vars, rules
<1>21. QED
  BY <1>2, <1>3, <1>4, <1>6, <1>7, <1>8, <1>9, <1>10, <1>11, <1>12, <1>13, <1>14,
     <1>15, <1>16, <1>17, <1>18, <1>19, <1>20 DEF Next

(* However many reviews of a candidate are in progress at a time, and      *)
(* wherever they fail: a reviewed candidate becomes one policy that says   *)
(* what it says, unless reviews overtook each other or a promotion was cut *)
(* off between its two commits; and in any case each approved Authority is *)
(* cited by one policy, and the record of a promoted candidate names an    *)
(* existing one (edit_candidate, dismiss_candidate, promote_candidate).    *)
THEOREM PromotedOncePerReview == Spec => []PromotedOnce
<1>1. TypeInv /\ PromotionInv => PromotedOnce
  <2> SUFFICES ASSUME TypeInv, PromotionInv PROVE PromotedOnce
    OBVIOUS
  <2>1. ASSUME "candidate" \notin raced, ~torn, ~Creating, NEW q \in Policy
        PROVE  policy[q] # NoPolicy <=> /\ candidate.status = "promoted"
                                        /\ candidate.key = q
                                        /\ policy[q].content = candidate.content
    <3>1. policy[q] # NoPolicy => IsPromotion(q)
      BY <2>1 DEF PromotionInv, Accounted, Creating
    <3>2. IsPromotion(q) => policy[q] # NoPolicy
      BY BuilderAssumption DEF IsPromotion, PromotionInv, KeyStands
    <3>3. QED  BY <3>1, <3>2 DEF IsPromotion
  <2>2. QED  BY <2>1 DEF PromotedOnce, PromotionInv, KeyStands
<1>2. TypeInv /\ [Next]_vars => TypeInv'
  BY TypeInvStep
<1>3. TypeInv /\ PromotionInv /\ [Next]_vars => PromotionInv'
  BY PromotionInvStep
<1>4. QED
  BY TypeInvStart, PromotionInvStart, <1>1, <1>2, <1>3, PTL DEF Spec

-----------------------------------------------------------------------------
(* What delegations rest on *)

Ours(p) == person[p] \in {"home", "unassigned"}

(* p, if it is anybody, may stand for the name n.                          *)
Vouched(p, n) ==
  p # None => Ours(p) /\ ("people" \notin raced => Reviewed(p, n))

(* Whose Authority each policy cites may stand for who delegates it.       *)
Delegated(auths, pols) ==
  \A q \in Policy :
    pols[q].authority # None => Vouched(auths[pols[q].authority], Delegator[pols[q].content])

(* What a request t has found may stand for what it was looking for.       *)
Looked(t) ==
  /\ Vouched(t.from, From) /\ Vouched(t.to, To)
  /\ Vouched(t.person, Delegator[t.content])

(* Whoever a discovery, a delegation, an authority or a request points to  *)
(* may stand for the name in question.                                     *)
AllVouched ==
  /\ \A d \in Discovery : resolved[d] # None => Ours(resolved[d])
  /\ Vouched(delegation.from, From) /\ Vouched(delegation.to, To)
  /\ Delegated(authority, policy)
  /\ \A w \in Worker : Looked(task[w])

(* Unless it is overtaken, a reviewer resolves a discovery that is not     *)
(* resolved.                                                               *)
FreshIdentity ==
  \A w \in Worker : task[w].op = "identify" =>
    /\ task[w].row \in Discovery
    /\ ~task[w].stale => resolved[task[w].row] = None

(* Once its ends are known, they remain known.                             *)
EndsKnown ==
  /\ delegation.status = "active" => Activatable
  /\ \A w \in Worker : task[w].op = "activate" => Activatable

DelegationInv == AllVouched /\ FreshIdentity /\ EndsKnown

LEMMA DelegationInvStart == Init => DelegationInv
<1> SUFFICES ASSUME Init PROVE DelegationInv
  OBVIOUS
<1>1. \A n : Vouched(None, n)
  BY DEF Vouched
<1>2. AllVouched
  BY <1>1, IdleIsIdle DEF Init, AllVouched, Delegated, Looked, NoPolicy
<1>3. QED
  BY <1>2, IdleIsIdle DEF Init, DelegationInv, FreshIdentity, EndsKnown

(* Whoever a query by name yields may stand for that name.                 *)
LEMMA ResolutionVouched ==
  ASSUME TypeInv, AllVouched, NEW n, NEW p \in Resolution(n)
  PROVE  Vouched(p, n) /\ p \in Person \cup {None}
<1>1. CASE Resolutions(n) = {}
  BY <1>1 DEF Resolution, Vouched
<1>2. CASE Resolutions(n) # {}
  <2>1. PICK d \in Discovery : Called[d] = n /\ p = resolved[d] /\ p # None
    BY <1>2 DEF Resolution, Resolutions
  <2>2. Ours(p) /\ Reviewed(p, n) /\ p \in Person
    BY <2>1 DEF AllVouched, Reviewed, TypeInv, TypeOK
  <2>3. QED  BY <2>2 DEF Vouched
<1>3. QED  BY <1>1, <1>2

(* A principal who may be matched remains one, and what a reviewer has     *)
(* resolved remains so unless an overtaken one writes over it.             *)
LEMMA PeopleStand ==
  ASSUME TypeInv, FreshIdentity, [Next]_vars
  PROVE  /\ \A p \in Person : Ours(p) => Ours(p)'
         /\ raced \subseteq raced'
         /\ "people" \notin raced' =>
              \A d \in Discovery : resolved[d] # None => resolved'[d] = resolved[d]
<1>1. CASE \E w \in Worker : Identify(w)
  <2>1. PICK w \in Worker : Identify(w)
    BY <1>1
  <2>2. PICK p \in Person :
          /\ \/ Matchable(p) /\ UNCHANGED person
             \/ person[p] = "none" /\ person' = [person EXCEPT ![p] = "home"]
          /\ resolved' = [resolved EXCEPT ![task[w].row] = p]
    BY <2>1 DEF Identify
  <2>3. task[w].row \in Discovery /\ (~task[w].stale => resolved[task[w].row] = None)
    BY <2>1 DEF Identify, At, FreshIdentity
  <2>4. "people" \notin raced' => ~task[w].stale
    BY <2>1, <2>3 DEF Identify, Commits
  <2>5. \A q \in Person : Ours(q) => Ours(q)'
    BY <2>2 DEF Ours, TypeInv, TypeOK
  <2>6. raced \subseteq raced'
    BY <2>1, OthersGoOn DEF Identify, TypeInv
  <2>7. QED
    BY <2>2, <2>3, <2>4, <2>5, <2>6 DEF TypeInv, TypeOK
<1>2. CASE UNCHANGED people /\ raced \subseteq raced'
  BY <1>2 DEF people, Ours
<1>3. ASSUME NEW w \in Worker, Commits(w, Idle) PROVE raced \subseteq raced'
  BY <1>3, OthersGoOn DEF TypeInv
<1>4. CASE UNCHANGED vars
  BY <1>2, <1>4 DEF vars, people
<1>5. CASE Next
  <2>1. CASE (\E o \in {"upload", "corpus"} : Submit(o)) \/ Extract \/ ExtractFails
    BY <1>2, <2>1 DEF Submit, Extract, ExtractFails
  <2>2. ASSUME NEW w \in Worker, \/ \E op \in Operation : LoadCandidate(w, op)
                                 \/ \E d \in Discovery : LoadDiscovery(w, d)
                                 \/ FindDelegator(w) \/ LoadDelegation(w)
                                 \/ MatchFrom(w) \/ MatchTo(w)
        PROVE  UNCHANGED people /\ raced \subseteq raced'
    BY <2>2 DEF LoadCandidate, LoadDiscovery, FindDelegator, LoadDelegation, MatchFrom, MatchTo,
                OnlyReads
  <2>3. ASSUME NEW w \in Worker, \/ EditCandidate(w) \/ DismissCandidate(w) \/ CloseCandidate(w)
        PROVE  UNCHANGED people /\ raced \subseteq raced'
    BY <1>3, <2>3 DEF EditCandidate, DismissCandidate, CloseCandidate
  <2>4. ASSUME NEW w \in Worker, \/ CreatePolicy(w) \/ SaveEnds(w) \/ Activate(w) \/ Abort(w)
        PROVE  UNCHANGED people /\ raced \subseteq raced'
    BY <2>4 DEF CreatePolicy, SaveEnds, Activate, Abort
  <2>5. QED  BY <1>1, <1>2, <1>5, <2>1, <2>2, <2>3, <2>4 DEF Next
<1>6. QED  BY <1>4, <1>5

(* So whoever may stand for a name still may after a step.                 *)
LEMMA VouchedStands ==
  ASSUME TypeInv, FreshIdentity, [Next]_vars, NEW p \in Person \cup {None}, NEW n, Vouched(p, n)
  PROVE  Vouched(p, n)'
<1> SUFFICES ASSUME p # None PROVE Ours(p)' /\ ("people" \notin raced' => Reviewed(p, n)')
  BY DEF Vouched
<1>1. Ours(p)'
  BY PeopleStand DEF Vouched
<1>2. ASSUME "people" \notin raced' PROVE Reviewed(p, n)'
  <2>1. PICK d \in Discovery : Called[d] = n /\ resolved[d] = p
    BY <1>2, PeopleStand DEF Vouched, Reviewed
  <2>2. QED  BY <1>2, <2>1, PeopleStand DEF Reviewed
<1>3. QED  BY <1>1, <1>2

(* It is enough that what a step writes was fit to be written.             *)
LEMMA AllVouchedStands ==
  ASSUME TypeInv, TypeInv', FreshIdentity, [Next]_vars,
         \A d \in Discovery : resolved'[d] # None => Ours(resolved[d])',
         Vouched(delegation'.from, From), Vouched(delegation'.to, To),
         Delegated(authority', policy'),
         \A w \in Worker : Looked(task'[w])
  PROVE  AllVouched'
<1>1. \A n : \A p \in Person \cup {None} : Vouched(p, n) => Vouched(p, n)'
  BY VouchedStands
<1>2. /\ delegation'.from \in Person \cup {None} /\ delegation'.to \in Person \cup {None}
      /\ \A q \in Policy : policy'[q].authority # None =>
           authority'[policy'[q].authority] \in Person \cup {None}
      /\ \A w \in Worker : /\ task'[w].from \in Person \cup {None}
                           /\ task'[w].to \in Person \cup {None}
                           /\ task'[w].person \in Person \cup {None}
  BY IdleIsIdle DEF TypeInv, TypeOK, Delegations, Tasks, Policies, NoPolicy
<1>3. Vouched(delegation.from, From)' /\ Vouched(delegation.to, To)'
  BY <1>1, <1>2 DEF Vouched, Ours, Reviewed
<1>4. Delegated(authority, policy)'
  BY <1>1, <1>2 DEF Delegated, Vouched, Ours, Reviewed
<1>5. \A w \in Worker : Looked(task[w])'
  BY <1>1, <1>2 DEF Looked, Vouched, Ours, Reviewed
<1>6. QED  BY <1>3, <1>4, <1>5 DEF AllVouched

(* A request goes on with a task t; what it writes, and what it has then   *)
(* loaded, suits the names.                                                *)
LEMMA DelegationGoesOn ==
  ASSUME TypeInv, TypeInv', DelegationInv, [Next]_vars, NEW w \in Worker, NEW t, Goes(w, t),
         Looked(t),
         t.op = "identify" => t.row \in Discovery /\ (~t.stale => resolved[t.row] = None),
         t.op = "activate" => Activatable,
         UNCHANGED people,
         Vouched(delegation'.from, From), Vouched(delegation'.to, To),
         Activatable => Activatable',
         delegation'.status = "active" => Activatable',
         Delegated(authority', policy')
  PROVE  DelegationInv'
<1>1. /\ task'[w] = t
      /\ \A x \in Worker \ {w} : task'[x] = task[x]
  BY DEF Goes, TypeInv, TypeOK
<1>2. AllVouched'
  <2>1. \A x \in Worker : Looked(task'[x])
    BY <1>1 DEF DelegationInv, AllVouched
  <2>2. \A d \in Discovery : resolved'[d] # None => Ours(resolved[d])'
    BY DEF DelegationInv, AllVouched, Ours, people
  <2>3. QED  BY <2>1, <2>2, AllVouchedStands DEF DelegationInv
<1>3. FreshIdentity'
  BY <1>1 DEF DelegationInv, FreshIdentity, people
<1>4. EndsKnown'
  BY <1>1 DEF DelegationInv, EndsKnown
<1>5. QED  BY <1>2, <1>3, <1>4 DEF DelegationInv

(* The same for one that writes neither a delegation nor an Authority.     *)
LEMMA DelegationReads ==
  ASSUME TypeInv, TypeInv', DelegationInv, [Next]_vars, NEW w \in Worker, NEW t, Goes(w, t),
         Looked(t),
         t.op = "identify" => t.row \in Discovery /\ (~t.stale => resolved[t.row] = None),
         t.op = "activate" => Activatable,
         UNCHANGED <<people, delegation, authority, policy>>
  PROVE  DelegationInv'
<1>1. /\ Vouched(delegation'.from, From) /\ Vouched(delegation'.to, To)
      /\ Delegated(authority', policy')
  BY DEF DelegationInv, AllVouched
<1>2. /\ Activatable => Activatable'
      /\ delegation'.status = "active" => Activatable'
  BY DEF DelegationInv, EndsKnown, Activatable
<1>3. QED  BY <1>1, <1>2, DelegationGoesOn

(* A request commits and ends, and writes neither.                         *)
LEMMA DelegationCommits ==
  ASSUME TypeInv, TypeInv', DelegationInv, [Next]_vars, NEW w \in Worker, Commits(w, Idle),
         UNCHANGED <<delegation, authority, policy>>,
         \A d \in Discovery : resolved'[d] # None => Ours(resolved[d])',
         \A d \in Discovery : d # task[w].row => resolved'[d] = resolved[d]
  PROVE  DelegationInv'
<1>1. \A x \in Worker : task'[x] # Idle =>
        Alike(task'[x], task[x])
          /\ (~task'[x].stale => ~task[x].stale /\ task[x].row # task[w].row)
  BY OthersGoOn DEF TypeInv
<1>2. AllVouched'
  <2>1. ASSUME NEW x \in Worker
        PROVE  Looked(task'[x])
    <3>1. CASE task'[x] = Idle
      BY <3>1, IdleIsIdle DEF Vouched, Looked
    <3>2. CASE task'[x] # Idle
      BY <1>1, <3>2 DEF Alike, DelegationInv, AllVouched, Looked
    <3>3. QED  BY <3>1, <3>2
  <2>2. /\ Vouched(delegation'.from, From) /\ Vouched(delegation'.to, To)
        /\ Delegated(authority', policy')
    BY DEF DelegationInv, AllVouched
  <2>3. QED  BY <2>1, <2>2, AllVouchedStands DEF DelegationInv
<1>3. FreshIdentity'
  BY <1>1, IdleIsIdle DEF DelegationInv, FreshIdentity, Alike
<1>4. EndsKnown'
  BY <1>1, IdleIsIdle DEF DelegationInv, EndsKnown, Alike, Activatable
<1>5. QED  BY <1>2, <1>3, <1>4 DEF DelegationInv

(* The ends that resolve_relationship writes.                              *)
LEMMA SavedEnds ==
  ASSUME TypeInv, AllVouched, NEW w \in Worker, SaveEnds(w)
  PROVE  /\ task[w].from \in Person \cup {None} /\ task[w].to \in Person \cup {None}
         /\ delegation'.from = (IF task[w].from = None THEN delegation.from ELSE task[w].from)
         /\ delegation'.to = (IF task[w].to = None THEN delegation.to ELSE task[w].to)
         /\ delegation'.status = delegation.status
         /\ Vouched(delegation'.from, From) /\ Vouched(delegation'.to, To)
<1>1. task[w].from \in Person \cup {None} /\ task[w].to \in Person \cup {None}
  BY IdleIsIdle DEF TypeInv, TypeOK, Tasks
<1>2. /\ delegation'.from = (IF task[w].from = None THEN delegation.from ELSE task[w].from)
      /\ delegation'.to = (IF task[w].to = None THEN delegation.to ELSE task[w].to)
      /\ delegation'.status = delegation.status
  BY DEF SaveEnds, TypeInv, TypeOK, Delegations
<1>3. Vouched(delegation'.from, From) /\ Vouched(delegation'.to, To)
  BY <1>2 DEF AllVouched, Looked
<1>4. QED  BY <1>1, <1>2, <1>3

LEMMA DelegationInvStep ==
  ASSUME TypeInv, TypeInv', AuthorityWithPolicy, DelegationInv, [Next]_vars
  PROVE  DelegationInv'
<1> USE DEF documents, people, rules
<1>0. /\ \A n : Vouched(None, n)
      /\ Looked(Idle)
  BY IdleIsIdle DEF Vouched, Looked
<1>1. ASSUME UNCHANGED <<people, task, authority, policy, raced>>,
             delegation'.from = delegation.from, delegation'.to = delegation.to,
             delegation'.status = "active" => delegation.status = "active"
      PROVE  DelegationInv'
  BY <1>1 DEF DelegationInv, AllVouched, Delegated, Looked, FreshIdentity, EndsKnown,
              Activatable, Vouched, Ours, Reviewed
<1>2. CASE \E o \in {"upload", "corpus"} : Submit(o)
  BY <1>1, <1>2 DEF Submit
<1>3. CASE Extract
  <2>1. /\ delegation'.from = delegation.from /\ delegation'.to = delegation.to
        /\ delegation'.status = "active" => delegation.status = "active"
    BY <1>3 DEF Extract, TypeInv, TypeOK, Delegations
  <2>2. QED  BY <1>1, <1>3, <2>1 DEF Extract
<1>4. CASE ExtractFails
  BY <1>1, <1>4 DEF ExtractFails
<1>5. ASSUME NEW w \in Worker, NEW t, Goes(w, t),
             t.from = None, t.to = None, t.person = None,
             t.op \notin {"identify", "activate"},
             UNCHANGED <<people, delegation, authority, policy>>
      PROVE  DelegationInv'
  <2>1. Looked(t)
    BY <1>0, <1>5 DEF Looked
  <2>2. QED  BY <1>5, <2>1, DelegationReads
<1>6. ASSUME NEW w \in Worker, NEW op \in Operation, LoadCandidate(w, op) PROVE DelegationInv'
  <2> DEFINE t == [Idle EXCEPT !.op = op, !.step = "loaded",
                               !.content = IF op = "promote" THEN candidate.content ELSE None]
  <2>1. t.from = None /\ t.to = None /\ t.person = None /\ t.op \notin {"identify", "activate"}
    BY <1>6 DEF LoadCandidate, Idle
  <2>2. QED  BY <1>5, <1>6, <2>1 DEF LoadCandidate, OnlyReads
<1>7. ASSUME NEW w \in Worker, NEW d \in Discovery, LoadDiscovery(w, d) PROVE DelegationInv'
  <2> DEFINE t == [Idle EXCEPT !.op = "identify", !.step = "loaded", !.row = d]
  <2>1. /\ t.from = None /\ t.to = None /\ t.person = None
        /\ t.op = "identify" /\ t.row = d /\ resolved[d] = None
    BY <1>7 DEF LoadDiscovery, Idle
  <2>2. Goes(w, t) /\ UNCHANGED <<people, delegation, authority, policy>>
    BY <1>7 DEF LoadDiscovery, OnlyReads
  <2>3. Looked(t)
    BY <1>0, <2>1 DEF Looked
  <2> HIDE DEF t
  <2>4. QED  BY <2>1, <2>2, <2>3, DelegationReads
<1>8. ASSUME NEW w \in Worker, EditCandidate(w) \/ DismissCandidate(w) \/ CloseCandidate(w)
      PROVE  DelegationInv'
  <2>1. Commits(w, Idle) /\ UNCHANGED <<people, delegation, authority, policy>>
    BY <1>8 DEF EditCandidate, DismissCandidate, CloseCandidate
  <2>2. \A d \in Discovery : resolved'[d] # None => Ours(resolved[d])'
    BY <2>1 DEF DelegationInv, AllVouched, Ours
  <2>3. QED  BY <2>1, <2>2, DelegationCommits
<1>9. ASSUME NEW w \in Worker, FindDelegator(w) PROVE DelegationInv'
  <2>1. task[w] \in Tasks /\ task[w].op = "promote"
    BY <1>9, IdleIsIdle DEF FindDelegator, At, TypeInv, TypeOK
  <2>2. CASE Goes(w, Idle)
    BY <1>5, <1>9, <2>2, IdleIsIdle DEF FindDelegator, OnlyReads
  <2>3. ASSUME NEW p, Vouched(p, Delegator[task[w].content]),
               Goes(w, [task[w] EXCEPT !.step = "read", !.person = p])
        PROVE  DelegationInv'
    <3> DEFINE t == [task[w] EXCEPT !.step = "read", !.person = p]
    <3>1. /\ t.op = "promote" /\ t.person = p /\ t.content = task[w].content
          /\ t.from = task[w].from /\ t.to = task[w].to
      BY <2>1 DEF Tasks
    <3>2. Goes(w, t) /\ UNCHANGED <<people, delegation, authority, policy>>
      BY <1>9, <2>3 DEF FindDelegator, OnlyReads
    <3> HIDE DEF t
    <3>3. Looked(t)
      BY <2>3, <3>1 DEF DelegationInv, AllVouched, Looked
    <3>4. QED  BY <3>1, <3>2, <3>3, DelegationReads
  <2>4. \A n : \A p \in Resolution(n) : Vouched(p, n)
    BY ResolutionVouched DEF DelegationInv
  <2>5. QED  BY <1>0, <1>9, <2>2, <2>3, <2>4 DEF FindDelegator
<1>10. ASSUME NEW w \in Worker, CreatePolicy(w) PROVE DelegationInv'
  <2>1. task[w] \in Tasks /\ task[w].op = "promote"
    BY <1>10, IdleIsIdle DEF CreatePolicy, At, TypeInv, TypeOK
  <2>2. PICK q \in Policy, a \in Authority :
          /\ authority[a] = None
          /\ authority' = [authority EXCEPT ![a] = task[w].person]
          /\ policy' = [policy EXCEPT ![q] =
               [content |-> task[w].content,
                authority |-> IF task[w].person = None THEN None ELSE a]]
          /\ Goes(w, [task[w] EXCEPT !.step = "created", !.policy = q])
    BY <1>10 DEF CreatePolicy
  <2> DEFINE t == [task[w] EXCEPT !.step = "created", !.policy = q]
  <2>3. /\ t.op = "promote" /\ t.person = task[w].person /\ t.content = task[w].content
        /\ t.from = task[w].from /\ t.to = task[w].to
    BY <2>1 DEF Tasks
  <2>4. Goes(w, t) /\ UNCHANGED <<people, delegation>>
    BY <1>10, <2>2 DEF CreatePolicy
  <2> HIDE DEF t
  <2>5. Looked(t)
    BY <2>3 DEF DelegationInv, AllVouched, Looked
  <2>6. Delegated(authority', policy')
    <3> SUFFICES ASSUME NEW r \in Policy, policy'[r].authority # None
                 PROVE  Vouched(authority'[policy'[r].authority], Delegator[policy'[r].content])
      BY DEF Delegated
    <3>1. CASE r = q
      <4>1. policy'[r].authority = a /\ policy'[r].content = task[w].content
        BY <2>2, <3>1 DEF TypeInv, TypeOK
      <4>2. authority'[a] = task[w].person
        BY <2>2 DEF TypeInv, TypeOK
      <4>3. QED  BY <4>1, <4>2 DEF DelegationInv, AllVouched, Looked
    <3>2. CASE r # q
      <4>1. policy'[r] = policy[r] /\ policy[r].authority \in Authority
        BY <2>2, <3>2 DEF TypeInv, TypeOK, Policies, NoPolicy
      <4>2. policy[r].authority # a
        BY <2>2, <4>1 DEF AuthorityWithPolicy
      <4>3. authority'[policy[r].authority] = authority[policy[r].authority]
        BY <2>2, <4>1, <4>2 DEF TypeInv, TypeOK
      <4>4. QED  BY <4>1, <4>3 DEF DelegationInv, AllVouched, Delegated
    <3>3. QED  BY <3>1, <3>2
  <2>7. /\ Vouched(delegation'.from, From) /\ Vouched(delegation'.to, To)
        /\ Activatable => Activatable'
        /\ delegation'.status = "active" => Activatable'
    BY <2>4 DEF DelegationInv, AllVouched, EndsKnown, Activatable
  <2>8. QED  BY <2>3, <2>4, <2>5, <2>6, <2>7, DelegationGoesOn
<1>11. ASSUME NEW w \in Worker, Identify(w) PROVE DelegationInv'
  <2>1. PICK p \in Person :
          /\ \/ Matchable(p) /\ UNCHANGED person
             \/ person[p] = "none" /\ person' = [person EXCEPT ![p] = "home"]
          /\ resolved' = [resolved EXCEPT ![task[w].row] = p]
    BY <1>11 DEF Identify
  <2>2. \A d \in Discovery : d # task[w].row => resolved'[d] = resolved[d]
    BY <2>1 DEF TypeInv, TypeOK
  <2>3. person'[p] \in {"home", "unassigned"}
    BY <2>1 DEF Matchable, TypeInv, TypeOK
  <2>4. \A d \in Discovery : resolved'[d] # None => Ours(resolved[d])'
    <3>1. ASSUME NEW d \in Discovery, d # task[w].row, resolved'[d] # None
          PROVE  Ours(resolved[d])'
      BY <2>2, <3>1, PeopleStand DEF DelegationInv, AllVouched, Ours, TypeInv, TypeOK
    <3>2. task[w].row \in Discovery => resolved'[task[w].row] = p
      BY <2>1 DEF TypeInv, TypeOK
    <3>3. QED  BY <2>3, <3>1, <3>2 DEF Ours
  <2>5. Commits(w, Idle) /\ UNCHANGED <<delegation, authority, policy>>
    BY <1>11 DEF Identify
  <2>6. QED  BY <2>2, <2>4, <2>5, DelegationCommits
<1>12. ASSUME NEW w \in Worker, LoadDelegation(w) PROVE DelegationInv'
  <2> DEFINE t == [Idle EXCEPT !.op = "activate", !.step = "loaded", !.row = "delegation"]
  <2>1. t.from = None /\ t.to = None /\ t.person = None /\ t.op = "activate"
    BY DEF Idle
  <2>2. Goes(w, t) /\ Activatable /\ UNCHANGED <<people, delegation, authority, policy>>
    BY <1>12 DEF LoadDelegation, OnlyReads
  <2>3. Looked(t)
    BY <1>0, <2>1 DEF Looked
  <2> HIDE DEF t
  <2>4. QED  BY <2>1, <2>2, <2>3, DelegationReads
<1>13. ASSUME NEW w \in Worker, MatchFrom(w) PROVE DelegationInv'
  <2>1. PICK p \in Resolution(From) :
          Goes(w, [Idle EXCEPT !.op = "derive", !.step = "half",
                               !.row = "delegation", !.from = p])
    BY <1>13 DEF MatchFrom
  <2> DEFINE t == [Idle EXCEPT !.op = "derive", !.step = "half",
                               !.row = "delegation", !.from = p]
  <2>2. t.from = p /\ t.to = None /\ t.person = None /\ t.op = "derive"
    BY DEF Idle
  <2>3. Goes(w, t) /\ UNCHANGED <<people, delegation, authority, policy>>
    BY <1>13, <2>1 DEF MatchFrom, OnlyReads
  <2>4. Vouched(p, From)
    BY ResolutionVouched DEF DelegationInv
  <2> HIDE DEF t
  <2>5. Looked(t)
    BY <1>0, <2>2, <2>4 DEF Looked
  <2>6. QED  BY <2>2, <2>3, <2>5, DelegationReads
<1>14. ASSUME NEW w \in Worker, MatchTo(w) PROVE DelegationInv'
  <2>1. task[w] \in Tasks /\ task[w].op = "derive"
    BY <1>14, IdleIsIdle DEF MatchTo, At, TypeInv, TypeOK
  <2>2. PICK p \in Resolution(To) :
          Goes(w, IF p = None /\ task[w].from = None THEN Idle
                  ELSE [task[w] EXCEPT !.step = "read", !.to = p])
    BY <1>14 DEF MatchTo
  <2>3. UNCHANGED <<people, delegation, authority, policy>> /\ Vouched(p, To)
    BY <1>14, ResolutionVouched DEF MatchTo, OnlyReads, DelegationInv
  <2>4. CASE Goes(w, Idle)
    BY <1>5, <2>3, <2>4, IdleIsIdle
  <2> DEFINE t == [task[w] EXCEPT !.step = "read", !.to = p]
  <2>5. CASE Goes(w, t)
    <3>1. /\ t.op = "derive" /\ t.to = p /\ t.from = task[w].from
          /\ t.person = task[w].person /\ t.content = task[w].content
      BY <2>1 DEF Tasks
    <3> HIDE DEF t
    <3>2. Looked(t)
      BY <2>3, <3>1 DEF DelegationInv, AllVouched, Looked
    <3>3. QED  BY <2>3, <2>5, <3>1, <3>2, DelegationReads
  <2>6. QED  BY <2>2, <2>4, <2>5
<1>15. ASSUME NEW w \in Worker, SaveEnds(w) PROVE DelegationInv'
  <2>1. Goes(w, Idle) /\ UNCHANGED <<people, authority, policy>>
    BY <1>15 DEF SaveEnds
  <2>2. /\ Vouched(delegation'.from, From) /\ Vouched(delegation'.to, To)
        /\ Activatable => Activatable'
        /\ delegation'.status = "active" => Activatable'
    BY <1>15, SavedEnds DEF DelegationInv, EndsKnown, Activatable
  <2>3. Delegated(authority', policy')
    BY <2>1 DEF DelegationInv, AllVouched
  <2>4. QED  BY <1>0, <2>1, <2>2, <2>3, IdleIsIdle, DelegationGoesOn
<1>16. ASSUME NEW w \in Worker, Activate(w) PROVE DelegationInv'
  <2>1. Goes(w, Idle) /\ UNCHANGED <<people, authority, policy>> /\ Activatable
    BY <1>16 DEF Activate, At, DelegationInv, EndsKnown
  <2>2. delegation'.from = delegation.from /\ delegation'.to = delegation.to
    BY <1>16 DEF Activate, TypeInv, TypeOK, Delegations
  <2>3. /\ Vouched(delegation'.from, From) /\ Vouched(delegation'.to, To) /\ Activatable'
        /\ Delegated(authority', policy')
    BY <2>1, <2>2 DEF DelegationInv, AllVouched, Activatable
  <2>4. QED  BY <1>0, <2>1, <2>3, IdleIsIdle, DelegationGoesOn
<1>17. ASSUME NEW w \in Worker, Abort(w) PROVE DelegationInv'
  BY <1>5, <1>17, IdleIsIdle DEF Abort
<1>18. CASE UNCHANGED vars
  BY <1>1, <1>18 DEF vars
<1>19. QED
  BY <1>2, <1>3, <1>4, <1>6, <1>7, <1>8, <1>9, <1>10, <1>11, <1>12, <1>13, <1>14,
     <1>15, <1>16, <1>17, <1>18 DEF Next

(* Whatever overlaps: an active delegation has two known ends, and every   *)
(* principal that a discovery, a delegation or an Authority points to is   *)
(* of the organization and was resolved by a reviewer for the name in      *)
(* question, unless two reviewers resolved one discovery                   *)
(* (resolve_principal, resolve_relationship, activate_relationship).       *)
THEOREM DelegationsAreReviewed == Spec => []DelegationIsReviewed
<1>1. TypeInv /\ PromotionInv /\ DelegationInv => DelegationIsReviewed
  <2> SUFFICES ASSUME TypeInv, PromotionInv, DelegationInv PROVE DelegationIsReviewed
    OBVIOUS
  <2>1. ASSUME NEW a \in Authority, authority[a] # None PROVE Ours(authority[a])
    <3>1. PICK q \in Policy : policy[q].authority = a
      BY <2>1 DEF PromotionInv, AuthorityWithPolicy
    <3>2. QED
      BY <2>1, <3>1, BuilderAssumption DEF DelegationInv, AllVouched, Delegated, Vouched
  <2>2. \A q \in Policy : policy[q].authority # None => authority[policy[q].authority] # None
    BY DEF PromotionInv, AuthorityWithPolicy
  <2>3. QED
    BY <2>1, <2>2 DEF DelegationInv, AllVouched, EndsKnown, Activatable, Delegated, Vouched, Ours,
                      DelegationIsReviewed
<1>2. TypeInv /\ [Next]_vars => TypeInv'
  BY TypeInvStep
<1>3. TypeInv /\ PromotionInv /\ [Next]_vars => PromotionInv'
  BY PromotionInvStep
<1>4. TypeInv /\ TypeInv' /\ PromotionInv /\ DelegationInv /\ [Next]_vars => DelegationInv'
  BY DelegationInvStep DEF PromotionInv
<1>5. QED
  BY TypeInvStart, PromotionInvStart, DelegationInvStart, <1>1, <1>2, <1>3, <1>4, PTL DEF Spec

(* Two people whom a name was resolved to make two rows that match it.     *)
LEMMA TwoResolutions ==
  ASSUME TypeInv, NEW n, NEW p, NEW q, p # None, q # None, p # q, Reviewed(p, n), Reviewed(q, n)
  PROVE  Cardinality(Resolutions(n)) > 1
<1> DEFINE Rows == { d \in Discovery : Called[d] = n /\ resolved[d] # None }
           f == [d \in Rows |-> resolved[d]]
<1>1. IsFiniteSet(Rows)
  BY BuilderAssumption, FS_Subset
<1>2. f \in Surjection(Rows, Resolutions(n))
  BY DEF Surjection, Resolutions
<1>3. IsFiniteSet(Resolutions(n))
  BY <1>1, <1>2, FS_Surjection
<1>4. {p, q} \subseteq Resolutions(n)
  BY DEF Reviewed, Resolutions
<1>5. Cardinality({p, q}) = 2
  <2>1. IsFiniteSet({p}) /\ Cardinality({p}) = 1
    BY FS_Singleton
  <2>2. {p, q} = {p} \cup {q}
    OBVIOUS
  <2>3. QED  BY <2>1, <2>2, FS_AddElement
<1>6. Cardinality({p, q}) <= Cardinality(Resolutions(n)) /\ Cardinality(Resolutions(n)) \in Nat
  BY <1>3, <1>4, FS_Subset, FS_CardinalityType
<1>7. QED  BY <1>5, <1>6

(* An end of an active delegation changes only if its name stands for two  *)
(* people (resolve_relationship writes what it finds over what it found    *)
(* before), unless two reviewers resolved one discovery.                   *)
THEOREM ActiveEndsStandUnlessTwo == Spec => ActiveEndsStand
<1> DEFINE Stands ==
      delegation.status = "active" /\ "people" \notin raced' =>
        /\ delegation'.from # delegation.from => Cardinality(Resolutions(From)) > 1
        /\ delegation'.to # delegation.to => Cardinality(Resolutions(To)) > 1
<1>1. ASSUME TypeInv, DelegationInv, [Next]_vars PROVE [Stands]_vars
  <2>1. CASE delegation'.from = delegation.from /\ delegation'.to = delegation.to
    BY <2>1
  <2>2. ASSUME NEW w \in Worker, SaveEnds(w) PROVE Stands
    <3> SUFFICES ASSUME delegation.status = "active", "people" \notin raced' PROVE Stands
      OBVIOUS
    <3>1. delegation.from # None /\ delegation.to # None /\ "people" \notin raced
      BY <1>1, <2>2 DEF SaveEnds, DelegationInv, EndsKnown, Activatable
    <3>2. /\ Vouched(delegation.from, From) /\ Vouched(delegation.to, To)
          /\ Vouched(delegation'.from, From) /\ Vouched(delegation'.to, To)
          /\ delegation'.from # None /\ delegation'.to # None
      BY <1>1, <2>2, <3>1, SavedEnds DEF DelegationInv, AllVouched
    <3>3. /\ Reviewed(delegation.from, From) /\ Reviewed(delegation'.from, From)
          /\ Reviewed(delegation.to, To) /\ Reviewed(delegation'.to, To)
      BY <3>1, <3>2 DEF Vouched
    <3>4. QED  BY <1>1, <3>1, <3>2, <3>3, TwoResolutions
  <2>3. CASE Extract
    BY <1>1, <2>1, <2>3 DEF Extract, TypeInv, TypeOK, Delegations
  <2>4. ASSUME NEW w \in Worker, Activate(w)
        PROVE  delegation'.from = delegation.from /\ delegation'.to = delegation.to
    BY <1>1, <2>4 DEF Activate, TypeInv, TypeOK, Delegations
  <2>5. CASE UNCHANGED delegation
    BY <2>1, <2>5
  <2>6. CASE (\E o \in {"upload", "corpus"} : Submit(o)) \/ ExtractFails
    BY <2>5, <2>6 DEF Submit, ExtractFails
  <2>7. ASSUME NEW w \in Worker, \/ \E op \in Operation : LoadCandidate(w, op)
                                 \/ \E d \in Discovery : LoadDiscovery(w, d)
                                 \/ FindDelegator(w) \/ LoadDelegation(w)
                                 \/ MatchFrom(w) \/ MatchTo(w)
        PROVE  UNCHANGED delegation
    BY <2>7 DEF LoadCandidate, LoadDiscovery, FindDelegator, LoadDelegation, MatchFrom, MatchTo,
                OnlyReads
  <2>8. ASSUME NEW w \in Worker, \/ EditCandidate(w) \/ DismissCandidate(w) \/ CloseCandidate(w)
                                 \/ CreatePolicy(w) \/ Identify(w) \/ Abort(w)
        PROVE  UNCHANGED delegation
    BY <2>8 DEF EditCandidate, DismissCandidate, CloseCandidate, CreatePolicy, Identify, Abort
  <2>9. CASE UNCHANGED vars
    BY <2>9
  <2> HIDE DEF Stands
  <2>10. QED
    BY <1>1, <2>1, <2>2, <2>3, <2>4, <2>5, <2>6, <2>7, <2>8, <2>9 DEF Next
<1>2. TypeInv /\ [Next]_vars => TypeInv'
  BY TypeInvStep
<1>3. TypeInv /\ PromotionInv /\ [Next]_vars => PromotionInv'
  BY PromotionInvStep
<1>4. TypeInv /\ TypeInv' /\ PromotionInv /\ DelegationInv /\ [Next]_vars => DelegationInv'
  BY DelegationInvStep DEF PromotionInv
<1>5. QED
  BY TypeInvStart, PromotionInvStart, DelegationInvStart, <1>1, <1>2, <1>3, <1>4, PTL DEF Spec, ActiveEndsStand
=============================================================================
