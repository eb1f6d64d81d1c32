--------------------------- MODULE AuthorityBuilder ---------------------------
(***************************************************************************)
(* From a document to reviewed authority: the AI Policy Builder and the AI *)
(* Authority Builder (server/app/services/ai_policy_builder_service.py and *)
(* ai_authority_builder_service.py).                                       *)
(*                                                                         *)
(* A document yields a candidate policy; a corpus of documents also the    *)
(* people it names and a delegation between two of them.  Reviewers edit,  *)
(* dismiss or promote the candidate, resolve the people to principals and  *)
(* the delegation to their rows, and activate it.  A promoted policy cites *)
(* an Authority of the principal who delegates it.                         *)
(*                                                                         *)
(* An operation loads a row, checks it, and writes later by primary key;   *)
(* other operations commit in between.                                     *)
(***************************************************************************)
EXTENDS Naturals, FiniteSets

CONSTANTS
  Discovery,  \* authority_principals: the people the corpus names
  Name,       \* names as lower() leaves them
  Called,     \* each discovery's name
  From, To,   \* the names at the two ends of the delegation
  Person,     \* principals there are or may come to be
  Known,      \* where they belong at first: "home", "foreign", no organization, not there
  Content,    \* what the candidate may say
  Valid,      \* the contents validators.validate accepts
  Delegator,  \* delegated_by of each content, or the principal of its scope
  Policy,     \* policies there may come to be, a bound on promotions
  Authority,  \* authorities likewise
  Worker,     \* threads serving requests
  None        \* a null column

Organization == {"home", "foreign", "unassigned", "none"}

ASSUME BuilderAssumption ==
  /\ Called \in [Discovery -> Name]
  /\ {From, To} \subseteq Name
  /\ Known \in [Person -> Organization]
  /\ Valid \subseteq Content
  /\ Delegator \in [Content -> Name]
  /\ IsFiniteSet(Discovery)
  /\ {"candidate", "delegation"} \cap Discovery = {}
  /\ None \notin Discovery \cup Person \cup Content \cup Policy \cup Authority

VARIABLES
  intake,      \* status of the upload or corpus
  origin,      \* "upload": a single document; "corpus"; "none": no document yet
  candidate,   \* the extracted policy: status, content, promoted_policy_key
  resolved,    \* resolved_principal_id of each discovery
  person,      \* the organization of each principal
  delegation,  \* the relationship: its two ends, and its status
  authority,   \* principal_id of each Authority, all approved; None: no such row
  policy,      \* what version 1 of each policy says, and the Authority it cites
  task,        \* what each worker has loaded
  raced,       \* history: "candidate", "people": written over by what had not seen it
  torn         \* history: a promotion ended between its two commits

vars == <<intake, origin, candidate, resolved, person, delegation, authority, policy,
          task, raced, torn>>

documents == <<intake, origin>>
people == <<resolved, person>>
rules == <<authority, policy>>

-----------------------------------------------------------------------------
(* State *)

Row == {"candidate", "delegation"} \cup Discovery

Candidates ==
  [status : {"pending_review", "promoted", "dismissed"}, content : Content,
   key : Policy \cup {None}]

NoCandidate == [status |-> "none", content |-> None, key |-> None]

Delegations ==
  [from : Person \cup {None}, to : Person \cup {None}, status : {"none", "proposed", "active"}]

Policies == [content : Content, authority : Authority \cup {None}]

NoPolicy == [content |-> None, authority |-> None]

(* A request: the row it loaded, and what it read.                         *)
Idle == [op |-> "none", step |-> "idle", row |-> "candidate", content |-> None,
         person |-> None, policy |-> None,
         from |-> None, to |-> None, stale |-> FALSE]

Operation == {"edit", "dismiss", "promote", "identify", "derive", "activate"}

Tasks ==
  [op : Operation, step : {"loaded", "half", "read", "created"}, row : Row,
   content : Content \cup {None}, person : Person \cup {None}, policy : Policy \cup {None},
   from : Person \cup {None}, to : Person \cup {None}, stale : BOOLEAN]

Init ==
  /\ intake = "none"
  /\ origin = "none"
  /\ candidate = NoCandidate
  /\ resolved = [d \in Discovery |-> None]
  /\ person = Known
  /\ delegation = [from |-> None, to |-> None, status |-> "none"]
  /\ authority = [a \in Authority |-> None]
  /\ policy = [q \in Policy |-> NoPolicy]
  /\ task = [w \in Worker |-> Idle]
  /\ raced = {}
  /\ torn = FALSE

(* A request is of operation op and has come to that step.                 *)
At(w, op, step) == task[w].op = op /\ task[w].step = step

Goes(w, t) == task' = [task EXCEPT ![w] = t]

(* The request of w goes on with t, having committed a change of its row:  *)
(* others in progress on that row have now loaded something else than what *)
(* is there.                                                               *)
Commits(w, t) ==
  /\ task' = [x \in Worker |->
                IF x = w THEN t
                ELSE IF task[x] # Idle /\ task[x].row = task[w].row
                  THEN [task[x] EXCEPT !.stale = TRUE]
                ELSE task[x]]
  /\ raced' = IF ~task[w].stale THEN raced
              ELSE raced \cup {IF task[w].row \in Discovery THEN "people" ELSE "candidate"}

(* A request reads, and commits nothing.                                   *)
OnlyReads ==
  UNCHANGED <<documents, candidate, people, delegation, rules, raced, torn>>

-----------------------------------------------------------------------------
(* Documents *)

(* create_upload, or create_corpus and add_document, with a commit each.   *)
(* A file of an unsupported format ends the request after them; so does a  *)
(* crash; nothing extracts a document again.                               *)
Submit(o) ==
  /\ intake = "none"
  /\ intake' = "uploaded"
  /\ origin' = o
  /\ UNCHANGED <<candidate, people, delegation, rules, task, raced, torn>>

(* run_extraction: everything found appears in one commit.                 *)
Extract ==
  /\ intake = "uploaded"
  /\ intake' = "extracted"
  /\ candidate' \in [status : {"pending_review"}, content : Content, key : {None}]
  /\ delegation' = IF origin = "corpus" THEN [delegation EXCEPT !.status = "proposed"]
                   ELSE delegation
  /\ UNCHANGED <<origin, people, rules, task, raced, torn>>

(* The provider or the text extraction raises.                             *)
ExtractFails ==
  /\ intake = "uploaded"
  /\ intake' = "failed"
  /\ UNCHANGED <<origin, candidate, people, delegation, rules, task, raced, torn>>

-----------------------------------------------------------------------------
(* Reviewing the candidate *)

(* Only the existence of the candidate is checked.                         *)
AnyCandidate == candidate.status # "none"

(* CandidateNotPendingReviewError otherwise.                               *)
UnderReview == candidate.status = "pending_review"

LoadCandidate(w, op) ==
  /\ task[w] = Idle
  /\ op \in {"edit", "dismiss", "promote"}
  /\ UnderReview
  /\ Goes(w, [Idle EXCEPT !.op = op, !.step = "loaded",
                          !.content = IF op = "promote" THEN candidate.content ELSE None])
  /\ OnlyReads

(* edit_candidate writes the content and commits.                          *)
EditCandidate(w) ==
  /\ At(w, "edit", "loaded")
  /\ \E c \in Content : candidate' = [candidate EXCEPT !.content = c]
  /\ Commits(w, Idle)
  /\ UNCHANGED <<documents, people, delegation, rules, torn>>

(* The operation's name stored as the status.                              *)
DismissCandidateRaw(w) ==
  /\ At(w, "dismiss", "loaded")
  /\ candidate' = [candidate EXCEPT !.status = "dismiss"]
  /\ Commits(w, Idle)
  /\ UNCHANGED <<documents, people, delegation, rules, torn>>

(* dismiss_candidate writes the status and commits.                        *)
DismissCandidate(w) ==
  /\ At(w, "dismiss", "loaded")
  /\ candidate' = [candidate EXCEPT !.status = "dismissed"]
  /\ Commits(w, Idle)
  /\ UNCHANGED <<documents, people, delegation, rules, torn>>

(* Principals that discoveries of that name are resolved to; the query     *)
(* takes any one of them.                                                  *)
Resolutions(n) == { resolved[d] : d \in { e \in Discovery : Called[e] = n } } \ {None}

(* One of them, or None.                                                   *)
Resolution(n) == IF Resolutions(n) = {} THEN {None} ELSE Resolutions(n)

(* The Authority committed on its own, before the policy is validated.     *)
FindDelegatorCommitting(w) ==
  /\ At(w, "promote", "loaded")
  /\ \E p \in (IF origin = "corpus" THEN Resolution(Delegator[task[w].content])
              ELSE {None}) :
       /\ IF p = None THEN UNCHANGED authority
          ELSE \E a \in Authority : authority[a] = None /\ authority' = [authority EXCEPT ![a] = p]
       /\ Goes(w, IF task[w].content \in Valid
                    THEN [task[w] EXCEPT !.step = "read", !.person = p] ELSE Idle)
  /\ UNCHANGED <<documents, candidate, people, delegation, policy, raced, torn>>

(* Who delegates the candidate as it is now, not as it was loaded.         *)
FindDelegatorNow(w) ==
  /\ At(w, "promote", "loaded")
  /\ IF task[w].content \in Valid
       THEN \E p \in (IF origin = "corpus" THEN Resolution(Delegator[candidate.content])
                      ELSE {None}) :
              Goes(w, [task[w] EXCEPT !.step = "read", !.person = p])
       ELSE Goes(w, Idle)
  /\ OnlyReads

(* promote_candidate looks up who delegates, and adds an Authority of      *)
(* theirs (flushed, not committed).  A candidate that does not validate    *)
(* is refused: the session closes and rolls the Authority back.            *)
FindDelegator(w) ==
  /\ At(w, "promote", "loaded")
  /\ IF task[w].content \in Valid
       THEN \E p \in (IF origin = "corpus" THEN Resolution(Delegator[task[w].content])
                      ELSE {None}) :
              Goes(w, [task[w] EXCEPT !.step = "read", !.person = p])
       ELSE Goes(w, Idle)
  /\ OnlyReads

(* create_policy commits the draft, and the Authority with it.             *)
CreatePolicy(w) ==
  /\ At(w, "promote", "read")
  /\ \E q \in Policy, a \in Authority :
       /\ policy[q] = NoPolicy
       /\ authority[a] = None
       /\ authority' = [authority EXCEPT ![a] = task[w].person]
       /\ policy' = [policy EXCEPT ![q] =
            [content |-> task[w].content,
             authority |-> IF task[w].person = None THEN None ELSE a]]
       /\ Goes(w, [task[w] EXCEPT !.step = "created", !.policy = q])
  /\ raced' = IF task[w].stale THEN raced \cup {"candidate"} ELSE raced
  /\ UNCHANGED <<documents, candidate, people, delegation, torn>>

(* A second commit closes the candidate.                                   *)
CloseCandidate(w) ==
  /\ At(w, "promote", "created")
  /\ candidate' = [candidate EXCEPT !.status = "promoted", !.key = task[w].policy]
  /\ Commits(w, Idle)
  /\ UNCHANGED <<documents, people, delegation, rules, torn>>

-----------------------------------------------------------------------------
(* Resolving people and the delegation between them *)

InCorpus == origin = "corpus" /\ intake = "extracted"

(* resolve_principal: AlreadyResolvedError for a discovery that is.        *)
LoadDiscovery(w, d) ==
  /\ task[w] = Idle
  /\ InCorpus
  /\ resolved[d] = None
  /\ Goes(w, [Idle EXCEPT !.op = "identify", !.step = "loaded", !.row = d])
  /\ OnlyReads

(* Every principal there is.                                               *)
MatchableAny(p) == person[p] # "none"

(* CrossOrganizationMatchError otherwise.                                  *)
Matchable(p) == person[p] \in {"home", "unassigned"}

(* The reviewer names a principal, or has one made of the discovery.       *)
Identify(w) ==
  /\ At(w, "identify", "loaded")
  /\ \E p \in Person :
       /\ \/ Matchable(p) /\ UNCHANGED person
          \/ person[p] = "none" /\ person' = [person EXCEPT ![p] = "home"]
       /\ resolved' = [resolved EXCEPT ![task[w].row] = p]
  /\ Commits(w, Idle)
  /\ UNCHANGED <<documents, candidate, delegation, rules, torn>>

(* RelationshipNotResolvedError otherwise.                                 *)
Activatable == delegation.from # None /\ delegation.to # None

LoadDelegation(w) ==
  /\ task[w] = Idle
  /\ InCorpus
  /\ Activatable
  /\ Goes(w, [Idle EXCEPT !.op = "activate", !.step = "loaded", !.row = "delegation"])
  /\ OnlyReads

(* resolve_relationship takes nothing from the row but the names; it asks  *)
(* for one end, then for the other, and fails if it finds neither.         *)
MatchFrom(w) ==
  /\ task[w] = Idle
  /\ InCorpus
  /\ \E p \in Resolution(From) :
       Goes(w, [Idle EXCEPT !.op = "derive", !.step = "half", !.row = "delegation", !.from = p])
  /\ OnlyReads

MatchTo(w) ==
  /\ At(w, "derive", "half")
  /\ \E p \in Resolution(To) :
       Goes(w, IF p = None /\ task[w].from = None THEN Idle
               ELSE [task[w] EXCEPT !.step = "read", !.to = p])
  /\ OnlyReads

(* Both ends as found, an end that was not found as unknown.               *)
SaveEndsAsFound(w) ==
  /\ At(w, "derive", "read")
  /\ delegation' = [delegation EXCEPT !.from = task[w].from, !.to = task[w].to]
  /\ Goes(w, Idle)
  /\ UNCHANGED <<documents, candidate, people, rules, raced, torn>>

(* It fills in what it has found, also where an end was filled before and  *)
(* the relationship is active.                                             *)
SaveEnds(w) ==
  LET Filled(found, end) == IF found = None THEN end ELSE found
  IN  /\ At(w, "derive", "read")
      /\ delegation' = [delegation EXCEPT !.from = Filled(task[w].from, @),
                                          !.to = Filled(task[w].to, @)]
      /\ Goes(w, Idle)
      /\ UNCHANGED <<documents, candidate, people, rules, raced, torn>>

(* activate_relationship writes the status only.                           *)
Activate(w) ==
  /\ At(w, "activate", "loaded")
  /\ delegation' = [delegation EXCEPT !.status = "active"]
  /\ Goes(w, Idle)
  /\ UNCHANGED <<documents, candidate, people, rules, raced, torn>>

(* The request fails, or the process does: what is not committed is gone.  *)
Abort(w) ==
  /\ task[w] # Idle
  /\ torn' = (torn \/ At(w, "promote", "created"))
  /\ Goes(w, Idle)
  /\ UNCHANGED <<documents, candidate, people, delegation, rules, raced>>

Next ==
  \/ \E o \in {"upload", "corpus"} : Submit(o)
  \/ Extract \/ ExtractFails
  \/ \E w \in Worker :
       \/ \E op \in Operation : LoadCandidate(w, op)
       \/ \E d \in Discovery : LoadDiscovery(w, d)
       \/ EditCandidate(w) \/ DismissCandidate(w)
       \/ FindDelegator(w) \/ CreatePolicy(w) \/ CloseCandidate(w)
       \/ Identify(w) \/ LoadDelegation(w) \/ MatchFrom(w) \/ MatchTo(w) \/ SaveEnds(w) \/ Activate(w)
       \/ Abort(w)

Spec == Init /\ [][Next]_vars

-----------------------------------------------------------------------------
(* Properties *)

(* Type correctness.                                                       *)
TypeOK ==
  /\ intake \in {"none", "uploaded", "failed", "extracted"}
  /\ origin \in {"none", "upload", "corpus"}
  /\ candidate \in Candidates \cup {NoCandidate}
  /\ resolved \in [Discovery -> Person \cup {None}]
  /\ person \in [Person -> Organization]
  /\ delegation \in Delegations
  /\ authority \in [Authority -> Person \cup {None}]
  /\ policy \in [Policy -> Policies \cup {NoPolicy}]
  /\ task \in [Worker -> Tasks \cup {Idle}]
  /\ raced \subseteq {"candidate", "people"}
  /\ torn \in BOOLEAN

(* However promotions fail, overlap or are cut off, an approved Authority  *)
(* is cited by exactly one policy, and a policy cites an Authority that is *)
(* there (promote_candidate flushes it, create_policy commits both).       *)
AuthorityWithPolicy ==
  /\ \A a \in Authority : authority[a] # None => \E q \in Policy : policy[q].authority = a
  /\ \A q, r \in Policy :
       policy[q].authority # None =>
         /\ authority[policy[q].authority] # None
         /\ policy[q].authority = policy[r].authority => q = r

Creating == \E w \in Worker : At(w, "promote", "created")

(* A reviewed candidate becomes one policy that says what the candidate    *)
(* says, and a dismissed one none, unless reviews overlapped or a          *)
(* promotion was cut off between its two commits, which leaves the         *)
(* candidate open for a second policy.  In any case the record of a        *)
(* promoted candidate names an existing policy, and every approved         *)
(* Authority has the one policy that cites it.                             *)
PromotedOnce ==
  /\ AuthorityWithPolicy
  /\ candidate.key # None => policy[candidate.key] # NoPolicy
  /\ "candidate" \notin raced /\ ~torn /\ ~Creating =>
       \A q \in Policy :
         policy[q] # NoPolicy <=> /\ candidate.status = "promoted"
                                 /\ candidate.key = q
                                 /\ policy[q].content = candidate.content

(* Reviewed(p, n): a reviewer has resolved somebody of name n to p.        *)
Reviewed(p, n) == \E d \in Discovery : Called[d] = n /\ resolved[d] = p

(* What a decision may rest on: an active delegation has two known ends,   *)
(* and none of the principals that discoveries, delegations and            *)
(* authorities point to is of another organization; each was reviewed for  *)
(* the name it stands for, unless two reviewers resolved one discovery.    *)
DelegationIsReviewed ==
  /\ delegation.status = "active" => delegation.from # None /\ delegation.to # None
  /\ \A p \in { resolved[d] : d \in Discovery } \cup {delegation.from, delegation.to}
             \cup { authority[a] : a \in Authority } :
       p # None => person[p] \in {"home", "unassigned"}
  /\ "people" \notin raced =>
       /\ delegation.from # None => Reviewed(delegation.from, From)
       /\ delegation.to # None => Reviewed(delegation.to, To)
       /\ \A q \in Policy :
            policy[q].authority # None =>
              Reviewed(authority[policy[q].authority], Delegator[policy[q].content])

(* The ends of an active delegation stand, unless a name stands for two    *)
(* people: resolve_relationship, run again, may then take the other one.   *)
ActiveEndsStand ==
  [][delegation.status = "active" /\ "people" \notin raced' =>
       /\ delegation'.from # delegation.from => Cardinality(Resolutions(From)) > 1
       /\ delegation'.to # delegation.to => Cardinality(Resolutions(To)) > 1]_vars
=============================================================================
