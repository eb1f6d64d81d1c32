--------------------------- MODULE GovernedDecisions ---------------------------
(***************************************************************************)
(* PolicyDeployment composed with the part of submit_intent                *)
(* (server/app/services/intent_service.py) that asks what governs an       *)
(* intent.  It reads three places that a deploy writes at different times: *)
(* the active row of the policies table, OPA, and the active version of    *)
(* each policy that matched, for its mandate.  The decision it records     *)
(* cites the row and the mandates for what OPA answered.                   *)
(*                                                                         *)
(* The outcome itself is the subject of PolicyEvaluation, the record's     *)
(* place in the chain that of EvidenceLedger.                              *)
(***************************************************************************)
EXTENDS PolicyDeployment, Sequences

CONSTANTS
  Intent,  \* intents submitted
  Covers   \* pairs <<intent, version>>: the version's rule matches the intent

ASSUME CoversAssumption == Covers \subseteq Intent \X Version

VARIABLES
  deployed,  \* bundle_hash of each row of policies: the versions it was computed over
  decision,  \* each intent's decision, as far as its request has made it
  restored   \* history: OPA holds what the startup put there, not what a deploy sent

governedVars == <<vars, deployed, decision, restored>>

-----------------------------------------------------------------------------
(* State *)

(* policy is policy_id, matched OPA's evaluated_mandates (with their       *)
(* versions), mandates evaluated_mandate_ids.  The history of a request:   *)
(* bundle, what OPA held when it answered; live, which of the versions     *)
(* that matched were active then; crossed, that a deploy had its bundle at *)
(* OPA before the answer and no row yet when the row was read, or that the *)
(* bundle was of an active set that overlapping requests had left, put     *)
(* there at a restart.                                                     *)
Undecided ==
  [step |-> "none", policy |-> 0, bundle |-> {}, matched |-> {}, live |-> {}, todo |-> {},
   mandates |-> {}, crossed |-> FALSE]

InProgress == {"asking", "resolving", "failed"}

Pending == \E w \in Worker : task[w].step \in {"uploaded", "flushed"}

Becomes(i, d) == decision' = [decision EXCEPT ![i] = d]

GovernedInit ==
  /\ Init
  /\ deployed = <<>>
  /\ decision = [i \in Intent |-> Undecided]
  /\ restored = FALSE

-----------------------------------------------------------------------------
(* The request that decides an intent *)

OnlyDecides == UNCHANGED <<vars, deployed, restored>>

(* _DbPolicyStore.get_active; without a row OPA is not asked.              *)
ReadActivePolicy(i) ==
  /\ server = "up"
  /\ decision[i].step = "none"
  /\ Becomes(i, [Undecided EXCEPT !.step = IF activePolicy = 0 THEN "failed" ELSE "asking",
                                  !.policy = activePolicy,
                                  !.crossed = torn \/ Pending])
  /\ OnlyDecides

(* HttpOpaClient.query: every rule of OPA's bundle that matches.           *)
AskOpa(i) ==
  LET matched == { v \in opa : <<i, v>> \in Covers }
  IN  /\ decision[i].step = "asking"
      /\ Becomes(i, [decision[i] EXCEPT !.step = "resolving",
                                        !.bundle = opa,
                                        !.crossed = @ \/ (restored /\ raced),
                                        !.matched = matched,
                                        !.live = matched \cap ActiveVersions,
                                        !.todo = { KeyOf(v) : v \in matched }])
      /\ OnlyDecides

(* A time-out, an error, or no answer at all: HUMAN_REVIEW.                *)
OpaFails(i) ==
  /\ decision[i].step = "asking"
  /\ Becomes(i, [Undecided EXCEPT !.step = "failed", !.policy = decision[i].policy])
  /\ OnlyDecides

(* resolve_mandate_ids, one policy: the mandate in the content of a        *)
(* version of it that is active now, if there is any.                      *)
ResolveMandate(i) ==
  /\ decision[i].step = "resolving"
  /\ \E k \in decision[i].todo :
       LET active == { v \in ActiveVersions : KeyOf(v) = k }
           named(v) == IF mandate[v] = 0 THEN {} ELSE {<<k, mandate[v]>>}
       IN  \E m \in IF active = {} THEN {{}} ELSE { named(v) : v \in active } :
             Becomes(i, [decision[i] EXCEPT !.todo = @ \ {k}, !.mandates = @ \cup m])
  /\ OnlyDecides

(* The Decision with its Evidence, and the commit.                         *)
RecordDecision(i) ==
  /\ \/ decision[i].step = "failed"
     \/ decision[i].step = "resolving" /\ decision[i].todo = {}
  /\ Becomes(i, [decision[i] EXCEPT !.step = IF @ = "failed" THEN "unanswered" ELSE "answered"])
  /\ OnlyDecides

(* The request fails; its intent is rolled back with it.                   *)
AbortIntent(i) ==
  /\ decision[i].step \in InProgress
  /\ Becomes(i, Undecided)
  /\ OnlyDecides

-----------------------------------------------------------------------------
(* The deploys beside it *)

(* Requests that have read the row and not yet asked OPA are crossed.      *)
SendBundle(w) ==
  /\ Upload(w) \/ UploadFails(w)
  /\ decision' = [i \in Intent |-> IF decision[i].step = "asking"
                                     THEN [decision[i] EXCEPT !.crossed = TRUE]
                                     ELSE decision[i]]
  /\ restored' = FALSE
  /\ UNCHANGED deployed

(* The row deploy_policy inserts carries the hash of the bundle it sent.   *)
InsertPolicyRow(w) ==
  /\ CommitDeploy(w)
  /\ deployed' = Append(deployed, task[w].bundle)
  /\ UNCHANGED <<decision, restored>>

(* The requests that decide intents stop with the container.               *)
Stop ==
  /\ Crash
  /\ decision' = [i \in Intent |-> IF decision[i].step \in InProgress
                                     THEN Undecided ELSE decision[i]]
  /\ UNCHANGED <<deployed, restored>>

Restore ==
  /\ Reconcile
  /\ restored' = TRUE
  /\ UNCHANGED <<deployed, decision>>

(* What else happens to policies does not touch OPA or the policies table. *)
Author ==
  /\ \/ \E k \in Key : Create(k)
     \/ \E w \in Worker :
          \/ \E op \in Operation, v \in Version : Load(w, op, v)
          \/ SaveStatus(w) \/ SaveEdit(w)
          \/ GatherOthers(w) \/ SaveCompiled(w) \/ ReadPrior(w) \/ Flush(w) \/ Abort(w)
  /\ UNCHANGED <<deployed, decision, restored>>

GovernedNext ==
  \/ Author \/ Stop \/ Restore
  \/ \E w \in Worker : SendBundle(w) \/ InsertPolicyRow(w)
  \/ \E i \in Intent :
       \/ ReadActivePolicy(i) \/ AskOpa(i) \/ OpaFails(i) \/ ResolveMandate(i)
       \/ RecordDecision(i) \/ AbortIntent(i)

GovernedSpec == GovernedInit /\ [][GovernedNext]_governedVars

-----------------------------------------------------------------------------
(* Properties *)

Recorded(i) == decision[i].step = "answered"

(* The policies row a decision cites is the row of the bundle that         *)
(* answered, whatever deploys overlap each other, are refused or fail,     *)
(* unless the request crossed one: OPA had its bundle, and the row was not *)
(* there yet.  (After a restart OPA has the active set, which requests     *)
(* that overlapped may have left different from the last bundle.)          *)
RowOfAnswer ==
  \A i \in Intent :
    Recorded(i) /\ ~decision[i].crossed =>
      decision[i].bundle = deployed[decision[i].policy]

(* A decision cites for the policies that matched only, and nothing but    *)
(* mandates made for them or given to them by a client; and if one with an *)
(* Authority matched with its active version, it cites the mandate of that *)
(* very version, although the row is read after OPA has answered and other *)
(* versions are deployed in between, unless a request wrote what it had    *)
(* loaded before others wrote (resolve_mandate_ids).                       *)
MandateOfMatch ==
  \A i \in Intent : Recorded(i) =>
    /\ \A c \in decision[i].mandates :
         /\ \E v \in decision[i].matched : c[1] = KeyOf(v)
         /\ Accounted(c[1], c[2])
    /\ ~raced => \A v \in decision[i].live \cap Delegated :
         <<KeyOf(v), mandate[v]>> \in decision[i].mandates
=============================================================================
