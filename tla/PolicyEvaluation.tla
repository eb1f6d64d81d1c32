--------------------------- MODULE PolicyEvaluation ---------------------------
(***************************************************************************)
(* What a set of runtime policies decides: compile_bundle's conflict       *)
(* detection (server/app/domain/compiler_v2), the rules it generates, as   *)
(* OPA evaluates them, and the decision engine that reads OPA's answer     *)
(* (server/app/domain/decision/engine.py).                                 *)
(*                                                                         *)
(* The compiler compares values in Python and OPA compares them in Rego.   *)
(* A value is <<kind, n>>, the n-th of its kind.                           *)
(***************************************************************************)
EXTENDS Integers, Sequences, FiniteSets

CONSTANTS
  Principal,  \* names of principals
  Action,     \* what an agent may ask for
  KnownScope, \* the actions of the fixed vocabulary
  Agent,      \* agent identities
  Resource,   \* what scope.resource may name
  Field,      \* paths below input.intent and input.context
  Value,      \* values of fields and of conditions
  Substring,  \* <<x, v>>: the string x contains the string v
  PolicySet,  \* the sets of policies that are tried as one bundle
  Intent,     \* the requests that agents send
  None        \* no value

Bool == 1
Number == 2
String == 3

Operator == {"<=", ">=", "==", "!=", "<", ">", "in", "contains", "exists"}

Effect == {"allow", "deny", "require_human_review"}

Policy == UNION PolicySet

(* `values` is the right-hand side: one value, or the list of an `in`.     *)
Condition ==
  { c \in [field : Field, operator : Operator, values : SUBSET Value] :
      c.operator # "in" => \E v \in Value : c.values = {v} }

(* validators.py lets through any value but for the ordering operators; a  *)
(* value of `exists` that is no boolean makes the generator raise.         *)
WellFormed(c) ==
  /\ c.operator \in {"<=", ">=", "<", ">"} => \A v \in c.values : v[1] = Number
  /\ c.operator = "exists" => \A v \in c.values : v[1] = Bool

ASSUME EvaluationAssumption ==
  /\ KnownScope \subseteq Action
  /\ Value \subseteq (Bool .. String) \X Int
  /\ None \notin Value /\ None \notin Agent \cup Resource
  /\ \A p \in Policy :
       /\ p.principal \in Principal /\ p.action \in Action
       /\ p.agent \in Agent \cup {None} /\ p.resource \in Resource \cup {None}
       /\ p.effect \in Effect
       /\ p.conditions \in Seq(Condition)
  /\ Intent \subseteq [principal : Principal, action : Action, agent : Agent,
                       fields : [Field -> Value \cup {None}]]

VARIABLES
  bundle,   \* the policies in the bundle OPA holds; {}: none was deployed
  decision  \* the last Decision under it

vars == <<bundle, decision>>

-----------------------------------------------------------------------------
(* Python's values: a boolean is the number 0 or 1.                        *)

Py(v) == IF v[1] = Bool THEN <<Number, v[2]>> ELSE v

PyLess(u, v) == Py(u)[1] = Py(v)[1] /\ u[2] < v[2]

PySame(u, v) == Py(u) = Py(v)

(* Rego's values: all are ordered, a boolean before a number before a      *)
(* string.                                                                 *)
RegoLess(u, v) == u[1] < v[1] \/ (u[1] = v[1] /\ u[2] < v[2])

-----------------------------------------------------------------------------
(* scope_overlap.py *)

On(p, f) ==
  { p.conditions[i] : i \in { j \in DOMAIN p.conditions : p.conditions[j].field = f } }

(* Of several equalities on a field the first is kept.                     *)
Eq(p, f) ==
  { v \in Value : \E i \in DOMAIN p.conditions :
      /\ p.conditions[i].field = f /\ p.conditions[i].operator = "=="
      /\ v \in p.conditions[i].values
      /\ \A j \in 1 .. i - 1 :
           ~(p.conditions[j].field = f /\ p.conditions[j].operator = "==") }

Bound == [value : Value, inclusive : BOOLEAN]

Lows(p, f) ==
  { b \in Bound : \E c \in On(p, f) :
      c.operator = (IF b.inclusive THEN ">=" ELSE ">") /\ b.value \in c.values }

Highs(p, f) ==
  { b \in Bound : \E c \in On(p, f) :
      c.operator = (IF b.inclusive THEN "<=" ELSE "<") /\ b.value \in c.values }

Neq(p, f) ==
  { v \in Value : \E c \in On(p, f) : c.operator = "!=" /\ v \in c.values }

HasIn(p, f) == \E c \in On(p, f) : c.operator = "in"

InSet(p, f) ==
  { v \in Value : \A c \in On(p, f) :
      c.operator = "in" => \E u \in c.values : PySame(u, v) }

Inconclusive(p, f) == \E c \in On(p, f) : c.operator \in {"contains", "exists"}

(* _tighter_lo and _tighter_hi, over all the bounds there are: the ones    *)
(* nothing is tighter than, an exclusive one among them excluding the      *)
(* value.                                                                  *)
TightestLows(B) == { b \in B : \A c \in B : ~PyLess(b.value, c.value) }

TightestHighs(B) == { b \in B : \A c \in B : ~PyLess(c.value, b.value) }

(* An equality is a bound on both sides.                                   *)
AsBounds(E) == { b \in Bound : b.value \in E /\ b.inclusive }

(* Bounds that touch leave no room.                                        *)
NoRoomOpen(l, h, N) ==
  PyLess(h.value, l.value) \/ PySame(l.value, h.value)

(* No value lies between the bounds and is none of N.                      *)
NoRoom(l, h, N) ==
  \/ PyLess(h.value, l.value)
  \/ /\ PySame(l.value, h.value)
     /\ ~(l.inclusive /\ h.inclusive) \/ \E v \in N : PySame(v, l.value)

(* One of the two equalities is on a string, and there is a number to      *)
(* compare it with: Python raises, and nothing is compiled.                *)
Incomparable(p, q, f) ==
  /\ \E v \in Eq(p, f) \cup Eq(q, f) : v[1] = String
  /\ Lows(p, f) \cup Lows(q, f) \cup Highs(p, f) \cup Highs(q, f) # {}

(* _fields_can_overlap; where it raises the pair does not compile either.  *)
FieldsCanOverlap(p, q, f) ==
  LET E == Eq(p, f) \cup Eq(q, f)
      L == Lows(p, f) \cup Lows(q, f) \cup AsBounds(E)
      H == Highs(p, f) \cup Highs(q, f) \cup AsBounds(E)
  IN  \/ Inconclusive(p, f) \/ Inconclusive(q, f)
      \/ /\ \A u, v \in E : PySame(u, v)
         /\ \/ Incomparable(p, q, f)
            \/ /\ HasIn(p, f) /\ HasIn(q, f) => InSet(p, f) \cap InSet(q, f) # {}
               /\ \A l \in TightestLows(L), h \in TightestHighs(H) :
                    ~NoRoom(l, h, Neq(p, f) \cup Neq(q, f))

ScopesCanOverlap(p, q) ==
  /\ p.principal = q.principal
  /\ p.action = q.action
  /\ p.agent = None \/ q.agent = None \/ p.agent = q.agent
  /\ p.resource = None \/ q.resource = None \/ p.resource = q.resource

PoliciesCanJointlyMatch(p, q) ==
  ScopesCanOverlap(p, q) /\ \A f \in Field : FieldsCanOverlap(p, q, f)

-----------------------------------------------------------------------------
(* compiler_v2.py *)

HasContradictoryEquality(p, q) ==
  \E f \in Field : \E c \in On(p, f), d \in On(q, f) :
    /\ c.operator = "==" /\ d.operator = "=="
    /\ \E u \in c.values, v \in d.values : ~PySame(u, v)

PolicyConflicts(p, q) ==
  /\ p.principal = q.principal /\ p.action = q.action
  /\ PoliciesCanJointlyMatch(p, q) \/ HasContradictoryEquality(p, q)

Validates(p) ==
  /\ \A i \in DOMAIN p.conditions : WellFormed(p.conditions[i])
  /\ \A i, j \in DOMAIN p.conditions : p.conditions[i] = p.conditions[j] => i = j
  /\ p.action \in KnownScope

Compiles(S) ==
  /\ \A p \in S : Validates(p)
  /\ \A p, q \in S : p # q => ~PolicyConflicts(p, q)

-----------------------------------------------------------------------------
(* rego_generator.py and bundle_builder.py, as OPA evaluates them *)

Compares(x, op, v) ==
  CASE op = "<=" -> ~RegoLess(v, x)
    [] op = ">=" -> ~RegoLess(x, v)
    [] op = "==" -> x = v
    [] op = "!=" -> x # v
    [] op = "<"  -> RegoLess(x, v)
    [] op = ">"  -> RegoLess(v, x)
    [] op = "contains" -> <<x, v>> \in Substring

(* A field that is not there satisfies nothing but `exists false`.         *)
Holds(c, x) ==
  CASE c.operator = "exists" -> \A v \in c.values : (x # None) = (v = <<Bool, 1>>)
    [] c.operator = "in"     -> x # None /\ x \in c.values
    [] OTHER -> x # None /\ \A v \in c.values : Compares(x, c.operator, v)

(* The agent's own id is sent too.                                         *)
BuildOpaInputWithId(i) ==
  [intent |-> [action |-> i.action], fields |-> i.fields,
   agent |-> [id |-> i.agent, acting_for_principal_id |-> i.principal]]

(* build_opa_input: of the agent only whom it acts for.                    *)
BuildOpaInput(i) ==
  [intent |-> [action |-> i.action], fields |-> i.fields,
   agent |-> [acting_for_principal_id |-> i.principal]]

(* A path that the input lacks is undefined, and its line fails.           *)
Says(doc, key, x) == key \in DOMAIN doc /\ doc[key] = x

Matches(p, input) ==
  /\ Says(input.intent, "action", p.action)
  /\ Says(input.agent, "acting_for_principal_id", p.principal)
  /\ p.agent # None => Says(input.agent, "id", p.agent)
  /\ p.resource # None => Says(input.intent, "resource", p.resource)
  /\ \A k \in DOMAIN p.conditions :
       Holds(p.conditions[k], input.fields[p.conditions[k].field])

EvaluatedMandates(S, input) == { p \in S : Matches(p, input) }

(* OPA's answer over the policies M that match.  deny_reason and           *)
(* review_reason have one value: two different ones are an error.          *)
QueryFails(M) ==
  \E p, q \in M : p # q /\ p.effect = q.effect /\ p.effect # "allow"

SaysEffect(M, e) == \E p \in M : p.effect = e

Denies(M) == SaysEffect(M, "deny") \/ M = {}

-----------------------------------------------------------------------------
(* engine.py *)

(* An allow taken at its word.                                             *)
OutcomeAllowFirst(M) ==
  IF SaysEffect(M, "allow") THEN "ALLOW"
  ELSE IF Denies(M) THEN "DENY" ELSE "HUMAN_REVIEW"

Outcome(M) ==
  IF QueryFails(M) \/ SaysEffect(M, "require_human_review") THEN "HUMAN_REVIEW"
  ELSE IF SaysEffect(M, "allow") /\ ~Denies(M) THEN "ALLOW"
  ELSE IF Denies(M) THEN "DENY"
  ELSE "HUMAN_REVIEW"

NoDecision == [intent |-> None, outcome |-> "none", evaluated |-> {}]

Decided(i, outcome, M) == [intent |-> i, outcome |-> outcome, evaluated |-> M]

Init == bundle = {} /\ decision = NoDecision

Compilable == { S \in PolicySet \ {{}} : Compiles(S) }

(* A bundle that compiles replaces the one OPA holds.                      *)
Deploy(S) ==
  /\ bundle' = S
  /\ decision' = NoDecision

(* submit_intent asks OPA about a recognised action under an active        *)
(* policy, and records the policies that matched.                          *)
Evaluate(i) ==
  LET M == EvaluatedMandates(bundle, BuildOpaInput(i))
  IN  /\ i.action \in KnownScope
      /\ bundle # {}
      /\ decision' = Decided(i, Outcome(M), IF QueryFails(M) THEN {} ELSE M)
      /\ UNCHANGED bundle

(* An action that is not recognised, no active policy, a timeout or an     *)
(* error of OPA's: a human decides.                                        *)
EvaluateWithoutAnswer(i) ==
  /\ decision' = Decided(i, "HUMAN_REVIEW", {})
  /\ UNCHANGED bundle

Next ==
  \/ \E S \in Compilable : Deploy(S)
  \/ \E i \in Intent : Evaluate(i) \/ EvaluateWithoutAnswer(i)

Spec == Init /\ [][Next]_vars

-----------------------------------------------------------------------------
(* Properties *)

(* Type correctness.                                                       *)
TypeOK ==
  /\ bundle \in PolicySet \cup {{}}
  /\ decision.intent \in Intent \cup {None}
  /\ decision.outcome \in {"none", "ALLOW", "DENY", "HUMAN_REVIEW"}
  /\ decision.evaluated \subseteq Policy

(* The conditions of the two policies on a field name booleans and         *)
(* numbers.                                                                *)
MixesKinds(p, q, f) ==
  \A kind \in {Bool, Number} :
    \E c \in On(p, f) \cup On(q, f) : \E v \in c.values : v[1] = kind

(* Of a bundle that compiled at most one policy matches an intent          *)
(* ("False is a proof, not a guess": policies_can_jointly_match), unless   *)
(* two of them put a boolean and a number on one field: True == 1 in       *)
(* Python, and true < 1 in Rego.                                           *)
AtMostOneMatch ==
  \A i \in Intent : \A p, q \in EvaluatedMandates(bundle, BuildOpaInput(i)) :
    p # q => \E f \in Field : MixesKinds(p, q, f)

(* An intent is allowed only if a policy matched it and all that matched   *)
(* it allow it, also where the compiler let two through (evaluate, and the *)
(* fallback of build_bundle).                                              *)
AllowIsUnanimous ==
  decision.outcome = "ALLOW" =>
    /\ decision.evaluated # {}
    /\ \A p \in decision.evaluated : p.effect = "allow"

(* Deploying more policies never turns what a policy denied, or sent to a  *)
(* human, into an ALLOW.                                                   *)
AddingNeverOverrides ==
  [][bundle \subseteq bundle' =>
       \A i \in Intent :
         LET M == EvaluatedMandates(bundle, BuildOpaInput(i))
             N == EvaluatedMandates(bundle', BuildOpaInput(i))
         IN  M # {} /\ Outcome(M) # "ALLOW" => Outcome(N) # "ALLOW"]_bundle

(* No decision ever rests on a policy that is narrowed to an agent or a    *)
(* resource, although scope.agent "narrows a policy to one specific agent  *)
(* identity" (Scope): the generated rule compares with input.agent.id and  *)
(* input.intent.resource, and build_opa_input sends neither.               *)
NarrowedNeverDecides ==
  \A p \in decision.evaluated : p.agent = None /\ p.resource = None
===============================================================================
