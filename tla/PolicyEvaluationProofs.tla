------------------------ MODULE PolicyEvaluationProofs ------------------------
(***************************************************************************)
(* For any policies, conditions and intents: conflict detection is a proof *)
(* that no intent matches two policies of a bundle, but for a boolean and  *)
(* a number on one field.                                                  *)
(***************************************************************************)
EXTENDS PolicyEvaluation, TLAPS

(* A policy's conditions are conditions, and each holds of the input it    *)
(* matches (generate_policy_rule ANDs them).                               *)
LEMMA ConditionsHold ==
  ASSUME NEW p \in Policy, NEW f \in Field, Validates(p),
         NEW input, Matches(p, input)
  PROVE  \A c \in On(p, f) :
           /\ c \in Condition /\ WellFormed(c) /\ c.field = f
           /\ Holds(c, input.fields[f])
<1>1. p.conditions \in Seq(Condition)  BY EvaluationAssumption
<1>2. TAKE c \in On(p, f)
<1>3. PICK i \in DOMAIN p.conditions : c = p.conditions[i] /\ p.conditions[i].field = f
  BY DEF On
<1>4. c \in Condition  BY <1>1, <1>3
<1>5. WellFormed(c)  BY <1>3 DEF Validates
<1>6. Holds(c, input.fields[f])  BY <1>3 DEF Matches
<1> QED  BY <1>3, <1>4, <1>5, <1>6

(* The first equality on a field is a condition on it.                     *)
LEMMA EqIsCondition ==
  ASSUME NEW p, NEW f, NEW v \in Eq(p, f)
  PROVE  \E c \in On(p, f) : c.operator = "==" /\ v \in c.values
<1>1. PICK i \in DOMAIN p.conditions :
        /\ p.conditions[i].field = f /\ p.conditions[i].operator = "=="
        /\ v \in p.conditions[i].values
  BY DEF Eq
<1>2. p.conditions[i] \in On(p, f)  BY <1>1 DEF On
<1> QED  BY <1>1, <1>2

(* The heart of scope_overlap.py: if some value of a field satisfies what  *)
(* two policies say of it, the interval check does not separate them.      *)
LEMMA FieldSound ==
  ASSUME NEW p, NEW q, NEW f, NEW x \in Value \cup {None},
         \A c \in On(p, f) \cup On(q, f) :
           c \in Condition /\ WellFormed(c) /\ c.field = f /\ Holds(c, x),
         ~MixesKinds(p, q, f)
  PROVE  FieldsCanOverlap(p, q, f)
<1> DEFINE Both == On(p, f) \cup On(q, f)
           E == Eq(p, f) \cup Eq(q, f)
           L == Lows(p, f) \cup Lows(q, f) \cup AsBounds(E)
           H == Highs(p, f) \cup Highs(q, f) \cup AsBounds(E)
           N == Neq(p, f) \cup Neq(q, f)
           Used(v) == v \in Value /\ \E c \in Both : v \in c.values
<1>1. SUFFICES ASSUME ~Inconclusive(p, f), ~Inconclusive(q, f)
               PROVE  /\ \A u, v \in E : PySame(u, v)
                      /\ HasIn(p, f) /\ HasIn(q, f) => InSet(p, f) \cap InSet(q, f) # {}
                      /\ ~Incomparable(p, q, f) => \A l \in L, h \in H : ~NoRoom(l, h, N)
  <2>1. TightestLows(L) \subseteq L /\ TightestHighs(H) \subseteq H
    BY DEF TightestLows, TightestHighs
  <2>2. CASE Inconclusive(p, f) \/ Inconclusive(q, f)
    BY <2>2 DEF FieldsCanOverlap
  <2>3. CASE ~Inconclusive(p, f) /\ ~Inconclusive(q, f)
    <3> HIDE DEF E, L, H, N
    <3> SUFFICES /\ \A u, v \in E : PySame(u, v)
                 /\ \/ Incomparable(p, q, f)
                    \/ /\ HasIn(p, f) /\ HasIn(q, f) => InSet(p, f) \cap InSet(q, f) # {}
                       /\ \A l \in TightestLows(L), h \in TightestHighs(H) : ~NoRoom(l, h, N)
      BY DEF FieldsCanOverlap, E, L, H, N
    <3> QED  BY <2>1, <2>3, <1>1
  <2> QED  BY <2>2, <2>3
<1>2. \A c \in Both : c.operator \notin {"contains", "exists"}
  BY <1>1 DEF Inconclusive
<1>3. \A c \in Both :
        /\ c.operator \in Operator /\ c.values \subseteq Value
        /\ c.operator # "in" => \E v \in Value : c.values = {v}
  BY DEF Condition
<1>4. \A c \in Both : x \in Value
  BY <1>2 DEF Holds
<1>5. \A c \in Both : c.operator # "in" => \A v \in c.values : Compares(x, c.operator, v)
  BY <1>2 DEF Holds
<1>6. \A v \in E : v = x /\ x \in Value /\ Used(x)
  <2>1. TAKE v \in E
  <2>2. PICK c \in Both : c.operator = "==" /\ v \in c.values
    BY EqIsCondition
  <2>3. Compares(x, "==", v)  BY <2>2, <1>5
  <2>4. v = x  BY <2>3 DEF Compares
  <2> QED  BY <2>2, <2>4, <1>4
<1>7. \A u, v \in E : PySame(u, v)
  BY <1>6 DEF PySame
<1>8. HasIn(p, f) /\ HasIn(q, f) => InSet(p, f) \cap InSet(q, f) # {}
  <2>1. \A c \in Both : c.operator = "in" => x \in c.values
    BY DEF Holds
  <2>2. HasIn(p, f) => x \in Value  BY <1>4 DEF HasIn
  <2>3. x \in Value => x \in InSet(p, f) /\ x \in InSet(q, f)
    BY <2>1 DEF InSet, PySame
  <2> QED  BY <2>2, <2>3
<1>9. \A u, v : Used(u) /\ Used(v) => ~(u[1] = Bool /\ v[1] = Number)
  BY DEF MixesKinds
<1>10. ASSUME NEW l \in L
       PROVE  /\ l \in Bound /\ Used(l.value) /\ l.value[1] \in {Bool, Number, String}
              /\ \/ l.value = x /\ l.inclusive /\ x \in E
                 \/ /\ l.value[1] = Number
                    /\ IF l.inclusive THEN ~RegoLess(x, l.value) ELSE RegoLess(l.value, x)
                    /\ l \in Lows(p, f) \cup Lows(q, f)
  <2>0. l \in Bound  BY DEF Lows, AsBounds
  <2>1. CASE l \in AsBounds(E)
    BY <2>0, <2>1, <1>6, EvaluationAssumption DEF AsBounds, Bool, Number, String
  <2>2. CASE l \in Lows(p, f) \cup Lows(q, f)
    <3>1. PICK c \in Both : c.operator = (IF l.inclusive THEN ">=" ELSE ">") /\ l.value \in c.values
      BY <2>2 DEF Lows
    <3>2. Compares(x, c.operator, l.value)  BY <3>1, <1>5
    <3>3. IF l.inclusive THEN ~RegoLess(x, l.value) ELSE RegoLess(l.value, x)
      BY <3>1, <3>2 DEF Compares
    <3>4. l.value[1] = Number  BY <3>1 DEF WellFormed
    <3>5. Used(l.value)  BY <3>1, <1>3
    <3> QED  BY <2>0, <2>2, <3>3, <3>4, <3>5
  <2> QED  BY <2>1, <2>2
<1>11. ASSUME NEW h \in H
       PROVE  /\ h \in Bound /\ Used(h.value) /\ h.value[1] \in {Bool, Number, String}
              /\ \/ h.value = x /\ h.inclusive /\ x \in E
                 \/ /\ h.value[1] = Number
                    /\ IF h.inclusive THEN ~RegoLess(h.value, x) ELSE RegoLess(x, h.value)
                    /\ h \in Highs(p, f) \cup Highs(q, f)
  <2>0. h \in Bound  BY DEF Highs, AsBounds
  <2>1. CASE h \in AsBounds(E)
    BY <2>0, <2>1, <1>6, EvaluationAssumption DEF AsBounds, Bool, Number, String
  <2>2. CASE h \in Highs(p, f) \cup Highs(q, f)
    <3>1. PICK c \in Both : c.operator = (IF h.inclusive THEN "<=" ELSE "<") /\ h.value \in c.values
      BY <2>2 DEF Highs
    <3>2. Compares(x, c.operator, h.value)  BY <3>1, <1>5
    <3>3. IF h.inclusive THEN ~RegoLess(h.value, x) ELSE RegoLess(x, h.value)
      BY <3>1, <3>2 DEF Compares
    <3>4. h.value[1] = Number  BY <3>1 DEF WellFormed
    <3>5. Used(h.value)  BY <3>1, <1>3
    <3> QED  BY <2>0, <2>2, <3>3, <3>4, <3>5
  <2> QED  BY <2>1, <2>2
<1>12. \A v \in N : v # x /\ Used(v)
  <2>1. TAKE v \in N
  <2>2. PICK c \in Both : c.operator = "!=" /\ v \in c.values
    BY DEF Neq
  <2>3. Compares(x, "!=", v)  BY <2>2, <1>5
  <2> QED  BY <2>2, <2>3, <1>3 DEF Compares
<1>13. ASSUME ~Incomparable(p, q, f), NEW l \in L, NEW h \in H
       PROVE  ~NoRoom(l, h, N)
  <2>1. x \in Value  
    <3>1. Used(l.value)  BY <1>10
    <3> QED  BY <3>1, <1>4
  <2>2. /\ x = <<x[1], x[2]>> /\ x[1] \in Bool .. String /\ x[2] \in Int
        /\ l.value = <<l.value[1], l.value[2]>> /\ l.value[2] \in Int
        /\ h.value = <<h.value[1], h.value[2]>> /\ h.value[2] \in Int
    <3>1. l.value \in Value /\ h.value \in Value  BY <1>10, <1>11
    <3> QED  BY <2>1, <3>1, EvaluationAssumption
  <2>3. \/ l.value = x /\ h.value = x /\ l.inclusive /\ h.inclusive
        \/ l.value[1] = Number /\ h.value[1] = Number
    <3>1. x \in E /\ l.value[1] = Number /\ l \in Lows(p, f) \cup Lows(q, f) => x[1] = Number
      BY <1>13, <1>6, <1>9, <1>10, <2>2 DEF Incomparable, Bool, Number, String
    <3>2. x \in E /\ h.value[1] = Number /\ h \in Highs(p, f) \cup Highs(q, f) => x[1] = Number
      BY <1>13, <1>6, <1>9, <1>11, <2>2 DEF Incomparable, Bool, Number, String
    <3> QED  BY <1>10, <1>11, <3>1, <3>2
  <2>4. ASSUME l.value = x, NEW v \in N PROVE ~PySame(v, l.value)
    <3>1. v # x /\ Used(v) /\ Used(x)  BY <1>10, <1>12, <2>4
    <3>2. v = <<v[1], v[2]>> /\ v[1] \in Bool .. String /\ v[2] \in Int
      BY <3>1, EvaluationAssumption
    <3>3. ~(v[1] = Bool /\ x[1] = Number) /\ ~(x[1] = Bool /\ v[1] = Number)
      BY <3>1, <1>9
    <3> QED  BY <2>2, <2>4, <3>1, <3>2, <3>3 DEF PySame, Py, Bool, Number, String
  <2>5. CASE l.value = x /\ h.value = x /\ l.inclusive /\ h.inclusive
    <3>1. ~PyLess(h.value, l.value)  BY <2>2, <2>5 DEF PyLess
    <3> QED  BY <2>4, <2>5, <3>1 DEF NoRoom
  <2>6. CASE l.value[1] = Number /\ h.value[1] = Number
    <3>0. ~RegoLess(x, x)  BY <2>2 DEF RegoLess
    <3>1. l.inclusive \in BOOLEAN /\ h.inclusive \in BOOLEAN
      BY <1>10, <1>11 DEF Bound
    <3>2. IF l.inclusive THEN ~RegoLess(x, l.value) ELSE RegoLess(l.value, x)
      BY <1>10, <3>0
    <3>3. IF h.inclusive THEN ~RegoLess(h.value, x) ELSE RegoLess(x, h.value)
      BY <1>11, <3>0
    <3>4. ~PyLess(h.value, l.value)
      BY <2>2, <2>6, <3>1, <3>2, <3>3 DEF PyLess, RegoLess, Bool, Number, String
    <3>5. ASSUME PySame(l.value, h.value)
          PROVE  l.value = x /\ l.inclusive /\ h.inclusive
      <4>1. l.value[2] = h.value[2]
        BY <2>2, <2>6, <3>5 DEF PySame, Py, Bool, Number
      <4>2. x[1] = Number /\ x[2] = l.value[2] /\ l.inclusive /\ h.inclusive
        BY <2>2, <2>6, <3>1, <3>2, <3>3, <4>1 DEF RegoLess, Bool, Number, String
      <4> QED  BY <2>2, <2>6, <4>2
    <3> QED  BY <2>4, <3>4, <3>5 DEF NoRoom
  <2> QED  BY <2>3, <2>5, <2>6
<1> QED  BY <1>7, <1>8, <1>13

(* policies_can_jointly_match is sound: an intent that two well-formed     *)
(* policies match is one it does not rule out.                             *)
THEOREM JointMatchSound ==
  ASSUME NEW p \in Policy, NEW q \in Policy, Validates(p), Validates(q),
         NEW i \in Intent,
         Matches(p, BuildOpaInput(i)), Matches(q, BuildOpaInput(i)),
         \A f \in Field : ~MixesKinds(p, q, f)
  PROVE  PolicyConflicts(p, q)
<1> DEFINE input == BuildOpaInput(i)
<1>1. i.fields \in [Field -> Value \cup {None}]  BY EvaluationAssumption
<1>2. input.fields = i.fields  BY DEF BuildOpaInput
<1>3. /\ p.principal = q.principal /\ p.action = q.action
      /\ p.agent = None /\ q.agent = None
      /\ p.resource = None /\ q.resource = None
  BY DEF Matches, Says, BuildOpaInput
<1>4. ScopesCanOverlap(p, q)  BY <1>3 DEF ScopesCanOverlap
<1>5. ASSUME NEW f \in Field PROVE FieldsCanOverlap(p, q, f)
  <2> DEFINE x == input.fields[f]
  <2>1. x \in Value \cup {None}  BY <1>1, <1>2
  <2>2. \A c \in On(p, f) \cup On(q, f) :
          c \in Condition /\ WellFormed(c) /\ c.field = f /\ Holds(c, x)
    BY ConditionsHold
  <2> HIDE DEF x
  <2> QED  BY <2>1, <2>2, FieldSound
<1> QED  BY <1>3, <1>4, <1>5 DEF PolicyConflicts, PoliciesCanJointlyMatch

(* Only sets that compile are ever served.                                 *)
ServedCompiles == bundle = {} \/ bundle \in Compilable

(* At most one policy of the served bundle matches an intent, whatever the *)
(* policies are.                                                           *)
THEOREM OneMatch == Spec => []AtMostOneMatch
<1>1. Init => ServedCompiles  BY DEF Init, ServedCompiles
<1>2. ServedCompiles /\ [Next]_vars => ServedCompiles'
  BY DEF ServedCompiles, Next, vars, Deploy, Evaluate, EvaluateWithoutAnswer
<1>3. ServedCompiles => AtMostOneMatch
  <2>1. SUFFICES ASSUME ServedCompiles, NEW i \in Intent,
                        NEW p \in EvaluatedMandates(bundle, BuildOpaInput(i)),
                        NEW q \in EvaluatedMandates(bundle, BuildOpaInput(i)),
                        p # q, \A f \in Field : ~MixesKinds(p, q, f)
                 PROVE  FALSE
    BY DEF AtMostOneMatch
  <2>2. /\ p \in bundle /\ q \in bundle
        /\ Matches(p, BuildOpaInput(i)) /\ Matches(q, BuildOpaInput(i))
    BY DEF EvaluatedMandates
  <2>3. bundle \in PolicySet /\ Compiles(bundle)
    BY <2>1, <2>2 DEF ServedCompiles, Compilable
  <2>4. p \in Policy /\ q \in Policy  BY <2>2, <2>3 DEF Policy
  <2>5. Validates(p) /\ Validates(q) /\ ~PolicyConflicts(p, q)
    BY <2>1, <2>2, <2>3 DEF Compiles
  <2> QED  BY <2>1, <2>2, <2>4, <2>5, JointMatchSound
<1> QED  BY <1>1, <1>2, <1>3, PTL DEF Spec

(* Type correctness.                                                       *)
THEOREM EvaluationTypeCorrect == Spec => []TypeOK
<1>1. Init => TypeOK
  BY DEF Init, TypeOK, NoDecision
<1>2. ASSUME TypeOK, [Next]_vars PROVE TypeOK'
  <2>1. ASSUME NEW S \in Compilable, Deploy(S) PROVE TypeOK'
    BY <1>2, <2>1 DEF TypeOK, Deploy, Compilable, NoDecision
  <2>2. ASSUME NEW i \in Intent, Evaluate(i) PROVE TypeOK'
    <3> DEFINE M == EvaluatedMandates(bundle, BuildOpaInput(i))
    <3>1. M \subseteq Policy  BY <1>2 DEF TypeOK, EvaluatedMandates, Policy
    <3>2. Outcome(M) \in {"ALLOW", "DENY", "HUMAN_REVIEW"}  BY DEF Outcome
    <3> HIDE DEF M
    <3>3. /\ bundle' = bundle
          /\ decision' = Decided(i, Outcome(M), IF QueryFails(M) THEN {} ELSE M)
      BY <2>2 DEF Evaluate, M
    <3> QED  BY <1>2, <3>1, <3>2, <3>3 DEF TypeOK, Decided
  <2>3. ASSUME NEW i \in Intent, EvaluateWithoutAnswer(i) PROVE TypeOK'
    BY <1>2, <2>3 DEF TypeOK, EvaluateWithoutAnswer, Decided
  <2>4. CASE UNCHANGED vars
    BY <1>2, <2>4 DEF TypeOK, vars
  <2> QED  BY <1>2, <2>1, <2>2, <2>3, <2>4 DEF Next
<1> QED  BY <1>1, <1>2, PTL DEF Spec

(* The engine's precedence: ALLOW means that some policy matched and every *)
(* one that did allows.                                                    *)
LEMMA AllowMeansAll ==
  ASSUME NEW M \in SUBSET Policy, Outcome(M) = "ALLOW"
  PROVE  M # {} /\ ~QueryFails(M) /\ \A p \in M : p.effect = "allow"
<1>1. /\ ~QueryFails(M) /\ ~SaysEffect(M, "require_human_review")
      /\ SaysEffect(M, "allow") /\ ~Denies(M)
  BY DEF Outcome
<1>2. \A p \in M : p.effect \in Effect  BY EvaluationAssumption
<1> QED  BY <1>1, <1>2 DEF SaysEffect, Denies, Effect

(* An ALLOW is unanimous, whatever the bundle.                             *)
THEOREM AllowUnanimous == Spec => []AllowIsUnanimous
<1>1. Init => AllowIsUnanimous
  BY DEF Init, AllowIsUnanimous, NoDecision
<1>2. ASSUME TypeOK, AllowIsUnanimous, [Next]_vars PROVE AllowIsUnanimous'
  <2>1. ASSUME NEW i \in Intent, Evaluate(i) PROVE AllowIsUnanimous'
    <3> DEFINE M == EvaluatedMandates(bundle, BuildOpaInput(i))
    <3>1. M \subseteq Policy  BY <1>2 DEF TypeOK, EvaluatedMandates, Policy
    <3> HIDE DEF M
    <3>2. decision' = Decided(i, Outcome(M), IF QueryFails(M) THEN {} ELSE M)
      BY <2>1 DEF Evaluate, M
    <3> QED  BY <3>1, <3>2, AllowMeansAll DEF AllowIsUnanimous, Decided
  <2> QED  BY <1>2, <2>1
      DEF AllowIsUnanimous, Next, vars, Deploy, EvaluateWithoutAnswer, Decided, NoDecision
<1> QED  BY <1>1, <1>2, EvaluationTypeCorrect, PTL DEF Spec

(* A policy narrowed to an agent or a resource never decides.              *)
THEOREM NarrowedNever == Spec => []NarrowedNeverDecides
<1>1. Init => NarrowedNeverDecides
  BY DEF Init, NarrowedNeverDecides, NoDecision
<1>2. ASSUME NarrowedNeverDecides, [Next]_vars PROVE NarrowedNeverDecides'
  <2>1. ASSUME NEW i \in Intent, Evaluate(i) PROVE NarrowedNeverDecides'
    <3> DEFINE M == EvaluatedMandates(bundle, BuildOpaInput(i))
    <3>1. \A p \in M : p.agent = None /\ p.resource = None
      BY DEF EvaluatedMandates, Matches, Says, BuildOpaInput
    <3> HIDE DEF M
    <3>2. decision' = Decided(i, Outcome(M), IF QueryFails(M) THEN {} ELSE M)
      BY <2>1 DEF Evaluate, M
    <3> QED  BY <3>1, <3>2 DEF NarrowedNeverDecides, Decided
  <2> QED  BY <1>2, <2>1
      DEF NarrowedNeverDecides, Next, vars, Deploy, EvaluateWithoutAnswer, Decided, NoDecision
<1> QED  BY <1>1, <1>2, PTL DEF Spec

(* No deploy of further policies weakens a deny or a review.               *)
THEOREM AddingSafe == Spec => AddingNeverOverrides
<1>1. ASSUME TypeOK, TypeOK' PROVE [bundle \subseteq bundle' =>
       \A i \in Intent :
         LET M == EvaluatedMandates(bundle, BuildOpaInput(i))
             N == EvaluatedMandates(bundle', BuildOpaInput(i))
         IN  M # {} /\ Outcome(M) # "ALLOW" => Outcome(N) # "ALLOW"]_bundle
  <2>1. SUFFICES ASSUME bundle \subseteq bundle', NEW i \in Intent,
                        EvaluatedMandates(bundle, BuildOpaInput(i)) # {},
                        Outcome(EvaluatedMandates(bundle, BuildOpaInput(i))) # "ALLOW",
                        Outcome(EvaluatedMandates(bundle', BuildOpaInput(i))) = "ALLOW"
                 PROVE  FALSE
    OBVIOUS
  <2> DEFINE M == EvaluatedMandates(bundle, BuildOpaInput(i))
             N == EvaluatedMandates(bundle', BuildOpaInput(i))
  <2>2. M \subseteq N  BY <2>1 DEF EvaluatedMandates
  <2>3. N \subseteq Policy  BY <1>1 DEF TypeOK, EvaluatedMandates, Policy
  <2>4. M # {} /\ Outcome(M) # "ALLOW" /\ Outcome(N) = "ALLOW"  BY <2>1
  <2> HIDE DEF M, N
  <2>5. ~QueryFails(N) /\ \A p \in N : p.effect = "allow"
    BY <2>3, <2>4, AllowMeansAll
  <2>6. ~QueryFails(M) /\ SaysEffect(M, "allow")
        /\ ~SaysEffect(M, "require_human_review") /\ ~Denies(M)
    BY <2>2, <2>4, <2>5 DEF QueryFails, SaysEffect, Denies
  <2> QED  BY <2>4, <2>6 DEF Outcome
<1> QED  BY <1>1, EvaluationTypeCorrect, PTL DEF AddingNeverOverrides
===============================================================================
