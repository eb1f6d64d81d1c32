-------------------------- MODULE MCPolicyEvaluation --------------------------
(* Small instances of PolicyEvaluation for TLC.                            *)
EXTENDS PolicyEvaluation, TLC

CONSTANTS p1, pay, lend, g1, g2, amount, tag

(* Conditions are on the odd numbers, so that a field may be below, at,    *)
(* between and above them.                                                 *)
Numbers == { <<Number, n>> : n \in 0 .. 4 }

Values == Numbers \cup { <<Bool, 0>>, <<Bool, 1>>, <<String, 1>>, <<String, 2>> }

Contained == { <<<<String, 2>>, <<String, 1>>>> }

Cond(f, op, vs) == [field |-> f, operator |-> op, values |-> vs]

N(n) == <<Number, n>>
T == <<Bool, 1>>
S1 == <<String, 1>>

(* Every operator on `amount`, alone.                                      *)
OneCondition ==
  { <<Cond(amount, op, {N(n)})>> :
      op \in {"<=", ">=", "<", ">", "==", "!="}, n \in {1, 3} }
  \cup { <<Cond(amount, op, {v})>> : op \in {"==", "!="}, v \in {T, S1} }
  \cup { <<Cond(amount, "in", vs)>> : vs \in {{N(1), N(3)}, {T, S1}} }
  \cup { <<Cond(amount, "contains", {S1})>>, <<Cond(amount, "exists", {T})>>,
         <<Cond(amount, "exists", {<<Bool, 0>>})>> }

(* Intervals, contradictions, and a second field.                          *)
MoreConditions ==
  { <<>>,
    <<Cond(amount, ">=", {N(1)}), Cond(amount, "<=", {N(3)})>>,
    <<Cond(amount, ">", {N(1)}), Cond(amount, "<", {N(3)})>>,
    <<Cond(amount, ">=", {N(3)}), Cond(amount, ">", {N(3)})>>,
    <<Cond(amount, "<=", {N(1)}), Cond(amount, "!=", {N(1)})>>,
    <<Cond(amount, "==", {N(1)}), Cond(amount, "==", {N(3)})>>,
    <<Cond(amount, "==", {T}), Cond(amount, "<", {N(1)})>>,
    <<Cond(amount, "in", {N(1), N(3)}), Cond(amount, "!=", {N(1)})>>,
    <<Cond(tag, "==", {S1})>>,
    <<Cond(tag, "!=", {S1})>>,
    <<Cond(tag, "==", {S1}), Cond(amount, "<=", {N(1)})>>,
    <<Cond(tag, "==", {<<String, 2>>}), Cond(amount, ">", {N(1)})>>,
    <<Cond(tag, "exists", {<<Bool, 0>>}), Cond(amount, ">", {N(3)})>> }

Conditions == OneCondition \cup MoreConditions

Pol(id, act, agent, resource, effect, cs) ==
  [id |-> id, principal |-> p1, action |-> act, agent |-> agent,
   resource |-> resource, effect |-> effect, conditions |-> cs]

(* A policy that denies or asks for a review, and one that allows, on      *)
(* every two lists of conditions, and each alone.                          *)
Restricting ==
  { Pol(1, pay, None, None, IF cs \in OneCondition THEN "deny" ELSE "require_human_review", cs) :
      cs \in Conditions }

Allowing == { Pol(2, pay, None, None, "allow", cs) : cs \in Conditions }

(* Policies narrowed to agents and resources, for two actions of which one *)
(* is no known scope.                                                      *)
Narrowed ==
  { Pol(1, act, g, r, "allow", <<>>) : act \in {pay, lend}, g \in {None, g1}, r \in {None, N(1)} }
  \cup { Pol(3, pay, g, None, "deny", <<>>) : g \in {g1, g2} }

Pairs ==
  { {p} : p \in Restricting \cup Allowing \cup Narrowed }
  \cup { {p, q} : p \in Restricting, q \in Allowing }
  \cup { {p, q} : p, q \in Narrowed }

Intents ==
  { [action |-> pay, principal |-> p1, agent |-> g1, fields |-> (amount :> x @@ tag :> y)] :
      x \in (Values \ {<<Bool, 0>>}) \cup {None}, y \in {None, S1} }
  \cup { [action |-> lend, principal |-> p1, agent |-> g2,
          fields |-> (amount :> N(1) @@ tag :> None)] }
===============================================================================
