--------------------------- MODULE DecisionRegister ---------------------------
(***************************************************************************)
(* What the decision pipeline promises its callers, without transactions,  *)
(* evidence or failures: a register with at most one outcome for every     *)
(* (agent, nonce), written once; an outcome of HUMAN_REVIEW may be given   *)
(* one verdict, written once.                                              *)
(***************************************************************************)
CONSTANT Key                    \* (agent, nonce) pairs

VARIABLES outcomeOf, verdictOf

Undecided == "none"

Init ==
  /\ outcomeOf = [k \in Key |-> Undecided]
  /\ verdictOf = [k \in Key |-> Undecided]

Record(k, o) ==
  /\ outcomeOf[k] = Undecided
  /\ outcomeOf' = [outcomeOf EXCEPT ![k] = o]
  /\ UNCHANGED verdictOf

Resolve(k, v) ==
  /\ outcomeOf[k] = "HUMAN_REVIEW"
  /\ verdictOf[k] = Undecided
  /\ verdictOf' = [verdictOf EXCEPT ![k] = v]
  /\ UNCHANGED outcomeOf

Next ==
  \E k \in Key :
    \/ \E o \in {"ALLOW", "DENY", "HUMAN_REVIEW"} : Record(k, o)
    \/ \E v \in {"approved", "denied"} : Resolve(k, v)

Spec == Init /\ [][Next]_<<outcomeOf, verdictOf>>
=============================================================================
