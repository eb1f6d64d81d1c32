SPECIFICATION FairSpec
CONSTANTS
  None = None
  a1 = a1
  a2 = a2
  n1 = n1
  org = org
  noOrg = noOrg
  Agent = {a1, a2}
  Nonce = {n1}
  Scope = {org}
  AgentScope <- SharedScope
  V1Scope = {}
  IntentReq <- TwiceSent
  ResolveReq <- TwoReviewers
  Managed = {}
INVARIANTS
  EvidenceAccounts
PROPERTIES
  RequestsEnd
  ImplementsRegister
CHECK_DEADLOCK FALSE
