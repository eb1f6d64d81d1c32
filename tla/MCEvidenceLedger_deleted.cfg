SPECIFICATION Spec
CONSTANTS
  None = None
  a1 = a1
  a2 = a2
  n1 = n1
  org = org
  noOrg = noOrg
  Agent = {a1, a2}
  Nonce = {n1}
  Scope = {org, noOrg}
  AgentScope <- SharedScope
  V1Scope = {org}
  IntentReq <- TwoAgents
  ResolveReq <- OneReviewer
  Managed = {}
INVARIANTS
  DeletionShows
CHECK_DEADLOCK FALSE
