CONSTANTS
  p1 = p1
  pay = pay
  lend = lend
  g1 = g1
  g2 = g2
  amount = amount
  tag = tag
  None = None
  Principal = {p1}
  Action = {pay, lend}
  KnownScope = {pay}
  Agent = {g1, g2}
  Field = {amount, tag}
  Resource <- Numbers
  Value <- Values
  Substring <- Contained
  PolicySet <- Pairs
  Intent <- Intents
SPECIFICATION Spec
INVARIANTS
  AtMostOneMatch
  AllowIsUnanimous
  NarrowedNeverDecides

