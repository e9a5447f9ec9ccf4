SPECIFICATION Spec
SYMMETRY MCSymmetry
CONSTANTS
  b1 = b1
  b2 = b2
  m1 = m1
  m2 = m2
  h1 = h1
  h2 = h2
  p1 = p1
  p2 = p2
  r1 = r1
  r2 = r2
  r3 = r3
  w1 = w1
  w2 = w2
  idA = idA
  idB = idB
  idC = idC
  NoEntry = NoEntry
  f1 = f1
  f2 = f2
  NoRun = NoRun
  u1 = u1
  supervisor = supervisor
  operator = operator
  Bundles = {b1, b2}
  Messages = {m1, m2}
  Helpers = {h1, h2}
  MaxTime = 2
  MaxKills = 1
  MaxMints = 2
  MaxEdits = 1
  BundleLife = 3
  AssertionTTL = 2
  PacketTTL = 2
  MaxAge = 1
  MinRemaining = 1
INVARIANT ApprovalSafe
INVARIANT LedgerSafe
INVARIANT ForgeSafe
INVARIANT MemorySafe
PROPERTY ServiceSteps
\* time, kills and edits of an instance run out
CHECK_DEADLOCK FALSE
