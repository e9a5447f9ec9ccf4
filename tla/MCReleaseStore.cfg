SPECIFICATION ReleaseStoreSpec
CONSTANTS
  p1 = p1
  p2 = p2
  p3 = p3
  r1 = r1
  b1 = b1
  b2 = b2
  b3 = b3
  o1 = o1
  o2 = o2
  c1 = c1
  c2 = c2
  Packets = {p1, p2, p3}
  NoPacket = NoPacket
  Repos = {r1}
  Bundles = {b1, b2, b3}
  Assertions = {o1, o2}
  Commits = {c1, c2}
  NoCommit = NoCommit
  Order <- MCOrder
  Times <- MCTimes
  Window = 1
  DayLength = 1
  RequestsPerHour = 2
  AssertionsPerHour = 2
  BundlesPerDay = 2
  AttemptsPerDay = 2
  MergesPerDay = 1
  IndeterminateLimit = 2
  MaxPRs = 2
  MaxCount = 1
INVARIANT ReleaseInv
INVARIANT ReceiptTrue
PROPERTY ReleaseSteps
PROPERTY KeepsReleasePromise
