SPECIFICATION SuiteSpec
CONSTANTS
  p1 = p1
  p2 = p2
  r1 = r1
  b1 = b1
  b2 = b2
  o1 = o1
  o2 = o2
  pr1 = pr1
  pr2 = pr2
  c1 = c1
  c2 = c2
  Packets = {p1, p2}
  NoPacket = NoPacket
  Repos = {r1}
  Bundles = {b1, b2}
  Assertions = {o1, o2}
  Commits <- MCCommits
  NoCommit = NoCommit
  Order <- MCOrder
  Times <- MCTimes
  Window = 1
  DayLength = 2
  RequestsPerHour = 2
  AssertionsPerHour = 2
  BundlesPerDay = 2
  AttemptsPerDay = 2
  MergesPerDay = 2
  IndeterminateLimit = 2
  MaxPRs = 1
  MaxCount = 1
  PRs = {pr1, pr2}
  PrOf <- SamePr
  MaxExecution = 1
  MaxFaults = 2
  MaxEdits = 1
INVARIANT MergesTrue
INVARIANT ClientSafe
PROPERTY RequestSettles
\* every packet may be answered
CHECK_DEADLOCK FALSE
