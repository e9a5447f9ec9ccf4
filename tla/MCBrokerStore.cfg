SPECIFICATION StoreSpec
CONSTANTS
  p1 = p1
  p2 = p2
  p3 = p3
  pr1 = pr1
  h1 = h1
  h2 = h2
  t1 = t1
  Packets = {p1, p2, p3}
  NoPacket = NoPacket
  PRs = {pr1}
  Heads = {h1, h2}
  Threads = {t1}
  Request <- MCRequest
  Keys <- MCKeys
  Times <- MCTimes
  Window = 1
  DayLength = 1
  RequestsPerHour = 2
  DailyMutations = 2
  ActionDailyLimit <- MCActionDailyLimit
  IndeterminateLimit = 1
INVARIANT StoreTypeOK
INVARIANT ActiveAttemptOwned
INVARIANT NoBlindRetry
INVARIANT VerdictAgreement
INVARIANT MutationBudgetRespected
INVARIANT CircuitBacked
PROPERTY KeepsPromise
