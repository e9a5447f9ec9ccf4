\* MaxEvents is the code's MAX_EVENTS_PER_SESSION.
SPECIFICATION SuiteSpec
CONSTANTS
  MaxEvents = 32
  s1 = s1
  s2 = s2
  r1 = r1
  r2 = r2
  None = None
  Sessions = {s1, s2}
  NoSession = NoSession
  Offered <- LifecycleStates
  Faults = {"kill", "io"}
  MaxFaults = 3
  MaxTemps = 1
  MaxCompleted = 2
INVARIANT HistorySafe
INVARIANT JournalSafe
INVARIANT EvidenceSafe
PROPERTY JournalSteps
\* a terminal session, or a full archive, stops
CHECK_DEADLOCK FALSE
