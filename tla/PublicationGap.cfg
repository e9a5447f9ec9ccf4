SPECIFICATION PublicationSpec
CONSTANTS
  Coordinators = {k1}
  Runs = {0, 1, 2}
  Contents = {x}
  Life = 9
  MaxFiles = 3
  Unset = Unset
  MaxTime = 3
  MaxCaptures = 3
  MaxKills = 2
  MaxFaults = 0
  MaxLosses = 0
INVARIANT TrustRepairable
CHECK_DEADLOCK FALSE
