SPECIFICATION Spec
CONSTANTS
  Callers = {c1, c2}
  Sizes = {1}
  Target = 4
  MaxDay = 2
  MaxEvents = 3
  MaxFaults = 0
INVARIANT JournalVerifies
