SPECIFICATION Spec
CONSTANT Nothing = Nothing
INVARIANT JournalSafe
INVARIANT ControlsSafe
INVARIANT OperatorSafe
PROPERTY ControlSteps
\* the days and the events of an instance run out
CHECK_DEADLOCK FALSE
