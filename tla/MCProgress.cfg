SPECIFICATION Spec
CONSTANTS
  p1 = p1
  p2 = p2
  pr1 = pr1
  pr2 = pr2
  h1 = h1
  h2 = h2
  t1 = t1
  r1 = r1
  b1 = b1
  b2 = b2
  o1 = o1
  o2 = o2
  q1 = q1
  e1 = e1
  w1 = w1
  idA = idA
  idC = idC
  x1 = x1
  NoPacket = NoPacket
  NoCommit = NoCommit
  None = None
CHECK_DEADLOCK FALSE
PROPERTY AttemptSettles
PROPERTY AcceptedAnswered
PROPERTY TransactionReconciled
PROPERTY SessionReconciled
