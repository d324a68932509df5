CONSTANTS
  Students = {s1, s2}
  Requests = {q1, q2}
  Capacities = {1, 2}
  NoLimit = NoLimit
  Completers = {s1}
  MaxRows = 3
SPECIFICATION Spec
PROPERTY LockedJoinsWithinCapacity
CHECK_DEADLOCK FALSE
