CONSTANTS
  Students = {s1, s2, s3}
  Requests = {q1, q2}
  Capacities = {1, 2}
  NoLimit = NoLimit
  Completers = {s1, s2}
  MaxRows = 3
SPECIFICATION Spec
SYMMETRY Symmetry
INVARIANTS TypeOK OneActiveEach NoOrphanRows SeatsRespected OnlyQualifiedJoined CountStaysTrue
PROPERTIES ImplementsBooking
CHECK_DEADLOCK FALSE
