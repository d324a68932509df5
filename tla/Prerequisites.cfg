CONSTANTS
  Courses = {c1,c2,c3}
  Requests = {q1,q2}
SPECIFICATION Spec
SYMMETRY Symmetry
INVARIANTS TypeOK NoDanglingLink
PROPERTIES RunsAsIfAlone
CHECK_DEADLOCK FALSE
