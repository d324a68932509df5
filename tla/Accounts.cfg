CONSTANTS
  Emails = {boss, pupil}
  AdminEmail = boss
  Passwords = {p1, p2}
  Nobody = Nobody
  Ids = {u1, u2}
  Requests = {q1, q2}
SPECIFICATION Spec
SYMMETRY Symmetry
INVARIANTS TypeOK OneAccountPerEmail AnswersAreStored
PROPERTIES ImplementsDirectory
CHECK_DEADLOCK FALSE
