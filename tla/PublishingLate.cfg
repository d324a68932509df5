CONSTANTS
  Lessons = {l1}
  Texts = {old}
  Publishers = {p1}
  Editors = {}
  MaxAttempts = 2
  MaxLate = 1
SPECIFICATION LateSpec
INVARIANT NoStrandedPublish
CHECK_DEADLOCK FALSE
