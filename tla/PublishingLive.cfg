CONSTANTS
  Lessons = {l1, l2}
  Texts = {old}
  Publishers = {p1}
  Editors = {e1}
  MaxAttempts = 2
SPECIFICATION StatusSpec
PROPERTIES StatusAnswered LifecycleSpec
CHECK_DEADLOCK FALSE
