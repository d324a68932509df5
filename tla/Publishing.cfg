CONSTANTS
  Lessons = {l1, l2}
  Texts = {old, new}
  Publishers = {p1, p2}
  Editors = {e1, e2}
  MaxAttempts = 3
SPECIFICATION Spec
SYMMETRY Symmetry
INVARIANTS TypeOK NoStrandedPublish CompletedMeansFresh OutcomeAgrees
PROPERTIES LiveStaysLive ReadyMeansProcessed LifecycleSafety
CHECK_DEADLOCK FALSE
