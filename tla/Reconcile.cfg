CONSTANTS
  A = A
  B = B
  C = C
  Pieces <- FewTexts
  MaxIds = 6
  Attempts = {t1, t2}
  NoAttempt = NoAttempt
  MaxAttempts = 2
SYMMETRY Symmetry
SPECIFICATION InStepSpec
INVARIANTS LateTypeOK RowsAreThePieces SecondRunChangesNothing ChunksAreCurrent
PROPERTIES KeepsWhatDidNotChange
