CONSTANTS
  Hashes = {a, b}
  Pieces <- AnyPieces
  MaxIds = 6
SPECIFICATION Spec
INVARIANT SecondRunChangesNothing
