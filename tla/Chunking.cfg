CONSTANTS
  MaxWords = 6
  Ceilings = {1, 2, 3, 4, 6}
  Budgets = {0, 1, 2, 3, 4}
SPECIFICATION Spec
INVARIANTS TypeOK WithinCeiling NothingLost OverlapWithinBudget CutsWhereItMust BlankLinesKept
CHECK_DEADLOCK FALSE
