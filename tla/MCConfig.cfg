SPECIFICATION Spec
CONSTANTS
  Documents <- MCDocuments
  MaxBlock = 18
INVARIANTS TypeOK ListsAreSound NoDangling LeftOver GuardsAsWritten AreaAsWritten
CHECK_DEADLOCK FALSE
