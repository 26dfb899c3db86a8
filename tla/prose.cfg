SPECIFICATION Spec
CONSTANTS
  Characters <- MCCharacters
  Typed <- MCTyped
  Counts <- MCCounts
  Tables <- MCTables
  MaxNames = 3
INVARIANTS ListsNames CountsRows
CHECK_DEADLOCK FALSE
