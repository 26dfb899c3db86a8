SPECIFICATION Spec
CONSTANT Statements <- MCStatements
INVARIANTS TypeOK JudgesCorrectly
PROPERTIES SliceIsSafe Terminates
CHECK_DEADLOCK FALSE
