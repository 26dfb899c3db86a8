SPECIFICATION Spec
CONSTANTS
  Bits <- MCBits
  NoDatum <- MCNoDatum
  Attributes <- Plain
  Cells <- MCCells
  Results <- MCResults
  Names <- MCNames
  Indices <- MCIndices
  Asked <- Targets
  NameWidth <- MCNameWidth
INVARIANTS TypeOK NamesResolve GetsWhatIsThere OnlySubscriptsPanic Aligned
CHECK_DEADLOCK FALSE
