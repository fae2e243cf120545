SPECIFICATION Spec
CONSTANTS
  Indents <- MCIndents
  Keys <- MCKeys
  Merged <- MCMerged
  MaxLines = 3
  MaxCopies = 2
CHECK_DEADLOCK FALSE
INVARIANTS
  ScannersAgree
  ConsumedOnlyMeta
  FirstBlockWins
