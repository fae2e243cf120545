SPECIFICATION Spec
CONSTANTS
  Nothing = Nothing
  b1 = b1
  b2 = b2
  b3 = b3
  Statuses = {"200"}
  Types = {"json"}
  Bodies = {b1, b2, b3}
  Titles <- MCTitles
  MaxPayloads = 3
SYMMETRY Symmetry
CHECK_DEADLOCK FALSE
INVARIANTS
  EveryBodyShownOnce
  DescribedByAuthor
  InferenceFillsIn
