SPECIFICATION NormSpec
CONSTANTS
  Requested <- MCRequested
  Documents <- MCDocuments
INVARIANTS
  InTargetForm
  RefsKept
  MeaningKept
