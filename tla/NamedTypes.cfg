SPECIFICATION Spec
CONSTANTS
  Types <- MCTypes
  Reserved = "SecuritySchemes"
  MaxDecls = 2
  MaxRefs = 1
INVARIANTS
  RefsResolve
  MissingReportedOnce
