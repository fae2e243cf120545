SPECIFICATION Spec
CONSTANTS
  a1 = a1
  a2 = a2
  aq = aq
  b1 = b1
  pathA = pathA
  pathB = pathB
  Paths <- MCPaths
  Params <- MCParams
  NoId = NoId
  Documents <- MCDocuments
  Methods = {"get", "patch", "head"}
INVARIANTS
  AnchorBeforeAlias
