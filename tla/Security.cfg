SPECIFICATION Spec
CONSTANTS
  opA = opA
  opB = opB
  s1 = s1
  s2 = s2
  Absent = Absent
  Ops <- MCOps
  Schemes <- MCSchemes
  Inputs <- MCInputs
INVARIANTS
  Precedence
  UndeclaredReported
  NoSchemeVanishes
