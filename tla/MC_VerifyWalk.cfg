CONSTANTS
  Null = Null
  TU = "tu"
  Scope <- MCScope
  Kind <- MCKind
  Up <- MCUp
  Children <- MCChildren
  Body <- MCBody
  Params <- MCParams
  Ctr0 <- MCCtr0
  ParentFaultTargets <- MCParentFaultTargets
  AlignWidth <- MCAlignWidth

SPECIFICATION Spec

INVARIANT TypeOK
PROPERTY VerifierRefinement

\* The verifier stops when it has answered.
CHECK_DEADLOCK FALSE
