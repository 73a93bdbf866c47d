CONSTANTS
  Null = Null
  TU = "tu"
  Scope <- MCScopeNested
  Kind <- MCKind
  Up <- MCUpNested
  Children <- MCChildrenNested
  Body <- MCBodyNested
  Params <- MCParams
  Ctr0 <- MCCtr0Nested
  ParentFaultTargets <- MCScopeNested
  AlignWidth <- MCAlignWidth

SPECIFICATION Spec


PROPERTY VerifierRefinement

\* The verifier stops when it has answered.
CHECK_DEADLOCK FALSE
