\* Every source of MC_InterfaceGenerics: symbol ids are distinct, the
\* type-bound procedures are emitted, and nested scopes keep the unit's
\* operators.
CONSTANTS
  Sources <- MCSources
  TildeKeys <- MCTildeKeys
SPECIFICATION Spec
INVARIANTS
  TypeOK
  TypeBoundProceduresEmitted
  NestedScopesKeepUnitOperators
\* Resolution stops after the last unit or at the first error.
CHECK_DEADLOCK FALSE
