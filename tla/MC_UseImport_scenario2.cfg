CONSTANTS
  NoTarget = NoTarget
  Modules <- MCModules
  Mod <- MCMod
  Programs <- MCScenario2

SPECIFICATION Spec

INVARIANT MergedGenericIsUnion

\* The resolver stops after the last use statement.
CHECK_DEADLOCK FALSE
