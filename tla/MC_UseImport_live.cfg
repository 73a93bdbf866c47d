CONSTANTS
  NoTarget = NoTarget
  Modules <- MCModules
  Mod <- MCMod
  Programs <- MCPrograms

SPECIFICATION Spec

INVARIANT CandidatesLive

\* The resolver stops after the last use statement.
CHECK_DEADLOCK FALSE
