\* A program with an operator interface: spec 4.3.5 says it becomes a
\* CustomOperator of the program when the program is finalised.
CONSTANTS
  Sources <- MCSourcesProgram
  TildeKeys <- MCTildeKeys
SPECIFICATION Spec
INVARIANTS
  InterfacesEmittedInScope
\* Resolution stops after the last unit or at the first error.
CHECK_DEADLOCK FALSE
