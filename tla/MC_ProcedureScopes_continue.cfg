CONSTANTS
  NoUnit = NoUnit
  NoType = NoType
  ContinueCompilation = TRUE
  Units <- MCUnits
  Kind <- MCKind
  Host <- MCHost
  Contains <- MCContains
  TUItems <- MCTUItems
  Args <- MCArgs
  Deps <- MCDeps
  Name <- MCName
  Formals <- MCFormals
  Locals <- MCLocals
  Entries <- MCEntries
  ArgLetter <- MCArgLetter
  NameRank <- MCNameRank

SPECIFICATION Spec

INVARIANT UnitsInHostTable

\* The resolver stops once the translation unit is done or has failed.
CHECK_DEADLOCK FALSE
