CONSTANTS
  NoUnit = NoUnit
  NoType = NoType
  ContinueCompilation = FALSE
  Units <- MCUnits
  Kind <- MCKind
  Host <- MCHost
  Contains <- MCContains
  TUItems <- MCTUItems
  Args <- MCArgs
  Deps <- MCDeps
  Name <- MCName
  Formals <- MCFormals
  Locals <- MCLocals
  Entries <- MCEntries
  ArgLetter <- MCArgLetter
  NameRank <- MCNameRank

SPECIFICATION Spec

INVARIANT TypeOK
INVARIANT UnitsInHostTable
INVARIANT DepsIsolated
INVARIANT HostDictionaryPreserved

\* The resolver stops once the translation unit is done or has failed.
CHECK_DEADLOCK FALSE
