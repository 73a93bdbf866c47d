CONSTANTS
  NoUnit = NoUnit
  NoType = NoType
  ContinueCompilation = FALSE
  Units <- MCUnits
  Kind <- MCKind
  Host <- MCHostInFunction
  Contains <- MCContainsInFunction
  TUItems <- MCTUItems
  Args <- MCArgs
  Deps <- MCDeps
  Name <- MCName
  Formals <- MCFormals
  Locals <- MCLocals
  Entries <- MCEntriesInFunction
  ArgLetter <- MCArgLetter
  NameRank <- MCNameRank

SPECIFICATION Spec

INVARIANT HostDictionaryPreserved

\* The resolver stops once the translation unit is done or has failed.
CHECK_DEADLOCK FALSE
