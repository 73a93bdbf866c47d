\* Module m declares type t with generic bindings; module m2 of the same
\* file neither declares t nor uses m.  Spec section 7 says an error is a
\* diagnostic, never a null dereference.
CONSTANTS
  Sources <- MCSourcesClassLeak
  TildeKeys <- MCTildeKeys
SPECIFICATION Spec
INVARIANTS
  ResolutionNeverCrashes
\* Resolution stops after the last unit or at the first error.
CHECK_DEADLOCK FALSE
