----------------------------- MODULE VerifyWalk -----------------------------
(***************************************************************************)
(* The scope-integrity, call-resolution, dependency and parameter-         *)
(* assignment checks of the ASR verifier (VerifyVisitor in                 *)
(* src/src/libasr/asr_verify.cpp), as a walk over a small tree of symbol   *)
(* tables.                                                                 *)
(*                                                                         *)
(* The shape of the tree (which table lexically holds which, the           *)
(* statements of each body) is given by CONSTANTS.  The fields a buggy     *)
(* pass could leave wrong (a table's parent pointer, its counter, its      *)
(* asr_owner round trip, a Function's stored dependency list) are chosen   *)
(* in Init, at most one scope fault and one dependency fault per tree.     *)
(*                                                                         *)
(* The recursive visitor is a stack of frames, one per visit_* call that   *)
(* is in progress; each step handles the next symbol or statement of the  *)
(* innermost frame, or returns from it.  A failed require() ends the walk  *)
(* with "rejected" (VerifyAbort); a null dereference ends it with "crash". *)
(*                                                                         *)
(* An Enum is a scope like the others (visit_UserDefinedType) whose        *)
(* members carry constant values; the tree holds one Enum, and which       *)
(* classification, common type and member values it has is chosen in Init *)
(* too (VerifyChecks).  A Struct is such a scope too; its alignment is    *)
(* chosen in Init in the same way.                                         *)
(***************************************************************************)
EXTENDS Naturals, Sequences, FiniteSets, VerifyChecks

CONSTANTS
  Scope,              \* the symbol tables of the tree
  TU,                 \* the TranslationUnit's table
  Null,               \* nullptr
  Kind,               \* Kind[s]: "TranslationUnit", "Program", "Module", "Function", "Block", "Enum" or "Struct"
  Up,                 \* Up[s]: the table that holds the symbol owning s (Null for TU)
  Children,           \* Children[s]: the scope-owning symbols of s, in get_scope() order
  Body,               \* Body[s]: the statements of s, records [op, arg]
  Params,             \* names of variables with Parameter storage
  Ctr0,               \* the counters the symbol tables were created with (injective)
  ParentFaultTargets, \* values a corrupted parent pointer may hold
  AlignWidth          \* the width of int64_t, scaled down

ASSUME TU \in Scope /\ Up[TU] = Null /\ Kind[TU] = "TranslationUnit"

Fns == {s \in Scope : Kind[s] = "Function"}
Counters == {Ctr0[s] : s \in Scope}
ChildSet(s) == {Children[s][i] : i \in DOMAIN Children[s]}
Calls(s) == {Body[s][i].arg : i \in {j \in DOMAIN Body[s] : Body[s][j].op = "call"}}
BlockCalls(s) == {Body[s][i].arg : i \in {j \in DOMAIN Body[s] : Body[s][j].op = "blockcall"}}
Assignments(s, v) == {i \in DOMAIN Body[s] : Body[s][i] = [op |-> "assign", arg |-> v]}

VARIABLES
  par,                    \* m_symtab->parent of every table
  ctr,                    \* m_symtab->counter of every table
  ownerOk,                \* asr_owner points to the node, and the node's symtab back to the table
  deps,                   \* m_dependencies of every Function
  stack,                  \* the visit_* calls in progress, innermost last
  current_symtab,
  id_symtab_map,          \* the counters already seen (its keys)
  function_dependencies,  \* the calls of the current Function that cross a scope
  const_assigned,         \* pairs <<counter, name>> of Parameter variables assigned
  verdict,
  enumv,                  \* the Enum's m_enum_value_type, m_type and member values
  align                   \* the Struct's m_alignment

tree == <<par, ctr, ownerOk, deps, enumv, align>>
walk == <<stack, current_symtab, id_symtab_map, function_dependencies, const_assigned, verdict>>
vars == <<tree, walk>>

-----------------------------------------------------------------------------
(***************************************************************************)
(* The invariants the verifier is meant to check (spec 4.2 and 9), on the  *)
(* tree as a whole.                                                        *)
(***************************************************************************)

RECURSIVE AncestorsOrSelf(_)
AncestorsOrSelf(s) == IF s = Null THEN {} ELSE {s} \cup AncestorsOrSelf(Up[s])

\* The names visible from table s: the symbols of s and of its ancestors.
Visible(s) == UNION {ChildSet(a) : a \in AncestorsOrSelf(s)}

\* The Blocks nested in s without crossing another Function.
RECURSIVE BlocksUnder(_)
BlocksUnder(s) ==
  LET bs == {b \in ChildSet(s) : Kind[b] = "Block"}
  IN  bs \cup UNION {BlocksUnder(b) : b \in bs}

\* site and its ancestors up to the enclosing Function.
RECURSIVE ChainToFunction(_)
ChainToFunction(site) ==
  IF Kind[site] \in {"Function", "TranslationUnit"} THEN {site}
  ELSE {site} \cup ChainToFunction(Up[site])

\* The dependencies of f: calls from f or its Blocks whose target lives
\* outside the caller's chain of tables up to f (spec, section 9).
WalkedDeps(f) ==
  {t \in Fns : \E site \in {f} \cup BlocksUnder(f) :
                  t \in Calls(site) /\ Up[t] \notin ChainToFunction(site)}

WellFormed ==
  /\ \A s \in Scope : par[s] = Up[s] /\ ownerOk[s]
  /\ \A s, t \in Scope : s # t => ctr[s] # ctr[t]
  /\ \A s \in Scope : Calls(s) \cup BlockCalls(s) \subseteq Visible(s)
  /\ \A f \in Fns : deps[f] = WalkedDeps(f) /\ deps[f] \subseteq Visible(Up[f])
  /\ \A s \in Scope, v \in Params : Cardinality(Assignments(s, v)) <= 1
  /\ \A s \in Scope : Kind[s] = "Enum" => EnumClassMatches(enumv)
  /\ \A s \in Scope : Kind[s] = "Struct" => AlignmentMatches(align, AlignWidth)

-----------------------------------------------------------------------------
(***************************************************************************)
(* The trees the walk is run on: the intended one, or one with a single   *)
(* corrupted parent pointer, counter or owner, combined with the intended  *)
(* dependency lists or ones with a single name added or dropped.           *)
(***************************************************************************)

AllOwned == [s \in Scope |-> TRUE]
ScopeFaults ==
  {[p |-> Up, c |-> Ctr0, o |-> AllOwned]}
  \cup {[p |-> [Up EXCEPT ![s] = x], c |-> Ctr0, o |-> AllOwned] :
          s \in Scope, x \in ParentFaultTargets}
  \cup {[p |-> Up, c |-> [Ctr0 EXCEPT ![s] = Ctr0[t]], o |-> AllOwned] :
          s \in Scope, t \in Scope}
  \cup {[p |-> Up, c |-> Ctr0, o |-> [AllOwned EXCEPT ![s] = FALSE]] : s \in Scope}

IntendedDeps == [f \in Fns |-> WalkedDeps(f)]
DepFaults ==
  {IntendedDeps}
  \cup {[IntendedDeps EXCEPT ![f] = @ \cup {x}] : f \in Fns, x \in Fns}
  \cup {[IntendedDeps EXCEPT ![f] = @ \ {x}] : f \in Fns, x \in Fns}

\* The enum and alignment checks do not read the tree's pointers, so every
\* enum and every alignment is tried on the intended tree, one at a time,
\* and trees with a fault carry a well-formed enum and alignment.
DefaultEnum ==
  [kind |-> "IntegerConsecutiveFromZero", type |-> "Integer", values |-> <<0, 1>>]
DefaultAlign == [kind |-> "const", v |-> 4]
NodeInputsFor(p, c, o, d) ==
  IF p = Up /\ c = Ctr0 /\ o = AllOwned /\ d = IntendedDeps
  THEN (EnumInputs \X {DefaultAlign}) \cup ({DefaultEnum} \X AlignInputs(AlignWidth))
  ELSE {<<DefaultEnum, DefaultAlign>>}

-----------------------------------------------------------------------------
(***************************************************************************)
(* The verifier.                                                           *)
(***************************************************************************)

\* symtab_in_scope: the first table up the parent chain of s whose counter
\* is that of sym's parent table must hold sym.
RECURSIVE symtab_in_scope(_, _)
symtab_in_scope(s, sym) ==
  /\ s # Null
  /\ IF ctr[s] = ctr[par[sym]] THEN Up[sym] = s
     ELSE symtab_in_scope(par[s], sym)

\* SymbolTable::resolve_symbol: d is held by s or one of its parents.
RECURSIVE resolve_symbol(_, _)
resolve_symbol(s, d) == s # Null /\ (Up[d] = s \/ resolve_symbol(par[s], d))

\* The requires at the start of visit_Program, visit_Module, visit_Function,
\* visit_Block and visit_AssociateBlock.
ScopeChecks(s) ==
  /\ par[s] = current_symtab
  /\ Kind[s] \in {"Program", "Module"} => par[par[s]] = Null
  /\ ctr[s] \notin id_symtab_map
  /\ ownerOk[s]

\* The checks at the end of visit_Function on its dependency list.
FunctionDepsOk(f) ==
  /\ \A d \in deps[f] : resolve_symbol(par[f], d)
  /\ deps[f] \subseteq function_dependencies
  /\ function_dependencies \subseteq deps[f]

\* The requires a scope ends with: visit_Function's on the dependency list,
\* visit_Enum's on the classification of the member values, visit_Struct's
\* on the alignment.
LeaveChecks(s) ==
  /\ Kind[s] = "Function" => FunctionDepsOk(s)
  /\ Kind[s] = "Enum" => IsEnumTypeCorrect(enumv)
  /\ Kind[s] = "Struct" => IsAlignmentOk(align, AlignWidth)

\* The condition under which visit_SubroutineCall records a call to t made
\* from table cur: cur is owned by a symbol, t's parent is not cur and, when
\* cur is a Block, not cur's parent either.
IsDependency(cur, t) ==
  /\ Kind[cur] # "TranslationUnit"
  /\ ctr[cur] # ctr[par[t]]
  /\ Kind[cur] = "Block" => ctr[par[cur]] # ctr[par[t]]

\* A frame: the table being visited and what is left of its symbols and body.
Frame(s, todo) ==
  [scope |-> s, todo |-> todo, savedCur |-> current_symtab,
   savedDeps |-> function_dependencies]

Items(s) ==
  [i \in DOMAIN Children[s] |-> [op |-> "visit", arg |-> Children[s][i]]] \o Body[s]

Top == stack[Len(stack)]
NextItem == Head(Top.todo)
Running == verdict = "running" /\ stack # <<>> /\ Top.todo # <<>>
Consume == [stack EXCEPT ![Len(stack)].todo = Tail(@)]

Reject == verdict' = "rejected" /\ UNCHANGED <<tree, stack, current_symtab,
            id_symtab_map, function_dependencies, const_assigned>>
Crash == verdict' = "crash" /\ UNCHANGED <<tree, stack, current_symtab,
            id_symtab_map, function_dependencies, const_assigned>>

Init ==
  /\ \E f \in ScopeFaults : par = f.p /\ ctr = f.c /\ ownerOk = f.o
  /\ deps \in DepFaults
  /\ \E x \in NodeInputsFor(par, ctr, ownerOk, deps) : enumv = x[1] /\ align = x[2]
  /\ stack = <<>>
  /\ current_symtab = Null
  /\ id_symtab_map = {}
  /\ function_dependencies = {}
  /\ const_assigned = {}
  /\ verdict = "running"

visit_TranslationUnit ==
  /\ verdict = "running" /\ stack = <<>>
  /\ IF par[TU] = Null /\ ownerOk[TU]
     THEN /\ stack' = <<Frame(TU, Items(TU))>>
          /\ current_symtab' = TU
          /\ id_symtab_map' = {ctr[TU]}
          /\ UNCHANGED <<tree, function_dependencies, const_assigned, verdict>>
     ELSE Reject

\* Entering a scope-owning symbol met in the symbol loop of the current table.
visit_scope(s) ==
  /\ Running /\ NextItem = [op |-> "visit", arg |-> s]
  /\ IF ScopeChecks(s)
     THEN /\ stack' = Append(Consume, Frame(s, Items(s)))
          /\ current_symtab' = s
          /\ id_symtab_map' = id_symtab_map \cup {ctr[s]}
          /\ function_dependencies' =
               IF Kind[s] = "Function" THEN {} ELSE function_dependencies
          /\ UNCHANGED <<tree, const_assigned, verdict>>
     ELSE Reject

\* Variant of visit_SubroutineCall that records the caller's table in
\* place of the callee.
visit_SubroutineCall_caller(t) ==
  /\ Running /\ NextItem = [op |-> "call", arg |-> t]
  /\ IF par[t] = Null THEN Crash
     ELSE IF ~symtab_in_scope(current_symtab, t) THEN Reject
     ELSE /\ stack' = Consume
          /\ function_dependencies' =
               IF IsDependency(current_symtab, t)
               THEN function_dependencies \cup {current_symtab} ELSE function_dependencies
          /\ UNCHANGED <<tree, current_symtab, id_symtab_map, const_assigned, verdict>>

visit_SubroutineCall(t) ==
  /\ Running /\ NextItem = [op |-> "call", arg |-> t]
  /\ IF par[t] = Null THEN Crash
     ELSE IF ~symtab_in_scope(current_symtab, t) THEN Reject
     ELSE /\ stack' = Consume
          /\ function_dependencies' =
               IF IsDependency(current_symtab, t)
               THEN function_dependencies \cup {t} ELSE function_dependencies
          /\ UNCHANGED <<tree, current_symtab, id_symtab_map, const_assigned, verdict>>

visit_Assignment(v) ==
  LET key == <<ctr[current_symtab], v>> IN
  /\ Running /\ NextItem = [op |-> "assign", arg |-> v]
  /\ IF v \in Params /\ key \in const_assigned THEN Reject
     ELSE /\ stack' = Consume
          /\ const_assigned' =
               IF v \in Params THEN const_assigned \cup {key} ELSE const_assigned
          /\ UNCHANGED <<tree, current_symtab, id_symtab_map, function_dependencies, verdict>>

\* A BlockCall walks the Block's body again, in the Block's table.
visit_BlockCall(b) ==
  /\ Running /\ NextItem = [op |-> "blockcall", arg |-> b]
  /\ IF par[b] = Null THEN Crash
     ELSE IF ~symtab_in_scope(current_symtab, b) THEN Reject
     ELSE /\ stack' = Append(Consume, Frame(b, Body[b]))
          /\ current_symtab' = b
          /\ UNCHANGED <<tree, id_symtab_map, function_dependencies, const_assigned, verdict>>

\* Variant of leave_scope that does not restore the caller's
\* function_dependencies after a Function.
leave_scope_no_restore ==
  LET s == Top.scope
      isFn == Kind[s] = "Function"
  IN
  /\ verdict = "running" /\ stack # <<>> /\ Top.todo = <<>>
  /\ IF ~LeaveChecks(s) THEN Reject
     ELSE /\ stack' = SubSeq(stack, 1, Len(stack) - 1)
          /\ current_symtab' = Top.savedCur
          /\ verdict' = IF Len(stack) = 1 THEN "accepted" ELSE verdict
          /\ UNCHANGED <<tree, id_symtab_map, function_dependencies, const_assigned>>

\* Returning from the innermost visit_* call; visit_Function first checks
\* the dependency list, visit_Enum the classification, and visit_Function
\* restores the caller's function_dependencies.
leave_scope ==
  LET s == Top.scope
      isFn == Kind[s] = "Function"
  IN
  /\ verdict = "running" /\ stack # <<>> /\ Top.todo = <<>>
  /\ IF ~LeaveChecks(s) THEN Reject
     ELSE /\ stack' = SubSeq(stack, 1, Len(stack) - 1)
          /\ current_symtab' = Top.savedCur
          /\ function_dependencies' =
               IF isFn THEN Top.savedDeps ELSE function_dependencies
          /\ verdict' = IF Len(stack) = 1 THEN "accepted" ELSE verdict
          /\ UNCHANGED <<tree, id_symtab_map, const_assigned>>

Next ==
  \/ visit_TranslationUnit
  \/ \E s \in Scope : visit_scope(s)
  \/ \E t \in Fns : visit_SubroutineCall(t)
  \/ \E v \in Params : visit_Assignment(v)
  \/ \E b \in Scope : visit_BlockCall(b)
  \/ leave_scope

\* The visitor is a sequential recursion: while it runs, some step is enabled.
Spec == Init /\ [][Next]_vars /\ WF_vars(Next)

-----------------------------------------------------------------------------

TypeOK ==
  /\ par \in [Scope -> Scope \cup {Null}]
  /\ ctr \in [Scope -> Counters]
  /\ deps \in [Fns -> SUBSET Fns]
  /\ current_symtab \in Scope \cup {Null}
  /\ id_symtab_map \subseteq Counters
  /\ function_dependencies \subseteq Fns
  /\ const_assigned \subseteq Counters \X Params
  /\ verdict \in {"running", "accepted", "rejected", "crash"}
  /\ enumv \in EnumInputs
  /\ align \in AlignInputs(AlignWidth)

\* asr_verify returns success exactly on the trees that satisfy the checked
\* invariants, and it always returns: the walk of visit_TranslationUnit and
\* the visit_* handlers it recurses into implements VerifierSpec.
Abstract == INSTANCE VerifierSpec WITH wellFormed <- WellFormed
VerifierRefinement == Abstract!Spec

=============================================================================
