# TLA+ models of the LFortran ASR verifier and declaration resolver

This directory holds TLA+ specifications of `src/src/libasr/asr_verify.cpp`. That file has two
parts, and they work together:

* **VerifyVisitor** (lines 1-1404, `asr_verify()`). It is a read-only walk over a
  translation unit's ASR. It re-checks the structural invariants that every later pass relies on:
  the symbol-table tree, the counters, the owner links, the dependency lists, parameter
  assignment, the type shapes and enum classification. It stops at the first failed `require()`
  by throwing `VerifyAbort`.
* **SymbolTableVisitor** (lines 1405-5853, the declaration resolver). It is a mutating walk
  over the parsed Fortran AST that builds symbol tables and symbols. Its work includes:
  * the program units: modules, programs, subroutines and functions;
  * implicit typing;
  * `use` imports and the merging of generic procedures and operators;
  * interfaces, derived types and their type-bound procedures;
  * ENTRY rewriting, templates and instantiation.

  It stops a unit with `SemanticAbort`, or continues past it when `continue_compilation` is set.

The resolver builds the trees that the verifier certifies. The spec (`spec.md`) says that every
tree the resolver produces must be accepted by the verifier.

## Survey

### State

The verifier:

* `current_symtab`, the table of the node being visited;
* `id_symtab_map`, the counters already seen;
* `function_dependencies`, the cross-scope calls of the current Function. It is saved and
  restored around each nested Function;
* `module_dependencies`;
* `const_assigned`, the pairs `(table counter, name)` of parameters already assigned.

The resolver:

* `current_scope`;
* `implicit_dictionary` and `implicit_stack` (one entry per enclosing module), and
  `implicit_mapping` (the dictionary recorded for each procedure);
* `current_function_dependencies`, saved and restored around each procedure;
* `current_procedure_args` and `external_procedures`;
* the flags `in_module`, `in_Subroutine` and `is_interface`;
* the scope accumulators `generic_procedures`, `overloaded_op_procs`, `defined_op_procs`,
  `assgn_proc_names`, `class_procedures` and `class_deferred_procedures`;
* the worklist `to_be_imported_later` of `visit_Use`;
* `entry_functions` and `entry_function_arguments_mapping`.

### Hard behaviours

Nothing runs concurrently. Every difficulty is a long sequence of nested calls in which state
is saved, cleared and restored:

* The verifier visits a Block twice: once from the symbol loop (`visit_Block`) and once from
  each `BlockCall`.
* The dependency rule for calls depends on how deep the call site is nested.
* The resolver's error recovery catches `SemanticAbort` at the translation-unit level with no
  restore of `current_scope`, `implicit_stack` or the flags.
* Contained procedures clear state that their host still needs: the implicit dictionary,
  `current_procedure_args` and `external_procedures`.
* Generic merges on `use` run a worklist to a fixed point.

### Correctness properties (from spec.md sections 4, 5 and 8)

* The verifier accepts exactly the well-formed trees. This covers scope integrity, reference
  integrity, dependency equality as stated in section 9, and at most one assignment of a
  parameter per scope.
* The verifier never fails in any other way.
* Scoped state (`current_symtab`, `current_scope`, function dependencies, the implicit stack) is
  restored on every exit, normal or abort.
* A procedure starts from its module's implicit dictionary (spec 4.3.1: one dictionary is
  pushed per module), with its own implicit statements on top.
* Merging overloads on import is commutative and idempotent.
* The ENTRY argument mapping is as in scenario 6.

`PROJECT.json` lists each component and its status, and each hazard at its source line.

## Modules

| Module | Models | Code |
|---|---|---|
| `VerifierSpec` | the abstract verifier: it stops once, and answers "accepted" exactly when the tree is well formed | spec 4.2 |
| `VerifyWalk` | the verifier's walk over a tree of symbol tables: scope checks, `symtab_in_scope`, the dependency rule, `const_assigned`, BlockCall | asr_verify.cpp 74-519, 1007-1052 |
| `VerifyChecks` | `visit_Enum`'s classification check (`value2count`, the consecutive loop) beside the spec's definition of each classification, and the enums tried | asr_verify.cpp 602-653 |
| `MC_VerifyWalk` | the trees checked: a base tree and its variants | |
| `ProcedureScopes` | the resolver's visits of the translation unit, modules, programs, subroutines and functions: scopes, implicit typing, dependency lists, abort recovery, and the ENTRY rewrite (templates, master, argument mapping) | asr_verify.cpp 1469-1956, 2030-2647, 2731-3226 |
| `MC_ProcedureScopes` | the sources checked: a base source and a variant with a function host | |
| `UseImport` | `use` statements: `visit_Use`, `import_all`, `import_symbols_util`, the three branches of `process_generic_proc_custom_op` and the worklist | asr_verify.cpp 4199-4380, 4389-4550, 4682-4700, 4708-4927 |
| `MC_UseImport` | the modules used and the programs of `use` statements checked | |
| `InterfaceGenerics` | interface blocks and the scope-end assembly of generic procedures and custom operators: `visit_Interface`, the `~genericprocedure` renaming, `add_generic_procedures`, `add_overloaded_procedures`, `add_custom_operator`, `add_assignment_procedures`; derived types and their type-bound procedures: `visit_DerivedType`, `visit_DerivedTypeProc`, the generic bindings, `add_class_procedures`, `add_generic_class_procedures` | asr_verify.cpp 1680-1762, 1814-1915, 2505-2590, 3062-3164, 3300-3441, 3510-3924, 4005-4198, 4930-4975 |
| `MC_InterfaceGenerics` | the sources checked: every mix of eight interfaces in a module, six derived types with bindings, with a program before or after it; and a file of two modules | |

### VerifyWalk

The shape of the input tree is fixed by constants:

* `Up`: which table holds which scope-owning symbol;
* `Children`: the order of `get_scope()`;
* `Body`: the statements.

The fields that a faulty pass could corrupt are chosen in `Init`: the parent pointers, the
counters, the owner round trip and the Functions' dependency lists. Each tree has at most one
fault in its scope fields, combined with at most one name added to or dropped from one
dependency list.

The recursion is a stack of frames, one per `visit_*` call in progress. Each step does one of
the following:

* enters a scope symbol (`visit_scope`: the requires of `visit_Program`, `visit_Module`,
  `visit_Function` or `visit_Block`);
* handles one statement (`visit_SubroutineCall`, `visit_Assignment`, `visit_BlockCall`);
* returns (`leave_scope`). A Function's return runs its dependency checks and restores
  `function_dependencies`. An Enum's return runs `is_enumtype_correct` (`LeaveChecks`).

An Enum is entered with the requires of `visit_UserDefinedType`, like the other scopes. Its
classification, common type and member values (`enumv`) are chosen in `Init`: every enum of
one to three members with values in -1..2, of Integer or Real type and any classification, on
the fault-free tree, and a well-formed enum on the trees with a scope or dependency fault.
The enum check reads none of the pointers, so the cross product would only repeat the same
walks. `WellFormed` requires that the classification matches the values as spec section 3
defines it (values exactly 0..n-1, some value repeated, all distinct, or a non-integer type).
A bug in the check (a dropped size test, a loop started from 0) shows as a violation of
`VerifierRefinement`.

A Struct (`st` in the base tree) is entered like the other user-defined types. On leaving it,
`visit_Struct` requires that its alignment is absent, or a constant that is nonzero and passes
`(a & (a - 1)) == 0` (`VerifyChecks.IsAlignmentOk`). The code computes this on an `int64_t`.
The model uses 8-bit two's-complement words, `a % 2^8`, with `&` from `Bitwise`; the
arithmetic has the same shape at every width. `Init` chooses the alignment on the fault-free
tree: absent, not constant, or any 8-bit value except the least. `WellFormed` asks for spec 4.2:
the alignment is a positive power of two. The least value, -128, is left out because its
decrement overflows, which in C++ is undefined behaviour. With it, and the wrapping the build
produces, TLC finds -128 accepted. This is the hazard at line 597.

A failed require sets `verdict` to "rejected". A null dereference sets it to "crash".

`WellFormed` is the spec's definition of a correct tree, written over the whole tree.
`VerifierRefinement` checks that the walk implements `VerifierSpec` under the mapping
`wellFormed <- WellFormed`. In other words, the verifier always stops, and it accepts exactly
the well-formed trees. Fairness is weak fairness on `Next`: the visitor is a sequential
recursion that always has a next step until it returns. Deadlock is not checked, because the
walk really stops once it has answered.

The base tree (in `MC_VerifyWalk`) has the following shape:

```
tu -+- m -+- e
    |     +- st
    |     +- f -+- b1
    |     |     +- h
    |     +- g
    +- p --- q
```

Its calls cover every case of the dependency rule: a call to a sibling, to a contained
procedure, from a block, from a contained procedure to its host, and recursion.

### Runs

| Run | Checks | Shows |
|---|---|---|
| `verify_walk` | `TypeOK`, `VerifierRefinement` on the base tree with all single faults, and every enum and 8-bit struct alignment on the intended tree (56k states) | the verifier accepts exactly the well-formed trees, enums and aligned structs included, and always stops |
| `verify_nested_block` | `VerifierRefinement` with a block `b2` nested in `b1` that calls `h` | **violated**: the one-level Block rule rejects a well-formed tree |

In `verify_walk`, corrupted parent pointers point only at tables, never at null. With
`ParentFaultTargets <- MCParentFaultTargetsNull` the property fails: `symtab_in_scope`
dereferences the null parent of a callee not yet visited (line 75). That case is a hazard: its
run slot now holds `interface_class_leak`, a crash on valid source. The same property also fails on a parameter assigned once inside `b1`:
`visit_BlockCall` walks the block again, so the assignment is counted twice. That case is
listed as a hazard (line 298) rather than given a run of its own.

### ProcedureScopes

The source is fixed by constants: `Kind`, `Host` and `Contains` give the program units and
how they nest, `TUItems` the top-level order, `Args` the dummy arguments a unit leaves
undeclared (one letter each: `i` stands for i-n, `x` for o-z), and `Deps` the names its
declarations depend on. `Init` chooses each unit's implicit statement (none, `implicit none`,
or `implicit real (i)`) and at most one failure: an error in the unit's declarations, or an
"already defined" error at its end.

The recursion is a stack of frames, one per `visit_*` call in progress. A frame holds what the
C++ keeps in locals: `parent_scope`, the copy of `current_function_dependencies`, the index of
the contains loop, and the dictionary copy of `visit_Subroutine`'s contains loop. Each unit has
two steps: `visit_X(u)` runs the handler up to its contains section, and `finish_X` runs it
from the end of the contains section to the return. A `SemanticAbort` is thrown where the
code throws it, and unwinds every frame without running any restore code, since nothing
catches it below `visit_TranslationUnit`. Declaration errors are caught in the declaration
loops of modules, programs and subroutines under `continue_compilation`; `visit_Function`'s
declaration loop has no catch.

History variables record what each finished unit was built with: the table it was added to,
its dependency list, the dictionary in `implicit_mapping`, the dictionary it set up on entry,
and the types of its implicit dummy arguments.

**ENTRY statements.** `Formals`, `Locals` and `Entries` give a procedure's dummy arguments,
its other declared names and its `ENTRY` statements. `Name` gives its source name, and
`NameRank` the `std::string` order of names. At the end of a procedure, after it is added to
its parent table, `FinishWith` runs the rewrite (`EntryRewrite`) in code order:

1. `subroutine_contains_entry_function` adds the entries to `entry_functions[name]` and
   appends their arguments to `entry_function_args[entry]` (`RegisterEntries`).
2. One template per entry is created, in key order, in the parent table. A formal that is
   neither a dummy argument nor a local, and whose letter has no type, throws
   (`TemplateAborts`). The templates made before it stay, `current_scope` is left at the
   template's table, and `current_function_dependencies` is left cleared.
3. `perform_argument_mapping` builds the master's formals: `entry__lcompilers`, then the
   sorted set of all the formals (`MasterFormals`). It appends each formal's zero-based
   position to `entry_function_arguments_mapping` (`ArgumentMapping`), and the master is
   created.
4. `visit_Subroutine` clears `entry_function_args`; `visit_Function` does not.

The three maps are keyed by name, as in the code, and nothing else clears them.
`entry_templates` records each template and master by table and name, with the formals it
was created with.

| Run | Checks | Shows |
|---|---|---|
| `procedure_scopes` | `TypeOK`, `UnitsInHostTable`, `DepsIsolated`, `HostDictionaryPreserved` without `continue_compilation` (14k states) | units go to their host's table, each procedure gets its own declarations' dependencies, and a subroutine keeps its dictionary across contained procedures, with the ENTRY rewrite of `s` and `f` on the way |
| `scopes_continue_compilation` | `UnitsInHostTable` with `continue_compilation` | **violated**: after an abort in `t` (inside `s` inside `m`), `current_scope` stays at `t`'s table and the program `p` is added there |
| `implicit_function_host` | `HostDictionaryPreserved`, with `t` contained in the function `f`, and `f` without its entry | **violated**: `visit_Function`'s contains loop has no dictionary copy, so `t`'s `clear()` empties `f`'s dictionary (`visit_Program` has the same gap) |
| `implicit_inheritance` | `ImplicitInheritance` (spec 4.3.1) | **violated**: `implicit real (i)` in `t` (contained in `s`, in an `implicit none` module) leaves `x` real, because a procedure's own statements apply to the default mapping, not the module's dictionary that spec 4.3.1 pushes |

A related gap is listed as a hazard without a run. `visit_Function` declares an undeclared
dummy argument with whatever the dictionary holds, `nullptr` included (line 2876), where
`visit_Subroutine` reports it. The model records these types in `arg_type`.

In `implicit_function_host`, `f` has no `ENTRY`. With its entry `fe(k, y)`, the dictionary
that `t` cleared makes the template for `fe` throw "Dummy argument not defined" on `k`. The
source is valid, and the dictionary is never recorded, so the run would no longer show the
lost dictionary itself.

The ENTRY maps leak between procedures that share a name. The base source names every
procedure once, and there the mapping and the master formals cannot go wrong, so no run
states them. The leak was seen with TLC on a second instance while modelling: modules `m` and `m2` each hold a
subroutine `s(a, b)` with `ENTRY e(b, c)`. After `m2`, the mapping is `s -> [1,2,1,2]` and
`e -> [2,3,2,3]`. Spec scenario 6 gives `[1,2]` and `[2,3]`. When the two `s` are functions,
`entry_function_args` is never cleared, and `m2`'s template `e` gets the formals
`(b, c, b, c)`. Every run slot already records a distinct finding, so these cases are listed
as hazards (lines 2222 and 3188) rather than as a run.

`Spec` assumes weak fairness of `Next`, as for the verifier, but no property of this module is a
liveness property. Deadlock is not checked: the resolver stops after the last item.

The base source has one unit of each kind. It nests a subroutine inside a subroutine inside
a module, so a contained procedure's clear, its dependency reset and a second-level abort
all happen. Each unit takes all three implicit statements, and every unit is the failing one
in turn. That gives 2,673 initial states. `s` has spec scenario 6's `ENTRY e(b, c)` with `c`
declared, so it is always rewritten. `f` has `ENTRY fe(k, y)` with `k` left to implicit
typing, so under `implicit none` its template throws. The function and program cases and the
continue-compilation case differ from the base only in one constant.

### UseImport

The importing scope is one symbol table, a function from local names to symbols. A symbol is
either an `ExternalSymbol`, with its target and module name, or a local `GenericProcedure`,
with its list of candidates. Every symbol object gets a fresh id when it is created. This lets
a list that holds a symbol be told apart from a later symbol of the same name, just as the
code's pointers are. The used modules are constants (`MC_UseImport`):

* `A` has a generic `plus` of `pA1` (public) and `pA2` (private);
* `B` has `plus` of `pB1`;
* `C` re-exports `B`'s `plus` and `pB1`.

`import_symbols_util` and `process_generic_proc_custom_op` are operators that call each other
(`RECURSIVE`). The model has one operator per branch of the merge:

* `FreshGeneric`: the name is new;
* `MergeExternal`: the name is an `ExternalSymbol` to a generic;
* `MergeLocal`: the name is already a local generic.

The actions are the steps of `visit_Use`. `visit_Use` picks the form of the statement.
`use_symbol` imports one listed symbol. `worklist_step` runs one turn of the worklist loop, and
`worklist_done` is its exit. `import_all` does the import of a statement without `only`.

| Run | Checks | Shows |
|---|---|---|
| `use_import` | `TypeOK`, `ExternalCoherence`, `CandidatesImported` on every program of one to three statements (584 programs, 5.8k states) | imported `ExternalSymbol`s are unwrapped and name their owner, and the worklist always reaches its fixed point |
| `use_stale_candidate` | `CandidatesLive` on the same programs | **violated**: `use A; use A, only: plus; use A, only: pA1` erases the `pA1` that the merged `plus` points to, and creates a new one |
| `use_scenario2` | `MergedGenericIsUnion` on spec scenario 2 (`use A; use B`) | **violated**: `import_all` skips names already present, so `plus` keeps only `A`'s candidates |

`MergedGenericIsUnion` states the spec's union rule. After each statement, each local name is
one generic whose candidate list is the union of the lists of the generics imported under that
name, each candidate once, in statement order. The property fails on two more programs, each
by a different code path. Both are listed as hazards:

* **Third merge:** a third `only` import of `plus` into an already merged generic appends each
  candidate twice, under new `@p@` names (line 4475).
* **Re-export:** importing `C`'s re-exported `plus` after `A`'s overwrites the local `plus`
  before merging, which loses `A`'s candidates (line 4692).

### InterfaceGenerics

`visit_Interface` does not create symbols. It appends the procedure names of an interface to
one of four maps, and these maps are members of the visitor, shared by every scope:

| Map | Filled by |
|---|---|
| `generic_procedures` | `interface g` |
| `overloaded_op_procs` | `interface operator(+)` |
| `defined_op_procs` | `interface operator(.op.)`; also `interface write(...)`, which assigns instead of appending |
| `assgn_proc_names` | `interface assignment(=)` |

At the end of a module, `add_generic_procedures`, `add_overloaded_procedures` and
`add_assignment_procedures` run in that order. Each recorded name is looked up
(`resolve_symbol`), and one symbol per key is created and written with
`add_or_overwrite_symbol`. A program runs only `add_generic_procedures`.

Three naming rules keep these symbols apart from the procedures they list:

* A function declared while a generic of its name is pending becomes `name~genericprocedure`.
  A subroutine gets this name only inside an interface body.
* A generic whose name is taken by a procedure is stored as `~name`.
* A defined operator `.op.` is stored as `~~op~~`.

The model keeps the four maps (`acc`), one table per scope (`tables`) and a symbol id counter.
Its actions:

| Action | Models |
|---|---|
| `visit_Module`, `visit_Program` | the entry clears: a module clears `generic_procedures` and `assgn_proc_names`, a program clears only `generic_procedures` |
| `visit_Interface` | one interface of the unit's specification part |
| `visit_Subroutine`, `visit_Function` | a contained procedure: its own interfaces, its renaming, its entry in the unit's table |
| `finish_Module`, `finish_Program` | the scope-end functions, then the unit symbol in the global scope |
| `resolution_done` | the end of the translation unit |

A failed lookup is a `SemanticAbort` and ends the run (`result = "failed"`), as without
`continue_compilation`.

**Derived types.** `visit_DerivedType` sets `dt_name` and visits the type's bindings. Three
more visitor-wide maps, all keyed by the type's name, record them:

| Map | Filled by | Cleared |
|---|---|---|
| `class_procedures` | `procedure [, pass] :: b => p` (procedure name and pass attribute) | at module entry |
| `class_deferred_procedures` | the `deferred` and `nopass` attributes | never |
| `generic_class_procedures` | `generic :: g => b, ...`, `generic :: operator(+)`, `assignment(=)`, `write(...)` | never |

The Struct symbol goes into the unit's table, with an empty table of its own. At the end of
a module, after the operators, `add_class_procedures` looks up each type's procedure in the
type's parent scope. It aborts on three cases:

* `pass` together with `nopass`;
* a procedure that is not found;
* without `nopass`, a procedure whose passed-object dummy is not of the type.

Otherwise it adds a StructMethodDeclaration with the deferred and nopass flags to the type's
table. `add_generic_class_procedures` then runs. It finds each type with `get_symbol` in the
current scope only, and aborts on a name that is no binding of the type. Otherwise it adds a
GenericProcedure, or a CustomOperator for an operator or assignment key. In the model:

* a procedure symbol carries the type of its passed-object dummy (`self`);
* `visit_DerivedType` is one more action;
* the two functions are folds inside `finish_Module`.

| Run | Checks | Shows |
|---|---|---|
| `interface_generics` | `TypeOK`, `TypeBoundProceduresEmitted`, `NestedScopesKeepUnitOperators` on 5,522 sources (56k states) | symbol ids are fresh and distinct; each binding of a finalised module's type is a method with its own procedure and attributes, and each generic binding lists exactly its methods; a requirement or template keeps the module's pending operators for the module and emits its own in its table |
| `interface_class_leak` | `ResolutionNeverCrashes` on module `m` (type `t` with generic and operator bindings) then module `m2` | **violated**: `generic_class_procedures` still holds `t` when `m2` ends; `get_symbol("t")` in `m2` is null and is dereferenced (line 4015) |
| `interface_program_operator` | `InterfacesEmittedInScope` on a program with `interface operator(+)` | **violated**: `visit_Program` never calls `add_overloaded_procedures`, so the operator is not emitted, and its list stays in the map for the next module |

`InterfacesEmittedInScope` states spec 4.3.5: when a scope is finalised, each of its
interfaces is an aggregate of that scope, listing every procedure the interface names. Besides
the program case, it also fails in two other ways, each shown by the model on a single source. Both are
listed as hazards:

* **Local interface:** an interface in a contained subroutine is emitted in the module
  (line 2433).
* **Write interfaces:** a second `write(formatted)` interface replaces the first (line 3670).

Two more cases are hazards without a run:

* **Subroutine named as its generic:** a subroutine `g` listed in `interface g` of the
  specification part is not renamed. `add_generic_procedures` then fails to find
  `g~genericprocedure`, and the valid source is rejected (line 2565); the function variant
  resolves.
* **Duplicate procedures:** a procedure named in two statements of the same generic is
  appended twice without a diagnostic (line 3570).

The sources exercise every naming rule: `.q.` shares the name of function `q`, which the
generic `g` lists; the procedure `g` is a subroutine or a function and may be its own
candidate; the program's operator leaks into the module when the program comes first. Of the
three rules that keep an aggregate from overwriting a listed procedure, only the `~~op~~`
name of a defined operator is met by a source that otherwise resolves: the `~name` rule and
the `~genericprocedure` renaming are reached only where the resolver already fails (the
subroutine case above). So no run states the collision rule on its own (hazard at line 3921).

The derived-type sources cover each outcome of `add_class_procedures`: a valid type, a pass
binding, a renamed nopass binding, and one refused type per abort. The valid type binds
`area` deferred to `p`, under another name. The mutant that looks the deferred attribute up
under the procedure's name, not the binding's, emits `area` as not deferred and breaks
`TypeBoundProceduresEmitted`.

`class_deferred_procedures` is never cleared either. A type in a later module with the same
name inherits the first one's deferred and nopass attributes. A valid `pass` binding is then
refused as pass with nopass, or a binding is emitted nopass (line 4139). The property would
catch this on a file with two such modules. It is a hazard because no run slot is left.
`visit_Program` runs neither function, so a program's types get no methods (line 1912).

#### Requirements and templates

A module's specification part is one sequence, `decls`, of interfaces, types, requirements
and templates, visited in order before the module's procedures (`visit_ModuleSubmoduleCommon`
visits `m_decl` before `m_contains`). `visit_Requirement` and `visit_Template` each open a
table nested in the module. Each one follows these steps:

1. It saves `overloaded_op_procs` and clears it (`NestedAcc`).
2. It records its own interfaces and declares its functions in its own table. A function is
   renamed for a pending generic of its name (`NestedNames`, `NestedStart`).
3. It checks the parameters. In a requirement every symbol must be a parameter. In a
   template every parameter must be a symbol.
4. It runs `add_overloaded_procedures` in its own table. Names that are not in that table
   resolve in the module's table (`ResolveIn`). A template then also runs
   `add_class_procedures`, which resolves procedures in the type's parent, the module table
   (`ProcScope`).
5. It restores `overloaded_op_procs` (`RestoreOps`).
6. It adds its symbol to the module (`EndNested`). A template also clears
   `class_procedures`.

`NestedScopesKeepUnitOperators` checks what this save and restore is for. Once a module is
finalised, its `operator(+)` interfaces are CustomOperators of the module. Each requirement
or template is a symbol of the module, and its own operator interfaces are CustomOperators of
its table. The sources put each requirement or template after an `operator(+)` interface of
the module or after nothing, and include malformed variants.

TLC found two orders that break this on valid code:

* A defined operator. Only `overloaded_op_procs` is saved, but `add_overloaded_procedures`
  also emits and clears `defined_op_procs`. An `operator(.q.)` interface declared before a
  requirement is therefore emitted in the requirement's table. The module procedure it names
  is not declared yet, so the module is refused (line 3836).
* A type with bindings. A type declared before a template has its bindings resolved by the
  template's `add_class_procedures` before the module's procedures exist, so the module is
  refused with "must be a module procedure" (line 5219).

Both were seen with TLC on a one-module source. In both the module is refused, so it never
reaches the finished state that `NestedScopesKeepUnitOperators` reads. Showing them takes a
property that a valid source resolves, and a violation run for it; every run slot is in use,
so they are listed as hazards.

## Plan (in order)

1. Done: `ProcedureScopes`. Still open in it: `current_procedure_args` and
   `external_procedures`, which a contained procedure clears. Their readers are outside
   this file.
2. Done: `UseImport`. Still open in it: functions, variables and structs as imported
   symbols, custom operators (which run the same template code as generics), and module
   loading.
3. Done in part: the ENTRY rewrite, in `ProcedureScopes`. Still open: the statements recorded
   after each entry, symbol duplication, and a function entry's return variable.
4. Done in part: `VerifyChecks`, the enum classification and the struct alignment test (on
   8-bit words), run as Enum and Struct scopes of `VerifyWalk`. Still open: the struct and
   union dependency lists.
5. Done in part: `InterfaceGenerics`. Still open: interface bodies, read interfaces, the merge
   with an imported generic or operator (the composition with `UseImport`), postponed
   generic calls. Type-bound procedures, requirements and templates are done in part, in
   the same module.

All twelve run slots are now used: each existing violation run records a distinct finding.
`verify_null_parent` (a verifier crash on a corrupted tree) gave its slot to
`interface_class_leak` (a resolver crash on a valid file); its case is a hazard.
So the rest of items 3 to 5 have to extend the modules that already have a passing run.

## Not modelled

* `visit_UnitRequire` and `visit_Instantiate`: a requirement's symbols are renamed through
  `context_map`, and an instantiation rebuilds each function signature symbol by symbol
  through the type system. A requirement's or template's type parameters are abstracted to
  the names they declare.

* Name validity, location and diagnostic text.
* Type-to-string conversion and the printing helpers: these are formatting only.
* The module loader and the file I/O done by `load_module`: it is outside this file.
* Of the ENTRY rewrite: the symbols duplicated into each template, `update_duplicated_nodes`,
  the external procedures moved out of the procedure's table, and a function entry's return
  variable. These rewrite ASR nodes that no property reads.
* Of derived types: data members, `extends` and `abstract`, struct dependencies and
  `vars_with_deferred_struct_declaration`. The parent link and `is_abstract` are stored and
  never checked against the bindings. Also not modelled: the ancestor walk of
  `arg_type_equal_to_class` (a procedure's passed-object type is one type name), a named
  `pass(x)` argument, and types imported as ExternalSymbols.
