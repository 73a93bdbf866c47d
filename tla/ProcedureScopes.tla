--------------------------- MODULE ProcedureScopes ---------------------------
(***************************************************************************)
(* The resolver's visits of program units (SymbolTableVisitor in           *)
(* src/src/libasr/asr_verify.cpp): visit_TranslationUnit, visit_Module     *)
(* with visit_ModuleSubmoduleCommon, visit_Program, visit_Subroutine and   *)
(* visit_Function, with implicit typing switched on.                       *)
(*                                                                         *)
(* Kept: which table is current, the implicit dictionary and the stack of  *)
(* module dictionaries, current_function_dependencies, the table each      *)
(* finished unit is added to, the dictionary recorded in implicit_mapping, *)
(* the types given to implicitly typed dummy arguments, and every point    *)
(* where a SemanticAbort is thrown or caught.                              *)
(*                                                                         *)
(* Abstracted: a unit's declarations are one step that adds the names its  *)
(* declarations depend on, or fails (err = "decl"); "dup" stands for the   *)
(* "already defined" errors at the end of a unit.  Letters are i (of i-n)  *)
(* and x (of o-z); an implicit statement is absent, "implicit none", or    *)
(* "implicit real (i)".                                                    *)
(*                                                                         *)
(* ENTRY statements: at its end a procedure with entries gets one template *)
(* function per entry and a master function, created in its parent table  *)
(* by create_template_entry_function, and the positions of each formal in *)
(* the master's list are recorded (perform_argument_mapping).  The maps   *)
(* the rewrite keeps, keyed by name, are kept; the statements after each   *)
(* entry, the duplicated symbols, the return variable and the external     *)
(* procedures of the templates are not.                                    *)
(***************************************************************************)
EXTENDS Naturals, Sequences, FiniteSets, TLC
LOCAL SeqExt == INSTANCE SequencesExt

CONSTANTS
  Units,                \* the program units of the source
  Kind,                 \* Kind[u]: "Module", "Program", "Subroutine" or "Function"
  Host,                 \* Host[u]: the unit that contains u, or NoUnit
  Contains,             \* Contains[u]: the units in u's contains section, in order
  TUItems,              \* the top-level units, in source order
  Args,                 \* Args[u]: letters of u's dummy arguments left undeclared
  Deps,                 \* Deps[u]: names u's declarations depend on
  Name,                 \* Name[u]: u's name in the source (sym_name)
  Formals,              \* Formals[u]: u's dummy arguments by name, in order
  Locals,               \* Locals[u]: names u declares that are not its dummy arguments
  Entries,              \* Entries[u]: u's ENTRY statements, records [name, args], in order
  ArgLetter,            \* ArgLetter[a]: the letter class (i or x) of argument a
  NameRank,             \* NameRank[n]: the place of n in std::string order
  NoUnit,
  NoType,               \* nullptr as a type
  ContinueCompilation   \* compiler_options.continue_compilation

Letters == {"i", "x"}
Stmts == {"absent", "none", "real_i"}
Errs == {"ok", "decl", "dup"}
\* "template": the table create_template_entry_function makes for an entry.
Tables == {"global", "template"} \cup Units
Dicts == [Letters -> {"integer", "real", NoType}]

\* populate_implicit_dictionary: i-n integer, everything else real.
DefaultDict == [l \in Letters |-> IF l = "i" THEN "integer" ELSE "real"]
\* What std::map::operator[] finds after implicit_dictionary.clear().
Cleared == [l \in Letters |-> NoType]

\* The effect of one unit's implicit statements on a dictionary.
ApplyStmt(st, d) ==
  CASE st = "absent" -> d
    [] st = "none"   -> Cleared
    [] st = "real_i" -> [d EXCEPT !["i"] = "real"]

VARIABLES
  implicit,     \* implicit[u]: u's implicit statement (input)
  err,          \* err[u]: where u fails, if anywhere (input)
  stack,        \* the units being visited, innermost last
  item,         \* index of the translation-unit item being visited
  result,       \* "running", "done", or "failed" (an abort left the visitor)
  current_scope,
  implicit_dictionary,
  implicit_stack,
  current_function_dependencies,
  entry_dictionary,  \* history: the dictionary each unit set up on entry
  implicit_mapping,  \* the dictionary recorded for each finished unit
  func_deps,         \* the dependency list each finished procedure was created with
  added_to,          \* the table each finished unit was added to
  arg_type,          \* arg_type[<<u, l>>]: the type given to u's dummy argument l
  entry_functions,   \* procedure name -> the names of its entries
  entry_function_args,  \* entry name -> its formal arguments
  entry_function_arguments_mapping,  \* name -> positions of its formals in the master's
  entry_templates    \* <<table, name>> of a template or master -> the formals it was created with

input == <<implicit, err>>
entry_state == <<entry_functions, entry_function_args, entry_function_arguments_mapping,
                 entry_templates>>
records == <<entry_dictionary, implicit_mapping, func_deps, added_to, arg_type, entry_state>>
vars == <<input, stack, item, result, current_scope, implicit_dictionary,
          implicit_stack, current_function_dependencies, records>>

-----------------------------------------------------------------------------

\* process_implicit_statements after populate_implicit_dictionary: a unit
\* with no implicit statement inside a module takes the module's dictionary;
\* otherwise its statements apply to the default one.
ImplicitAtEntry(u) ==
  IF implicit[u] = "absent" /\ implicit_stack # <<>>
  THEN implicit_stack[Len(implicit_stack)]
  ELSE ApplyStmt(implicit[u], DefaultDict)

Top == stack[Len(stack)]
Rest == SubSeq(stack, 1, Len(stack) - 1)

\* u is the next unit to visit: the next translation-unit item, or the next
\* unit of the innermost unit's contains section.
Begins(u) ==
  IF stack = <<>> THEN item <= Len(TUItems) /\ TUItems[item] = u
  ELSE Top.next <= Len(Contains[Top.unit]) /\ Contains[Top.unit][Top.next] = u

\* The host's contains loop moves past u, keeping a copy of the dictionary.
HostAdvanced ==
  IF stack = <<>> THEN stack
  ELSE [stack EXCEPT ![Len(stack)].next = @ + 1,
                     ![Len(stack)].savedDict = implicit_dictionary]

NewFrame(u) ==
  [unit |-> u, next |-> 1, parent |-> current_scope,
   savedDeps |-> current_function_dependencies, savedDict |-> Cleared]

\* Mutant: the translation-unit loop advances whenever any unit returns.
Proceed_item(raise, st) ==
  IF raise
  THEN /\ stack' = <<>>
       /\ IF ContinueCompilation
          THEN item' = item + 1 /\ result' = result
          ELSE item' = item /\ result' = "failed"
  ELSE /\ stack' = st
       /\ item' = item + 1
       /\ result' = result

\* Continue with the stack st, or unwind a SemanticAbort: nothing catches it
\* below the loop of visit_TranslationUnit, which goes on with the next item
\* under continue_compilation and rethrows otherwise.
Proceed(raise, st) ==
  IF raise
  THEN /\ stack' = <<>>
       /\ IF ContinueCompilation
          THEN item' = item + 1 /\ result' = result
          ELSE item' = item /\ result' = "failed"
  ELSE /\ stack' = st
       /\ item' = IF st = <<>> THEN item + 1 ELSE item
       /\ result' = result

\* Mutant: a Subroutine's contains loop keeps no copy of the dictionary.
ReturnDictionary_no_copy(d) == implicit_dictionary' = d

\* Back in the host's contains loop: a Subroutine restores its copy of the
\* dictionary; other hosts keep what the contained unit left (d).
ReturnDictionary(d) ==
  implicit_dictionary' =
    IF Rest # <<>> /\ Kind[Rest[Len(Rest)].unit] = "Subroutine"
    THEN Rest[Len(Rest)].savedDict ELSE d

-----------------------------------------------------------------------------

Init ==
  /\ implicit \in [Units -> Stmts]
  /\ err \in {[u \in Units |-> "ok"]}
             \cup {[[u \in Units |-> "ok"] EXCEPT ![v] = e] : v \in Units, e \in Errs}
  /\ stack = <<>>
  /\ item = 1
  /\ result = "running"
  /\ current_scope = "global"
  /\ implicit_dictionary = Cleared
  /\ implicit_stack = <<>>
  /\ current_function_dependencies = {}
  /\ entry_dictionary = <<>>
  /\ implicit_mapping = <<>>
  /\ func_deps = <<>>
  /\ added_to = <<>>
  /\ arg_type = <<>>
  /\ entry_functions = <<>>
  /\ entry_function_args = <<>>
  /\ entry_function_arguments_mapping = <<>>
  /\ entry_templates = <<>>

\* visit_Module up to the end of the declarations of visit_ModuleSubmoduleCommon.
visit_Module(u) ==
  LET d == ImplicitAtEntry(u) IN
  /\ result = "running" /\ Kind[u] = "Module" /\ Begins(u)
  /\ implicit_dictionary' = d
  /\ implicit_stack' = Append(implicit_stack, d)
  /\ current_scope' = u
  /\ entry_dictionary' = (u :> d) @@ entry_dictionary
  /\ Proceed(err[u] = "decl" /\ ~ContinueCompilation, Append(HostAdvanced, NewFrame(u)))
  /\ UNCHANGED <<input, current_function_dependencies, implicit_mapping, func_deps,
                 added_to, arg_type, entry_state>>

\* The end of visit_ModuleSubmoduleCommon and of visit_Module.
finish_Module ==
  LET u == Top.unit IN
  /\ result = "running" /\ stack # <<>> /\ Kind[Top.unit] = "Module"
  /\ Top.next > Len(Contains[u])
  /\ IF err[u] = "dup"
     THEN /\ Proceed(TRUE, stack)
          /\ UNCHANGED <<input, current_scope, implicit_dictionary, implicit_stack,
                         current_function_dependencies, records>>
     ELSE /\ added_to' = (u :> Top.parent) @@ added_to
          /\ current_scope' = Top.parent
          /\ implicit_stack' = SubSeq(implicit_stack, 1, Len(implicit_stack) - 1)
          /\ ReturnDictionary(implicit_dictionary)
          /\ Proceed(FALSE, Rest)
          /\ UNCHANGED <<input, current_function_dependencies, entry_dictionary,
                         implicit_mapping, func_deps, arg_type, entry_state>>

visit_Program(u) ==
  LET d == ImplicitAtEntry(u) IN
  /\ result = "running" /\ Kind[u] = "Program" /\ Begins(u)
  /\ implicit_dictionary' = d
  /\ current_scope' = u
  /\ entry_dictionary' = (u :> d) @@ entry_dictionary
  /\ Proceed(err[u] = "decl" /\ ~ContinueCompilation, Append(HostAdvanced, NewFrame(u)))
  /\ UNCHANGED <<input, implicit_stack, current_function_dependencies, implicit_mapping,
                 func_deps, added_to, arg_type, entry_state>>

\* The end of visit_Program: the program is added to its parent, and its
\* dictionary is recorded and cleared.
finish_Program ==
  LET u == Top.unit IN
  /\ result = "running" /\ stack # <<>> /\ Kind[Top.unit] = "Program"
  /\ Top.next > Len(Contains[u])
  /\ IF err[u] = "dup"
     THEN /\ Proceed(TRUE, stack)
          /\ UNCHANGED <<input, current_scope, implicit_dictionary, implicit_stack,
                         current_function_dependencies, records>>
     ELSE /\ added_to' = (u :> Top.parent) @@ added_to
          /\ current_scope' = Top.parent
          /\ implicit_mapping' = (u :> implicit_dictionary) @@ implicit_mapping
          /\ ReturnDictionary(Cleared)
          /\ Proceed(FALSE, Rest)
          /\ UNCHANGED <<input, implicit_stack, current_function_dependencies,
                         entry_dictionary, func_deps, arg_type, entry_state>>

\* The start of a procedure, up to its contains section.  A failing
\* declaration is caught by the declaration loop under continue_compilation
\* unless catches is FALSE.
EnterProcedure(u, catches) ==
  LET d == ImplicitAtEntry(u) IN
  /\ result = "running" /\ Begins(u)
  /\ current_function_dependencies' = IF err[u] = "decl" THEN {} ELSE Deps[u]
  /\ implicit_dictionary' = d
  /\ current_scope' = u
  /\ entry_dictionary' = (u :> d) @@ entry_dictionary
  /\ Proceed(err[u] = "decl" /\ ~(catches /\ ContinueCompilation),
             Append(HostAdvanced, NewFrame(u)))
  /\ UNCHANGED <<input, implicit_stack, implicit_mapping, func_deps, added_to,
                 arg_type, entry_state>>

visit_Subroutine(u) == Kind[u] = "Subroutine" /\ EnterProcedure(u, TRUE)

visit_Function(u) == Kind[u] = "Function" /\ EnterProcedure(u, FALSE)

-----------------------------------------------------------------------------
(* The ENTRY rewrite                                                       *)

\* A std::map or std::set of names, walked in key order.
Sorted(S) == SeqExt!SetToSortSeq(S, LAMBDA a, b : NameRank[a] < NameRank[b])

EntryNames(u) == {Entries[u][i].name : i \in DOMAIN Entries[u]}
EntryArgs(u, e) == (CHOOSE r \in SeqExt!ToSet(Entries[u]) : r.name = e).args

\* operator[] of the name-keyed maps: an absent key reads as empty.
Lookup(m, k, empty) == IF k \in DOMAIN m THEN m[k] ELSE empty

\* subroutine_contains_entry_function: every entry of u is added to
\* entry_functions[u], and its arguments are appended to entry_function_args.
RegisterEntries(u) ==
  IF Entries[u] = <<>> THEN [ef |-> entry_functions, efa |-> entry_function_args]
  ELSE [ef |-> (Name[u] :> (Lookup(entry_functions, Name[u], {}) \cup EntryNames(u)))
                 @@ entry_functions,
        efa |-> [e \in EntryNames(u) |-> Lookup(entry_function_args, e, <<>>) \o EntryArgs(u, e)]
                  @@ entry_function_args]

\* The loop of create_template_entry_function over the formals: one that is
\* not in the table duplicated from u and whose letter has no type aborts.
TemplateAborts(formals, declared) ==
  \E i \in DOMAIN formals :
    formals[i] \notin declared /\ implicit_dictionary[ArgLetter[formals[i]]] = NoType

\* perform_argument_mapping: the master's formals are entry__lcompilers and
\* then the std::set of u's formals and its entries' formals.
MasterFormals(u, ef, efa) ==
  <<"entry__lcompilers">>
    \o Sorted(SeqExt!ToSet(Formals[u]) \cup UNION {SeqExt!ToSet(efa[e]) : e \in ef[Name[u]]})

\* perform_argument_mapping: the zero-based place in the master's formals of
\* each formal of u and of each entry is appended to its mapping.
ArgumentMapping(u, ef, efa) ==
  LET master == MasterFormals(u, ef, efa)
      pos(a) == (CHOOSE i \in DOMAIN master : master[i] = a) - 1
      fs(x) == IF x = Name[u] THEN Formals[u] ELSE efa[x]
  IN  [x \in {Name[u]} \cup ef[Name[u]] |->
         Lookup(entry_function_arguments_mapping, x, <<>>) \o [i \in DOMAIN fs(x) |-> pos(fs(x)[i])]]
      @@ entry_function_arguments_mapping

MasterName(u) == Name[u] \o "_main__lcompilers"

\* The entry rewrite at the end of visit_Subroutine or visit_Function:
\* templates in key order, each added to u's parent table, until one aborts;
\* then the mapping and the master.
EntryRewrite(u) ==
  LET reg == RegisterEntries(u)
      order == IF Entries[u] = <<>> THEN <<>> ELSE Sorted(reg.ef[Name[u]])
      declared == SeqExt!ToSet(Formals[u]) \cup Locals[u]
      failing == {i \in DOMAIN order : TemplateAborts(reg.efa[order[i]], declared)}
      made == {order[i] : i \in {j \in DOMAIN order : \A k \in failing : j < k}}
      master == IF made = {} THEN <<>> ELSE MasterFormals(u, reg.ef, reg.efa)
      masterOk == failing = {} /\ ~TemplateAborts(master, declared \cup {"entry__lcompilers"})
      created == [k \in {<<Top.parent, e>> : e \in made} |-> reg.efa[k[2]]]
  IN  [ef |-> reg.ef, efa |-> reg.efa,
       failed |-> Entries[u] # <<>> /\ ~masterOk,
       mapping |-> IF Entries[u] = <<>> \/ failing # {} THEN entry_function_arguments_mapping
                   ELSE ArgumentMapping(u, reg.ef, reg.efa),
       templates |-> IF Entries[u] # <<>> /\ masterOk
                     THEN (<<Top.parent, MasterName(u)>> :> master)
                            @@ created @@ entry_templates
                     ELSE created @@ entry_templates]

-----------------------------------------------------------------------------

\* The end of a procedure up to the restore of the caller's state: its
\* undeclared dummy arguments get their type from the dictionary (typed
\* lists the letters that are declared), it is added to its parent, and its
\* entries are rewritten; a template whose argument has no type aborts,
\* leaving current_scope at the template's table and the dependencies
\* cleared.  Otherwise u's dictionary is recorded and cleared, a Subroutine
\* clears entry_function_args, and current_scope and the dependencies become
\* scope and deps.
FinishWith(raise, typed, scope, deps) ==
  LET u == Top.unit
      r == EntryRewrite(u)
  IN
  IF raise
  THEN /\ Proceed(TRUE, stack)
       /\ UNCHANGED <<input, current_scope, implicit_dictionary, implicit_stack,
                      current_function_dependencies, records>>
  ELSE /\ arg_type' = [p \in {<<u, l>> : l \in typed} |-> implicit_dictionary[p[2]]] @@ arg_type
       /\ func_deps' = (u :> current_function_dependencies) @@ func_deps
       /\ added_to' = (u :> Top.parent) @@ added_to
       /\ entry_functions' = r.ef
       /\ entry_templates' = r.templates
       /\ entry_function_arguments_mapping' = r.mapping
       /\ IF r.failed
          THEN /\ entry_function_args' = r.efa
               /\ current_scope' = "template"
               /\ current_function_dependencies' = {}
               /\ Proceed(TRUE, stack)
               /\ UNCHANGED <<input, implicit_dictionary, implicit_stack, entry_dictionary,
                              implicit_mapping>>
          ELSE /\ entry_function_args' = IF Kind[u] = "Subroutine" THEN <<>> ELSE r.efa
               /\ current_scope' = scope
               /\ implicit_mapping' = (u :> implicit_dictionary) @@ implicit_mapping
               /\ ReturnDictionary(Cleared)
               /\ current_function_dependencies' = deps
               /\ Proceed(FALSE, Rest)
               /\ UNCHANGED <<input, implicit_stack, entry_dictionary>>

\* Mutant: the end of a procedure leaves current_scope at its own table.
FinishProcedure_no_scope_restore(raise, typed) ==
  FinishWith(raise, typed, current_scope, Top.savedDeps)

\* Mutant: the end of a procedure keeps its own dependencies for the host.
FinishProcedure_no_deps_restore(raise, typed) ==
  FinishWith(raise, typed, Top.parent, current_function_dependencies)

\* The end of a procedure: current_scope goes back to the parent table and
\* the host's dependencies are restored.
FinishProcedure(raise, typed) == FinishWith(raise, typed, Top.parent, Top.savedDeps)

\* visit_Subroutine reports a dummy argument whose letter has no type and
\* throws, whether or not continue_compilation is set.
finish_Subroutine ==
  LET u == Top.unit
      untyped == {l \in Args[u] : implicit_dictionary[l] = NoType}
  IN
  /\ result = "running" /\ stack # <<>> /\ Kind[Top.unit] = "Subroutine"
  /\ Top.next > Len(Contains[u])
  /\ FinishProcedure(untyped # {} \/ err[u] = "dup", Args[u])

\* visit_Function declares every undeclared dummy argument with whatever
\* the dictionary holds for its letter.
finish_Function ==
  LET u == Top.unit IN
  /\ result = "running" /\ stack # <<>> /\ Kind[Top.unit] = "Function"
  /\ Top.next > Len(Contains[u])
  /\ FinishProcedure(err[u] = "dup", Args[u])

\* The loop of visit_TranslationUnit has run out of items.
translation_unit_done ==
  /\ result = "running" /\ stack = <<>> /\ item > Len(TUItems)
  /\ result' = "done"
  /\ UNCHANGED <<input, stack, item, current_scope, implicit_dictionary, implicit_stack,
                 current_function_dependencies, records>>

Next ==
  \/ \E u \in Units : visit_Module(u) \/ visit_Program(u)
                      \/ visit_Subroutine(u) \/ visit_Function(u)
  \/ finish_Module \/ finish_Program \/ finish_Subroutine \/ finish_Function
  \/ translation_unit_done

\* The resolver is a sequential recursion: while it runs, it has a next step.
Spec == Init /\ [][Next]_vars /\ WF_vars(Next)


-----------------------------------------------------------------------------
(* Properties                                                              *)

TypeOK ==
  /\ implicit \in [Units -> Stmts]
  /\ err \in [Units -> Errs]
  /\ item \in 1..Len(TUItems) + 1
  /\ result \in {"running", "done", "failed"}
  /\ current_scope \in Tables
  /\ implicit_dictionary \in Dicts
  /\ \A i \in DOMAIN implicit_stack : implicit_stack[i] \in Dicts
  /\ current_function_dependencies \subseteq UNION {Deps[u] : u \in Units}
  /\ \A i \in DOMAIN stack : stack[i].unit \in Units /\ stack[i].parent \in Tables
  /\ DOMAIN added_to \subseteq Units /\ \A u \in DOMAIN added_to : added_to[u] \in Tables

HostTable(u) == IF Host[u] = NoUnit THEN "global" ELSE Host[u]

\* Every unit the resolver finishes is added to the table of the unit that
\* lexically contains it (the global table for a top-level unit): the
\* parent_scope each visit_* captures on entry is its host's table, because
\* every earlier visit, finished or aborted, put current_scope back.
UnitsInHostTable ==
  \A u \in DOMAIN added_to : added_to[u] = HostTable(u)

\* Each procedure is created with the dependencies of its own declarations,
\* neither losing them to a contained procedure (which clears
\* current_function_dependencies) nor taking the contained one's: the copy
\* visit_Subroutine and visit_Function keep is restored on every return.
DepsIsolated ==
  \A u \in DOMAIN func_deps :
    func_deps[u] = IF err[u] = "decl" THEN {} ELSE Deps[u]

\* The dictionary recorded in implicit_mapping for a unit, and used for its
\* dummy arguments, is the one the unit set up on entry: visiting its
\* contained procedures (each of which ends with implicit_dictionary.clear())
\* does not change it.
HostDictionaryPreserved ==
  \A u \in DOMAIN implicit_mapping : implicit_mapping[u] = entry_dictionary[u]

\* The top-level unit that u sits in.
RECURSIVE TopUnit(_)
TopUnit(u) == IF Host[u] = NoUnit THEN u ELSE TopUnit(Host[u])

\* The mapping of a unit per spec 4.3.1, read literally: the dictionary
\* stack gets one entry per module, so a top-level unit starts from the
\* default mapping, a procedure inside a module (at any depth) from the
\* module's dictionary, and the unit's own implicit statements apply on top.
Effective(u) ==
  ApplyStmt(implicit[u],
            IF Host[u] # NoUnit /\ Kind[TopUnit(u)] = "Module"
            THEN ApplyStmt(implicit[TopUnit(u)], DefaultDict) ELSE DefaultDict)

\* The dictionary process_implicit_statements records for every unit is the
\* one spec 4.3.1 gives it (Effective).  It fails where a procedure of a
\* module has implicit statements of its own: the code applies them to the
\* default mapping instead of the module's dictionary.
ImplicitInheritance ==
  \A u \in DOMAIN implicit_mapping : implicit_mapping[u] = Effective(u)

=============================================================================
