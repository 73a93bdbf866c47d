------------------------------ MODULE UseImport ------------------------------
(***************************************************************************)
(* The resolver's `use` statements (SymbolTableVisitor in                  *)
(* src/src/libasr/asr_verify.cpp): visit_Use, import_all,                  *)
(* import_symbols_util and process_generic_proc_custom_op, which imports   *)
(* and merges generic procedures with a FIFO worklist.                     *)
(*                                                                         *)
(* The importing scope is one symbol table: a function from local names   *)
(* to symbols.  A symbol is an ExternalSymbol ("Ext", with its target and  *)
(* module name) or a local GenericProcedure ("Generic", with its list of   *)
(* candidate symbols).  Every symbol object gets a fresh id when it is     *)
(* created, so that the model tells a symbol from a later one of the same  *)
(* name, as the pointers of the code do.  The used modules are constants.  *)
(* Their symbols are subroutines, generic procedures and ExternalSymbols   *)
(* they re-export.                                                         *)
(***************************************************************************)
EXTENDS Naturals, Sequences, SequencesExt

CONSTANTS
  Modules,     \* the modules that can be used
  Mod,         \* Mod[m]: m's symbol table, name -> [kind, access, procs, target, module]
  Programs,    \* the sequences of use statements to check
  NoTarget

VARIABLES
  uses,     \* the program's use statements: [module, kind, syms]
  pc,       \* the statement being resolved
  phase,    \* "next", "symbols", "worklist" or "all"
  i,        \* the symbol of the statement being imported
  scope,    \* current_scope: local name -> symbol
  nid,      \* the id the next symbol object gets
  queue,    \* to_be_imported_later: <<remote, local>> pairs
  already   \* symbols_already_imported_with_renaming

vars == <<uses, pc, phase, i, scope, nid, queue, already>>

-----------------------------------------------------------------------------

ExtSym(t, mname) ==
  [kind |-> "Ext", id |-> 0, target |-> t, module |-> mname, procs |-> <<>>]
GenericSym(ps) ==
  [kind |-> "Generic", id |-> 0, target |-> NoTarget, module |-> NoTarget, procs |-> ps]

\* A state of the import: the table, the worklist and the id counter.
St == [scope |-> scope, queue |-> queue, nid |-> nid]

Has(st, n) == n \in DOMAIN st.scope

\* SymbolTable::add_symbol / add_or_overwrite_symbol with a new object.
AddSymbol(st, n, s) ==
  [st EXCEPT !.scope = (n :> [s EXCEPT !.id = st.nid]) @@ st.scope,
             !.nid = st.nid + 1]

EraseSymbol(st, n) ==
  [st EXCEPT !.scope = [x \in DOMAIN st.scope \ {n} |-> st.scope[x]]]

\* The names the worklist imports a candidate under.
Mangled(p, l) == p \o "@" \o l
Bracketed(p) == "@" \o p \o "@"

\* symbol_get_past_external on a module's symbol.
Target(m, n) == IF Mod[m][n].kind = "External" THEN Mod[m][n].target ELSE <<m, n>>

\* The candidates of the module generic g, with the module owning each.
Items(g) == [k \in DOMAIN Mod[g[1]][g[2]].procs |-> <<g[1], Mod[g[1]][g[2]].procs[k]>>]

\* The symbol resolve_symbol finds under p, else under alt.
LocalId(st, p, alt) == IF Has(st, p) THEN st.scope[p].id ELSE st.scope[alt].id

RECURSIVE ImportSymbol(_, _, _, _), ProcessGeneric(_, _, _, _)

\* Find candidate p of module mod in the scope, under its own name or alt,
\* importing it under alt when neither is there.
ResolveOrImport(st, mod, p, alt) ==
  IF Has(st, p) \/ Has(st, alt) THEN st ELSE ImportSymbol(st, mod, p, alt)

\* process_generic_proc_custom_op when l is an ExternalSymbol to a generic:
\* a new GenericProcedure of the existing candidates, then the imported
\* generic's, each resolved or imported under p@l, without repeats.
MergeExternal(st, l, t) ==
  LET Step(acc, x) ==
        LET st2 == ResolveOrImport(acc.st, x[1], x[2], Mangled(x[2], l))
            id == LocalId(st2, x[2], Mangled(x[2], l))
        IN [st |-> st2,
            procs |-> IF id \in ToSet(acc.procs) THEN acc.procs ELSE Append(acc.procs, id)]
      r == FoldLeft(Step, [st |-> st, procs |-> <<>>], Items(st.scope[l].target) \o Items(t))
  IN AddSymbol(r.st, l, GenericSym(r.procs))

\* process_generic_proc_custom_op when l is already a local GenericProcedure:
\* the imported candidates, resolved or imported under @p@, are appended to
\* its list in place.
MergeLocal(st, l, t) ==
  LET Step(acc, x) ==
        LET st2 == ResolveOrImport(acc.st, x[1], x[2], Bracketed(x[2]))
            id == LocalId(st2, x[2], Bracketed(x[2]))
            once == IF id \in ToSet(acc.procs) THEN acc.procs ELSE Append(acc.procs, id)
        IN [st |-> st2, procs |-> Append(once, id)]
      r == FoldLeft(Step, [st |-> st, procs |-> st.scope[l].procs], Items(t))
  IN [r.st EXCEPT !.scope[l].procs = r.procs]

\* Mutant: the worklist entries are queued as <<local, remote>>.
FreshGeneric_swapped(st, l, t, m) ==
  LET names == Mod[t[1]][t[2]].procs
      missing == SelectSeq(names, LAMBDA p : ~Has(st, p))
      queued == [k \in DOMAIN missing |-> <<Mangled(missing[k], l), missing[k]>>]
      s == IF missing = <<>>
           THEN GenericSym([k \in DOMAIN names |-> st.scope[names[k]].id])
           ELSE ExtSym(t, m)
  IN AddSymbol([st EXCEPT !.queue = @ \o queued], l, s)

\* process_generic_proc_custom_op when l is not in the scope: a
\* GenericProcedure if every candidate is present under its own name,
\* otherwise an ExternalSymbol to the module's generic, with the missing
\* candidates queued for import under p@l.
FreshGeneric(st, l, t, m) ==
  LET names == Mod[t[1]][t[2]].procs
      missing == SelectSeq(names, LAMBDA p : ~Has(st, p))
      queued == [k \in DOMAIN missing |-> <<missing[k], Mangled(missing[k], l)>>]
      s == IF missing = <<>>
           THEN GenericSym([k \in DOMAIN names |-> st.scope[names[k]].id])
           ELSE ExtSym(t, m)
  IN AddSymbol([st EXCEPT !.queue = @ \o queued], l, s)

ProcessGeneric(st, l, t, m) ==
  IF ~Has(st, l) THEN FreshGeneric(st, l, t, m)
  ELSE IF st.scope[l].kind = "Ext" THEN MergeExternal(st, l, t)
  ELSE MergeLocal(st, l, t)

\* import_symbols_util on a module's ExternalSymbol: it is repacked with
\* its target, and merged if the target is a generic.
ImportExternal(st, m, e, l) ==
  LET st1 == AddSymbol(st, l, ExtSym(e.target, e.module)) IN
  IF Mod[e.target[1]][e.target[2]].kind = "Generic"
  THEN ProcessGeneric(st1, l, e.target, m) ELSE st1

\* import_symbols_util: import m's symbol r under the local name l; an
\* imported subroutine shadows (erases) whatever l named.
ImportSymbol(st, m, r, l) ==
  LET e == Mod[m][r] IN
  CASE e.kind = "Subroutine" ->
         AddSymbol(IF Has(st, l) THEN EraseSymbol(st, l) ELSE st, l, ExtSym(<<m, r>>, m))
    [] e.kind = "Generic" -> ProcessGeneric(st, l, <<m, r>>, m)
    [] e.kind = "External" -> ImportExternal(st, m, e, l)

\* get_indirect_public_symbols: the candidates of m's public generics.
IndirectPublic(m) ==
  UNION {ToSet(Mod[m][n].procs) :
           n \in {k \in DOMAIN Mod[m] : Mod[m][k].kind = "Generic" /\ Mod[m][k].access # "private"}}

\* Mutant: import_all points the new ExternalSymbol at the module's own
\* ExternalSymbol instead of its target.
ImportAll_no_unwrap(st, m, excluded) ==
  LET Imported(n) ==
        /\ n \notin excluded
        /\ ~Has(st, n)
        /\ Mod[m][n].kind = "Subroutine" =>
             Mod[m][n].access # "private" \/ n \in IndirectPublic(m)
  IN FoldLeft(LAMBDA s, n : AddSymbol(s, n, ExtSym(<<m, n>>, m)), st,
              SetToSeq({n \in DOMAIN Mod[m] : Imported(n)}))

\* import_all: every symbol of m not excluded and not already present; a
\* private subroutine only when a public generic of m lists it.
ImportAll(st, m, excluded) ==
  LET Imported(n) ==
        /\ n \notin excluded
        /\ ~Has(st, n)
        /\ Mod[m][n].kind = "Subroutine" =>
             Mod[m][n].access # "private" \/ n \in IndirectPublic(m)
      Repacked(n) ==
        IF Mod[m][n].kind = "External"
        THEN ExtSym(Mod[m][n].target, Mod[m][n].module) ELSE ExtSym(<<m, n>>, m)
  IN FoldLeft(LAMBDA s, n : AddSymbol(s, n, Repacked(n)), st,
              SetToSeq({n \in DOMAIN Mod[m] : Imported(n)}))

-----------------------------------------------------------------------------

Statement == uses[pc]

Init ==
  /\ uses \in Programs
  /\ pc = 1
  /\ phase = "next"
  /\ i = 1
  /\ scope = <<>>
  /\ nid = 1
  /\ queue = <<>>
  /\ already = <<>>

\* visit_Use: a statement without symbols imports everything; one with
\* symbols imports them first, with or without `only`.
visit_Use ==
  /\ phase = "next" /\ pc <= Len(uses)
  /\ phase' = IF Statement.kind = "all" THEN "all" ELSE "symbols"
  /\ i' = 1
  /\ queue' = <<>>
  /\ already' = <<>>
  /\ UNCHANGED <<uses, pc, scope, nid>>

Apply(st) == scope' = st.scope /\ queue' = st.queue /\ nid' = st.nid

\* The loop over the statement's symbols.
use_symbol ==
  LET x == Statement.syms[i] IN
  /\ phase = "symbols"
  /\ Apply(ImportSymbol(St, Statement.module, x[2], x[1]))
  /\ already' = IF Statement.kind = "rename" THEN Append(already, x[2]) ELSE already
  /\ IF i = Len(Statement.syms)
     THEN phase' = "worklist" /\ i' = i
     ELSE phase' = phase /\ i' = i + 1
  /\ UNCHANGED <<uses, pc>>

\* Mutant: the worklist loop pops entries without importing them.
worklist_step_drop ==
  /\ phase = "worklist" /\ queue # <<>>
  /\ Apply([St EXCEPT !.queue = Tail(queue)])
  /\ UNCHANGED <<uses, pc, phase, i, already>>

\* One turn of the worklist loop: a queued candidate is imported unless
\* its local name already resolves.
worklist_step ==
  LET x == Head(queue)
      st0 == [St EXCEPT !.queue = Tail(queue)]
  IN
  /\ phase = "worklist" /\ queue # <<>>
  /\ IF Has(st0, x[2])
     THEN Apply(st0) /\ already' = already
     ELSE /\ Apply(ImportSymbol(st0, Statement.module, x[1], x[2]))
          /\ already' = IF Statement.kind = "rename" THEN Append(already, x[1]) ELSE already
  /\ UNCHANGED <<uses, pc, phase, i>>

\* The worklist is empty: an `only` statement is done; one with renames
\* goes on to import_all.
worklist_done ==
  /\ phase = "worklist" /\ queue = <<>>
  /\ IF Statement.kind = "rename"
     THEN phase' = "all" /\ pc' = pc
     ELSE phase' = "next" /\ pc' = pc + 1
  /\ UNCHANGED <<uses, i, scope, nid, queue, already>>

import_all ==
  /\ phase = "all"
  /\ Apply(ImportAll(St, Statement.module, ToSet(already)))
  /\ phase' = "next"
  /\ pc' = pc + 1
  /\ UNCHANGED <<uses, i, already>>

Next == visit_Use \/ use_symbol \/ worklist_step \/ worklist_done \/ import_all

\* The statements are resolved one after another, each to its end.
Spec == Init /\ [][Next]_vars /\ WF_vars(Next)


-----------------------------------------------------------------------------
(* Properties                                                              *)

TypeOK ==
  /\ pc \in 1..Len(uses) + 1
  /\ phase \in {"next", "symbols", "worklist", "all"}
  /\ nid \in Nat \ {0}
  /\ \A n \in DOMAIN scope : /\ scope[n].kind \in {"Ext", "Generic"}
                             /\ scope[n].id \in 1..nid - 1
  /\ \A k \in DOMAIN queue : queue[k][1] \in UNION {DOMAIN Mod[m] : m \in Modules}

IsGeneric(t) == Mod[t[1]][t[2]].kind = "Generic"

\* Every ExternalSymbol an import creates points past the used module's
\* own ExternalSymbols to the real symbol, and names the module that owns
\* it (spec 4.1, ExternalSymbol coherence; 4.3.3, unwrapping), whichever
\* of import_all, import_symbols_util or the generic merge created it.
ExternalCoherence ==
  \A n \in DOMAIN scope :
    scope[n].kind = "Ext" =>
      /\ Mod[scope[n].target[1]][scope[n].target[2]].kind # "External"
      /\ scope[n].module = scope[n].target[1]

\* Once a statement is resolved, the worklist has reached its fixed point:
\* every candidate of a generic the scope reaches through an ExternalSymbol
\* has itself been imported, under some local name.
CandidatesImported ==
  phase = "next" =>
    \A n \in DOMAIN scope :
      scope[n].kind = "Ext" /\ IsGeneric(scope[n].target) =>
        \A x \in ToSet(Items(scope[n].target)) :
          \E k \in DOMAIN scope : scope[k].kind = "Ext" /\ scope[k].target = Target(x[1], x[2])

\* Every candidate of a local GenericProcedure is a symbol of the scope: no
\* later import replaces a symbol a merged generic points to.
CandidatesLive ==
  \A n \in DOMAIN scope :
    scope[n].kind = "Generic" =>
      \A k \in DOMAIN scope[n].procs : \E j \in DOMAIN scope : scope[j].id = scope[n].procs[k]

\* The <<local, remote>> pairs a statement imports, per spec 4.3.3: all of
\* the module's names, only the listed ones, or all with the renames.
Imports(u) ==
  LET listed == ToSet(u.syms)
      own == {<<n, n>> : n \in DOMAIN Mod[u.module]}
  IN CASE u.kind = "all" -> own
       [] u.kind = "only" -> listed
       [] u.kind = "rename" -> listed \cup {x \in own : x[2] \notin {y[2] : y \in listed}}

Candidates(g) == [k \in DOMAIN Items(g) |-> Target(Items(g)[k][1], Items(g)[k][2])]

Dedup(s) == FoldLeft(LAMBDA acc, x : IF x \in ToSet(acc) THEN acc ELSE Append(acc, x), <<>>, s)

\* The candidates the first k statements give the local name l: the union
\* of the candidate lists of the generics imported under l, in order.
Expected(l, k) ==
  LET Of(u) == LET gs == {Target(u.module, x[2]) : x \in {y \in Imports(u) : y[1] = l}}
               IN FoldLeft(LAMBDA acc, g : acc \o Candidates(g), <<>>,
                           SetToSeq({g \in gs : IsGeneric(g)}))
  IN Dedup(FoldLeft(LAMBDA acc, u : acc \o Of(u), <<>>, SubSeq(uses, 1, k)))

TargetOfId(id) ==
  IF \E k \in DOMAIN scope : scope[k].id = id
  THEN scope[CHOOSE k \in DOMAIN scope : scope[k].id = id].target
  ELSE NoTarget

LocalCandidates(l) ==
  IF scope[l].kind = "Generic"
  THEN [k \in DOMAIN scope[l].procs |-> TargetOfId(scope[l].procs[k])]
  ELSE Candidates(scope[l].target)

\* After each statement, a name that the statements so far import generics
\* under is one generic whose candidates are the union of theirs, each
\* once, in the order the statements bring them (spec 4.3.3, scenario 2).
MergedGenericIsUnion ==
  phase = "next" =>
    \A l \in UNION {{x[1] : x \in Imports(uses[k])} : k \in 1..pc - 1} :
      Expected(l, pc - 1) # <<>> =>
        l \in DOMAIN scope /\ LocalCandidates(l) = Expected(l, pc - 1)

=============================================================================
