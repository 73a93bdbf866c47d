-------------------------- MODULE InterfaceGenerics --------------------------
(***************************************************************************)
(* Interface blocks and the assembly of generic procedures and custom      *)
(* operators in the resolver (SymbolTableVisitor in                        *)
(* src/src/libasr/asr_verify.cpp).                                         *)
(*                                                                         *)
(* While the resolver walks a unit, visit_Interface only records names:    *)
(* the procedures of a named interface go to generic_procedures, those of  *)
(* an operator interface to overloaded_op_procs, of a defined operator or  *)
(* a write interface to defined_op_procs, of an assignment interface to    *)
(* assgn_proc_names.  These four accumulators are members of the visitor,  *)
(* shared by every scope.  When a module or program ends, the              *)
(* add_*_procedures functions look each recorded name up and emit one      *)
(* GenericProcedure or CustomOperator symbol per key.  A function that has *)
(* the name of a pending generic is declared as name~genericprocedure, so  *)
(* that the generic does not overwrite it.                                 *)
(*                                                                         *)
(* A source is a sequence of units (modules and programs).  A unit has the *)
(* interfaces of its specification part and its contained procedures; a   *)
(* contained procedure has the interfaces of its own specification part.  *)
(* Every symbol object gets a fresh id, so that a list of candidates can   *)
(* be told from the table it was taken from.                               *)
(*                                                                         *)
(* A unit's specification part also has derived types.  visit_DerivedType *)
(* records each binding of a type in class_procedures (procedure and pass *)
(* attribute) and class_deferred_procedures (deferred, nopass), and each  *)
(* generic binding in generic_class_procedures, all keyed by the type's   *)
(* name; the Struct symbol goes to the unit's table with a table of its   *)
(* own.  At the end of a module add_class_procedures emits one            *)
(* StructMethodDeclaration per binding and add_generic_class_procedures   *)
(* one GenericProcedure or CustomOperator per generic binding, both into  *)
(* the type's table.  Only class_procedures is cleared, at module entry.  *)
(* A procedure symbol records the type of its passed-object dummy.        *)
(*                                                                         *)
(* Requirements and templates are items of the same specification part,   *)
(* visited in order with the interfaces and types and before the unit's   *)
(* procedures.  Each has a table nested in the unit's, saves and clears    *)
(* overloaded_op_procs, emits its own operators in its table and puts the  *)
(* saved map back.                                                         *)
(***************************************************************************)
EXTENDS Naturals, Sequences, SequencesExt

CONSTANTS
  Sources,     \* the translation units to resolve
  TildeKeys    \* accumulator keys that already start with "~"

VARIABLES
  tu,       \* the translation unit: a sequence of units
  pc,       \* [u |-> unit, k |-> item]: k = 0 before the unit begins
  acc,      \* the accumulators [gp, ops, defs, assgn]
  tables,   \* scope name -> (local name -> symbol)
  nid,      \* the id the next symbol object gets
  result    \* "running", "ok", "failed" or "crash"

vars == <<tu, pc, acc, tables, nid, result>>

-----------------------------------------------------------------------------

\* A unit's specification part is a sequence of items tagged "type",
\* "iface", "req" (a requirement) or "tmpl" (a template).
Decls(x, tag) == SelectSeq(x.decls, LAMBDA d : d.tag = tag)
Ifaces(x) == Decls(x, "iface")
Types(x) == Decls(x, "type")

Unit == tu[pc.u]
NDecls == Len(Unit.decls)
NItems == NDecls + Len(Unit.contains)
Decl == Unit.decls[pc.k]

ProcSym(i, self) == [kind |-> "Procedure", id |-> i, procs |-> <<>>, self |-> self]
StructSym(i) == [kind |-> "Struct", id |-> i, procs |-> <<>>]
MethodSym(i, pid, deferred, nopass) ==
  [kind |-> "Method", id |-> i, procs |-> <<pid>>, deferred |-> deferred, nopass |-> nopass]
UnitSym(i) == [kind |-> "Unit", id |-> i, procs |-> <<>>]
ScopeSym(kind, i) == [kind |-> kind, id |-> i, procs |-> <<>>]
Aggregate(kind, i, ps) == [kind |-> kind, id |-> i, procs |-> ps]

\* map[key].insert(end, procs), or map[key] = procs for a new key.
AppendProcs(m, key, ps) ==
  IF key \in DOMAIN m THEN [m EXCEPT ![key] = @ \o ps] ELSE (key :> ps) @@ m

\* fill_interface_proc_names refuses a name listed twice in one statement.
HasDuplicate(ps) == Len(ps) # Cardinality(ToSet(ps))

\* visit_Interface: the accumulator each header kind records into.  A
\* write interface assigns its list instead of appending to it.
AddInterface(a, f) ==
  CASE f.header = "Name" -> [a EXCEPT !.gp = AppendProcs(@, f.key, f.procs)]
    [] f.header = "Operator" -> [a EXCEPT !.ops = AppendProcs(@, f.key, f.procs)]
    [] f.header = "Defined" -> [a EXCEPT !.defs = AppendProcs(@, f.key, f.procs)]
    [] f.header = "Assignment" -> [a EXCEPT !.assgn = @ \o f.procs]
    [] f.header = "Write" -> [a EXCEPT !.defs = (("~write_" \o f.key) :> f.procs) @@ @]

\* update_custom_op_name: a defined operator .op. is stored as ~~op~~.
UpdateCustomOpName(key) == IF key \in TildeKeys THEN key ELSE "~~" \o key \o "~~"

\* resolve_symbol: the current scope, then its parent, the global scope;
\* 0 when the name is not declared.
Resolve(tab, n) ==
  IF n \in DOMAIN tab THEN tab[n].id
  ELSE IF n \in DOMAIN tables["global"] THEN tables["global"][n].id ELSE 0

\* The fold state of a scope's finalisation: its table, whether it is a
\* requirement or template nested in the unit, every table (for the
\* tables of its types), the id counter, whether every name resolved so
\* far, and whether a null symbol was dereferenced.
Fin(tab) == [tab |-> tab, nested |-> FALSE, all |-> tables, nid |-> nid,
             ok |-> TRUE, crash |-> FALSE]

\* resolve_symbol from the scope being finalised: its own table, the
\* unit's table for a nested scope, then the global scope.
ResolveIn(st, n) ==
  IF st.nested /\ n \notin DOMAIN st.tab /\ n \in DOMAIN tables[Unit.name]
  THEN tables[Unit.name][n].id ELSE Resolve(st.tab, n)

\* The table a type's procedures are resolved in: the type's parent, the
\* unit's table.
ProcScope(st) == IF st.nested THEN tables[Unit.name] ELSE st.tab

\* Mutant: the aggregate takes the next id without handing it out.
EmitAggregate_same_id(st, kind, name, names) ==
  LET ids == [j \in DOMAIN names |-> ResolveIn(st, names[j])]
  IN  IF ~st.ok \/ \E j \in DOMAIN ids : ids[j] = 0
      THEN [st EXCEPT !.ok = FALSE]
      ELSE [st EXCEPT !.tab = (name :> Aggregate(kind, st.nid, ids)) @@ @]

\* add_or_overwrite_symbol of a new aggregate, once all its names resolve.
EmitAggregate(st, kind, name, names) ==
  LET ids == [j \in DOMAIN names |-> ResolveIn(st, names[j])]
  IN  IF ~st.ok \/ \E j \in DOMAIN ids : ids[j] = 0
      THEN [st EXCEPT !.ok = FALSE]
      ELSE [st EXCEPT !.tab = (name :> Aggregate(kind, st.nid, ids)) @@ @,
                      !.nid = @ + 1]

\* One generic of add_generic_procedures: a candidate with the generic's
\* name is looked up as name~genericprocedure, and a generic whose name is
\* taken by a procedure is stored as ~name.
AddGeneric(st, key) ==
  LET ps == acc.gp[key]
      names == [j \in DOMAIN ps |->
                  IF ps[j] = key THEN key \o "~genericprocedure" ELSE ps[j]]
      sym_name == IF key \in DOMAIN st.tab /\ st.tab[key].kind = "Procedure"
                  THEN "~" \o key ELSE key
  IN  EmitAggregate(st, "Generic", sym_name, names)

add_generic_procedures(st) == FoldLeft(AddGeneric, st, SetToSeq(DOMAIN acc.gp))

\* add_custom_operator for one key of an operator accumulator m.
AddCustomOperator(m, st, key) ==
  EmitAggregate(st, "CustomOp", UpdateCustomOpName(key), m[key])

\* add_overloaded_procedures with accumulators a: the intrinsic operators,
\* then the defined ones (both maps are cleared after).
add_overloaded_procedures(a, st) ==
  LET st1 == FoldLeft(LAMBDA x, k : AddCustomOperator(a.ops, x, k),
                      st, SetToSeq(DOMAIN a.ops))
  IN  FoldLeft(LAMBDA x, k : AddCustomOperator(a.defs, x, k),
               st1, SetToSeq(DOMAIN a.defs))

add_assignment_procedures(st) ==
  IF acc.assgn = <<>> THEN st ELSE EmitAggregate(st, "CustomOp", "~assign", acc.assgn)

\* m[key], or the empty value of the map when key is absent (operator[]).
Lookup(m, key, empty) == IF key \in DOMAIN m THEN m[key] ELSE empty

\* visit_DerivedTypeProc and visit_GenericName (and the other generic
\* bindings) for the bindings of type t, under dt_name = t.name.
RecordType(a, t) ==
  LET cp == Lookup(a.cp, t.name, <<>>)
      cdf == Lookup(a.cdf, t.name, <<>>)
      gcp == Lookup(a.gcp, t.name, <<>>)
      Attrs(b) == {x \in {"deferred", "nopass"} : b[x]}
  IN  [a EXCEPT
        !.cp = (t.name :> ([n \in {b.binding : b \in ToSet(t.binds)} |->
                 LET b == CHOOSE c \in ToSet(t.binds) : c.binding = n
                 IN  [proc |-> b.proc,
                      pass |-> b.pass \/ Lookup(cp, n, [pass |-> FALSE]).pass]] @@ cp)) @@ @,
        !.cdf = (t.name :> ([n \in {b.binding : b \in ToSet(t.binds)} |->
                  Lookup(cdf, n, {}) \cup
                    UNION {Attrs(b) : b \in {c \in ToSet(t.binds) : c.binding = n}}] @@ cdf)) @@ @,
        !.gcp = (t.name :> FoldLeft(LAMBDA m, g : AppendProcs(m, g.key, g.names),
                                    gcp, t.generics)) @@ @]

\* check_is_deferred, and the nopass test of add_class_procedures: the
\* attributes class_deferred_procedures holds for binding n of type dt.
HasAttr(dt, n, x) == x \in Lookup(Lookup(acc.cdf, dt, <<>>), n, {})

\* Mutant: the deferred attribute looked up under the procedure's name.
IsDeferred_by_procedure(dt, n) == HasAttr(dt, acc.cp[dt][n].proc, "deferred")

IsDeferred(dt, n) == HasAttr(dt, n, "deferred")

\* One binding n of type dt in add_class_procedures: pass with nopass is an
\* error, the procedure is resolved from the type's parent scope (an error
\* when absent), its passed-object dummy must have the type unless nopass,
\* and the StructMethodDeclaration is added to the type's table.
AddClassProcedure(dt, st, n) ==
  LET is_pass == acc.cp[dt][n].pass
      is_nopass == HasAttr(dt, n, "nopass")
      proc == acc.cp[dt][n].proc
      scope == ProcScope(st)
      found == proc \in DOMAIN scope /\ scope[proc].kind = "Procedure"
  IN  IF ~st.ok \/ (is_pass /\ is_nopass) \/ ~found
         \/ (~is_nopass /\ scope[proc].self # dt)
      THEN [st EXCEPT !.ok = FALSE]
      ELSE [st EXCEPT !.all[dt] = (n :> MethodSym(st.nid, scope[proc].id,
                                                  IsDeferred(dt, n), is_nopass)) @@ @,
                      !.nid = @ + 1]

add_class_procedures(st) ==
  FoldLeft(LAMBDA x, dt : FoldLeft(LAMBDA y, n : AddClassProcedure(dt, y, n),
                                   x, SetToSeq(DOMAIN acc.cp[dt])),
           st, SetToSeq(DOMAIN acc.cp))

\* One generic binding of type dt: every name must be a symbol of the
\* type's own table; an operator or assignment key makes a CustomOperator.
AddGenericClassProcedure(dt, st, key) ==
  LET names == acc.gcp[dt][key]
  IN  IF ~st.ok \/ st.crash THEN st
      ELSE IF \E j \in DOMAIN names : names[j] \notin DOMAIN st.all[dt]
      THEN [st EXCEPT !.ok = FALSE]
      ELSE [st EXCEPT !.all[dt] = (key :> Aggregate(IF key \in TildeKeys THEN "CustomOp"
                                                    ELSE "Generic", st.nid,
                                    [j \in DOMAIN names |-> st.all[dt][names[j]].id])) @@ @,
                      !.nid = @ + 1]

\* add_generic_class_procedures: the type is looked up in the current scope
\* only, and the result is dereferenced without a null test.
add_generic_class_procedures(st) ==
  FoldLeft(LAMBDA x, dt :
             IF ~x.ok \/ x.crash THEN x
             ELSE IF dt \notin DOMAIN x.tab THEN [x EXCEPT !.crash = TRUE]
             ELSE FoldLeft(LAMBDA y, k : AddGenericClassProcedure(dt, y, k),
                           x, SetToSeq(DOMAIN acc.gcp[dt])),
           st, SetToSeq(DOMAIN acc.gcp))

-----------------------------------------------------------------------------

Init ==
  /\ tu \in Sources
  /\ pc = [u |-> 1, k |-> 0]
  /\ acc = [gp |-> <<>>, ops |-> <<>>, defs |-> <<>>, assgn |-> <<>>,
             cp |-> <<>>, cdf |-> <<>>, gcp |-> <<>>]
  /\ tables = [s \in {"global"} \cup {tu[u].name : u \in DOMAIN tu}
                  \cup {d.name : d \in {e \in UNION {ToSet(tu[u].decls) : u \in DOMAIN tu} :
                                 e.tag # "iface"}}
                  \cup {p.name : p \in UNION {ToSet(tu[u].contains) : u \in DOMAIN tu}}
                 |-> <<>>]
  /\ nid = 1
  /\ result = "running"

\* A SemanticAbort: the translation unit is not resolved.
Fail == /\ result' = "failed"
        /\ UNCHANGED <<tu, pc, acc, tables, nid>>

Running == result = "running" /\ pc.u <= Len(tu)

\* visit_ModuleSubmoduleCommon, entry: clears assgn_proc_names,
\* class_procedures and generic_procedures, but not the two operator maps
\* nor the other two type-bound maps.
visit_Module ==
  /\ Running /\ pc.k = 0 /\ Unit.kind = "Module"
  /\ acc' = [acc EXCEPT !.gp = <<>>, !.assgn = <<>>, !.cp = <<>>]
  /\ pc' = [pc EXCEPT !.k = 1]
  /\ UNCHANGED <<tu, tables, nid, result>>

\* visit_Program, entry: clears generic_procedures only.
visit_Program ==
  /\ Running /\ pc.k = 0 /\ Unit.kind = "Program"
  /\ acc' = [acc EXCEPT !.gp = <<>>]
  /\ pc' = [pc EXCEPT !.k = 1]
  /\ UNCHANGED <<tu, tables, nid, result>>

\* visit_DerivedType for a type of the unit's specification part: its
\* bindings are recorded, and the Struct is added to the unit's table
\* with an empty table of its own.
visit_DerivedType ==
  /\ Running /\ pc.k \in 1..NDecls /\ Decl.tag = "type"
  /\ LET t == Decl
     IN  /\ acc' = RecordType(acc, t)
         /\ tables' = [tables EXCEPT ![Unit.name] = (t.name :> StructSym(nid)) @@ @,
                                     ![t.name] = <<>>]
  /\ nid' = nid + 1
  /\ pc' = [pc EXCEPT !.k = @ + 1]
  /\ UNCHANGED <<tu, result>>

\* visit_Interface for an interface of the unit's specification part.
visit_Interface ==
  /\ Running /\ pc.k \in 1..NDecls /\ Decl.tag = "iface"
  /\ LET f == Decl
     IN  IF HasDuplicate(f.procs) THEN Fail
         ELSE /\ acc' = AddInterface(acc, f)
              /\ pc' = [pc EXCEPT !.k = @ + 1]
              /\ UNCHANGED <<tu, tables, nid, result>>

\* The body of a requirement or template r: overloaded_op_procs is saved
\* and cleared, r's interfaces are recorded, and its functions declared
\* in its own table (renamed for a pending generic of their name).
NestedAcc(r) == FoldLeft(AddInterface, [acc EXCEPT !.ops = <<>>], r.ifaces)
NestedNames(r) ==
  [i \in DOMAIN r.funcs |-> IF r.funcs[i] \in DOMAIN NestedAcc(r).gp
                            THEN r.funcs[i] \o "~genericprocedure" ELSE r.funcs[i]]
NestedStart(r) ==
  LET names == NestedNames(r)
      tab == [n \in ToSet(names) |->
                ProcSym(nid + (CHOOSE i \in DOMAIN names : names[i] = n) - 1, "")]
  IN  [Fin(tab) EXCEPT !.nested = TRUE, !.nid = nid + Len(names)]
NestedMalformed(r) ==
  (\E f \in ToSet(r.ifaces) : HasDuplicate(f.procs)) \/ HasDuplicate(NestedNames(r))

\* Mutant: the saved operator map is not put back.
RestoreOps_dropped(saved) == <<>>

\* The loop that copies the saved map back into overloaded_op_procs, which
\* add_overloaded_procedures has just cleared.
RestoreOps(saved) == saved

\* The end of a requirement or template: its symbol in the unit's table;
\* defined_op_procs stays cleared, overloaded_op_procs is restored.
EndNested(r, kind, st, cp) ==
  IF ~st.ok THEN Fail
  ELSE /\ acc' = [NestedAcc(r) EXCEPT !.ops = RestoreOps(acc.ops), !.defs = <<>>, !.cp = cp]
       /\ tables' = [st.all EXCEPT ![r.name] = st.tab,
                                   ![Unit.name] = (r.name :> ScopeSym(kind, st.nid)) @@ @]
       /\ nid' = st.nid + 1
       /\ pc' = [pc EXCEPT !.k = @ + 1]
       /\ UNCHANGED <<tu, result>>

\* visit_Requirement: every symbol of its table must be a parameter, then
\* its operators are emitted in its table.
visit_Requirement ==
  /\ Running /\ pc.k \in 1..NDecls /\ Decl.tag = "req"
  /\ IF NestedMalformed(Decl) \/ ~(ToSet(NestedNames(Decl)) \subseteq Decl.params) THEN Fail
     ELSE EndNested(Decl, "Requirement",
                    add_overloaded_procedures(NestedAcc(Decl), NestedStart(Decl)), acc.cp)

\* visit_Template: every parameter must be a symbol of its table, then its
\* operators and the unit's pending type-bound procedures are emitted from
\* its table, and class_procedures is cleared.
visit_Template ==
  /\ Running /\ pc.k \in 1..NDecls /\ Decl.tag = "tmpl"
  /\ IF NestedMalformed(Decl) \/ ~(Decl.params \subseteq ToSet(NestedNames(Decl))) THEN Fail
     ELSE EndNested(Decl, "Template",
                    add_class_procedures(add_overloaded_procedures(NestedAcc(Decl),
                                                                   NestedStart(Decl))), <<>>)

\* visit_Subroutine and visit_Function of a contained procedure: its own
\* interfaces go to the shared accumulators, then it is added to the
\* unit's table.  Only a function is renamed for a pending generic of its
\* name; a name already declared is an error.
DeclareProcedure(kind) ==
  /\ Running /\ pc.k \in NDecls + 1..NItems
  /\ LET p == Unit.contains[pc.k - NDecls]
         a == FoldLeft(AddInterface, acc, p.ifaces)
         sym_name == IF kind = "Function" /\ p.name \in DOMAIN a.gp
                     THEN p.name \o "~genericprocedure" ELSE p.name
     IN  /\ p.kind = kind
         /\ IF \/ \E f \in ToSet(p.ifaces) : HasDuplicate(f.procs)
               \/ sym_name \in DOMAIN tables[Unit.name]
            THEN Fail
            ELSE /\ acc' = a
                 /\ tables' = [tables EXCEPT ![Unit.name] =
                                 (sym_name :> ProcSym(nid, p.self)) @@ @]
                 /\ nid' = nid + 1
                 /\ pc' = [pc EXCEPT !.k = @ + 1]
                 /\ UNCHANGED <<tu, result>>

visit_Subroutine == DeclareProcedure("Subroutine")
visit_Function == DeclareProcedure("Function")

\* The end of a unit: finalisation in the unit's table, then the unit
\* symbol in the global scope.
FinishUnit(st, clear) ==
  IF st.crash THEN /\ result' = "crash"
                   /\ UNCHANGED <<tu, pc, acc, tables, nid>>
  ELSE IF ~st.ok THEN Fail
  ELSE /\ tables' = [st.all EXCEPT ![Unit.name] = st.tab,
                                   !["global"] = (Unit.name :> UnitSym(st.nid)) @@ @]
       /\ nid' = st.nid + 1
       /\ acc' = clear
       /\ pc' = [u |-> pc.u + 1, k |-> 0]
       /\ UNCHANGED <<tu, result>>

\* visit_ModuleSubmoduleCommon, end: generics, then operators (which clears
\* both operator maps), type-bound procedures, type-bound generics, then
\* assignment (which does not clear its list).
finish_Module ==
  /\ Running /\ Unit.kind = "Module" /\ pc.k = NItems + 1
  /\ FinishUnit(add_assignment_procedures(add_generic_class_procedures(
                  add_class_procedures(add_overloaded_procedures(acc,
                    add_generic_procedures(Fin(tables[Unit.name])))))),
                [acc EXCEPT !.gp = <<>>, !.ops = <<>>, !.defs = <<>>])

\* visit_Program, end: generics only.
finish_Program ==
  /\ Running /\ Unit.kind = "Program" /\ pc.k = NItems + 1
  /\ FinishUnit(add_generic_procedures(Fin(tables[Unit.name])),
                [acc EXCEPT !.gp = <<>>])

resolution_done ==
  /\ result = "running" /\ pc.u = Len(tu) + 1
  /\ result' = "ok"
  /\ UNCHANGED <<tu, pc, acc, tables, nid>>

Next ==
  \/ visit_Module \/ visit_Program \/ visit_DerivedType \/ visit_Interface
  \/ visit_Requirement \/ visit_Template
  \/ visit_Subroutine \/ visit_Function
  \/ finish_Module \/ finish_Program \/ resolution_done

Spec == Init /\ [][Next]_vars /\ WF_vars(Next)

-----------------------------------------------------------------------------

Symbols == {"Procedure", "Unit", "Generic", "CustomOp", "Struct", "Method",
            "Requirement", "Template"}
Entries == UNION {{<<s, n>> : n \in DOMAIN tables[s]} : s \in DOMAIN tables}
Sym(e) == tables[e[1]][e[2]]

\* Every symbol of every table is a distinct object: its id is one the
\* counter handed out, no two entries share one, and an aggregate lists
\* ids the counter handed out.
TypeOK ==
  /\ result \in {"running", "ok", "failed", "crash"}
  /\ \A e \in Entries :
       /\ Sym(e).kind \in Symbols
       /\ Sym(e).id \in 1..nid - 1
       /\ ToSet(Sym(e).procs) \subseteq 1..nid - 1
  /\ \A e1, e2 \in Entries : Sym(e1).id = Sym(e2).id => e1 = e2

\* The interfaces of the specification part of scope s.
DeclaredIn(s) ==
  UNION {ToSet(Ifaces(tu[u])) : u \in {v \in DOMAIN tu : tu[v].name = s}}
    \cup UNION {ToSet(p.ifaces) : p \in {q \in UNION {ToSet(tu[u].contains) : u \in DOMAIN tu} :
                                          q.name = s}}

\* The name the aggregate of interface f is stored under in scope s.
ExpectedName(s, f) ==
  CASE f.header = "Name" ->
         IF f.key \in DOMAIN tables[s] /\ tables[s][f.key].kind = "Procedure"
         THEN "~" \o f.key ELSE f.key
    [] f.header \in {"Operator", "Defined"} -> UpdateCustomOpName(f.key)
    [] f.header = "Write" -> UpdateCustomOpName("~write_" \o f.key)
    [] f.header = "Assignment" -> "~assign"

ExpectedId(s, f, p) ==
  Resolve(tables[s], IF f.header = "Name" /\ p = f.key
                     THEN p \o "~genericprocedure" ELSE p)

\* Spec 4.3.5: when a scope is finalised, each of its interfaces has become
\* a GenericProcedure or CustomOperator of that scope listing every
\* procedure the interface names.  The accumulators are shared by all
\* scopes, so an interface can be emitted in another scope or not at all.
InterfacesEmittedInScope ==
  result = "ok" =>
    \A s \in DOMAIN tables : \A f \in DeclaredIn(s) :
      LET n == ExpectedName(s, f)
      IN  /\ n \in DOMAIN tables[s]
          /\ \A p \in ToSet(f.procs) : ExpectedId(s, f, p) \in ToSet(tables[s][n].procs)


\* Spec 4.3.4: once a module is finalised, each binding of each of its
\* types is a StructMethodDeclaration of the type's table that refers to
\* the procedure the binding names and carries that binding's own deferred
\* and nopass attributes, and each generic binding is an aggregate of the
\* type listing exactly the methods it names.  The attributes travel
\* through class_deferred_procedures, a visitor-wide map keyed by type and
\* binding name, and the generics are emitted only after the methods.
TypeBoundProceduresEmitted ==
  \A u \in 1..pc.u - 1 : tu[u].kind = "Module" =>
    \A t \in ToSet(Types(tu[u])) :
      LET tab == tables[t.name]
      IN  /\ \A b \in ToSet(t.binds) :
               /\ b.binding \in DOMAIN tab
               /\ tab[b.binding] = MethodSym(tab[b.binding].id,
                                             tables[tu[u].name][b.proc].id,
                                             b.deferred, b.nopass)
          /\ \A g \in ToSet(t.generics) :
               /\ g.key \in DOMAIN tab
               /\ ToSet(tab[g.key].procs) = {tab[n].id : n \in ToSet(g.names)}

\* A requirement or template is finalised inside its module: visit_Requirement
\* and visit_Template save overloaded_op_procs, clear it, emit their own
\* operator interfaces into their own table, and put the module's back.
\* Once a module is finalised, each operator(+)-style interface of its
\* specification part is a CustomOperator of the module listing its
\* procedures, and each requirement or template is a symbol of the module
\* whose own operator interfaces are CustomOperators of its table.  It fails
\* if a nested scope drops or steals the module's pending operators.
NestedScopesKeepUnitOperators ==
  \A u \in 1..pc.u - 1 : tu[u].kind = "Module" =>
    LET tab == tables[tu[u].name]
        Emitted(t, f) ==
          /\ UpdateCustomOpName(f.key) \in DOMAIN t
          /\ \A p \in ToSet(f.procs) :
               Resolve(t, p) \in ToSet(t[UpdateCustomOpName(f.key)].procs)
    IN  /\ \A f \in ToSet(Ifaces(tu[u])) : f.header = "Operator" => Emitted(tab, f)
        /\ \A r \in ToSet(Decls(tu[u], "req")) \cup ToSet(Decls(tu[u], "tmpl")) :
             /\ r.name \in DOMAIN tab
             /\ \A f \in ToSet(r.ifaces) : Emitted(tables[r.name], f)

\* Spec section 7: a semantic error is reported as a diagnostic and
\* unwinds; the resolver never dereferences a null symbol.  It fails if
\* add_generic_class_procedures meets a type name that generic_class_procedures
\* kept from an earlier module and that the current module does not declare.
ResolutionNeverCrashes == result # "crash"

=============================================================================
