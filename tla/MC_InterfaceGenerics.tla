------------------------- MODULE MC_InterfaceGenerics -------------------------
(***************************************************************************)
(* Sources for InterfaceGenerics.  A module m contains a subroutine p, a   *)
(* function q and a procedure g that is a subroutine or a function; p may  *)
(* declare a local generic h of its own.  The specification part of m has *)
(* any subset, in this order, of:                                          *)
(*                                                                         *)
(*   interface g ; module procedure p, q                                   *)
(*   interface g ; module procedure g        (g is its own candidate)      *)
(*   interface operator(+) ; module procedure q                            *)
(*   interface operator(.q.) ; module procedure p   (.q. shares q's name)  *)
(*   interface assignment(=) ; module procedure p                          *)
(*   interface write(formatted) ; module procedure p                       *)
(*   interface write(formatted) ; module procedure q                       *)
(*   interface h ; module procedure p, p     (refused: p twice)            *)
(*                                                                         *)
(* A program main contains a subroutine r and may declare an operator(+)  *)
(* interface for r.  A translation unit is m alone, main alone, or both   *)
(* in either order.                                                        *)
(***************************************************************************)
EXTENDS InterfaceGenerics, TLC

Iface(h, k, ps) == [tag |-> "iface", header |-> h, key |-> k, procs |-> ps]
Proc(kind, n, fs, self) == [kind |-> kind, name |-> n, ifaces |-> fs, self |-> self]
Bind(b, p, pass, nopass, deferred) ==
  [binding |-> b, proc |-> p, pass |-> pass, nopass |-> nopass, deferred |-> deferred]
Type(n, bs, gs) == [tag |-> "type", name |-> n, binds |-> bs, generics |-> gs]

\* type t: procedure(p), deferred :: area ; procedure, nopass :: q ;
\*         generic :: gen => area, q ; generic :: operator(+) => q
TValid == Type("t", << Bind("area", "p", FALSE, FALSE, TRUE),
                      Bind("q", "q", FALSE, TRUE, FALSE) >>,
               << [key |-> "gen", names |-> <<"area", "q">>],
                  [key |-> "~add", names |-> <<"q">>] >>)
\* procedure, pass :: p ; procedure, nopass :: g => p ; generic :: gen => p, g
TPass == Type("t", << Bind("p", "p", TRUE, FALSE, FALSE),
                     Bind("g", "p", FALSE, TRUE, FALSE) >>,
              << [key |-> "gen", names |-> <<"p", "g">>] >>)
\* procedure :: q  (q's first dummy is not class(t): refused)
TBadSelf == Type("t", <<Bind("q", "q", FALSE, FALSE, FALSE)>>, <<>>)
\* procedure, pass, nopass :: p  (refused)
TBoth == Type("t", <<Bind("p", "p", TRUE, TRUE, FALSE)>>, <<>>)
\* procedure(x), deferred :: area  (no interface x: refused) ;
\* generic :: gen => nope  (never reached)
TMissing == Type("t", <<Bind("area", "x", FALSE, FALSE, TRUE)>>,
                 <<[key |-> "gen", names |-> <<"nope">>]>>)
\* procedure :: p ; generic :: gen => p, nope  (nope is no binding: refused)
TBadGeneric == Type("t", <<Bind("p", "p", FALSE, FALSE, FALSE)>>,
                    <<[key |-> "gen", names |-> <<"p", "nope">>]>>)

MTypes == {<<>>, <<TValid>>, <<TPass>>, <<TBadSelf>>, <<TBoth>>, <<TMissing>>, <<TBadGeneric>>}

MIfaces ==
  << Iface("Name", "g", <<"p", "q">>),
     Iface("Name", "g", <<"g">>),
     Iface("Operator", "~add", <<"q">>),
     Iface("Defined", "q", <<"p">>),
     Iface("Assignment", "", <<"p">>),
     Iface("Write", "formatted", <<"p">>),
     Iface("Write", "formatted", <<"q">>),
     Iface("Name", "h", <<"p", "p">>) >>

LocalH == <<Iface("Name", "h", <<"q">>)>>

Modules ==
  { [kind |-> "Module", name |-> "m",
     decls |-> SelectSeq(MIfaces, LAMBDA f : f \in chosen),
     contains |-> << Proc("Subroutine", "p", local, "t"), Proc("Function", "q", <<>>, ""),
                     Proc(gkind, "g", <<>>, "t") >>] :
      chosen \in SUBSET ToSet(MIfaces), local \in {<<>>, LocalH},
      gkind \in {"Subroutine", "Function"} }

MainOp == <<Iface("Operator", "~add", <<"r">>)>>

Main(fs) == [kind |-> "Program", name |-> "main", decls |-> fs,
             contains |-> <<Proc("Subroutine", "r", <<>>, "")>>]

\* m with a derived type, over the interface subsets that name p or q.
TypedModules ==
  {[m EXCEPT !.decls = ty \o @] :
     m \in {n \in Modules : ToSet(n.decls) \in {{}, {MIfaces[1]}, {MIfaces[3]}}},
     ty \in MTypes \ {<<>>}}

Nested(tag, n, ps, fs, funcs) ==
  [tag |-> tag, name |-> n, params |-> ps, ifaces |-> fs, funcs |-> funcs]

\* requirement r(plus_t) ; interface operator(+) ; procedure plus_t
\* (and a variant that also declares extra, no parameter: refused)
\* template tm(add_t) ; interface operator(+) ; procedure add_t
\* (and a variant whose parameter missing is never declared: refused)
MNested ==
  { Nested("req", "r", {"plus_t"}, <<Iface("Operator", "~add", <<"plus_t">>)>>, <<"plus_t">>),
    Nested("req", "r", {"plus_t"}, <<>>, <<"plus_t", "extra">>),
    Nested("tmpl", "tm", {"add_t"}, <<Iface("Operator", "~add", <<"add_t">>)>>, <<"add_t">>),
    Nested("tmpl", "tm", {"add_t", "missing"}, <<>>, <<"add_t">>) }

\* m with one requirement or template after an operator(+) interface for
\* q, or after nothing.
NestedModules ==
  {[kind |-> "Module", name |-> "m", decls |-> pre \o <<r>>,
    contains |-> << Proc("Subroutine", "p", <<>>, "t"), Proc("Function", "q", <<>>, "") >>] :
     pre \in {<<>>, <<MIfaces[3]>>}, r \in MNested}

MCSources ==
  {<<Main(fs)>> : fs \in {<<>>, MainOp}}
    \cup UNION {{<<m>>, <<Main(fs), m>>, <<m, Main(fs)>>} :
                  m \in Modules \cup TypedModules \cup NestedModules, fs \in {<<>>, MainOp}}

\* Spec 4.3.5 on a program alone: its operator interface.
MCSourcesProgram == {<<Main(MainOp)>>}

MCTildeKeys == {"~add", "~write_formatted"}

\* A module m2 that neither declares t nor uses m.
M2 == [kind |-> "Module", name |-> "m2", decls |-> <<>>,
       contains |-> <<Proc("Subroutine", "r2", <<>>, "")>>]

\* m with type t and its generic bindings, followed by m2 in one file.
MCSourcesClassLeak ==
  {<<[m EXCEPT !.decls = <<TValid>>], M2>> : m \in {n \in Modules : n.decls = <<>>}}

=============================================================================
