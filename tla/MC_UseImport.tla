----------------------------- MODULE MC_UseImport -----------------------------
(***************************************************************************)
(* Modules for UseImport.  A and B each have a generic plus: A's lists a   *)
(* public pA1 and a private pA2, B's lists pB1.  C re-exports B's plus and *)
(* pB1 as ExternalSymbols (C itself does `use B`).  The statements are     *)
(* `use M`, `use M, only: plus`, `use A, only: pA1` and                    *)
(* `use A, q => plus`.                                                     *)
(***************************************************************************)
EXTENDS UseImport

Sub(acc) == [kind |-> "Subroutine", access |-> acc, procs |-> <<>>,
             target |-> NoTarget, module |-> NoTarget]
Gen(ps) == [kind |-> "Generic", access |-> "public", procs |-> ps,
            target |-> NoTarget, module |-> NoTarget]
Reexport(m, n) == [kind |-> "External", access |-> "public", procs |-> <<>>,
                   target |-> <<m, n>>, module |-> m]

MCModules == {"A", "B", "C"}
MCMod ==
  ("A" :> (("plus" :> Gen(<<"pA1", "pA2">>)) @@ ("pA1" :> Sub("public"))
           @@ ("pA2" :> Sub("private"))))
  @@ ("B" :> (("plus" :> Gen(<<"pB1">>)) @@ ("pB1" :> Sub("public"))))
  @@ ("C" :> (("plus" :> Reexport("B", "plus")) @@ ("pB1" :> Reexport("B", "pB1"))))

UseAll(m) == [module |-> m, kind |-> "all", syms |-> <<>>]
UseOnly(m, n) == [module |-> m, kind |-> "only", syms |-> <<<<n, n>>>>]
UseRename(m, l, r) == [module |-> m, kind |-> "rename", syms |-> <<<<l, r>>>>]

MCStatements ==
  {UseAll(m) : m \in MCModules} \cup {UseOnly(m, "plus") : m \in MCModules}
  \cup {UseOnly("A", "pA1"), UseRename("A", "q", "plus")}

\* Every program of one to three use statements.
MCPrograms == UNION {[1..k -> MCStatements] : k \in 1..3}

\* Spec scenario 2: use A; use B.
MCScenario2 == {<<UseAll("A"), UseAll("B")>>}

=============================================================================
