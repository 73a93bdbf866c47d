-------------------------- MODULE MC_ProcedureScopes --------------------------
(***************************************************************************)
(* Sources for ProcedureScopes.  The base source is a module m holding a   *)
(* subroutine s (which contains a subroutine t) and a function f, followed *)
(* by a program p:                                                         *)
(*                                                                         *)
(*   m -+- s --- t                                                         *)
(*      +- f                                                               *)
(*   p                                                                     *)
(*                                                                         *)
(* t and f each leave one dummy argument undeclared.  As in spec scenario *)
(* 6, s(a, b) has an ENTRY e(b, c) and declares c; f(y) has an ENTRY      *)
(* fe(k, y) and leaves k to implicit typing.  Letters a, b and c stand    *)
(* with x for the letters typed real by default, k with i for i-n.  Every *)
(* unit takes each of the three implicit statements, and at most one unit *)
(* fails in its declarations or with an "already defined" error.  The     *)
(* variant moves t into the function f and leaves f without its entry.    *)
(***************************************************************************)
EXTENDS ProcedureScopes

MCUnits == {"m", "s", "t", "f", "p"}

MCKind == ("m" :> "Module") @@ ("p" :> "Program") @@ ("f" :> "Function")
          @@ ("s" :> "Subroutine") @@ ("t" :> "Subroutine")

MCHost == ("m" :> NoUnit) @@ ("p" :> NoUnit) @@ ("s" :> "m") @@ ("f" :> "m")
          @@ ("t" :> "s")
MCHostInFunction == [MCHost EXCEPT !["t"] = "f"]

MCContains == ("m" :> <<"s", "f">>) @@ ("s" :> <<"t">>) @@ ("t" :> <<>>)
              @@ ("f" :> <<>>) @@ ("p" :> <<>>)
MCContainsInFunction == [MCContains EXCEPT !["s"] = <<>>, !["f"] = <<"t">>]

MCTUItems == <<"m", "p">>

MCArgs == ("m" :> {}) @@ ("p" :> {}) @@ ("s" :> {}) @@ ("t" :> {"i"})
          @@ ("f" :> {"x"})

MCDeps == [u \in MCUnits |-> {"k_" \o u}]

MCName == [u \in MCUnits |-> u]
MCFormals == [u \in MCUnits |-> CASE u = "s" -> <<"a", "b">>
                                  [] u = "f" -> <<"y">>
                                  [] OTHER -> <<>>]
MCLocals == [u \in MCUnits |-> IF u = "s" THEN {"c"} ELSE {}]
MCEntries == [u \in MCUnits |->
                CASE u = "s" -> <<[name |-> "e", args |-> <<"b", "c">>]>>
                  [] u = "f" -> <<[name |-> "fe", args |-> <<"k", "y">>]>>
                  [] OTHER -> <<>>]
MCEntriesInFunction == [MCEntries EXCEPT !["f"] = <<>>]
MCArgLetter == [a \in {"a", "b", "c", "k", "y"} |-> IF a = "k" THEN "i" ELSE "x"]
\* std::string order of the names.
MCNameOrder == <<"a", "b", "c", "e", "fe", "k", "y">>
MCNameRank == [n \in {MCNameOrder[i] : i \in 1..7} |-> CHOOSE i \in 1..7 : MCNameOrder[i] = n]

=============================================================================
