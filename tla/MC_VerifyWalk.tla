---------------------------- MODULE MC_VerifyWalk ----------------------------
(***************************************************************************)
(* Trees for VerifyWalk.  The base tree is a translation unit with a       *)
(* module m holding an enum e, a struct st and functions f and g, f holding a contained function h *)
(* and a block b1, and a program p holding a contained function q:         *)
(*                                                                         *)
(*   tu -+- m -+- e                                                        *)
(*       |     +- f -+- b1                                                 *)
(*       |     |     +- h                                                  *)
(*       |     +- g                                                        *)
(*       |     +- st                                                       *)
(*       +- p --- q                                                        *)
(*                                                                         *)
(* Its calls cover every case of the dependency rule: a call to a sibling  *)
(* (f to g), to a contained procedure (f to h), from a block to both, from *)
(* a contained procedure to its host (h to f), and recursion (g to g).     *)
(* The variant adds a block b2 nested in b1.                              *)
(***************************************************************************)
EXTENDS VerifyWalk, TLC

MCScope == {"tu", "m", "e", "st", "f", "g", "h", "b1", "p", "q"}
MCScopeNested == MCScope \cup {"b2"}

MCKind ==
  [s \in MCScopeNested |->
     CASE s = "tu" -> "TranslationUnit"
       [] s = "m" -> "Module"
       [] s = "p" -> "Program"
       [] s = "e" -> "Enum"
       [] s = "st" -> "Struct"
       [] s \in {"b1", "b2"} -> "Block"
       [] OTHER -> "Function"]

MCUpAll ==
  ("tu" :> Null) @@ ("m" :> "tu") @@ ("p" :> "tu") @@ ("e" :> "m") @@ ("st" :> "m") @@ ("f" :> "m") @@
  ("g" :> "m") @@ ("h" :> "f") @@ ("b1" :> "f") @@ ("q" :> "p") @@ ("b2" :> "b1")
MCUp == [s \in MCScope |-> MCUpAll[s]]
MCUpNested == [s \in MCScopeNested |-> MCUpAll[s]]

MCCtr0 == [s \in MCScope |-> CHOOSE i \in 1..10 :
             <<"tu", "m", "e", "st", "f", "b1", "h", "g", "p", "q">>[i] = s]
MCCtr0Nested == [s \in MCScopeNested |-> IF s = "b2" THEN 11 ELSE MCCtr0[s]]

Call(t) == [op |-> "call", arg |-> t]
Assign(v) == [op |-> "assign", arg |-> v]
BlockCall(b) == [op |-> "blockcall", arg |-> b]

MCChildren ==
  [s \in MCScope |->
     CASE s = "tu" -> <<"m", "p">>
       [] s = "m" -> <<"e", "st", "f", "g">>
       [] s = "f" -> <<"b1", "h">>
       [] s = "p" -> <<"q">>
       [] OTHER -> <<>>]
MCChildrenNested ==
  [s \in MCScopeNested |-> IF s = "b1" THEN <<"b2">>
                           ELSE IF s = "b2" THEN <<>> ELSE MCChildren[s]]

MCBody ==
  [s \in MCScope |->
     CASE s = "f" -> <<Call("g"), Call("h"), BlockCall("b1"), Assign("n")>>
       [] s = "b1" -> <<Call("h"), Call("g")>>
       [] s = "h" -> <<Call("g"), Call("f"), Assign("n")>>
       [] s = "g" -> <<Call("g")>>
       [] s = "p" -> <<Call("q")>>
       [] OTHER -> <<>>]
\* b1 also enters a nested block b2 that calls f's contained procedure h.
MCBodyNested ==
  [s \in MCScopeNested |->
     CASE s = "b1" -> MCBody["b1"] \o <<BlockCall("b2")>>
       [] s = "b2" -> <<Call("h")>>
       [] OTHER -> MCBody[s]]
MCParams == {"n"}

MCParentFaultTargets == MCScope
MCParentFaultTargetsNull == MCScope \cup {Null}

\* int64_t scaled to 8 bits: the alignments -127..127.
MCAlignWidth == 8

=============================================================================
