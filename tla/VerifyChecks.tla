----------------------------- MODULE VerifyChecks -----------------------------
(***************************************************************************)
(* Single-node checks of the ASR verifier (VerifyVisitor in                *)
(* src/src/libasr/asr_verify.cpp) as operators, each beside the reference  *)
(* definition spec.md gives for it, and the bounded inputs VerifyWalk     *)
(* runs them on.                                                           *)
(*                                                                         *)
(* visit_Enum: an Enum carries a common type and a classification of its   *)
(* member values (m_enum_value_type).  The verifier counts the values in   *)
(* a std::map, whose keys it walks in ascending order, and accepts the     *)
(* classification only when the counts agree with it.  An enum here is    *)
(* its classification, its common type and the constant values of its     *)
(* members in symbol-table order.                                          *)
(*                                                                         *)
(* visit_Struct: a Struct's optional alignment must evaluate to a constant *)
(* whose int64_t value passes a != 0 && (a & (a - 1)) == 0.  An alignment  *)
(* here is absent, not constant, or a constant of a w-bit two's-complement *)
(* integer; the bits of a value are the natural a % 2^w, so a - 1 wraps as *)
(* the build's arithmetic does.                                            *)
(***************************************************************************)
EXTENDS Integers, Sequences, FiniteSets
LOCAL INSTANCE SequencesExt
LOCAL INSTANCE Bitwise

EnumValueTypes ==
  {"IntegerConsecutiveFromZero", "IntegerNotUnique", "IntegerUnique", "NonInteger"}

\* value2count: each member value -> the number of members that have it.
Value2Count(vals) == [v \in ToSet(vals) |-> Cardinality({i \in DOMAIN vals : vals[i] = v})]

\* The loop over value2count in key order, from prev = -1: every key is one
\* more than the one before it.
RECURSIVE Consecutive(_, _)
Consecutive(keys, prev) ==
  \/ keys = <<>>
  \/ /\ Head(keys) - prev = 1
     /\ Consecutive(Tail(keys), Head(keys))

\* is_enumtype_correct of visit_Enum.
IsEnumTypeCorrect(e) ==
  LET counts == Value2Count(e.values)
      is_enum_integer == e.type = "Integer"
  IN  CASE e.kind = "IntegerConsecutiveFromZero" ->
             /\ is_enum_integer /\ 0 \in DOMAIN counts
             /\ Cardinality(DOMAIN counts) = Len(e.values)
             /\ Consecutive(SetToSortSeq(DOMAIN counts, <), -1)
        [] e.kind = "IntegerNotUnique" ->
             is_enum_integer /\ Cardinality(DOMAIN counts) # Len(e.values)
        [] e.kind = "IntegerUnique" ->
             is_enum_integer /\ Cardinality(DOMAIN counts) = Len(e.values)
        [] e.kind = "NonInteger" -> ~is_enum_integer

\* Spec section 3 and 4.2: the classification matches the values of the
\* members -- exactly 0..n-1 for n members, some value repeated, no value
\* repeated, or a type that is not an integer.
EnumClassMatches(e) ==
  LET vals == ToSet(e.values)
      n == Len(e.values)
  IN  CASE e.kind = "IntegerConsecutiveFromZero" -> e.type = "Integer" /\ vals = 0..n - 1
        [] e.kind = "IntegerNotUnique" -> e.type = "Integer" /\ Cardinality(vals) < n
        [] e.kind = "IntegerUnique" -> e.type = "Integer" /\ Cardinality(vals) = n
        [] e.kind = "NonInteger" -> e.type # "Integer"

\* The w-bit two's-complement word of integer a, as a natural.
Word(a, w) == a % 2^w

\* Mutant: the test without alignment_int != 0.
IsAlignmentOk_no_zero_test(al, w) ==
  \/ al.kind = "absent"
  \/ al.kind = "const" /\ (Word(al.v, w) & Word(al.v - 1, w)) = 0

\* The requires of visit_Struct: no alignment, or a constant value that is
\* not zero and has a single bit set.
IsAlignmentOk(al, w) ==
  \/ al.kind = "absent"
  \/ al.kind = "const" /\ al.v # 0 /\ (Word(al.v, w) & Word(al.v - 1, w)) = 0

\* Spec 4.2: a Struct's alignment, if present, evaluates to a positive
\* power of two.
AlignmentMatches(al, w) ==
  \/ al.kind = "absent"
  \/ al.kind = "const" /\ \E k \in 0..w - 2 : al.v = 2^k

\* Every alignment but the least w-bit integer, whose decrement overflows.
AlignInputs(w) ==
  {[kind |-> "absent", v |-> 0], [kind |-> "nonconst", v |-> 0]}
    \cup {[kind |-> "const", v |-> a] : a \in -(2^(w - 1)) + 1..2^(w - 1) - 1}

\* Enums of one to three members with values in -1..2.
EnumInputs ==
  [kind : EnumValueTypes, type : {"Integer", "Real"},
   values : UNION {[1..n -> -1..2] : n \in 1..3}]

=============================================================================
