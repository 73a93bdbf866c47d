---------------------------- MODULE VerifierSpec ----------------------------
(***************************************************************************)
(* What asr_verify promises its callers, stated without the walk: on a     *)
(* given tree it stops, and it reports success exactly when the tree       *)
(* satisfies every invariant the verifier is meant to check.               *)
(*                                                                         *)
(* wellFormed stands for "the tree satisfies the invariants"; a detailed   *)
(* specification supplies it through a refinement mapping.                 *)
(***************************************************************************)

VARIABLES
  verdict,     \* "running" until the verifier returns, then its answer
  wellFormed   \* whether the input tree is well formed (never changes)

Verdicts == {"running", "accepted", "rejected"}

Init ==
  /\ verdict = "running"
  /\ wellFormed \in BOOLEAN

\* The one visible step: the verifier answers, and its answer is the truth.
Decide ==
  /\ verdict = "running"
  /\ verdict' = IF wellFormed THEN "accepted" ELSE "rejected"
  /\ UNCHANGED wellFormed

Spec ==
  Init /\ [][Decide]_<<verdict, wellFormed>> /\ WF_<<verdict, wellFormed>>(Decide)

=============================================================================
