-------------------------- MODULE MCApprovalService --------------------------
(* Model values for ApprovalService. *)
EXTENDS ApprovalService, TLC

\* Handlers and calls are interchangeable; used for safety properties only.
Symmetry == Permutations(Requests) \cup Permutations(Calls)
==============================================================================
