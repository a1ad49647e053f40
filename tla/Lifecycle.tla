------------------------------ MODULE Lifecycle ------------------------------
(***************************************************************************)
(* The approval part of internal/state/lifecycle.go: which state an        *)
(* approval may move to from which.  The Go code keeps a map of maps; here *)
(* a table is the set of its (from, to) pairs.                             *)
(*                                                                         *)
(*   proposed -> pending -> approved -> executed                           *)
(*                  |          |                                           *)
(*                  |          +-> cancelled                               *)
(*                  +-> denied, cancelled                                  *)
(***************************************************************************)

ApprovalState ==
  {"proposed", "pending", "approved", "denied", "executed", "cancelled"}

approvalTransitions ==
       {<<"proposed", "pending">>}
  \cup {"pending"}  \X {"approved", "denied", "cancelled"}
  \cup {"approved"} \X {"executed", "cancelled"}

\* The states validateTransition refuses to leave, whatever the table says.
TerminalApproval == {"denied", "executed", "cancelled"}

\* TRUE when the Go function returns a nil error.
ValidateApprovalTransition(from, to) ==
  /\ from \notin TerminalApproval
  /\ <<from, to>> \in approvalTransitions
==============================================================================
