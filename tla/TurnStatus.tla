----------------------------- MODULE TurnStatus -----------------------------
(***************************************************************************)
(* The two loops of internal/context/context.go that make turn statuses of *)
(* a session's events: hasActiveMutableTurn, which decides whether a turn  *)
(* may be created, and deriveTurnStatuses, which the API shows.  l is the  *)
(* sequence of events a query returns; a status map that has no entry for  *)
(* a turn gives "none" (the Go map gives the empty string).                *)
(***************************************************************************)
EXTENDS SequencesExt

Terminal == {"completed", "failed", "cancelled"}

NoStatus(l) == [t \in {l[i].turn : i \in DOMAIN l} |-> "none"]

hasActiveStep(states, e) ==
  IF states[e.turn] \in Terminal /\ e.kind \notin Terminal THEN states
  ELSE CASE e.kind = "started" -> [states EXCEPT ![e.turn] = "active"]
         [] e.kind = "other"   -> states
         [] OTHER              -> [states EXCEPT ![e.turn] = e.kind]

turnStateByID(l) == FoldLeft(hasActiveStep, NoStatus(l), l)

hasActiveMutableTurn(l) ==
  LET states == turnStateByID(l)
  IN \E t \in DOMAIN states : states[t] \in {"active", "awaiting"}

deriveStep(statuses, e) ==
  CASE e.kind = "started" -> IF statuses[e.turn] = "none"
                             THEN [statuses EXCEPT ![e.turn] = "active"]
                             ELSE statuses
    [] e.kind = "other"   -> statuses
    [] OTHER              -> [statuses EXCEPT ![e.turn] = e.kind]

deriveTurnStatuses(l) == FoldLeft(deriveStep, NoStatus(l), l)
==============================================================================
