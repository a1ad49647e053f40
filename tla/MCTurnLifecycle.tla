-------------------------- MODULE MCTurnLifecycle --------------------------
(* TurnLifecycle for TLC, with the loops of the code to compare it to. *)
EXTENDS TurnLifecycle, Ordering, TLC

Loops == INSTANCE TurnStatus

Symmetry == Permutations(Turns) \cup Permutations(Handlers) \cup Permutations(Creators)

\* The events as a query returns them.
Events == Ordered(log, {pair \in log \X log : pair[1].at < pair[2].at})

\* What TurnLifecycle says of a turn is what the two loops over the events
\* compute, for every history that goroutines and crashes can leave.
LoopsAgree ==
  /\ (\E t \in Turns : Mutable(t)) = Loops!hasActiveMutableTurn(Events)
  /\ \A t \in Turns : Started(t) => Status(t) = Loops!deriveTurnStatuses(Events)[t]
============================================================================
