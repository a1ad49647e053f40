----------------------------- MODULE ApprovalSpec -----------------------------
(***************************************************************************)
(* What the control plane promises of one approval, whatever goroutines    *)
(* run and however often the server restarts:                              *)
(*   - it walks none -> pending -> approved or denied -> executed or       *)
(*     cancelled;                                                          *)
(*   - its tool is started at most once, and only while it is approved;    *)
(*   - its turn is told one outcome, and only one that is true;            *)
(*   - a restart may forget an approval, cancel it, or offer it again when *)
(*     the decision was not stored; it never changes an approval whose     *)
(*     turn has been told an outcome, nor offers again one whose tool ran. *)
(***************************************************************************)
EXTENDS Naturals

CONSTANT Ids

VARIABLES
  status,   \* where each approval is
  ran,      \* how often its tool was started
  outcome   \* the outcomes its turn was told

vars == <<status, ran, outcome>>

Status == {"none", "pending", "approved", "denied", "executed", "cancelled"}

Init ==
  /\ status  = [id \in Ids |-> "none"]
  /\ ran     = [id \in Ids |-> 0]
  /\ outcome = [id \in Ids |-> {}]

Move(id, from, to) ==
  /\ status[id] = from
  /\ status' = [status EXCEPT ![id] = to]
  /\ UNCHANGED <<ran, outcome>>

Propose(id) == ran[id] = 0 /\ Move(id, "none", "pending")
Approve(id) == Move(id, "pending", "approved")
Deny(id)    == Move(id, "pending", "denied")
Abandon(id) == Move(id, "approved", "cancelled")
Execute(id) == ran[id] = 1 /\ Move(id, "approved", "executed")

\* Overdue approvals may be cancelled several at a time.
ExpireSome(S) ==
  /\ \A id \in S : status[id] = "pending"
  /\ status' = [id \in Ids |-> IF id \in S THEN "cancelled" ELSE status[id]]
  /\ UNCHANGED <<ran, outcome>>

Start(id) ==
  /\ status[id] = "approved"
  /\ ran[id] = 0
  /\ ran' = [ran EXCEPT ![id] = 1]
  /\ UNCHANGED <<status, outcome>>

\* The outcome that is true of an approval.
TrueOutcome(id, o) ==
  \/ o = "completed" /\ status[id] = "executed"
  \/ o = "failed"    /\ status[id] = "cancelled"
  \/ o = "cancelled" /\ status[id] \in {"denied", "cancelled"} /\ ran[id] = 0

Tell(id, o) ==
  /\ outcome[id] = {}
  /\ TrueOutcome(id, o)
  /\ outcome' = [outcome EXCEPT ![id] = {o}]
  /\ UNCHANGED <<status, ran>>

RestartMoves(id, to) ==
  \/ to \in {status[id], "none"}
  \/ /\ outcome[id] = {}
     /\ \/ to = "cancelled" /\ status[id] # "none"
        \/ to = "pending" /\ ran[id] = 0 /\ status[id] \in {"approved", "denied"}

Restart ==
  /\ status' \in [Ids -> Status]
  /\ \A id \in Ids : RestartMoves(id, status'[id])
  /\ UNCHANGED <<ran, outcome>>

Next ==
  \/ \E id \in Ids :
       \/ Propose(id) \/ Approve(id) \/ Deny(id) \/ Abandon(id)
       \/ Execute(id) \/ Start(id)
       \/ \E o \in {"completed", "failed", "cancelled"} : Tell(id, o)
  \/ \E S \in SUBSET Ids : ExpireSome(S)
  \/ Restart

Spec == Init /\ [][Next]_vars
===============================================================================
