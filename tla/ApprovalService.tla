--------------------------- MODULE ApprovalService ---------------------------
(***************************************************************************)
(* Approvals of tool calls in the control plane: the in-memory             *)
(* ApprovalManager (internal/controlplane/approval.go), the handlers that  *)
(* drive it (server.go: proposeToolApproval and RequestApproval,           *)
(* handleApprovals, handleApprovalByID), the approval events they append   *)
(* to the event store, and what restoreRuntimeState rebuilds from those    *)
(* events when the server starts again (startup_restore.go).               *)
(*                                                                         *)
(* Every handler runs in a goroutine of its own (a member of Requests) and *)
(* is cut at each call that takes the manager's lock, appends to the store *)
(* or runs the tool, because other goroutines, or a crash of the server,   *)
(* come in between.                                                        *)
(*                                                                         *)
(* An approval is named by the clock reading of its creation, so an id is  *)
(* a tick of the clock.  An append is one step: replay sorts events by the *)
(* timestamp taken when the event is built, so the step stands for that    *)
(* moment, and an insert that never follows is an append that failed.      *)
(***************************************************************************)
EXTENDS Naturals, Sequences, FiniteSets, Lifecycle

CONSTANTS
  Requests,          \* goroutines that serve HTTP requests or agent turns
  Calls,             \* tool calls that need approval
  NoCall,            \* no tool call
  MaxTicks,          \* bound: clock readings, hence approval ids
  MaxBoots,          \* bound: restarts after a crash
  PerTick,           \* how many readings of the clock may give the same value
  DecideAfterLogged, \* operators decide only once the proposing call returned
  StoreMayFail       \* an append to the event store may return an error

ASSUME ConstantsAssumption ==
  /\ MaxTicks \in Nat
  /\ MaxBoots \in Nat
  /\ NoCall \notin Calls
  /\ PerTick \in Nat \ {0}
  /\ DecideAfterLogged \in BOOLEAN
  /\ StoreMayFail \in BOOLEAN

VARIABLES
  now,      \* the clock
  readings, \* how often the current tick was read
  items,    \* ApprovalManager.items: state and call under each id
  expired,  \* ids whose ExpiresAt has passed
  req,      \* the handlers in progress
  log,      \* per id, its approval_* events in the store, in replay order
  trail,    \* per id, the state its last approval.transition event names
  told,     \* per id, the turn statuses its handlers asked to record
  shown,    \* per id, the call an operator last saw displayed under it
  runs,     \* per id, how often the tool was started under it
  boots     \* restarts so far

vars == <<now, readings, items, expired, req, log, trail, told, shown, runs, boots>>

Ids == 1..MaxTicks

\* "torn" is a State read while another goroutine was writing it.
ItemState == ApprovalState \cup {"absent", "torn"}

Absent == [state |-> "absent", call |-> NoCall]

TurnOutcome == {"completed", "failed", "cancelled"}
TurnStatus  == TurnOutcome \cup {"awaiting_approval"}

Proposed(s, c)  == [kind |-> "proposed", state |-> s, call |-> c]
Decided(d)      == [kind |-> "decided", decision |-> d]
ExecutedEvent   == [kind |-> "executed"]

Event ==      [kind: {"proposed"}, state: ItemState, call: Calls]
         \cup [kind: {"decided"}, decision: {"approve", "deny"}]
         \cup [kind: {"executed"}]

(***************************************************************************)
(* Where a handler is.  Proposing: stamped (id taken), inserted (in the    *)
(* map), copied (the copy to be logged is made).  Deciding: approved or    *)
(* denied (Decide returned), authorised (approve is logged), running (the  *)
(* tool was started), marked (MarkExecuted returned).  telling: about to   *)
(* record a turn status, the last thing a handler does.                    *)
(***************************************************************************)
ProposingPC == {"stamped", "inserted", "copied"}
OwnerPC     == {"approved", "denied", "authorised", "running", "marked"}
PC == {"idle", "telling"} \cup ProposingPC \cup OwnerPC

Idle == [pc |-> "idle", id |-> 0, call |-> NoCall, seen |-> NoCall,
         copy |-> "absent", tell |-> "awaiting_approval"]

At(r, pc)        == req[r].pc = pc
Proposing(r, id) == req[r].pc \in ProposingPC /\ req[r].id = id
Goto(r, pc)      == req' = [req EXCEPT ![r].pc = pc]
Tell(r, status)  == req' = [req EXCEPT ![r].pc = "telling", ![r].tell = status]
Return(r)        == req' = [req EXCEPT ![r] = Idle]

SetState(id, s) == items' = [items EXCEPT ![id].state = s]

\* recordTransition: a failed append is only logged to stderr.
Record(id, s) == \/ trail' = [trail EXCEPT ![id] = s]
                 \/ StoreMayFail /\ UNCHANGED trail

AppendEvent(id, e) == log' = [log EXCEPT ![id] = Append(@, e)]

\* ApprovalManager.Cancel with its error ignored, as every caller does.
CancelItem(id) ==
  \/ /\ ValidateApprovalTransition(items[id].state, "cancelled")
     /\ SetState(id, "cancelled")
     /\ Record(id, "cancelled")
  \/ /\ ~ValidateApprovalTransition(items[id].state, "cancelled")
     /\ UNCHANGED <<items, trail>>

Init ==
  /\ now = 1
  /\ readings = 0
  /\ items = [id \in Ids |-> Absent]
  /\ expired = {}
  /\ req = [r \in Requests |-> Idle]
  /\ log = [id \in Ids |-> <<>>]
  /\ trail = [id \in Ids |-> "absent"]
  /\ told = [id \in Ids |-> {}]
  /\ shown = [id \in Ids |-> NoCall]
  /\ runs = [id \in Ids |-> 0]
  /\ boots = 0

------------------------------------------------------------------------------
(* Time *)

\* The clock may move before a tick has been read PerTick times.  A tick that
\* nobody reads makes no difference.
Tick ==
  /\ readings > 0
  /\ now' = now + 1
  /\ readings' = 0
  /\ UNCHANGED <<items, expired, req, log, trail, told, shown, runs, boots>>

Expire(id) ==
  /\ id < now
  /\ id \notin expired
  /\ expired' = expired \cup {id}
  /\ UNCHANGED <<now, readings, items, req, log, trail, told, shown, runs, boots>>

------------------------------------------------------------------------------
(* Proposing: ApprovalManager.Propose and its two callers *)

\* The id is fixed before the lock is taken.
Stamp(r, call) ==
  /\ At(r, "idle")
  /\ now \in Ids
  /\ req' = [req EXCEPT ![r] =
               [Idle EXCEPT !.pc = "stamped", !.id = now, !.call = call]]
  /\ IF readings + 1 = PerTick
     THEN now' = now + 1 /\ readings' = 0
     ELSE now' = now /\ readings' = readings + 1
  /\ UNCHANGED <<items, expired, log, trail, told, shown, runs, boots>>

Insert(r) ==
  /\ At(r, "stamped")
  /\ items' = [items EXCEPT ![req[r].id] =
                 [state |-> "pending", call |-> req[r].call]]
  /\ Record(req[r].id, "pending")
  /\ Goto(r, "inserted")
  /\ UNCHANGED <<now, readings, expired, log, told, shown, runs, boots>>

\* `copy := *approval` reads the state without the lock: while it is being
\* changed, the copy may hold the old state, the new one or a mix of both.
CopyOutcome(s) == IF s = "pending" THEN {s} ELSE {"pending", s, "torn"}

CopyApproval(r) ==
  /\ At(r, "inserted")
  /\ \E s \in CopyOutcome(items[req[r].id].state) :
       req' = [req EXCEPT ![r].pc = "copied", ![r].copy = s]
  /\ UNCHANGED <<now, readings, items, expired, log, trail, told, shown, runs, boots>>

\* The approval_proposed event carries the copy.  proposeToolApproval then
\* records the turn status; RequestApproval returns to the agent's runner.
AppendProposed(r) ==
  /\ At(r, "copied")
  /\ \/ /\ AppendEvent(req[r].id, Proposed(req[r].copy, req[r].call))
        /\ shown' = [shown EXCEPT ![req[r].id] = req[r].call]
        /\ Tell(r, "awaiting_approval") \/ Return(r)
     \/ /\ StoreMayFail
        /\ Return(r)
        /\ UNCHANGED <<log, shown>>
  /\ UNCHANGED <<now, readings, items, expired, trail, told, runs, boots>>

\* appendTurnLifecycleEvent: the last step of every branch that reaches it.
TellTurn(r) ==
  /\ At(r, "telling")
  /\ told' = [told EXCEPT ![req[r].id] = @ \cup {req[r].tell}]
  /\ Return(r)
  /\ UNCHANGED <<now, readings, items, expired, log, trail, shown, runs, boots>>

------------------------------------------------------------------------------
(* Listing and deciding *)

\* Fault: the sweep cancels whatever is overdue and not finished.
ListPendingSweepsApproved ==
  LET overdue == {id \in expired : items[id].state \in {"pending", "approved"}}
  IN /\ items' = [id \in Ids |-> IF id \in overdue
                                 THEN [items[id] EXCEPT !.state = "cancelled"]
                                 ELSE items[id]]
     /\ UNCHANGED <<now, readings, expired, req, log, trail, told, shown, runs, boots>>

\* handleApprovals: expired approvals are cancelled on the way.
ListPending ==
  LET overdue == {id \in expired : items[id].state = "pending"}
      listed  == {id \in Ids \ expired : items[id].state = "pending"}
  IN /\ items' = [id \in Ids |-> IF id \in overdue
                                 THEN [items[id] EXCEPT !.state = "cancelled"]
                                 ELSE items[id]]
     /\ \E lost \in SUBSET overdue :
          /\ lost = {} \/ StoreMayFail
          /\ trail' = [id \in Ids |-> IF id \in overdue \ lost
                                      THEN "cancelled" ELSE trail[id]]
     /\ shown' = [id \in Ids |-> IF id \in listed
                                 THEN items[id].call ELSE shown[id]]
     /\ UNCHANGED <<now, readings, expired, req, log, told, runs, boots>>

\* An operator knows the id from what was displayed.
Decidable(id) ==
  /\ shown[id] # NoCall
  /\ items[id].state = "pending"
  /\ DecideAfterLogged => \A q \in Requests : ~Proposing(q, id)

\* A decision in time.  Any other request to decide returns an error and
\* changes nothing, except for an approval that has expired.
Decide(r, id, decided) ==
  /\ At(r, "idle")
  /\ Decidable(id)
  /\ id \notin expired
  /\ ValidateApprovalTransition(items[id].state, decided)
  /\ SetState(id, decided)
  /\ Record(id, decided)
  /\ req' = [req EXCEPT ![r] =
               [Idle EXCEPT !.pc = decided, !.id = id,
                            !.call = items[id].call, !.seen = shown[id]]]
  /\ UNCHANGED <<now, readings, expired, log, told, shown, runs, boots>>

DecideExpired(r, id) ==
  /\ At(r, "idle")
  /\ Decidable(id)
  /\ id \in expired
  /\ SetState(id, "cancelled")
  /\ Record(id, "cancelled")
  /\ UNCHANGED <<now, readings, expired, req, log, told, shown, runs, boots>>

\* Fault: the error of the append is logged and the handler goes on.
AppendDecidedOrGoOn(r) ==
  /\ At(r, "approved") \/ At(r, "denied")
  /\ IF At(r, "approved") THEN Goto(r, "authorised") ELSE Tell(r, "cancelled")
  /\ \/ AppendEvent(req[r].id,
                    Decided(IF At(r, "approved") THEN "approve" ELSE "deny"))
     \/ StoreMayFail /\ UNCHANGED log
  /\ UNCHANGED <<now, readings, items, expired, trail, told, shown, runs, boots>>

\* The approval_decided event; when it cannot be stored the handler gives up.
AppendDecided(r) ==
  /\ At(r, "approved") \/ At(r, "denied")
  /\ \/ /\ At(r, "approved")
        /\ AppendEvent(req[r].id, Decided("approve"))
        /\ Goto(r, "authorised")
     \/ /\ At(r, "denied")
        /\ AppendEvent(req[r].id, Decided("deny"))
        /\ Tell(r, "cancelled")
     \/ /\ StoreMayFail
        /\ Return(r)
        /\ UNCHANGED log
  /\ UNCHANGED <<now, readings, items, expired, trail, told, shown, runs, boots>>

------------------------------------------------------------------------------
(* Executing an approved call *)

\* Fault: the checks are made when the tool has already been started.
RefuseLate(r) ==
  /\ At(r, "authorised") \/ At(r, "running")
  /\ CancelItem(req[r].id)
  /\ Tell(r, "cancelled")
  /\ UNCHANGED <<now, readings, expired, log, told, shown, runs, boots>>

\* The recorded hash, the tool's visibility or the trust policy forbids it.
Refuse(r) ==
  /\ At(r, "authorised")
  /\ CancelItem(req[r].id)
  /\ Tell(r, "cancelled")
  /\ UNCHANGED <<now, readings, expired, log, told, shown, runs, boots>>

RunTool(r) ==
  /\ At(r, "authorised")
  /\ runs' = [runs EXCEPT ![req[r].id] = @ + 1]
  /\ Goto(r, "running")
  /\ UNCHANGED <<now, readings, items, expired, log, trail, told, shown, boots>>

\* Fault: the approval is not cancelled when its execution fails.
ExecutionFailedKeepsApproval(r) ==
  /\ At(r, "authorised") \/ At(r, "running")
  /\ Tell(r, "failed")
  /\ UNCHANGED <<now, readings, items, expired, log, trail, told, shown, runs, boots>>

\* Fault: when the tool fails after it was started, it is tried again.
ExecutionFailedRetries(r) ==
  /\ At(r, "authorised") \/ At(r, "running")
  /\ IF At(r, "running")
     THEN Goto(r, "authorised") /\ UNCHANGED <<items, trail>>
     ELSE CancelItem(req[r].id) /\ Tell(r, "failed")
  /\ UNCHANGED <<now, readings, expired, log, told, shown, runs, boots>>

\* toolExecutor.Execute returns an error, before or after starting the tool.
ExecutionFailed(r) ==
  /\ At(r, "authorised") \/ At(r, "running")
  /\ CancelItem(req[r].id)
  /\ Tell(r, "failed")
  /\ UNCHANGED <<now, readings, expired, log, told, shown, runs, boots>>

MarkExecuted(r) ==
  /\ At(r, "running")
  /\ \/ /\ ValidateApprovalTransition(items[req[r].id].state, "executed")
        /\ SetState(req[r].id, "executed")
        /\ Record(req[r].id, "executed")
        /\ Goto(r, "marked")
     \/ /\ ~ValidateApprovalTransition(items[req[r].id].state, "executed")
        /\ Return(r)
        /\ UNCHANGED <<items, trail>>
  /\ UNCHANGED <<now, readings, expired, log, told, shown, runs, boots>>

AppendExecuted(r) ==
  /\ At(r, "marked")
  /\ \/ /\ AppendEvent(req[r].id, ExecutedEvent)
        /\ Tell(r, "completed")
     \/ /\ StoreMayFail
        /\ Return(r)
        /\ UNCHANGED log
  /\ UNCHANGED <<now, readings, items, expired, trail, told, shown, runs, boots>>

------------------------------------------------------------------------------
(* Crash and restart *)

\* Fault: the decision is taken for the state it leads to.
StateAfterTakesDecision(e) ==
  CASE e.kind = "proposed" -> e.state
    [] e.kind = "decided"  -> e.decision
    [] e.kind = "executed" -> "executed"

\* Fault: only approvals are replayed, a denial leaves the approval pending.
StateAfterForgetsDenial(e) ==
  CASE e.kind = "proposed" -> e.state
    [] e.kind = "decided"  -> IF e.decision = "approve" THEN "approved" ELSE "pending"
    [] e.kind = "executed" -> "executed"

StateAfter(e) ==
  CASE e.kind = "proposed" -> e.state
    [] e.kind = "decided"  -> IF e.decision = "approve" THEN "approved" ELSE "denied"
    [] e.kind = "executed" -> "executed"

IsProposed(l, i) == l[i].kind = "proposed"
WasProposed(l)   == \E i \in 1..Len(l) : IsProposed(l, i)
LastProposed(l)  == CHOOSE i \in 1..Len(l) :
                      IsProposed(l, i) /\ \A j \in 1..Len(l) : IsProposed(l, j) => j <= i

(***************************************************************************)
(* What the loop over the events leaves for one id.  Events before the     *)
(* first approval_proposed are skipped, and each later one overwrites the  *)
(* state, so the last event decides.                                       *)
(***************************************************************************)
Replay(l) ==
  IF WasProposed(l)
  THEN [state |-> StateAfter(l[Len(l)]), call |-> l[LastProposed(l)].call]
  ELSE Absent

\* Fault: an approved call is offered to the operator again.
RestoredForDecision(id) ==
  LET a == Replay(log[id])
  IN IF a.state = "approved" THEN [a EXCEPT !.state = "pending"] ELSE a

\* An approved call needs the operator again; an overdue one is cancelled.
Restored(id) ==
  LET a == Replay(log[id])
  IN IF a.state = "approved" \/ (a.state = "pending" /\ id \in expired)
     THEN [a EXCEPT !.state = "cancelled"]
     ELSE a

\* Fault: ids are counted, and the count is lost with the process.
RestartResetsIds ==
  /\ boots < MaxBoots
  /\ boots' = boots + 1
  /\ items' = [id \in Ids |-> Restored(id)]
  /\ req' = [r \in Requests |-> Idle]
  /\ now' = 1
  /\ readings' = 0
  /\ UNCHANGED <<expired, log, trail, told, shown, runs>>

\* Handlers die with the process.  No approval.transition event is written.
Restart ==
  /\ boots < MaxBoots
  /\ boots' = boots + 1
  /\ items' = [id \in Ids |-> Restored(id)]
  /\ req' = [r \in Requests |-> Idle]
  /\ UNCHANGED <<now, readings, expired, log, trail, told, shown, runs>>

------------------------------------------------------------------------------
ProposeStep(r) == \/ \E c \in Calls : Stamp(r, c)
                  \/ Insert(r)
                  \/ CopyApproval(r)
                  \/ AppendProposed(r)

ExecuteStep(r) == \/ AppendDecided(r)
                  \/ Refuse(r)
                  \/ RunTool(r)
                  \/ ExecutionFailed(r)
                  \/ MarkExecuted(r)
                  \/ AppendExecuted(r)

DecideStep(r) == \E id \in Ids :
                   \/ \E decided \in {"approved", "denied"} : Decide(r, id, decided)
                   \/ DecideExpired(r, id)

Next ==
  \/ \E r \in Requests : ProposeStep(r) \/ DecideStep(r) \/ ExecuteStep(r) \/ TellTurn(r)
  \/ ListPending
  \/ \E id \in Ids : Expire(id)
  \/ Tick
  \/ Restart

Spec == Init /\ [][Next]_vars

\* Goroutines that have been started are scheduled, and the store and the tool
\* executor (which has a timeout) answer.  Nobody has to propose or decide.
Progress(r) == Insert(r) \/ CopyApproval(r) \/ AppendProposed(r)
               \/ ExecuteStep(r) \/ TellTurn(r)

FairSpec == Spec /\ \A r \in Requests : WF_vars(Progress(r))

------------------------------------------------------------------------------
(* Properties *)

RequestState ==
  [pc: PC, id: 0..MaxTicks, call: Calls \cup {NoCall},
   seen: Calls \cup {NoCall}, copy: ItemState, tell: TurnStatus]

RequestsTypeOK ==
  /\ req \in [Requests -> RequestState]
  /\ \A r \in Requests : req[r].pc # "idle" => req[r].id \in Ids
  /\ \A r \in Requests : req[r].pc \in ProposingPC => req[r].call \in Calls

\* Every variable has its type; a handler past its first step has a valid id.
TypeOK ==
  /\ now \in 1..(MaxTicks + 1)
  /\ readings \in 0..(PerTick - 1)
  /\ readings > 0 => now \in Ids
  /\ items \in [Ids -> [state: ItemState, call: Calls \cup {NoCall}]]
  /\ expired \subseteq Ids
  /\ RequestsTypeOK
  /\ log \in [Ids -> Seq(Event)]
  /\ trail \in [Ids -> ItemState]
  /\ told \in [Ids -> SUBSET TurnStatus]
  /\ shown \in [Ids -> Calls \cup {NoCall}]
  /\ runs \in [Ids -> Nat]
  /\ boots \in 0..MaxBoots

\* The tool call behind an approval is started at most once, over all the
\* lives of the server: neither two deciding operators nor a restart that
\* rebuilds approvals from the log starts it a second time.
AtMostOneRun == \A id \in Ids : runs[id] <= 1

\* Every start of the tool is backed by an approval of its own that was in the
\* store before, even when ids collide or the server restarts.
RunsAreBacked ==
  \A id \in Ids :
    runs[id] <= Cardinality({i \in 1..Len(log[id]) : log[id][i] = Decided("approve")})

\* The stored history of an approval holds one decision, and an execution
\* only after an approval, whichever appends failed.
LogIsCausal ==
  \A id \in Ids :
    LET l == log[id]
    IN /\ \A i, j \in 1..Len(l) :
            l[i].kind = "decided" /\ l[j].kind = "decided" => i = j
       /\ \A i \in 1..Len(l) : l[i].kind = "executed" =>
            \E j \in 1..(i - 1) : l[j] = Decided("approve")

\* A turn is told one outcome of an approval, completed or failed or
\* cancelled, and never cancelled when the tool was or will be started.
TurnToldTruth ==
  \A id \in Ids :
    /\ \A o, p \in told[id] \cap TurnOutcome : o = p
    /\ "cancelled" \in told[id] => runs[id] = 0
    /\ "completed" \in told[id] => runs[id] = 1

\* When the tool returns, the approval is still approved: no other handler,
\* expiry or listing took it away, so MarkExecuted never refuses.
ExecutionIsRecordable ==
  \A r \in Requests : At(r, "running") => items[req[r].id].state = "approved"

\* An approval binds to one tool call: what is executed under an id is what the
\* deciding operator saw under it, also when the server restarts and proposals
\* go on between the display and the decision.
RunsWhatWasShown ==
  \A r \in Requests : At(r, "running") => req[r].call = req[r].seen

(***************************************************************************)
(* Why the tool runs at most once, as an inductive invariant of systems    *)
(* whose ids are distinct and whose operators decide after the proposing   *)
(* call returned.                                                          *)
(***************************************************************************)
Has(r, pcs) == req[r].pc \in pcs

\* Nothing is known under an id whose tick has not come.
Unborn ==
  /\ readings = 0
  /\ \A id \in Ids : id >= now =>
       items[id] = Absent /\ log[id] = <<>> /\ runs[id] = 0
  /\ \A r \in Requests : Has(r, ProposingPC \cup OwnerPC) => req[r].id < now

\* Until its proposal is stored an approval has no history and no owner.
ProposalsFirst ==
  \A r \in Requests : Has(r, ProposingPC) =>
    /\ log[req[r].id] = <<>>
    /\ runs[req[r].id] = 0
    /\ At(r, "stamped") => items[req[r].id] = Absent
    /\ \A q \in Requests : Has(q, OwnerPC) => req[q].id # req[r].id

\* One handler proposes an approval, and one works on its decision.
OneOwner ==
  \A q, r \in Requests : q # r /\ req[q].id = req[r].id =>
    /\ ~(Has(q, ProposingPC) /\ Has(r, ProposingPC))
    /\ ~(Has(q, OwnerPC) /\ Has(r, OwnerPC))

\* The owner finds the approval in the state it left it in.
OwnerAgrees(r) ==
  LET id == req[r].id
  IN /\ Has(r, {"approved", "authorised", "running"}) => items[id].state = "approved"
     /\ At(r, "denied") => items[id].state = "denied"
     /\ At(r, "marked") => items[id].state = "executed"
     /\ Has(r, {"approved", "denied", "authorised"}) => runs[id] = 0
     /\ Has(r, {"running", "marked"}) => runs[id] = 1
     /\ At(r, "authorised") =>
          log[id] # <<>> /\ log[id][Len(log[id])] = Decided("approve")

\* Once the tool was started, neither memory nor a replay offers it again.
Settled(id) ==
  runs[id] # 0 =>
    /\ runs[id] = 1
    /\ items[id].state \in {"approved", "executed", "cancelled", "absent"}
    /\ log[id] # <<>>
    /\ StateAfter(log[id][Len(log[id])]) \in {"approved", "executed"}

OwnersAgree    == \A r \in Requests : OwnerAgrees(r)
RunsAreSettled == \A id \in Ids : Settled(id)

OneRunInv ==
  Unborn /\ ProposalsFirst /\ OneOwner /\ OwnersAgree /\ RunsAreSettled

(***************************************************************************)
(* Why each start of the tool has an approval of its own, whatever the     *)
(* constants are: a handler pays for it before it may start the tool.      *)
(***************************************************************************)
Approvals(id)  == {i \in 1..Len(log[id]) : log[id][i] = Decided("approve")}
Authorised(id) == {r \in Requests : At(r, "authorised") /\ req[r].id = id}

BackedInv ==
  \A id \in Ids :
    /\ IsFiniteSet(Authorised(id))
    /\ runs[id] + Cardinality(Authorised(id)) <= Cardinality(Approvals(id))

(***************************************************************************)
(* Why an operator's decision is about the call that was shown, where ids  *)
(* are distinct: each id has one proposer, and what it proposed is the     *)
(* call that memory, the store and the display hold under it.              *)
(***************************************************************************)
Working(r) == Has(r, ProposingPC \cup OwnerPC)

NoneShownAhead ==
  /\ readings = 0
  /\ \A id \in Ids : id >= now =>
       items[id].state = "absent" /\ log[id] = <<>> /\ shown[id] = NoCall
  /\ \A r \in Requests : Working(r) => req[r].id < now

OneProposer ==
  \A q, r \in Requests :
    Has(q, ProposingPC) /\ Has(r, ProposingPC) /\ req[q].id = req[r].id => q = r

ProposerShows(r) ==
  LET id == req[r].id
  IN /\ Has(r, ProposingPC) => ~WasProposed(log[id]) /\ shown[id] \in {NoCall, req[r].call}
     /\ At(r, "stamped") => items[id].state = "absent" /\ shown[id] = NoCall
     /\ Has(r, {"inserted", "copied"}) => items[id].state # "absent" /\ items[id].call = req[r].call

DeciderSaw(r) == Has(r, OwnerPC) => req[r].call = req[r].seen

ShownIsHeld(id) ==
  /\ items[id].state # "absent" /\ shown[id] # NoCall => items[id].call = shown[id]
  /\ \A i \in 1..Len(log[id]) : IsProposed(log[id], i) => log[id][i].call = shown[id]

ShownInv ==
  /\ NoneShownAhead /\ OneProposer
  /\ \A r \in Requests : ProposerShows(r) /\ DeciderSaw(r)
  /\ \A id \in Ids : ShownIsHeld(id)

(***************************************************************************)
(* Why such a service keeps its promise: memory, the store, the handlers   *)
(* and the turns agree about an approval, closely enough that what a       *)
(* restart rebuilds from the store never contradicts what a turn was told. *)
(***************************************************************************)
HasDecision(id)  == \E i \in 1..Len(log[id]) : log[id][i].kind = "decided"
EndsWith(id, e)  == log[id] # <<>> /\ log[id][Len(log[id])] = e
ToldOutcomes(id) == told[id] \cap TurnOutcome

\* A handler whose next message to the turn is an outcome, or that owes it one.
Concluding(r) == Has(r, OwnerPC) \/ (At(r, "telling") /\ req[r].tell \in TurnOutcome)

\* The proposal comes first, and says what memory said of the approval then.
ProposalIsFirst(id) ==
  \A i \in 1..Len(log[id]) : IsProposed(log[id], i) =>
    /\ i = 1
    /\ log[id][i].state \in {"pending", "cancelled", "torn"}
    /\ log[id][i].state # "pending" => id \in expired

MemoryMatchesStore(id) ==
  LET s == items[id].state
  IN /\ s # "proposed"
     /\ s = "absent"                => ~WasProposed(log[id])
     /\ s = "pending"               => ~HasDecision(id)
     /\ s \in {"cancelled", "torn"} => HasDecision(id) \/ id \in expired
     /\ s = "executed"              => HasDecision(id)
     /\ EndsWith(id, Decided("deny")) => s \in {"denied", "absent"}
     /\ EndsWith(id, ExecutedEvent)   => s \in {"executed", "absent"}

\* Memory and store name the same end.
Concluded(id) ==
  \/ items[id].state = "executed"  /\ EndsWith(id, ExecutedEvent)
  \/ items[id].state = "cancelled" /\ EndsWith(id, Decided("approve"))
  \/ items[id].state = "denied"    /\ EndsWith(id, Decided("deny"))

\* A told outcome stands, unless a restart forgot the approval altogether.
OutcomesStand(id) ==
  ToldOutcomes(id) # {} => id < now /\ (items[id].state = "absent" \/ Concluded(id))

HandlerMatches(r) ==
  LET id == req[r].id
  IN /\ Has(r, {"inserted", "copied"}) =>
          \/ items[id].state = "pending"
          \/ items[id].state = "cancelled" /\ id \in expired
     /\ At(r, "copied") =>
          /\ req[r].copy \in {"pending", "cancelled", "torn"}
          /\ req[r].copy # "pending" => id \in expired
     /\ Has(r, {"approved", "denied"}) => ~HasDecision(id)
     /\ Has(r, {"authorised", "running", "marked"}) => EndsWith(id, Decided("approve"))
     /\ At(r, "telling") /\ req[r].tell \in TurnOutcome =>
          /\ Concluded(id)
          /\ req[r].tell = "completed" => items[id].state = "executed" /\ runs[id] = 1
          /\ req[r].tell = "failed"    => items[id].state = "cancelled"
          /\ req[r].tell = "cancelled" => items[id].state # "executed" /\ runs[id] = 0
     /\ Has(r, ProposingPC) \/ Concluding(r) => ToldOutcomes(id) = {}

OneConcludes ==
  \A q, r \in Requests :
    Concluding(q) /\ Concluding(r) /\ req[q].id = req[r].id => q = r

PromiseInv ==
  /\ LogIsCausal /\ TurnToldTruth /\ OneConcludes
  /\ \A id \in Ids : ProposalIsFirst(id) /\ MemoryMatchesStore(id) /\ OutcomesStand(id)
  /\ \A r \in Requests : HandlerMatches(r)

\* Within one life of the server a decided approval keeps its end.
FinalWithinALife ==
  [][ \A id \in Ids :
        items[id].state \in TerminalApproval /\ boots' = boots
          => items'[id].state = items[id].state ]_vars

\* The service implements the promise: a torn state counts as cancelled.
Abs == INSTANCE ApprovalSpec WITH
  Ids     <- Ids,
  status  <- [id \in Ids |-> CASE items[id].state = "absent" -> "none"
                               [] items[id].state = "torn"   -> "cancelled"
                               [] OTHER                      -> items[id].state],
  ran     <- runs,
  outcome <- [id \in Ids |-> told[id] \cap TurnOutcome]

KeepsPromise == Abs!Spec

\* An approved call is executed or cancelled in the end, so that no approval
\* is left that nobody works on and nobody can decide again.
ApprovedSettles ==
  \A id \in Ids : items[id].state = "approved" ~> items[id].state # "approved"

(* A statement of the documents that the code does not keep (see README) *)

\* docs/ai_cli_event_schema.md: all state transitions must produce events, so
\* the last approval.transition event names the state the approval is in.
TransitionsProduceEvents == \A id \in Ids : items[id].state = trail[id]
==============================================================================
