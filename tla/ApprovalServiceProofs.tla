------------------------ MODULE ApprovalServiceProofs ------------------------
(* What holds of ApprovalService for every value of its constants. *)
EXTENDS ApprovalService, TLAPS, WellFoundedInduction, FiniteSetTheorems

\* A stored history that proposes an approval has a last proposal.
LEMMA LastProposedExists ==
  ASSUME NEW l \in Seq(Event), WasProposed(l)
  PROVE  LastProposed(l) \in 1..Len(l) /\ IsProposed(l, LastProposed(l))
<1> DEFINE back == {n \in Nat : n < Len(l) /\ IsProposed(l, Len(l) - n)}
<1>1. Len(l) \in Nat
  OBVIOUS
<1>2. back # {}
  <2>1. PICK i \in 1..Len(l) : IsProposed(l, i)
    BY DEF WasProposed
  <2>2. Len(l) - (Len(l) - i) = i /\ Len(l) - i \in Nat /\ Len(l) - i < Len(l)
    BY <1>1
  <2>3. Len(l) - i \in back
    BY <2>1, <2>2
  <2> QED BY <2>3
<1> DEFINE below == {p \in Nat \X Nat : p[1] < p[2]}
<1>3. PICK n \in back : \A m \in back : <<m, n>> \notin below
  <2>1. below = OpToRel(<, Nat)
    BY DEF OpToRel
  <2> HIDE DEF below
  <2>2. IsWellFoundedOn(below, Nat)
    BY ONLY <2>1, NatLessThanWellFounded, Zenon
  <2> QED BY <1>2, <2>2, WFMin
<1>4. ASSUME NEW m \in back
      PROVE  n <= m
  <2>1. <<m, n>> \in below <=> m < n
    <3>1. <<m, n>> \in Nat \X Nat /\ <<m, n>>[1] = m /\ <<m, n>>[2] = n
      OBVIOUS
    <3> QED BY ONLY <3>1, Zenon
  <2>2. ~(m < n)
    BY <1>3, <2>1
  <2> QED BY <2>2
<1>5. Len(l) - n \in 1..Len(l) /\ IsProposed(l, Len(l) - n)
  BY <1>1
<1>6. ASSUME NEW j \in 1..Len(l), IsProposed(l, j)
      PROVE  j <= Len(l) - n
  <2>1. Len(l) - (Len(l) - j) = j /\ Len(l) - j \in Nat /\ Len(l) - j < Len(l)
    BY <1>1
  <2>2. Len(l) - j \in back
    BY <1>6, <2>1
  <2> QED BY <1>1, <1>4, <2>2
<1> QED BY <1>5, <1>6 DEF LastProposed

\* What replay makes of any stored history is an approval or nothing.
LEMMA ReplayType ==
  ASSUME NEW l \in Seq(Event)
  PROVE  Replay(l) \in [state: ItemState, call: Calls \cup {NoCall}]
<1>1. CASE ~WasProposed(l)
  BY <1>1 DEF Replay, Absent, ItemState
<1>2. CASE WasProposed(l)
  <2>1. l[LastProposed(l)] \in Event /\ l[LastProposed(l)].kind = "proposed"
    BY <1>2, LastProposedExists DEF IsProposed
  <2>2. l[LastProposed(l)].call \in Calls
    BY <2>1 DEF Event
  <2>3. l[Len(l)] \in Event
    BY <1>2 DEF WasProposed
  <2>4. StateAfter(l[Len(l)]) \in ItemState
    BY <2>3 DEF StateAfter, Event, ItemState, ApprovalState
  <2> QED BY <1>2, <2>2, <2>4 DEF Replay
<1> QED BY <1>1, <1>2

------------------------------------------------------------------------------
(* Type correctness *)

\* A handler that has not started is well typed.
LEMMA IdleType == Idle \in RequestState /\ Idle.pc = "idle"
  BY ConstantsAssumption
     DEF Idle, RequestState, PC, ItemState, TurnStatus, TurnOutcome

\* What any step may do to the handlers keeps their type.
LEMMA RequestStep ==
  ASSUME TypeOK, NEW r \in Requests, NEW q \in RequestState,
         q.pc # "idle" => q.id \in Ids,
         q.pc \in ProposingPC => q.call \in Calls,
         req' = [req EXCEPT ![r] = q]
  PROVE  RequestsTypeOK'
  BY DEF TypeOK, RequestsTypeOK

\* Moving on to the next place keeps the type of the handlers.
LEMMA GotoType ==
  ASSUME TypeOK, NEW r \in Requests, NEW pc \in PC, Goto(r, pc),
         req[r].pc # "idle", pc \in ProposingPC => req[r].pc \in ProposingPC
  PROVE  RequestsTypeOK'
<1> DEFINE q == [req[r] EXCEPT !.pc = pc]
<1>1. q \in RequestState /\ q.pc = pc /\ q.id = req[r].id /\ q.call = req[r].call
  BY DEF TypeOK, RequestsTypeOK, RequestState
<1>2. req' = [req EXCEPT ![r] = q]
  BY DEF Goto, TypeOK, RequestsTypeOK
<1>3. (q.pc # "idle" => q.id \in Ids) /\ (q.pc \in ProposingPC => q.call \in Calls)
  BY <1>1 DEF TypeOK, RequestsTypeOK
<1> HIDE DEF q
<1> QED BY <1>1, <1>2, <1>3, RequestStep

\* Going to record a turn status keeps the type of the handlers.
LEMMA TellType ==
  ASSUME TypeOK, NEW r \in Requests, NEW status \in TurnStatus, Tell(r, status),
         req[r].pc # "idle"
  PROVE  RequestsTypeOK'
<1> DEFINE q == [req[r] EXCEPT !.pc = "telling", !.tell = status]
<1>1. q \in RequestState /\ q.pc = "telling" /\ q.id = req[r].id
  BY DEF TypeOK, RequestsTypeOK, RequestState, PC
<1>2. req' = [req EXCEPT ![r] = q]
  BY DEF Tell, TypeOK, RequestsTypeOK
<1>3. (q.pc # "idle" => q.id \in Ids) /\ (q.pc \in ProposingPC => q.call \in Calls)
  BY <1>1 DEF TypeOK, RequestsTypeOK, ProposingPC
<1> HIDE DEF q
<1> QED BY <1>1, <1>2, <1>3, RequestStep

\* Returning keeps the type of the handlers.
LEMMA ReturnType ==
  ASSUME TypeOK, NEW r \in Requests, Return(r)
  PROVE  RequestsTypeOK'
<1>1. (Idle.pc # "idle" => Idle.id \in Ids) /\ (Idle.pc \in ProposingPC => Idle.call \in Calls)
  BY IdleType DEF ProposingPC
<1> QED BY <1>1, IdleType, RequestStep DEF Return

\* Writing a state, and recording it, keeps the types of both.
LEMMA ItemType ==
  ASSUME TypeOK, NEW id \in Ids, NEW s \in ItemState
  PROVE  /\ SetState(id, s) => items' \in [Ids -> [state: ItemState, call: Calls \cup {NoCall}]]
         /\ Record(id, s) => trail' \in [Ids -> ItemState]
<1>1. ASSUME SetState(id, s) PROVE items' \in [Ids -> [state: ItemState, call: Calls \cup {NoCall}]]
  <2>1. items \in [Ids -> [state: ItemState, call: Calls \cup {NoCall}]]
    BY DEF TypeOK
  <2>2. PICK item : item = [items[id] EXCEPT !.state = s]
    OBVIOUS
  <2>3. item \in [state: ItemState, call: Calls \cup {NoCall}]
    BY <2>1, <2>2
  <2>4. items' = [items EXCEPT ![id] = item]
    BY <1>1, <2>2 DEF SetState
  <2> QED BY ONLY <2>1, <2>3, <2>4
<1>2. Record(id, s) => trail' \in [Ids -> ItemState]
  BY DEF TypeOK, Record
<1> QED BY <1>1, <1>2

\* Cancelling keeps the types of the approvals and of their trail.
LEMMA CancelType ==
  ASSUME TypeOK, NEW id \in Ids, CancelItem(id)
  PROVE  /\ items' \in [Ids -> [state: ItemState, call: Calls \cup {NoCall}]]
         /\ trail' \in [Ids -> ItemState]
<1>1. "cancelled" \in ItemState
  BY DEF ItemState, ApprovalState
<1> QED BY <1>1, ItemType DEF CancelItem, TypeOK

\* Appending an event keeps the type of the stored histories.
LEMMA LogType ==
  ASSUME TypeOK, NEW id \in Ids, NEW e \in Event, AppendEvent(id, e)
  PROVE  log' \in [Ids -> Seq(Event)]
<1>1. log[id] \in Seq(Event)
  BY DEF TypeOK
<1>2. Append(log[id], e) \in Seq(Event)
  BY <1>1
<1> QED BY <1>2 DEF TypeOK, AppendEvent

\* The events the handlers append are events.
LEMMA EventType ==
  /\ \A s \in ItemState, c \in Calls : Proposed(s, c) \in Event
  /\ \A d \in {"approve", "deny"} : Decided(d) \in Event
  /\ ExecutedEvent \in Event
  BY DEF Proposed, Decided, ExecutedEvent, Event

\* The states and statuses the handlers write.
LEMMA WrittenValues ==
  /\ {"pending", "approved", "denied", "executed", "cancelled"} \subseteq ItemState
  /\ {"awaiting_approval", "completed", "failed", "cancelled"} \subseteq TurnStatus
  /\ {"inserted", "copied", "authorised", "running", "marked", "approved", "denied"}
       \subseteq PC
  /\ ProposingPC \cap {"idle", "telling", "authorised", "running", "marked",
                       "approved", "denied"} = {}
  BY DEF ItemState, ApprovalState, TurnStatus, TurnOutcome, PC, ProposingPC, OwnerPC

\* Proposing keeps the types.
LEMMA ProposeTypes ==
  ASSUME TypeOK, NEW r \in Requests, ProposeStep(r)
  PROVE  TypeOK'
<1>1. ASSUME NEW c \in Calls, Stamp(r, c)
      PROVE  TypeOK'
  <2> DEFINE q == [Idle EXCEPT !.pc = "stamped", !.id = now, !.call = c]
  <2> now \in 0..MaxTicks /\ "stamped" \in PC
    BY <1>1, ConstantsAssumption DEF Stamp, Ids, PC, ProposingPC
  <2>1. q \in RequestState /\ q.pc = "stamped" /\ q.id = now /\ q.call = c
    BY IdleType DEF RequestState
  <2>2. req' = [req EXCEPT ![r] = q] /\ now \in Ids
    BY <1>1 DEF Stamp
  <2> HIDE DEF q
  <2>3. RequestsTypeOK'
    BY <2>1, <2>2, RequestStep
  <2>4. /\ now' \in 1..(MaxTicks + 1)
        /\ readings' \in 0..(PerTick - 1)
        /\ readings' > 0 => now' \in Ids
    BY <1>1, ConstantsAssumption DEF Stamp, TypeOK, Ids
  <2> QED BY <1>1, <2>3, <2>4 DEF Stamp, TypeOK
<1>2. ASSUME Insert(r)
      PROVE  TypeOK'
  <2>1. req[r].id \in Ids /\ req[r].call \in Calls
    BY <1>2 DEF Insert, At, TypeOK, RequestsTypeOK, ProposingPC
  <2>2. items' \in [Ids -> [state: ItemState, call: Calls \cup {NoCall}]]
    BY <1>2, <2>1, WrittenValues DEF Insert, TypeOK
  <2>3. trail' \in [Ids -> ItemState]
    BY <1>2, <2>1, ItemType, WrittenValues DEF Insert
  <2>4. RequestsTypeOK'
    BY <1>2, GotoType, WrittenValues DEF Insert, At, ProposingPC
  <2> QED BY <1>2, <2>2, <2>3, <2>4 DEF Insert, TypeOK
<1>3. ASSUME CopyApproval(r)
      PROVE  TypeOK'
  <2>1. PICK s \in CopyOutcome(items[req[r].id].state) :
          req' = [req EXCEPT ![r].pc = "copied", ![r].copy = s]
    BY <1>3 DEF CopyApproval
  <2>2. req[r].id \in Ids /\ req[r].call \in Calls
    BY <1>3 DEF CopyApproval, At, TypeOK, RequestsTypeOK, ProposingPC
  <2>3. s \in ItemState
    BY <2>2, WrittenValues DEF CopyOutcome, ItemState, TypeOK
  <2> DEFINE q == [req[r] EXCEPT !.pc = "copied", !.copy = s]
  <2>4. q \in RequestState /\ q.id = req[r].id /\ q.call = req[r].call
    BY <2>3, WrittenValues DEF TypeOK, RequestsTypeOK, RequestState
  <2>5. req' = [req EXCEPT ![r] = q]
    BY <2>1 DEF TypeOK, RequestsTypeOK
  <2> HIDE DEF q
  <2>6. RequestsTypeOK'
    BY <2>2, <2>4, <2>5, RequestStep
  <2> QED BY <1>3, <2>6 DEF CopyApproval, TypeOK
<1>4. ASSUME AppendProposed(r)
      PROVE  TypeOK'
  <2>1. req[r].id \in Ids /\ req[r].call \in Calls /\ req[r].copy \in ItemState
    BY <1>4 DEF AppendProposed, At, TypeOK, RequestsTypeOK, ProposingPC, RequestState
  <2>2. log' \in [Ids -> Seq(Event)]
    BY <1>4, <2>1, LogType, EventType DEF AppendProposed, TypeOK
  <2>3. shown' \in [Ids -> Calls \cup {NoCall}]
    BY <1>4, <2>1 DEF AppendProposed, TypeOK
  <2>4. RequestsTypeOK'
    BY <1>4, TellType, ReturnType, WrittenValues DEF AppendProposed, At
  <2> QED BY <1>4, <2>2, <2>3, <2>4 DEF AppendProposed, TypeOK
<1> QED BY <1>1, <1>2, <1>3, <1>4 DEF ProposeStep

\* Listing keeps the types.
LEMMA ListTypes ==
  ASSUME TypeOK, ListPending
  PROVE  TypeOK'
<1>1. items' \in [Ids -> [state: ItemState, call: Calls \cup {NoCall}]]
  <2>1. items \in [Ids -> [state: ItemState, call: Calls \cup {NoCall}]]
    BY DEF TypeOK
  <2>2. \A id \in Ids : [items[id] EXCEPT !.state = "cancelled"] \in [state: ItemState, call: Calls \cup {NoCall}]
    BY <2>1, WrittenValues
  <2>3. PICK overdue : items' = [id \in Ids |-> IF id \in overdue THEN [items[id] EXCEPT !.state = "cancelled"]
                                                               ELSE items[id]]
    BY DEF ListPending
  <2> QED BY ONLY <2>1, <2>2, <2>3
<1>2. trail' \in [Ids -> ItemState]
  BY WrittenValues DEF ListPending, TypeOK
<1>3. shown' \in [Ids -> Calls \cup {NoCall}]
  BY DEF ListPending, TypeOK
<1> QED BY <1>1, <1>2, <1>3 DEF ListPending, TypeOK, RequestsTypeOK

\* Deciding keeps the types, in time or too late.
LEMMA DecideTypes ==
  ASSUME TypeOK, NEW r \in Requests, DecideStep(r)
  PROVE  TypeOK'
<1>1. ASSUME NEW id \in Ids, NEW decided \in {"approved", "denied"},
             Decide(r, id, decided)
      PROVE  TypeOK'
  <2> DEFINE q == [Idle EXCEPT !.pc = decided, !.id = id,
                               !.call = items[id].call, !.seen = shown[id]]
  <2> id \in 0..MaxTicks /\ decided \in PC /\ decided \notin ProposingPC
    BY ConstantsAssumption DEF Ids, PC, OwnerPC, ProposingPC
  <2> items[id].call \in Calls \cup {NoCall} /\ shown[id] \in Calls \cup {NoCall}
    BY DEF TypeOK
  <2>1. q \in RequestState /\ q.pc = decided /\ q.id = id
    BY IdleType DEF RequestState
  <2>2. req' = [req EXCEPT ![r] = q]
    BY <1>1 DEF Decide
  <2> HIDE DEF q
  <2>3. RequestsTypeOK'
    BY <2>1, <2>2, RequestStep
  <2>4. /\ items' \in [Ids -> [state: ItemState, call: Calls \cup {NoCall}]]
        /\ trail' \in [Ids -> ItemState]
    BY <1>1, ItemType, WrittenValues DEF Decide
  <2> QED BY <1>1, <2>3, <2>4 DEF Decide, TypeOK
<1>2. ASSUME NEW id \in Ids, DecideExpired(r, id)
      PROVE  TypeOK'
  <2>1. /\ items' \in [Ids -> [state: ItemState, call: Calls \cup {NoCall}]]
        /\ trail' \in [Ids -> ItemState]
    BY <1>2, ItemType, WrittenValues DEF DecideExpired
  <2> QED BY <1>2, <2>1 DEF DecideExpired, TypeOK, RequestsTypeOK
<1> QED BY <1>1, <1>2 DEF DecideStep

\* Executing keeps the types.
LEMMA ExecuteTypes ==
  ASSUME TypeOK, NEW r \in Requests, ExecuteStep(r)
  PROVE  TypeOK'
<1>1. req[r].pc # "idle" /\ req[r].id \in Ids
  BY DEF ExecuteStep, AppendDecided, Refuse, RunTool, ExecutionFailed,
         MarkExecuted, AppendExecuted, At, TypeOK, RequestsTypeOK
<1>2. ASSUME AppendDecided(r)
      PROVE  TypeOK'
  <2>1. log' \in [Ids -> Seq(Event)]
    BY <1>1, <1>2, LogType, EventType DEF AppendDecided, TypeOK
  <2>2. RequestsTypeOK'
    BY <1>1, <1>2, GotoType, TellType, ReturnType, WrittenValues DEF AppendDecided
  <2> QED BY <1>2, <2>1, <2>2 DEF AppendDecided, TypeOK
<1>3. ASSUME Refuse(r) \/ ExecutionFailed(r)
      PROVE  TypeOK'
  <2>1. RequestsTypeOK'
    BY <1>1, <1>3, TellType, WrittenValues DEF Refuse, ExecutionFailed
  <2> QED BY <1>1, <1>3, <2>1, CancelType DEF Refuse, ExecutionFailed, TypeOK
<1>4. ASSUME RunTool(r)
      PROVE  TypeOK'
  <2>1. RequestsTypeOK'
    BY <1>1, <1>4, GotoType, WrittenValues DEF RunTool
  <2>2. runs' \in [Ids -> Nat]
    BY <1>1, <1>4 DEF RunTool, TypeOK
  <2> QED BY <1>4, <2>1, <2>2 DEF RunTool, TypeOK
<1>5. ASSUME MarkExecuted(r)
      PROVE  TypeOK'
  <2>1. RequestsTypeOK'
    BY <1>1, <1>5, GotoType, ReturnType, WrittenValues DEF MarkExecuted
  <2>2. /\ items' \in [Ids -> [state: ItemState, call: Calls \cup {NoCall}]]
        /\ trail' \in [Ids -> ItemState]
    BY <1>1, <1>5, ItemType, WrittenValues DEF MarkExecuted, TypeOK
  <2> QED BY <1>5, <2>1, <2>2 DEF MarkExecuted, TypeOK
<1>6. ASSUME AppendExecuted(r)
      PROVE  TypeOK'
  <2>1. RequestsTypeOK'
    BY <1>1, <1>6, TellType, ReturnType, WrittenValues DEF AppendExecuted
  <2>2. log' \in [Ids -> Seq(Event)]
    BY <1>1, <1>6, LogType, EventType DEF AppendExecuted, TypeOK
  <2> QED BY <1>6, <2>1, <2>2 DEF AppendExecuted, TypeOK
<1> QED BY <1>2, <1>3, <1>4, <1>5, <1>6 DEF ExecuteStep

\* Recording a turn status keeps the types.
LEMMA TellTurnTypes ==
  ASSUME TypeOK, NEW r \in Requests, TellTurn(r)
  PROVE  TypeOK'
<1>1. req[r].id \in Ids /\ req[r].tell \in TurnStatus
  BY DEF TellTurn, At, TypeOK, RequestsTypeOK, RequestState
<1>2. told' \in [Ids -> SUBSET TurnStatus]
  BY <1>1 DEF TellTurn, TypeOK
<1>3. RequestsTypeOK'
  BY ReturnType DEF TellTurn
<1> QED BY <1>2, <1>3 DEF TellTurn, TypeOK

\* A restart rebuilds typed approvals from any stored history.
LEMMA RestartTypes ==
  ASSUME TypeOK, Restart
  PROVE  TypeOK'
<1>1. ASSUME NEW id \in Ids
      PROVE  Restored(id) \in [state: ItemState, call: Calls \cup {NoCall}]
  <2>1. Replay(log[id]) \in [state: ItemState, call: Calls \cup {NoCall}]
    BY ReplayType DEF TypeOK
  <2> QED BY <2>1, WrittenValues DEF Restored
<1>2. items' \in [Ids -> [state: ItemState, call: Calls \cup {NoCall}]]
  BY <1>1 DEF Restart
<1>3. RequestsTypeOK'
  BY IdleType DEF Restart, RequestsTypeOK, ProposingPC
<1>4. boots' \in 0..MaxBoots
  BY ConstantsAssumption DEF Restart, TypeOK
<1> QED BY <1>2, <1>3, <1>4 DEF Restart, TypeOK

\* Whatever the constants are, every variable keeps its type: no history that
\* crashes, lost appends and racing copies can leave makes replay, or any
\* handler, produce a state that is not one of the lifecycle's (or torn).
THEOREM TypeCorrect == Spec => []TypeOK
<1>1. Init => TypeOK
  BY ConstantsAssumption, IdleType
     DEF Init, TypeOK, RequestsTypeOK, Absent, Ids, ItemState, ProposingPC
<1>2. TypeOK /\ [Next]_vars => TypeOK'
  <2> SUFFICES ASSUME TypeOK, [Next]_vars PROVE TypeOK'
    OBVIOUS
  <2>1. ASSUME NEW r \in Requests,
               ProposeStep(r) \/ DecideStep(r) \/ ExecuteStep(r) \/ TellTurn(r)
        PROVE  TypeOK'
    BY <2>1, ProposeTypes, DecideTypes, ExecuteTypes, TellTurnTypes
  <2>2. CASE ListPending
    BY <2>2, ListTypes
  <2>3. ASSUME NEW id \in Ids, Expire(id)
        PROVE  TypeOK'
    BY <2>3 DEF Expire, TypeOK, RequestsTypeOK
  <2>4. CASE Tick
    BY <2>4, ConstantsAssumption DEF Tick, TypeOK, RequestsTypeOK, Ids
  <2>5. CASE Restart
    BY <2>5, RestartTypes
  <2>6. CASE UNCHANGED vars
    BY <2>6 DEF vars, TypeOK, RequestsTypeOK
  <2> QED BY <2>1, <2>2, <2>3, <2>4, <2>5, <2>6 DEF Next
<1> QED BY <1>1, <1>2, PTL DEF Spec

------------------------------------------------------------------------------
(* The tool runs at most once *)

\* An approval replays as approved, an execution as executed.
LEMMA AfterDecisions ==
  /\ StateAfter(Decided("approve")) = "approved"
  /\ StateAfter(ExecutedEvent) = "executed"
  BY DEF StateAfter, Decided, ExecutedEvent

\* The last event of a longer log.
LEMMA LastAppended ==
  ASSUME NEW l \in Seq(Event), NEW e \in Event
  PROVE  LET k == Append(l, e) IN k # <<>> /\ k[Len(k)] = e
  OBVIOUS

\* Taking a new id disturbs nothing: nobody knows the id yet.
LEMMA StampOnce ==
  ASSUME PerTick = 1, TypeOK, OneRunInv,
         NEW r \in Requests, NEW c \in Calls, Stamp(r, c)
  PROVE  OneRunInv'
<1>1. /\ now \in Ids /\ now' = now + 1 /\ readings' = 0
      /\ req' = [req EXCEPT ![r] =
                   [Idle EXCEPT !.pc = "stamped", !.id = now, !.call = c]]
      /\ UNCHANGED <<items, log, runs>>
  BY DEF Stamp, OneRunInv, Unborn
<1>2. req'[r].pc = "stamped" /\ req'[r].id = now
  BY <1>1 DEF Idle, TypeOK, RequestsTypeOK
<1>3. \A q \in Requests \ {r} : req'[q] = req[q]
  BY <1>1 DEF TypeOK, RequestsTypeOK
<1>4. items[now] = Absent /\ log[now] = <<>> /\ runs[now] = 0
  BY <1>1 DEF OneRunInv, Unborn, Ids
<1>5. \A q \in Requests : Has(q, ProposingPC \cup OwnerPC) => req[q].id # now
  BY DEF OneRunInv, Unborn, TypeOK, RequestsTypeOK, RequestState
<1>6. Unborn'
  BY <1>1, <1>2, <1>3 DEF OneRunInv, Unborn, Ids, Has, TypeOK, RequestsTypeOK, RequestState
<1>7. ProposalsFirst'
  BY <1>1, <1>2, <1>3, <1>4, <1>5
     DEF OneRunInv, ProposalsFirst, Has, At, ProposingPC, OwnerPC
<1>8. OneOwner'
  BY <1>2, <1>3, <1>5 DEF OneRunInv, OneOwner, Has, ProposingPC, OwnerPC
<1>9. OwnersAgree'
  BY <1>1, <1>2, <1>3 DEF OneRunInv, OwnersAgree, OwnerAgrees, Has, At
<1>10. RunsAreSettled'
  BY <1>1 DEF OneRunInv, RunsAreSettled, Settled
<1> QED BY <1>6, <1>7, <1>8, <1>9, <1>10 DEF OneRunInv

(***************************************************************************)
(* A step of r on the approval id alone, while no other handler proposes   *)
(* or owns it, keeps the invariant if it leaves r and id as it should.     *)
(***************************************************************************)
LEMMA ExclusiveStep ==
  ASSUME TypeOK, OneRunInv, NEW r \in Requests, NEW id \in Ids, id < now,
         \A q \in Requests \ {r} :
           req'[q] = req[q] /\ (Has(q, ProposingPC \cup OwnerPC) => req[q].id # id),
         UNCHANGED <<now, readings>>,
         \A i \in Ids \ {id} :
           items'[i] = items[i] /\ log'[i] = log[i] /\ runs'[i] = runs[i],
         Has(r, ProposingPC \cup OwnerPC)' => req'[r].id = id,
         Has(r, ProposingPC)' => log'[id] = <<>> /\ runs'[id] = 0 /\ ~At(r, "stamped")',
         OwnerAgrees(r)',
         Settled(id)'
  PROVE  OneRunInv'
<1>1. Unborn'
  <2>1. readings' = 0
    BY DEF OneRunInv, Unborn
  <2>2. ASSUME NEW i \in Ids, i >= now'
        PROVE  items'[i] = Absent /\ log'[i] = <<>> /\ runs'[i] = 0
    <3>1. i # id /\ i >= now
      BY <2>2 DEF TypeOK, Ids
    <3> QED BY <3>1 DEF OneRunInv, Unborn
  <2>3. ASSUME NEW q \in Requests, Has(q, ProposingPC \cup OwnerPC)'
        PROVE  req'[q].id < now'
    <3>1. CASE q = r
      BY <2>3, <3>1
    <3>2. CASE q # r
      BY <2>3, <3>2 DEF OneRunInv, Unborn, Has
    <3> QED BY <3>1, <3>2
  <2> QED BY <2>1, <2>2, <2>3 DEF Unborn
<1>2. ASSUME NEW q \in Requests \ {r}, Has(q, ProposingPC \cup OwnerPC)'
      PROVE  /\ req'[q] = req[q] /\ req[q].id \in Ids \ {id}
             /\ Has(q, ProposingPC \cup OwnerPC)
  BY <1>2 DEF Has, TypeOK, RequestsTypeOK, ProposingPC, OwnerPC
<1>3. ProposalsFirst'
  <2> SUFFICES ASSUME NEW p \in Requests, Has(p, ProposingPC)'
               PROVE  /\ log'[req'[p].id] = <<>>
                      /\ runs'[req'[p].id] = 0
                      /\ At(p, "stamped")' => items'[req'[p].id] = Absent
                      /\ \A q \in Requests : Has(q, OwnerPC)' => req'[q].id # req'[p].id
    BY DEF ProposalsFirst
  <2>1. CASE p = r
    <3>1. ASSUME NEW q \in Requests, Has(q, OwnerPC)'
          PROVE  req'[q].id # req'[p].id
      <4>1. q # r
        BY <2>1, <3>1 DEF Has, ProposingPC, OwnerPC
      <4>2. Has(q, ProposingPC \cup OwnerPC)'
        BY <3>1 DEF Has
      <4>3. req'[r].id = id
        BY <2>1 DEF Has
      <4> QED BY <1>2, <2>1, <4>1, <4>2, <4>3
    <3>2. req'[r].id = id
      BY <2>1 DEF Has
    <3> QED BY <2>1, <3>1, <3>2
  <2>2. CASE p # r
    <3>1. req'[p] = req[p] /\ req[p].id \in Ids \ {id} /\ Has(p, ProposingPC)
      BY <1>2, <2>2 DEF Has
    <3>2. /\ log[req[p].id] = <<>> /\ runs[req[p].id] = 0
          /\ At(p, "stamped") => items[req[p].id] = Absent
      BY <3>1 DEF OneRunInv, ProposalsFirst
    <3>3. ASSUME NEW q \in Requests, Has(q, OwnerPC)'
          PROVE  req'[q].id # req'[p].id
      <4>1. CASE q = r
        BY <3>1, <3>3, <4>1 DEF Has
      <4>2. CASE q # r
        <5>1. Has(q, OwnerPC) /\ req'[q] = req[q]
          BY <3>3, <4>2 DEF Has
        <5> QED BY <3>1, <5>1 DEF OneRunInv, ProposalsFirst
      <4> QED BY <4>1, <4>2
    <3> QED BY <3>1, <3>2, <3>3 DEF At
  <2> QED BY <2>1, <2>2
<1>4. OneOwner'
  <2> SUFFICES ASSUME NEW p \in Requests, NEW q \in Requests, p # q,
                      req'[p].id = req'[q].id
               PROVE  /\ ~(Has(p, ProposingPC)' /\ Has(q, ProposingPC)')
                      /\ ~(Has(p, OwnerPC)' /\ Has(q, OwnerPC)')
    BY DEF OneOwner
  <2>1. CASE p # r /\ q # r
    BY <2>1 DEF OneRunInv, OneOwner, Has
  <2>2. CASE p = r
    BY <1>2, <2>2 DEF Has
  <2>3. CASE q = r
    BY <1>2, <2>3 DEF Has
  <2> QED BY <2>1, <2>2, <2>3
<1>5. OwnersAgree'
  <2> SUFFICES ASSUME NEW q \in Requests, q # r PROVE OwnerAgrees(q)'
    BY DEF OwnersAgree
  <2>1. OwnerAgrees(q) /\ req'[q] = req[q]
    BY DEF OneRunInv, OwnersAgree
  <2>2. CASE ~Has(q, OwnerPC)
    BY <2>1, <2>2 DEF OwnerAgrees, Has, At, OwnerPC
  <2>3. CASE Has(q, OwnerPC)
    <3>1. req[q].id \in Ids \ {id}
      BY <1>2, <2>1, <2>3 DEF Has
    <3>2. /\ items'[req[q].id] = items[req[q].id]
          /\ log'[req[q].id] = log[req[q].id]
          /\ runs'[req[q].id] = runs[req[q].id]
      BY <3>1
    <3> QED BY <2>1, <3>2 DEF OwnerAgrees, Has, At
  <2> QED BY <2>2, <2>3
<1>6. RunsAreSettled'
  <2> SUFFICES ASSUME NEW i \in Ids, i # id PROVE Settled(i)'
    BY DEF RunsAreSettled
  <2> QED BY DEF OneRunInv, RunsAreSettled, Settled
<1> QED BY <1>1, <1>3, <1>4, <1>5, <1>6 DEF OneRunInv

(***************************************************************************)
(* A handler that proposes or owns an approval is alone with it, so a step *)
(* it takes on that approval is exclusive.                                 *)
(***************************************************************************)
LEMMA OwnStep ==
  ASSUME TypeOK, OneRunInv, NEW r \in Requests, NEW id \in Ids,
         req[r].id = id, Has(r, ProposingPC \cup OwnerPC),
         \A q \in Requests \ {r} : req'[q] = req[q],
         UNCHANGED <<now, readings>>,
         \A i \in Ids \ {id} :
           items'[i] = items[i] /\ log'[i] = log[i] /\ runs'[i] = runs[i],
         Has(r, ProposingPC \cup OwnerPC)' => req'[r].id = id,
         Has(r, ProposingPC)' => log'[id] = <<>> /\ runs'[id] = 0 /\ ~At(r, "stamped")',
         OwnerAgrees(r)',
         Settled(id)'
  PROVE  OneRunInv'
<1>1. id < now
  BY DEF OneRunInv, Unborn
<1>2. ASSUME NEW q \in Requests \ {r}, Has(q, ProposingPC \cup OwnerPC),
             req[q].id = id
      PROVE  FALSE
  <2>1. CASE Has(q, ProposingPC) /\ Has(r, ProposingPC)
    BY <1>2, <2>1 DEF OneRunInv, OneOwner
  <2>2. CASE Has(q, OwnerPC) /\ Has(r, OwnerPC)
    BY <1>2, <2>2 DEF OneRunInv, OneOwner
  <2>3. CASE Has(q, ProposingPC) /\ Has(r, OwnerPC)
    BY <1>2, <2>3 DEF OneRunInv, ProposalsFirst
  <2>4. CASE Has(q, OwnerPC) /\ Has(r, ProposingPC)
    BY <1>2, <2>4 DEF OneRunInv, ProposalsFirst
  <2> QED BY <1>2, <2>1, <2>2, <2>3, <2>4 DEF Has
<1> QED BY <1>1, <1>2, ExclusiveStep

\* The handler's next place, when all it does to itself is move on.
LEMMA Moves ==
  ASSUME TypeOK, NEW r \in Requests
  PROVE  /\ \A pc : Goto(r, pc) => req'[r].pc = pc /\ req'[r].id = req[r].id
         /\ \A status : Tell(r, status) => req'[r].pc = "telling"
         /\ Return(r) => req'[r].pc = "idle"
         /\ (\E pc : Goto(r, pc)) \/ (\E status : Tell(r, status)) \/ Return(r)
              => \A q \in Requests \ {r} : req'[q] = req[q]
<1>1. r \in DOMAIN req /\ "pc" \in DOMAIN req[r] /\ "id" \in DOMAIN req[r]
      /\ "tell" \in DOMAIN req[r]
  BY DEF TypeOK, RequestsTypeOK, RequestState
<1>2. DOMAIN req = Requests
  BY DEF TypeOK, RequestsTypeOK
<1>3. ASSUME NEW pc, Goto(r, pc)
      PROVE  req'[r].pc = pc /\ req'[r].id = req[r].id /\ \A q \in Requests \ {r} : req'[q] = req[q]
  BY <1>1, <1>2, <1>3 DEF Goto
<1>4. ASSUME NEW status, Tell(r, status)
      PROVE  req'[r].pc = "telling" /\ \A q \in Requests \ {r} : req'[q] = req[q]
  BY <1>1, <1>2, <1>4 DEF Tell
<1>5. ASSUME Return(r)
      PROVE  req'[r].pc = "idle" /\ \A q \in Requests \ {r} : req'[q] = req[q]
  BY <1>1, <1>2, <1>5, IdleType DEF Return
<1> QED BY <1>3, <1>4, <1>5

\* An approval is inserted before it has any history.
LEMMA InsertOnce ==
  ASSUME TypeOK, OneRunInv, NEW r \in Requests, NEW id \in Ids, req[r].id = id,
         Insert(r)
  PROVE  OneRunInv'
<1>1. /\ Has(r, ProposingPC) /\ Has(r, ProposingPC \cup OwnerPC)
      /\ items' = [items EXCEPT ![id] = [state |-> "pending", call |-> req[r].call]]
      /\ UNCHANGED <<now, readings, log, runs>>
  BY DEF Insert, At, Has, ProposingPC
<1>2. /\ req'[r].pc = "inserted" /\ req'[r].id = id
      /\ \A q \in Requests \ {r} : req'[q] = req[q]
  BY Moves DEF Insert
<1>3. log[id] = <<>> /\ runs[id] = 0
  BY <1>1 DEF OneRunInv, ProposalsFirst
<1>4. OwnerAgrees(r)' /\ Settled(id)'
  BY <1>1, <1>2, <1>3 DEF OwnerAgrees, Settled, Has, At
<1>5. \A i \in Ids \ {id} : items'[i] = items[i]
  BY <1>1 DEF TypeOK
<1> QED BY <1>1, <1>2, <1>3, <1>4, <1>5, OwnStep DEF At

\* The racy copy touches neither the approval nor its history.
LEMMA CopyOnce ==
  ASSUME TypeOK, OneRunInv, NEW r \in Requests, NEW id \in Ids, req[r].id = id,
         CopyApproval(r)
  PROVE  OneRunInv'
<1>1. /\ Has(r, ProposingPC) /\ Has(r, ProposingPC \cup OwnerPC)
      /\ UNCHANGED <<now, readings, items, log, runs>>
  BY DEF CopyApproval, At, Has, ProposingPC
<1>2. /\ req'[r].pc = "copied" /\ req'[r].id = id
      /\ \A q \in Requests \ {r} : req'[q] = req[q]
  BY DEF CopyApproval, TypeOK, RequestsTypeOK, RequestState
<1>3. log[id] = <<>> /\ runs[id] = 0
  BY <1>1 DEF OneRunInv, ProposalsFirst
<1>4. OwnerAgrees(r)' /\ Settled(id)'
  BY <1>1, <1>2, <1>3 DEF OwnerAgrees, Settled, Has, At
<1> QED BY <1>1, <1>2, <1>3, <1>4, OwnStep DEF At

\* Storing the proposal ends the proposing of an approval never run.
LEMMA AppendProposedOnce ==
  ASSUME TypeOK, OneRunInv, NEW r \in Requests, NEW id \in Ids, req[r].id = id,
         AppendProposed(r)
  PROVE  OneRunInv'
<1>1. /\ Has(r, ProposingPC) /\ Has(r, ProposingPC \cup OwnerPC)
      /\ UNCHANGED <<now, readings, items, runs>>
  BY DEF AppendProposed, At, Has, ProposingPC
<1>2. /\ req'[r].pc \in {"telling", "idle"}
      /\ \A q \in Requests \ {r} : req'[q] = req[q]
  BY Moves DEF AppendProposed
<1>3. \A i \in Ids \ {id} : log'[i] = log[i]
  BY DEF AppendProposed, AppendEvent, TypeOK
<1>4. runs[id] = 0
  BY <1>1 DEF OneRunInv, ProposalsFirst
<1>5. OwnerAgrees(r)'
  BY <1>2 DEF OwnerAgrees, Has, At
<1>6. Settled(id)'
  BY <1>1, <1>4 DEF Settled
<1>7. ~Has(r, ProposingPC \cup OwnerPC)' /\ ~Has(r, ProposingPC)'
  BY <1>2 DEF Has, ProposingPC, OwnerPC
<1> QED BY <1>1, <1>2, <1>3, <1>5, <1>6, <1>7, OwnStep

(***************************************************************************)
(* A pending approval has no owner and was never run; when the operators   *)
(* wait for the proposing call, nobody proposes it any more.               *)
(***************************************************************************)
LEMMA PendingIsFree ==
  ASSUME DecideAfterLogged, TypeOK, OneRunInv, NEW id \in Ids, Decidable(id)
  PROVE  /\ items[id].state = "pending" /\ id < now /\ runs[id] = 0
         /\ \A q \in Requests : Has(q, ProposingPC \cup OwnerPC) => req[q].id # id
<1>1. items[id].state = "pending"
  BY DEF Decidable
<1>2. id < now
  BY <1>1 DEF OneRunInv, Unborn, Absent, TypeOK, Ids
<1>3. runs[id] = 0
  BY <1>1 DEF OneRunInv, RunsAreSettled, Settled
<1>4. ASSUME NEW q \in Requests, Has(q, OwnerPC), req[q].id = id
      PROVE  FALSE
  <2>1. OwnerAgrees(q)
    BY DEF OneRunInv, OwnersAgree
  <2> QED BY <1>1, <1>4, <2>1 DEF OwnerAgrees, Has, At, OwnerPC
<1>5. ASSUME NEW q \in Requests, Has(q, ProposingPC), req[q].id = id
      PROVE  FALSE
  BY <1>5 DEF Decidable, Proposing, Has
<1> QED BY <1>1, <1>2, <1>3, <1>4, <1>5 DEF Has

\* Deciding makes the handler the owner of an approval that had none.
LEMMA DecideOnce ==
  ASSUME DecideAfterLogged, TypeOK, OneRunInv, NEW r \in Requests, NEW id \in Ids,
         NEW decided \in {"approved", "denied"}, Decide(r, id, decided)
  PROVE  OneRunInv'
<1>1. /\ items' = [items EXCEPT ![id].state = decided]
      /\ UNCHANGED <<now, readings, log, runs>>
  BY DEF Decide, SetState
<1>2. /\ req'[r].pc = decided /\ req'[r].id = id
      /\ \A q \in Requests \ {r} : req'[q] = req[q]
  BY DEF Decide, Idle, TypeOK, RequestsTypeOK
<1>3. /\ items[id].state = "pending" /\ id < now /\ runs[id] = 0
      /\ \A q \in Requests : Has(q, ProposingPC \cup OwnerPC) => req[q].id # id
  BY PendingIsFree DEF Decide
<1>4. items'[id].state = decided /\ \A i \in Ids \ {id} : items'[i] = items[i]
  BY <1>1 DEF TypeOK
<1>5. OwnerAgrees(r)'
  BY <1>1, <1>2, <1>3, <1>4 DEF OwnerAgrees, Has, At
<1>6. Settled(id)'
  BY <1>1, <1>3 DEF Settled
<1>7. ~Has(r, ProposingPC)'
  BY <1>2 DEF Has, ProposingPC
<1> QED BY <1>1, <1>2, <1>3, <1>4, <1>5, <1>6, <1>7, ExclusiveStep

\* Deciding too late cancels an approval that nobody owns.
LEMMA DecideExpiredOnce ==
  ASSUME DecideAfterLogged, TypeOK, OneRunInv, NEW r \in Requests, NEW id \in Ids,
         DecideExpired(r, id)
  PROVE  OneRunInv'
<1>1. /\ items' = [items EXCEPT ![id].state = "cancelled"] /\ At(r, "idle")
      /\ UNCHANGED <<now, readings, req, log, runs>>
  BY DEF DecideExpired, SetState
<1>2. /\ items[id].state = "pending" /\ id < now /\ runs[id] = 0
      /\ \A q \in Requests : Has(q, ProposingPC \cup OwnerPC) => req[q].id # id
  BY PendingIsFree DEF DecideExpired
<1>3. \A i \in Ids \ {id} : items'[i] = items[i]
  BY <1>1 DEF TypeOK
<1>4. OwnerAgrees(r)'
  BY <1>1 DEF OwnerAgrees, Has, At
<1>5. Settled(id)'
  BY <1>1, <1>2 DEF Settled
<1>6. ~Has(r, ProposingPC \cup OwnerPC)' /\ ~Has(r, ProposingPC)'
  BY <1>1 DEF Has, At, ProposingPC, OwnerPC
<1> QED BY <1>1, <1>2, <1>3, <1>4, <1>5, <1>6, ExclusiveStep

\* Storing the decision lets its one owner go on to the execution.
LEMMA AppendDecidedOnce ==
  ASSUME TypeOK, OneRunInv, NEW r \in Requests, NEW id \in Ids, req[r].id = id,
         AppendDecided(r)
  PROVE  OneRunInv'
<1>1. /\ Has(r, ProposingPC \cup OwnerPC)
      /\ UNCHANGED <<now, readings, items, runs>>
  BY DEF AppendDecided, At, Has, OwnerPC
<1>2. \A q \in Requests \ {r} : req'[q] = req[q]
  BY Moves DEF AppendDecided
<1>3. \A i \in Ids \ {id} : log'[i] = log[i]
  BY DEF AppendDecided, AppendEvent, TypeOK
<1>4. OwnerAgrees(r)
  BY DEF OneRunInv, OwnersAgree
<1>5. runs[id] = 0
  BY <1>4 DEF AppendDecided, OwnerAgrees, Has, At
<1>6. Settled(id)'
  BY <1>1, <1>5 DEF Settled
<1>7. CASE req'[r].pc \in {"telling", "idle"}
  <2>1. OwnerAgrees(r)'
    BY <1>7 DEF OwnerAgrees, Has, At
  <2>2. ~Has(r, ProposingPC \cup OwnerPC)' /\ ~Has(r, ProposingPC)'
    BY <1>7 DEF Has, ProposingPC, OwnerPC
  <2> QED BY <1>1, <1>2, <1>3, <1>6, <2>1, <2>2, OwnStep
<1>8. CASE At(r, "approved") /\ Goto(r, "authorised")
           /\ AppendEvent(id, Decided("approve"))
  <2>1. req'[r].pc = "authorised" /\ req'[r].id = id
    BY <1>8, Moves
  <2>2. log'[id] = Append(log[id], Decided("approve"))
    BY <1>8 DEF AppendEvent, TypeOK
  <2>3. log[id] \in Seq(Event) /\ Decided("approve") \in Event
    BY EventType DEF TypeOK
  <2>4. log'[id] # <<>> /\ log'[id][Len(log'[id])] = Decided("approve")
    BY <2>2, <2>3, LastAppended
  <2>5. items[id].state = "approved"
    BY <1>4, <1>8 DEF OwnerAgrees, Has, At
  <2>6. OwnerAgrees(r)'
    BY <1>1, <1>5, <2>1, <2>4, <2>5 DEF OwnerAgrees, Has, At
  <2>7. ~Has(r, ProposingPC)'
    BY <2>1 DEF Has, ProposingPC
  <2> QED BY <1>1, <1>2, <1>3, <1>6, <2>1, <2>6, <2>7, OwnStep
<1> QED BY <1>7, <1>8, Moves DEF AppendDecided

\* What Cancel does to the approval of a handler that holds it approved.
LEMMA CancelApproved ==
  ASSUME TypeOK, NEW id \in Ids, items[id].state = "approved", CancelItem(id)
  PROVE  items'[id].state = "cancelled" /\ \A i \in Ids \ {id} : items'[i] = items[i]
<1>1. ValidateApprovalTransition("approved", "cancelled")
  BY DEF ValidateApprovalTransition, TerminalApproval, approvalTransitions
<1> QED BY <1>1 DEF CancelItem, SetState, TypeOK

\* Refusing and failing give the approval up in the state cancelled.
LEMMA GiveUpOnce ==
  ASSUME TypeOK, OneRunInv, NEW r \in Requests, NEW id \in Ids, req[r].id = id,
         Refuse(r) \/ ExecutionFailed(r)
  PROVE  OneRunInv'
<1>1. /\ Has(r, ProposingPC \cup OwnerPC)
      /\ Has(r, {"authorised", "running"})
      /\ CancelItem(id)
      /\ UNCHANGED <<now, readings, log, runs>>
  BY DEF Refuse, ExecutionFailed, At, Has, OwnerPC
<1>2. /\ req'[r].pc = "telling"
      /\ \A q \in Requests \ {r} : req'[q] = req[q]
  BY Moves DEF Refuse, ExecutionFailed
<1>3. items[id].state = "approved"
  BY <1>1 DEF OneRunInv, OwnersAgree, OwnerAgrees, Has
<1>4. items'[id].state = "cancelled" /\ \A i \in Ids \ {id} : items'[i] = items[i]
  BY <1>1, <1>3, CancelApproved
<1>5. Settled(id)'
  BY <1>1, <1>4 DEF OneRunInv, RunsAreSettled, Settled
<1>6. OwnerAgrees(r)'
  BY <1>2 DEF OwnerAgrees, Has, At
<1>7. ~Has(r, ProposingPC \cup OwnerPC)' /\ ~Has(r, ProposingPC)'
  BY <1>2 DEF Has, ProposingPC, OwnerPC
<1> QED BY <1>1, <1>2, <1>4, <1>5, <1>6, <1>7, OwnStep

\* The tool is started for the first time, with its approval stored last.
LEMMA RunToolOnce ==
  ASSUME TypeOK, OneRunInv, NEW r \in Requests, NEW id \in Ids, req[r].id = id,
         RunTool(r)
  PROVE  OneRunInv'
<1>1. /\ Has(r, ProposingPC \cup OwnerPC)
      /\ runs' = [runs EXCEPT ![id] = @ + 1]
      /\ UNCHANGED <<now, readings, items, log>>
  BY DEF RunTool, At, Has, OwnerPC
<1>2. /\ req'[r].pc = "running" /\ req'[r].id = id
      /\ \A q \in Requests \ {r} : req'[q] = req[q]
  BY Moves DEF RunTool
<1>3. /\ items[id].state = "approved" /\ runs[id] = 0
      /\ log[id] # <<>> /\ log[id][Len(log[id])] = Decided("approve")
  BY DEF RunTool, OneRunInv, OwnersAgree, OwnerAgrees, Has, At
<1>4. runs'[id] = 1 /\ \A i \in Ids \ {id} : runs'[i] = runs[i]
  BY <1>1, <1>3 DEF TypeOK
<1>5. OwnerAgrees(r)'
  BY <1>1, <1>2, <1>3, <1>4 DEF OwnerAgrees, Has, At
<1>6. Settled(id)'
  BY <1>1, <1>3, <1>4, AfterDecisions DEF Settled
<1>7. ~Has(r, ProposingPC)'
  BY <1>2 DEF Has, ProposingPC
<1> QED BY <1>1, <1>2, <1>4, <1>5, <1>6, <1>7, OwnStep

\* Marking finds the approval approved and leaves it executed.
LEMMA MarkExecutedOnce ==
  ASSUME TypeOK, OneRunInv, NEW r \in Requests, NEW id \in Ids, req[r].id = id,
         MarkExecuted(r)
  PROVE  OneRunInv'
<1>1. /\ Has(r, ProposingPC \cup OwnerPC)
      /\ UNCHANGED <<now, readings, log, runs>>
  BY DEF MarkExecuted, At, Has, OwnerPC
<1>2. items[id].state = "approved" /\ runs[id] = 1
  BY DEF MarkExecuted, OneRunInv, OwnersAgree, OwnerAgrees, Has, At
<1>3. ValidateApprovalTransition("approved", "executed")
  BY DEF ValidateApprovalTransition, TerminalApproval, approvalTransitions
<1>4. items' = [items EXCEPT ![id].state = "executed"] /\ Goto(r, "marked")
  BY <1>2, <1>3 DEF MarkExecuted, SetState
<1>5. /\ req'[r].pc = "marked" /\ req'[r].id = id
      /\ \A q \in Requests \ {r} : req'[q] = req[q]
  BY <1>4, Moves
<1>6. items'[id].state = "executed" /\ \A i \in Ids \ {id} : items'[i] = items[i]
  BY <1>4 DEF TypeOK
<1>7. OwnerAgrees(r)'
  BY <1>1, <1>2, <1>5, <1>6 DEF OwnerAgrees, Has, At
<1>8. Settled(id)'
  BY <1>1, <1>6 DEF OneRunInv, RunsAreSettled, Settled
<1>9. ~Has(r, ProposingPC)'
  BY <1>5 DEF Has, ProposingPC
<1> QED BY <1>1, <1>5, <1>6, <1>7, <1>8, <1>9, OwnStep

\* Storing the execution keeps the replay from offering the call.
LEMMA AppendExecutedOnce ==
  ASSUME TypeOK, OneRunInv, NEW r \in Requests, NEW id \in Ids, req[r].id = id,
         AppendExecuted(r)
  PROVE  OneRunInv'
<1>1. /\ Has(r, ProposingPC \cup OwnerPC)
      /\ UNCHANGED <<now, readings, items, runs>>
  BY DEF AppendExecuted, At, Has, OwnerPC
<1>2. /\ req'[r].pc \in {"telling", "idle"}
      /\ \A q \in Requests \ {r} : req'[q] = req[q]
  BY Moves DEF AppendExecuted
<1>3. \A i \in Ids \ {id} : log'[i] = log[i]
  BY DEF AppendExecuted, AppendEvent, TypeOK
<1>4. Settled(id)
  BY DEF OneRunInv, RunsAreSettled
<1>5. Settled(id)'
  <2>1. CASE UNCHANGED log
    BY <1>1, <1>4, <2>1 DEF Settled
  <2>2. CASE AppendEvent(id, ExecutedEvent)
    <3>1. log'[id] = Append(log[id], ExecutedEvent)
      BY <2>2 DEF AppendEvent, TypeOK
    <3>2. log[id] \in Seq(Event) /\ ExecutedEvent \in Event
      BY EventType DEF TypeOK
    <3>3. log'[id] # <<>> /\ log'[id][Len(log'[id])] = ExecutedEvent
      BY <3>1, <3>2, LastAppended
    <3>4. StateAfter(log'[id][Len(log'[id])]) \in {"approved", "executed"}
      BY <3>3, AfterDecisions
    <3> QED BY <1>1, <1>4, <3>3, <3>4 DEF Settled
  <2> QED BY <2>1, <2>2 DEF AppendExecuted
<1>6. OwnerAgrees(r)'
  BY <1>2 DEF OwnerAgrees, Has, At
<1>7. ~Has(r, ProposingPC \cup OwnerPC)' /\ ~Has(r, ProposingPC)'
  BY <1>2 DEF Has, ProposingPC, OwnerPC
<1> QED BY <1>1, <1>2, <1>3, <1>5, <1>6, <1>7, OwnStep

(***************************************************************************)
(* A handler that stops working on its approval, which another one may     *)
(* propose or own by then, leaves the invariant as it is.                  *)
(***************************************************************************)
LEMMA LeaveStep ==
  ASSUME OneRunInv, NEW r \in Requests, req'[r].pc \in {"telling", "idle"},
         \A q \in Requests \ {r} : req'[q] = req[q],
         UNCHANGED <<now, readings, items, log, runs>>
  PROVE  OneRunInv'
<1>1. ASSUME NEW q \in Requests, Has(q, ProposingPC \cup OwnerPC)'
      PROVE  req'[q] = req[q] /\ Has(q, ProposingPC \cup OwnerPC)
  BY <1>1 DEF Has, ProposingPC, OwnerPC
<1>2. ASSUME NEW q \in Requests
      PROVE  /\ Has(q, ProposingPC)' => req'[q] = req[q] /\ Has(q, ProposingPC)
             /\ Has(q, OwnerPC)' => req'[q] = req[q] /\ Has(q, OwnerPC)
  BY <1>1 DEF Has
<1>3. Unborn'
  BY <1>1 DEF OneRunInv, Unborn
<1>4. ProposalsFirst'
  BY <1>2 DEF OneRunInv, ProposalsFirst, At
<1>5. OneOwner'
  BY <1>2 DEF OneRunInv, OneOwner
<1>6. OwnersAgree'
  <2> SUFFICES ASSUME NEW q \in Requests PROVE OwnerAgrees(q)'
    BY DEF OwnersAgree
  <2>1. OwnerAgrees(q)
    BY DEF OneRunInv, OwnersAgree
  <2>2. CASE q = r
    BY <2>2 DEF OwnerAgrees, Has, At
  <2>3. CASE q # r
    BY <2>1, <2>3 DEF OwnerAgrees, Has, At
  <2> QED BY <2>2, <2>3
<1>7. RunsAreSettled'
  BY DEF OneRunInv, RunsAreSettled, Settled
<1> QED BY <1>3, <1>4, <1>5, <1>6, <1>7 DEF OneRunInv

\* Listing touches pending approvals only, and those nobody owns.
LEMMA ListOnce ==
  ASSUME TypeOK, OneRunInv, ListPending
  PROVE  OneRunInv'
<1>1. UNCHANGED <<now, readings, req, log, runs>>
  BY DEF ListPending
<1>2. ASSUME NEW id \in Ids
      PROVE  \/ items'[id] = items[id]
             \/ items[id].state = "pending" /\ items'[id].state = "cancelled"
  BY DEF ListPending, TypeOK
<1>3. ASSUME NEW id \in Ids, items[id] = Absent
      PROVE  items'[id] = Absent
  BY <1>2, <1>3 DEF Absent
<1>4. Unborn'
  BY <1>1, <1>3 DEF OneRunInv, Unborn, Has
<1>5. ProposalsFirst'
  BY <1>1, <1>3 DEF OneRunInv, ProposalsFirst, Has, At, TypeOK, RequestsTypeOK, ProposingPC
<1>6. OneOwner'
  BY <1>1 DEF OneRunInv, OneOwner, Has
<1>7. OwnersAgree'
  <2> SUFFICES ASSUME NEW q \in Requests PROVE OwnerAgrees(q)'
    BY DEF OwnersAgree
  <2>1. OwnerAgrees(q)
    BY DEF OneRunInv, OwnersAgree
  <2>2. Has(q, OwnerPC) => req[q].id \in Ids
    BY DEF Has, OwnerPC, TypeOK, RequestsTypeOK
  <2>3. CASE ~Has(q, OwnerPC)
    BY <1>1, <2>3 DEF OwnerAgrees, Has, At, OwnerPC
  <2>4. CASE Has(q, OwnerPC)
    <3>1. items[req[q].id].state # "pending"
      BY <2>1, <2>4 DEF OwnerAgrees, Has, At, OwnerPC
    <3>2. items'[req[q].id] = items[req[q].id]
      BY <1>2, <2>2, <2>4, <3>1
    <3> QED BY <1>1, <2>1, <3>2 DEF OwnerAgrees, Has, At
  <2> QED BY <2>3, <2>4
<1>8. RunsAreSettled'
  <2> SUFFICES ASSUME NEW id \in Ids PROVE Settled(id)'
    BY DEF RunsAreSettled
  <2>1. Settled(id)
    BY DEF OneRunInv, RunsAreSettled
  <2> QED BY <1>1, <1>2, <2>1 DEF Settled
<1> QED BY <1>4, <1>5, <1>6, <1>7, <1>8 DEF OneRunInv

(***************************************************************************)
(* A restart has no handlers left, and what it rebuilds from the log never *)
(* offers a call that was started: the log names its approval last, or its *)
(* execution.                                                              *)
(***************************************************************************)
LEMMA RestartOnce ==
  ASSUME OneRunInv, Restart
  PROVE  OneRunInv'
<1>1. /\ \A id \in Ids : items'[id] = Restored(id)
      /\ \A r \in Requests : req'[r].pc = "idle"
      /\ UNCHANGED <<now, readings, log, runs>>
  BY IdleType DEF Restart
<1>2. ASSUME NEW id \in Ids, log[id] = <<>>
      PROVE  items'[id] = Absent
  <2>1. ~WasProposed(log[id])
    BY <1>2 DEF WasProposed
  <2> QED BY <1>1, <2>1 DEF Restored, Replay, Absent
<1>3. Unborn'
  <2>1. \A r \in Requests : ~Has(r, ProposingPC \cup OwnerPC)'
    BY <1>1 DEF Has, ProposingPC, OwnerPC
  <2> QED BY <1>1, <1>2, <2>1 DEF OneRunInv, Unborn
<1>4. ProposalsFirst' /\ OneOwner' /\ OwnersAgree'
  BY <1>1 DEF ProposalsFirst, OneOwner, OwnersAgree, OwnerAgrees, Has, At,
              ProposingPC, OwnerPC
<1>5. RunsAreSettled'
  <2> SUFFICES ASSUME NEW id \in Ids, runs[id] # 0 PROVE Settled(id)'
    BY <1>1 DEF RunsAreSettled, Settled
  <2>1. /\ runs[id] = 1 /\ log[id] # <<>>
        /\ StateAfter(log[id][Len(log[id])]) \in {"approved", "executed"}
    BY DEF OneRunInv, RunsAreSettled, Settled
  <2>2. Restored(id).state \in {"cancelled", "executed", "absent"}
    <3>1. CASE ~WasProposed(log[id])
      BY <3>1 DEF Restored, Replay, Absent
    <3>2. CASE WasProposed(log[id])
      <4>1. Replay(log[id]).state = StateAfter(log[id][Len(log[id])])
        BY <3>2 DEF Replay
      <4>2. CASE Replay(log[id]).state = "approved"
        <5> DEFINE a == Replay(log[id])
        <5>1. a = [state |-> a.state, call |-> a.call]
          BY <3>2 DEF Replay
        <5>2. Restored(id) = [a EXCEPT !.state = "cancelled"]
          BY <4>2 DEF Restored
        <5> HIDE DEF a
        <5> QED BY <5>1, <5>2
      <4>3. CASE Replay(log[id]).state = "executed"
        BY <4>3 DEF Restored
      <4> QED BY <2>1, <4>1, <4>2, <4>3
    <3> QED BY <3>1, <3>2
  <2> QED BY <1>1, <2>1, <2>2 DEF Settled
<1> QED BY <1>3, <1>4, <1>5 DEF OneRunInv

\* The invariant that keeps the tool from running twice is inductive.
LEMMA NextOnce ==
  ASSUME PerTick = 1, DecideAfterLogged, TypeOK, OneRunInv, [Next]_vars
  PROVE  OneRunInv'
<1>1. ASSUME NEW r \in Requests, ProposeStep(r)
      PROVE  OneRunInv'
  <2>1. CASE \E c \in Calls : Stamp(r, c)
    BY <2>1, StampOnce
  <2>2. CASE Insert(r) \/ CopyApproval(r) \/ AppendProposed(r)
    <3>1. req[r].id \in Ids
      BY <2>2 DEF Insert, CopyApproval, AppendProposed, At, TypeOK, RequestsTypeOK
    <3> QED BY <2>2, <3>1, InsertOnce, CopyOnce, AppendProposedOnce
  <2> QED BY <1>1, <2>1, <2>2 DEF ProposeStep
<1>2. ASSUME NEW r \in Requests, DecideStep(r)
      PROVE  OneRunInv'
  BY <1>2, DecideOnce, DecideExpiredOnce DEF DecideStep
<1>3. ASSUME NEW r \in Requests, ExecuteStep(r)
      PROVE  OneRunInv'
  <2>1. req[r].id \in Ids
    BY <1>3 DEF ExecuteStep, AppendDecided, Refuse, RunTool, ExecutionFailed,
                MarkExecuted, AppendExecuted, At, TypeOK, RequestsTypeOK
  <2> QED BY <1>3, <2>1, AppendDecidedOnce, GiveUpOnce, RunToolOnce,
             MarkExecutedOnce, AppendExecutedOnce DEF ExecuteStep
<1>4. ASSUME NEW r \in Requests, TellTurn(r)
      PROVE  OneRunInv'
  <2>1. req'[r].pc = "idle" /\ \A q \in Requests \ {r} : req'[q] = req[q]
    BY <1>4, Moves DEF TellTurn
  <2> QED BY <1>4, <2>1, LeaveStep DEF TellTurn
<1>5. ASSUME UNCHANGED <<now, readings, items, req, log, runs>>
      PROVE  OneRunInv'
  BY <1>5 DEF OneRunInv, Unborn, ProposalsFirst, OneOwner, OwnersAgree, OwnerAgrees,
              RunsAreSettled, Settled, Has, At
<1>6. ~Tick
  BY DEF Tick, OneRunInv, Unborn
<1> QED BY <1>1, <1>2, <1>3, <1>4, <1>5, <1>6, ListOnce, RestartOnce
        DEF Next, Expire, vars

\* The invariant holds in every reachable state of such a system.
LEMMA OneRunInvariant ==
  ASSUME PerTick = 1, DecideAfterLogged
  PROVE  Spec => [](TypeOK /\ OneRunInv)
<1>1. Init => OneRunInv
  BY IdleType DEF Init, OneRunInv, Unborn, ProposalsFirst, OneOwner, OwnersAgree,
                  OwnerAgrees, RunsAreSettled, Settled, Has, At, ProposingPC, OwnerPC
<1>2. TypeOK /\ OneRunInv /\ [Next]_vars => OneRunInv'
  BY NextOnce
<1> QED BY <1>1, <1>2, TypeCorrect, PTL DEF Spec

\* Where approval ids are distinct and operators decide on an approval only
\* after the call that proposed it returned, no number of goroutines, expiries,
\* failed appends and restarts makes handleApprovalByID start the tool behind
\* an approval twice.
THEOREM OneRun ==
  ASSUME PerTick = 1, DecideAfterLogged
  PROVE  Spec => []AtMostOneRun
<1>1. OneRunInv => AtMostOneRun
  BY DEF OneRunInv, RunsAreSettled, Settled, AtMostOneRun
<1> QED BY <1>1, OneRunInvariant, PTL

\* Under the same assumptions a tool that was started comes back to an approval
\* that is still approved, so that MarkExecuted finds the transition valid.
THEOREM Recordable ==
  ASSUME PerTick = 1, DecideAfterLogged
  PROVE  Spec => []ExecutionIsRecordable
<1>1. OneRunInv => ExecutionIsRecordable
  BY DEF OneRunInv, OwnersAgree, OwnerAgrees, ExecutionIsRecordable, Has, At
<1> QED BY <1>1, OneRunInvariant, PTL

------------------------------------------------------------------------------
(* Every start of the tool has an approval of its own *)

\* The approvals in a stored history can be counted.
LEMMA ApprovalsFinite ==
  ASSUME NEW id \in Ids
  PROVE  /\ TypeOK => IsFiniteSet(Approvals(id)) /\ Cardinality(Approvals(id)) \in Nat
         /\ TypeOK' => IsFiniteSet(Approvals(id)') /\ Cardinality(Approvals(id)') \in Nat
<1>1. ASSUME NEW l \in Seq(Event)
      PROVE  LET S == {i \in 1..Len(l) : l[i] = Decided("approve")}
             IN IsFiniteSet(S) /\ Cardinality(S) \in Nat
  <2>1. IsFiniteSet(1..Len(l))
    BY FS_Interval
  <2> QED BY <2>1, FS_Subset, FS_CardinalityType
<1>2. TypeOK => log[id] \in Seq(Event)
  BY DEF TypeOK
<1>3. TypeOK' => log'[id] \in Seq(Event)
  BY DEF TypeOK
<1> QED BY <1>1, <1>2, <1>3 DEF Approvals

\* What the invariant says of one approval.
Backed(id) ==
  /\ IsFiniteSet(Authorised(id))
  /\ runs[id] + Cardinality(Authorised(id)) <= Cardinality(Approvals(id))

\* A step that lets nobody else start the tool, and stores no less.
LEMMA NoMoreAuthorised ==
  ASSUME TypeOK, TypeOK', NEW id \in Ids, Backed(id), runs'[id] = runs[id],
         Authorised(id)' \subseteq Authorised(id),
         Approvals(id) \subseteq Approvals(id)'
  PROVE  Backed(id)'
<1>1. IsFiniteSet(Authorised(id)') /\ Cardinality(Authorised(id)') <= Cardinality(Authorised(id))
  BY FS_Subset DEF Backed
<1>2. Cardinality(Approvals(id)) <= Cardinality(Approvals(id)')
  BY ApprovalsFinite, FS_Subset
<1>3. /\ Cardinality(Authorised(id)) \in Nat /\ Cardinality(Authorised(id)') \in Nat
      /\ runs[id] \in Nat
  BY <1>1, FS_CardinalityType DEF Backed, TypeOK
<1>4. Cardinality(Approvals(id)) \in Nat /\ Cardinality(Approvals(id)') \in Nat
  BY ApprovalsFinite
<1> QED BY <1>1, <1>2, <1>3, <1>4 DEF Backed

\* A stored history only grows, so the approvals in it stay.
LEMMA ApprovalsStay ==
  ASSUME TypeOK, NEW id \in Ids, NEW e \in Event, AppendEvent(id, e)
  PROVE  /\ \A i \in Ids : Approvals(i) \subseteq Approvals(i)'
         /\ e = Decided("approve") =>
              /\ Len(log[id]) + 1 \notin Approvals(id)
              /\ Approvals(id)' = Approvals(id) \cup {Len(log[id]) + 1}
<1>1. log[id] \in Seq(Event) /\ log'[id] = Append(log[id], e)
  BY DEF AppendEvent, TypeOK
<1>2. \A i \in Ids \ {id} : log'[i] = log[i]
  BY DEF AppendEvent, TypeOK
<1>3. /\ 1..Len(log'[id]) = 1..Len(log[id]) \cup {Len(log[id]) + 1}
      /\ log'[id][Len(log[id]) + 1] = e /\ Len(log[id]) + 1 \notin 1..Len(log[id])
      /\ \A i \in 1..Len(log[id]) : log'[id][i] = log[id][i]
  BY <1>1
<1> QED BY <1>2, <1>3 DEF Approvals

\* Storing an approval authorises one handler.
LEMMA AppendDecidedBacked ==
  ASSUME TypeOK, TypeOK', BackedInv, NEW r \in Requests, AppendDecided(r)
  PROVE  BackedInv'
<1>1. PICK id \in Ids : id = req[r].id
  BY DEF AppendDecided, At, TypeOK, RequestsTypeOK
<1>2. /\ ~At(r, "authorised") /\ UNCHANGED runs
      /\ \A q \in Requests \ {r} : req'[q] = req[q]
  BY Moves DEF AppendDecided, At
<1>3. \A i \in Ids : Backed(i)
  BY DEF BackedInv, Backed
<1>4. \A i \in Ids : Approvals(i) \subseteq Approvals(i)'
  <2>1. CASE UNCHANGED log
    BY <2>1 DEF Approvals
  <2>2. CASE \E d \in {"approve", "deny"} : AppendEvent(id, Decided(d))
    BY <2>2, EventType, ApprovalsStay
  <2> QED BY <1>1, <2>1, <2>2 DEF AppendDecided
<1>5. CASE req'[r].pc # "authorised"
  <2>1. \A i \in Ids : Authorised(i)' \subseteq Authorised(i)
    BY <1>2, <1>5 DEF Authorised, At
  <2>2. \A i \in Ids : Backed(i)'
    BY <1>2, <1>3, <1>4, <2>1, NoMoreAuthorised
  <2> QED BY <2>2 DEF BackedInv, Backed
<1>6. CASE AppendEvent(id, Decided("approve")) /\ Goto(r, "authorised")
  <2>1. req'[r].pc = "authorised" /\ req'[r].id = id
    BY <1>1, <1>6, Moves
  <2>2. ASSUME NEW i \in Ids \ {id}
        PROVE  Backed(i)'
    <3>1. Authorised(i)' \subseteq Authorised(i)
      BY <1>2, <2>1 DEF Authorised, At
    <3> QED BY <1>2, <1>3, <1>4, <3>1, NoMoreAuthorised
  <2>3. Authorised(id)' = Authorised(id) \cup {r} /\ r \notin Authorised(id)
    BY <1>2, <2>1 DEF Authorised, At
  <2>4. PICK n : n \notin Approvals(id) /\ Approvals(id)' = Approvals(id) \cup {n}
    BY <1>6, EventType, ApprovalsStay
  <2>5. /\ IsFiniteSet(Authorised(id)')
        /\ Cardinality(Authorised(id)') = Cardinality(Authorised(id)) + 1
    BY <1>3, <2>3, FS_AddElement DEF Backed
  <2>6. Cardinality(Approvals(id)') = Cardinality(Approvals(id)) + 1
    BY <2>4, ApprovalsFinite, FS_AddElement
  <2>7. /\ Cardinality(Authorised(id)) \in Nat /\ Cardinality(Approvals(id)) \in Nat
        /\ runs[id] \in Nat
    BY <1>3, ApprovalsFinite, FS_CardinalityType DEF Backed, TypeOK
  <2>8. runs[id] + Cardinality(Authorised(id)) <= Cardinality(Approvals(id))
    BY <1>3 DEF Backed
  <2>9. runs'[id] + Cardinality(Authorised(id)') <= Cardinality(Approvals(id)')
    BY <1>2, <2>5, <2>6, <2>7, <2>8
  <2> QED BY <2>2, <2>5, <2>9 DEF BackedInv, Backed
<1> QED BY <1>1, <1>5, <1>6, Moves DEF AppendDecided

\* Starting the tool uses up the handler's authorisation.
LEMMA RunToolBacked ==
  ASSUME TypeOK, TypeOK', BackedInv, NEW r \in Requests, RunTool(r)
  PROVE  BackedInv'
<1>1. PICK id \in Ids : id = req[r].id
  BY DEF RunTool, At, TypeOK, RequestsTypeOK
<1>2. /\ At(r, "authorised") /\ req'[r].pc = "running" /\ req'[r].id = id
      /\ \A q \in Requests \ {r} : req'[q] = req[q]
  BY <1>1, Moves DEF RunTool
<1>3. /\ \A i \in Ids \ {id} : runs'[i] = runs[i]
      /\ runs[id] \in Nat /\ runs'[id] = runs[id] + 1
  BY <1>1 DEF RunTool, TypeOK
<1>4. \A i \in Ids : Backed(i) /\ Approvals(i)' = Approvals(i)
  BY DEF BackedInv, Backed, RunTool, Approvals
<1>5. ASSUME NEW i \in Ids \ {id}
      PROVE  Backed(i)'
  <2>1. Authorised(i)' \subseteq Authorised(i)
    BY <1>2 DEF Authorised, At
  <2> QED BY <1>3, <1>4, <2>1, NoMoreAuthorised
<1>6. Authorised(id)' = Authorised(id) \ {r} /\ r \in Authorised(id)
  BY <1>1, <1>2 DEF Authorised, At
<1>7. /\ IsFiniteSet(Authorised(id)')
      /\ Cardinality(Authorised(id)') = Cardinality(Authorised(id)) - 1
  BY <1>4, <1>6, FS_RemoveElement DEF Backed
<1>8. Cardinality(Authorised(id)) \in Nat /\ Cardinality(Approvals(id)) \in Nat
  BY <1>4, ApprovalsFinite, FS_CardinalityType DEF Backed
<1>9. runs[id] + Cardinality(Authorised(id)) <= Cardinality(Approvals(id))
  BY <1>4 DEF Backed
<1>10. runs'[id] + Cardinality(Authorised(id)') <= Cardinality(Approvals(id)')
  BY <1>3, <1>4, <1>7, <1>8, <1>9
<1> QED BY <1>5, <1>7, <1>10 DEF BackedInv, Backed

\* Every other step authorises nobody and starts nothing.
LEMMA OthersBacked ==
  ASSUME TypeOK, TypeOK', BackedInv, UNCHANGED runs,
         \A q \in Requests :
           At(q, "authorised")' => At(q, "authorised") /\ req'[q].id = req[q].id,
         \A i \in Ids : Approvals(i) \subseteq Approvals(i)'
  PROVE  BackedInv'
<1>1. \A i \in Ids : Authorised(i)' \subseteq Authorised(i)
  BY DEF Authorised
<1>2. \A i \in Ids : Backed(i)'
  BY <1>1, NoMoreAuthorised DEF BackedInv, Backed
<1> QED BY <1>2 DEF BackedInv, Backed

LEMMA NextBacked ==
  ASSUME TypeOK, TypeOK', BackedInv, [Next]_vars
  PROVE  BackedInv'
<1>1. ASSUME UNCHANGED log
      PROVE  \A i \in Ids : Approvals(i) \subseteq Approvals(i)'
  BY <1>1 DEF Approvals
<1>2. ASSUME NEW r \in Requests, req'[r].pc # "authorised",
             \A q \in Requests \ {r} : req'[q] = req[q]
      PROVE  \A q \in Requests :
               At(q, "authorised")' => At(q, "authorised") /\ req'[q].id = req[q].id
  BY <1>2 DEF At
<1>3. ASSUME NEW r \in Requests, ProposeStep(r)
      PROVE  BackedInv'
  <2>1. UNCHANGED runs
    BY <1>3 DEF ProposeStep, Stamp, Insert, CopyApproval, AppendProposed
  <2>2. req'[r].pc # "authorised" /\ \A q \in Requests \ {r} : req'[q] = req[q]
    <3>1. CASE \E c \in Calls : Stamp(r, c)
      BY <3>1 DEF Stamp, Idle, TypeOK, RequestsTypeOK
    <3>2. CASE CopyApproval(r)
      BY <3>2 DEF CopyApproval, TypeOK, RequestsTypeOK, RequestState
    <3>3. CASE Insert(r) \/ AppendProposed(r)
      BY <3>3, Moves DEF Insert, AppendProposed
    <3> QED BY <1>3, <3>1, <3>2, <3>3 DEF ProposeStep
  <2>3. \A i \in Ids : Approvals(i) \subseteq Approvals(i)'
    <3>1. CASE UNCHANGED log
      BY <1>1, <3>1
    <3>2. CASE AppendProposed(r) /\ AppendEvent(req[r].id, Proposed(req[r].copy, req[r].call))
      <4>1. req[r].id \in Ids /\ req[r].call \in Calls /\ req[r].copy \in ItemState
        BY <3>2 DEF AppendProposed, At, TypeOK, RequestsTypeOK, ProposingPC, RequestState
      <4> QED BY <3>2, <4>1, EventType, ApprovalsStay
    <3> QED BY <1>3, <3>1, <3>2 DEF ProposeStep, Stamp, Insert, CopyApproval, AppendProposed
  <2> QED BY <1>2, <2>1, <2>2, <2>3, OthersBacked
<1>4. ASSUME NEW r \in Requests, DecideStep(r)
      PROVE  BackedInv'
  <2>1. UNCHANGED <<runs, log>>
    BY <1>4 DEF DecideStep, Decide, DecideExpired
  <2>2. \A q \in Requests :
          At(q, "authorised")' => At(q, "authorised") /\ req'[q].id = req[q].id
    <3>1. ASSUME NEW id \in Ids, NEW decided \in {"approved", "denied"}, Decide(r, id, decided)
          PROVE  req'[r].pc = decided /\ \A q \in Requests \ {r} : req'[q] = req[q]
      BY <3>1 DEF Decide, Idle, TypeOK, RequestsTypeOK
    <3>2. CASE UNCHANGED req
      BY <3>2 DEF At
    <3> QED BY <1>2, <1>4, <3>1, <3>2 DEF DecideStep, DecideExpired
  <2> QED BY <1>1, <2>1, <2>2, OthersBacked
<1>5. ASSUME NEW r \in Requests, Refuse(r) \/ ExecutionFailed(r) \/ MarkExecuted(r) \/ TellTurn(r)
      PROVE  BackedInv'
  <2>1. /\ UNCHANGED <<runs, log>> /\ req'[r].pc # "authorised"
        /\ \A q \in Requests \ {r} : req'[q] = req[q]
    BY <1>5, Moves DEF Refuse, ExecutionFailed, MarkExecuted, TellTurn
  <2> QED BY <1>1, <1>2, <2>1, OthersBacked
<1>6. ASSUME NEW r \in Requests, AppendExecuted(r)
      PROVE  BackedInv'
  <2>1. /\ UNCHANGED runs /\ req'[r].pc # "authorised"
        /\ \A q \in Requests \ {r} : req'[q] = req[q]
    BY <1>6, Moves DEF AppendExecuted
  <2>2. req[r].id \in Ids
    BY <1>6 DEF AppendExecuted, At, TypeOK, RequestsTypeOK
  <2>3. \A i \in Ids : Approvals(i) \subseteq Approvals(i)'
    BY <1>1, <1>6, <2>2, EventType, ApprovalsStay DEF AppendExecuted
  <2> QED BY <1>2, <2>1, <2>3, OthersBacked
<1>7. CASE Restart
  <2>1. UNCHANGED <<runs, log>> /\ \A q \in Requests : ~At(q, "authorised")'
    BY <1>7, IdleType DEF Restart, At
  <2> QED BY <1>1, <2>1, OthersBacked
<1>8. CASE ListPending \/ (\E id \in Ids : Expire(id)) \/ Tick \/ UNCHANGED vars
  <2>1. UNCHANGED <<runs, log, req>>
    BY <1>8 DEF ListPending, Expire, Tick, vars
  <2> QED BY <1>1, <2>1, OthersBacked DEF At
<1> QED BY <1>3, <1>4, <1>5, <1>6, <1>7, <1>8, AppendDecidedBacked, RunToolBacked
        DEF Next, ExecuteStep

\* Whatever the constants are, also where ids collide and operators decide while
\* the proposal is still on its way: each start of the tool under an id has an
\* approval of its own in the store, so handleApprovalByID never starts the tool
\* on a decision that could not be stored, nor twice on one decision.
THEOREM RunsBacked == Spec => []RunsAreBacked
<1>1. Init => BackedInv
  <2> SUFFICES ASSUME Init, NEW id \in Ids PROVE Backed(id)
    BY DEF BackedInv, Backed
  <2>1. Authorised(id) = {} /\ Approvals(id) = {} /\ runs[id] = 0
    BY IdleType DEF Init, Authorised, Approvals, At
  <2> QED BY <2>1, FS_EmptySet DEF Backed
<1>2. TypeOK /\ TypeOK' /\ BackedInv /\ [Next]_vars => BackedInv'
  BY NextBacked
<1>3. TypeOK /\ BackedInv => RunsAreBacked
  <2> SUFFICES ASSUME TypeOK, BackedInv, NEW id \in Ids
               PROVE  runs[id] <= Cardinality(Approvals(id))
    BY DEF RunsAreBacked, Approvals
  <2>1. Cardinality(Authorised(id)) \in Nat /\ Cardinality(Approvals(id)) \in Nat
        /\ runs[id] \in Nat
    BY ApprovalsFinite, FS_CardinalityType DEF BackedInv, TypeOK
  <2> QED BY <2>1 DEF BackedInv
<1> QED BY <1>1, <1>2, <1>3, TypeCorrect, PTL DEF Spec

------------------------------------------------------------------------------
(* What runs is what was shown *)

\* The step binds no id to another call: memory, store and display keep theirs.
BindsSame(i) ==
  /\ items'[i].state = "absent" <=> items[i].state = "absent"
  /\ items'[i].call = items[i].call
  /\ shown'[i] = shown[i]
  /\ i >= now => log'[i] = log[i]
  /\ \A k \in 1..Len(log'[i]) : IsProposed(log'[i], k) =>
       k \in 1..Len(log[i]) /\ log'[i][k] = log[i][k]

(***************************************************************************)
(* A step of r that binds no id anew keeps the invariant, whatever others  *)
(* do with the same approval.                                              *)
(***************************************************************************)
LEMMA BindingStep ==
  ASSUME TypeOK, TypeOK', ShownInv, NEW r \in Requests, UNCHANGED <<now, readings>>,
         \A i \in Ids : BindsSame(i),
         \A q \in Requests \ {r} : req'[q] = req[q],
         Working(r)' => req'[r].id < now,
         Has(r, ProposingPC)' =>
           /\ Has(r, {"inserted", "copied"}) /\ ~At(r, "stamped")'
           /\ req'[r].id = req[r].id /\ req'[r].call = req[r].call,
         DeciderSaw(r)'
  PROVE  ShownInv'
<1>1. NoneShownAhead'
  BY DEF ShownInv, NoneShownAhead, BindsSame, Working, Has
<1>2. \A q \in Requests : Has(q, ProposingPC)' =>
        Has(q, ProposingPC) /\ req'[q].id = req[q].id /\ req'[q].call = req[q].call
        /\ (At(q, "stamped")' => At(q, "stamped"))
        /\ (Has(q, {"inserted", "copied"})' => Has(q, {"inserted", "copied"}))
  BY DEF Has, At, ProposingPC
<1>3. OneProposer'
  BY <1>2 DEF ShownInv, OneProposer
<1>4. ASSUME NEW q \in Requests
      PROVE  ProposerShows(q)'
  <2>1. CASE ~Has(q, ProposingPC)'
    BY <2>1 DEF ProposerShows, Has, At, ProposingPC
  <2>2. CASE Has(q, ProposingPC)'
    <3>1. PICK i \in Ids : i = req[q].id
      BY <1>2, <2>2 DEF TypeOK, RequestsTypeOK, Has, ProposingPC
    <3>2. ProposerShows(q) /\ BindsSame(i)
      BY DEF ShownInv
    <3>3. ~WasProposed(log'[i]) /\ shown'[i] \in {NoCall, req'[q].call}
      BY <1>2, <2>2, <3>1, <3>2 DEF ProposerShows, BindsSame, WasProposed, IsProposed
    <3> QED BY <1>2, <2>2, <3>1, <3>2, <3>3 DEF ProposerShows, BindsSame
  <2> QED BY <2>1, <2>2
<1>5. \A q \in Requests : DeciderSaw(q)'
  BY DEF ShownInv, DeciderSaw, Has
<1>6. ASSUME NEW i \in Ids
      PROVE  ShownIsHeld(i)'
  BY DEF ShownInv, ShownIsHeld, BindsSame, IsProposed
<1> QED BY <1>1, <1>3, <1>4, <1>5, <1>6 DEF ShownInv

\* A step of a handler that stops proposing, or was not.
LEMMA OwnBindingStep ==
  ASSUME TypeOK, TypeOK', ShownInv, NEW r \in Requests, Working(r), UNCHANGED <<now, readings>>,
         \A i \in Ids : BindsSame(i),
         \A q \in Requests \ {r} : req'[q] = req[q],
         \/ req'[r].pc \in {"idle", "telling"}
         \/ /\ Has(r, OwnerPC) /\ Has(r, OwnerPC)'
            /\ req'[r].id = req[r].id /\ req'[r].call = req[r].call /\ req'[r].seen = req[r].seen
  PROVE  ShownInv'
<1>1. ~Has(r, ProposingPC)'
  BY DEF Has, ProposingPC, OwnerPC
<1>2. Working(r)' => req'[r].id < now
  BY <1>1 DEF ShownInv, NoneShownAhead, Working, Has, ProposingPC, OwnerPC
<1>3. DeciderSaw(r)'
  BY DEF ShownInv, DeciderSaw, Has, OwnerPC
<1> QED BY <1>1, <1>2, <1>3, BindingStep

\* Moving on leaves a handler its approval and its calls.
LEMMA MovesOn ==
  ASSUME TypeOK, NEW r \in Requests, NEW pc, Goto(r, pc)
  PROVE  /\ req'[r].pc = pc /\ req'[r].id = req[r].id
         /\ req'[r].call = req[r].call /\ req'[r].seen = req[r].seen
         /\ req'[r].copy = req[r].copy
         /\ \A q \in Requests \ {r} : req'[q] = req[q]
<1>1. r \in DOMAIN req /\ {"pc", "id", "call", "seen", "copy"} \subseteq DOMAIN req[r]
  BY DEF TypeOK, RequestsTypeOK, RequestState
<1> QED BY <1>1 DEF Goto, TypeOK, RequestsTypeOK

\* A new id has nothing bound to it.
LEMMA StampShown ==
  ASSUME PerTick = 1, TypeOK, TypeOK', ShownInv,
         NEW r \in Requests, NEW c \in Calls, Stamp(r, c)
  PROVE  ShownInv'
<1>1. PICK id \in Ids : id = now
  BY DEF Stamp
<1>2. now' = now + 1 /\ readings' = 0 /\ UNCHANGED <<items, log, shown>>
  BY DEF Stamp, ShownInv, NoneShownAhead
<1>3. /\ req'[r].pc = "stamped" /\ req'[r].id = id /\ req'[r].call = c
      /\ \A q \in Requests \ {r} : req'[q] = req[q]
  BY <1>1 DEF Stamp, Idle, TypeOK, RequestsTypeOK
<1>4. items[id].state = "absent" /\ log[id] = <<>> /\ shown[id] = NoCall
  BY <1>1 DEF ShownInv, NoneShownAhead, Ids
<1>5. \A q \in Requests : Working(q) => req[q].id < now
  BY DEF ShownInv, NoneShownAhead
<1>6. ASSUME NEW q \in Requests, Working(q)'
      PROVE  req'[q].id < now'
  <2>1. CASE q = r
    BY <1>1, <1>2, <1>3, <2>1 DEF Ids
  <2>2. CASE q # r
    <3>1. Working(q) /\ req'[q] = req[q] /\ req[q].id \in Nat
      BY <1>3, <1>6, <2>2 DEF Working, Has, TypeOK, RequestsTypeOK, RequestState
    <3> QED BY <1>2, <1>5, <3>1 DEF TypeOK
  <2> QED BY <2>1, <2>2
<1>7. NoneShownAhead'
  BY <1>2, <1>6 DEF ShownInv, NoneShownAhead, TypeOK, Ids
<1>8. \A q \in Requests \ {r} : Has(q, ProposingPC) => req[q].id # id
  BY <1>1, <1>5 DEF Working, Has, TypeOK, RequestsTypeOK, RequestState
<1>9. OneProposer'
  BY <1>3, <1>8 DEF ShownInv, OneProposer, Has
<1>10. ASSUME NEW q \in Requests
       PROVE  ProposerShows(q)' /\ DeciderSaw(q)'
  <2>1. CASE q = r
    <3>1. ~WasProposed(log'[id])
      BY <1>2, <1>4 DEF WasProposed
    <3> QED BY <1>2, <1>3, <1>4, <2>1, <3>1 DEF ProposerShows, DeciderSaw, Has, At, OwnerPC
  <2>2. CASE q # r
    BY <1>2, <1>3, <2>2 DEF ShownInv, ProposerShows, DeciderSaw, Has, At
  <2> QED BY <2>1, <2>2
<1>11. \A i \in Ids : ShownIsHeld(i)'
  BY <1>2 DEF ShownInv, ShownIsHeld
<1> QED BY <1>7, <1>9, <1>10, <1>11 DEF ShownInv

\* The step of a proposer that binds its own id.
LEMMA ProposerStep ==
  ASSUME TypeOK, TypeOK', ShownInv, NEW r \in Requests, NEW id \in Ids, req[r].id = id,
         Has(r, ProposingPC), UNCHANGED <<now, readings>>,
         \A i \in Ids \ {id} : BindsSame(i),
         \A q \in Requests \ {r} : req'[q] = req[q],
         req'[r].pc \in ProposingPC \cup {"idle", "telling"},
         Has(r, ProposingPC)' => req'[r].id = id,
         ProposerShows(r)',
         ShownIsHeld(id)'
  PROVE  ShownInv'
<1>1. id < now
  BY DEF ShownInv, NoneShownAhead, Working, Has
<1>2. NoneShownAhead'
  <2>1. \A i \in Ids : i >= now => i # id
    BY <1>1 DEF Ids, TypeOK
  <2>2. \A q \in Requests : Working(q)' => req'[q].id < now
    BY <1>1 DEF ShownInv, NoneShownAhead, Working, Has, OwnerPC, ProposingPC
  <2> QED BY <2>1, <2>2 DEF ShownInv, NoneShownAhead, BindsSame
<1>3. OneProposer'
  <2>1. \A q \in Requests : Has(q, ProposingPC)' => Has(q, ProposingPC) /\ req'[q].id = req[q].id
    BY DEF Has
  <2> QED BY <2>1 DEF ShownInv, OneProposer
<1>4. ASSUME NEW q \in Requests
      PROVE  ProposerShows(q)'
  <2>1. CASE q = r \/ ~Has(q, ProposingPC)
    BY <2>1 DEF ProposerShows, Has, At, ProposingPC
  <2>2. CASE q # r /\ Has(q, ProposingPC)
    <3>1. PICK i \in Ids \ {id} : i = req[q].id
      BY <2>2 DEF ShownInv, OneProposer, TypeOK, RequestsTypeOK, Has, ProposingPC
    <3>2. ProposerShows(q) /\ BindsSame(i) /\ req'[q] = req[q]
      BY <2>2 DEF ShownInv
    <3>3. ~WasProposed(log'[i])
      BY <2>2, <3>1, <3>2 DEF ProposerShows, BindsSame, WasProposed, IsProposed
    <3> QED BY <2>2, <3>1, <3>2, <3>3 DEF ProposerShows, BindsSame, Has, At
  <2> QED BY <2>1, <2>2
<1>5. \A q \in Requests : DeciderSaw(q)'
  BY DEF ShownInv, DeciderSaw, Has, OwnerPC, ProposingPC
<1>6. ASSUME NEW i \in Ids \ {id}
      PROVE  ShownIsHeld(i)'
  BY DEF ShownInv, ShownIsHeld, BindsSame, IsProposed
<1> QED BY <1>2, <1>3, <1>4, <1>5, <1>6 DEF ShownInv

\* Memory holds the call under its id before anybody is shown one.
LEMMA InsertShown ==
  ASSUME TypeOK, TypeOK', ShownInv, NEW r \in Requests, Insert(r)
  PROVE  ShownInv'
<1>1. PICK id \in Ids : id = req[r].id
  BY DEF Insert, At, TypeOK, RequestsTypeOK
<1>2. /\ Has(r, ProposingPC) /\ At(r, "stamped") /\ UNCHANGED <<now, readings, log, shown>>
      /\ items'[id] = [state |-> "pending", call |-> req[r].call]
      /\ \A i \in Ids \ {id} : items'[i] = items[i]
  BY <1>1 DEF Insert, Has, At, ProposingPC, TypeOK
<1>3. /\ req'[r].pc = "inserted" /\ req'[r].id = id /\ req'[r].call = req[r].call
      /\ \A q \in Requests \ {r} : req'[q] = req[q]
  BY <1>1, MovesOn DEF Insert
<1>4. ProposerShows(r)
  BY DEF ShownInv
<1>5. ProposerShows(r)'
  BY <1>1, <1>2, <1>3, <1>4 DEF ProposerShows, Has, At
<1>6. ShownIsHeld(id)'
  BY <1>1, <1>2, <1>4 DEF ShownInv, ShownIsHeld, ProposerShows
<1>7. \A i \in Ids \ {id} : BindsSame(i)
  BY <1>2 DEF BindsSame
<1> QED BY <1>1, <1>2, <1>3, <1>5, <1>6, <1>7, ProposerStep DEF ProposingPC

\* Storing the proposal displays the call that memory holds.
LEMMA AppendProposedShown ==
  ASSUME TypeOK, TypeOK', ShownInv, NEW r \in Requests, AppendProposed(r)
  PROVE  ShownInv'
<1>1. PICK id \in Ids : id = req[r].id
  BY DEF AppendProposed, At, TypeOK, RequestsTypeOK
<1>2. /\ Has(r, ProposingPC) /\ Has(r, {"inserted", "copied"})
      /\ req[r].call \in Calls /\ req[r].copy \in ItemState
      /\ UNCHANGED <<now, readings, items>>
  BY DEF AppendProposed, Has, At, ProposingPC, TypeOK, RequestsTypeOK, RequestState
<1>3. /\ req'[r].pc \in {"telling", "idle"}
      /\ \A q \in Requests \ {r} : req'[q] = req[q]
  BY Moves DEF AppendProposed
<1>4. ProposerShows(r)'
  BY <1>3 DEF ProposerShows, Has, At, ProposingPC
<1>5. ~WasProposed(log[id]) /\ items[id].call = req[r].call
  BY <1>1, <1>2 DEF ShownInv, ProposerShows
<1>6. CASE UNCHANGED <<log, shown>>
  <2>1. ShownIsHeld(id)' /\ \A i \in Ids : BindsSame(i)
    BY <1>2, <1>6 DEF ShownInv, ShownIsHeld, BindsSame
  <2> QED BY <1>1, <1>2, <1>3, <1>4, <2>1, ProposerStep DEF Has, ProposingPC
<1>7. CASE /\ AppendEvent(id, Proposed(req[r].copy, req[r].call))
           /\ shown' = [shown EXCEPT ![id] = req[r].call]
  <2>1. PICK e \in Event : e = Proposed(req[r].copy, req[r].call) /\ e.call = req[r].call
    BY <1>2, EventType DEF Proposed
  <2>2. /\ log[id] \in Seq(Event) /\ log'[id] = Append(log[id], e)
        /\ \A i \in Ids \ {id} : log'[i] = log[i]
    BY <1>7, <2>1 DEF AppendEvent, TypeOK
  <2>3. /\ 1..Len(log'[id]) = 1..Len(log[id]) \cup {Len(log[id]) + 1}
        /\ log'[id][Len(log[id]) + 1] = e
        /\ \A i \in 1..Len(log[id]) : log'[id][i] = log[id][i]
    BY <2>2
  <2>4. shown'[id] = req[r].call /\ \A i \in Ids \ {id} : shown'[i] = shown[i]
    BY <1>7 DEF TypeOK
  <2>5. ShownIsHeld(id)'
    BY <1>2, <1>5, <2>1, <2>3, <2>4 DEF ShownIsHeld, WasProposed, IsProposed
  <2>6. \A i \in Ids \ {id} : BindsSame(i)
    BY <1>2, <2>2, <2>4 DEF BindsSame
  <2> QED BY <1>1, <1>2, <1>3, <1>4, <2>5, <2>6, ProposerStep DEF Has, ProposingPC
<1> QED BY <1>1, <1>6, <1>7 DEF AppendProposed

\* The racy copy concerns the state alone.
LEMMA CopyShown ==
  ASSUME TypeOK, TypeOK', ShownInv, NEW r \in Requests, CopyApproval(r)
  PROVE  ShownInv'
<1>1. /\ req'[r].pc = "copied" /\ req'[r].id = req[r].id /\ req'[r].call = req[r].call
      /\ \A q \in Requests \ {r} : req'[q] = req[q]
  BY DEF CopyApproval, TypeOK, RequestsTypeOK, RequestState
<1>2. /\ Has(r, {"inserted", "copied"}) /\ Working(r)
      /\ UNCHANGED <<now, readings, items, log, shown>>
  BY DEF CopyApproval, Has, At, Working, ProposingPC
<1>3. \A i \in Ids : BindsSame(i)
  BY <1>2 DEF BindsSame
<1>4. Working(r)' => req'[r].id < now
  BY <1>1, <1>2 DEF ShownInv, NoneShownAhead
<1>5. DeciderSaw(r)' /\ ~At(r, "stamped")'
  BY <1>1 DEF DeciderSaw, Has, OwnerPC, At
<1> QED BY <1>1, <1>2, <1>3, <1>4, <1>5, BindingStep

\* The decider takes the call that memory holds, which is the one it was shown.
LEMMA DecideShown ==
  ASSUME TypeOK, TypeOK', ShownInv, NEW r \in Requests, DecideStep(r)
  PROVE  ShownInv'
<1>1. ASSUME NEW id \in Ids, NEW s \in {"approved", "denied", "cancelled"},
             Decidable(id), SetState(id, s), UNCHANGED <<shown, log>>
      PROVE  \A i \in Ids : BindsSame(i)
  BY <1>1 DEF SetState, Decidable, BindsSame, TypeOK
<1>2. ASSUME NEW id \in Ids, NEW decided \in {"approved", "denied"}, Decide(r, id, decided)
      PROVE  ShownInv'
  <2>1. /\ req'[r].pc = decided /\ req'[r].id = id
        /\ req'[r].call = items[id].call /\ req'[r].seen = shown[id]
        /\ \A q \in Requests \ {r} : req'[q] = req[q]
    BY <1>2 DEF Decide, Idle, TypeOK, RequestsTypeOK
  <2>2. /\ UNCHANGED <<now, readings, shown, log>> /\ Decidable(id)
        /\ items[id].state = "pending" /\ shown[id] # NoCall
    BY <1>2 DEF Decide, Decidable
  <2>3. items[id].call = shown[id] /\ id < now
    BY <2>2 DEF ShownInv, ShownIsHeld, NoneShownAhead, TypeOK, Ids
  <2>4. \A i \in Ids : BindsSame(i)
    BY <1>1, <1>2, <2>2 DEF Decide
  <2>5. DeciderSaw(r)' /\ ~Has(r, ProposingPC)'
    BY <2>1, <2>3 DEF DeciderSaw, Has, ProposingPC
  <2> QED BY <2>1, <2>2, <2>3, <2>4, <2>5, BindingStep
<1>3. ASSUME NEW id \in Ids, DecideExpired(r, id)
      PROVE  ShownInv'
  <2>1. \A i \in Ids : BindsSame(i)
    BY <1>1, <1>3 DEF DecideExpired
  <2>2. UNCHANGED <<now, readings, req>> /\ req[r].pc = "idle"
    BY <1>3 DEF DecideExpired, At
  <2>3. ~Working(r)' /\ ~Has(r, ProposingPC)' /\ DeciderSaw(r)'
    BY <2>2 DEF Working, Has, DeciderSaw, ProposingPC, OwnerPC
  <2> QED BY <2>1, <2>2, <2>3, BindingStep
<1> QED BY <1>2, <1>3 DEF DecideStep

\* Nothing that is done with a decision binds its id anew.
LEMMA ExecuteShown ==
  ASSUME TypeOK, TypeOK', ShownInv, NEW r \in Requests, ExecuteStep(r)
  PROVE  ShownInv'
<1>1. PICK id \in Ids : id = req[r].id
  BY DEF ExecuteStep, AppendDecided, Refuse, RunTool, ExecutionFailed,
         MarkExecuted, AppendExecuted, At, TypeOK, RequestsTypeOK
<1>2. Has(r, OwnerPC) /\ Working(r) /\ UNCHANGED <<now, readings, shown>>
  BY DEF ExecuteStep, AppendDecided, Refuse, RunTool, ExecutionFailed,
         MarkExecuted, AppendExecuted, At, Has, Working, OwnerPC
<1>3. id < now
  BY <1>1, <1>2 DEF ShownInv, NoneShownAhead
<1>4. /\ \A q \in Requests \ {r} : req'[q] = req[q]
      /\ \/ req'[r].pc \in {"idle", "telling"}
         \/ /\ Has(r, OwnerPC)'
            /\ req'[r].id = req[r].id /\ req'[r].call = req[r].call /\ req'[r].seen = req[r].seen
  <2>1. CASE (\E status : Tell(r, status)) \/ Return(r)
    BY <2>1, Moves
  <2>2. CASE \E pc \in OwnerPC : Goto(r, pc)
    BY <2>2, MovesOn DEF Has
  <2>3. {"authorised", "running", "marked"} \subseteq OwnerPC
    BY DEF OwnerPC
  <2> QED BY <2>1, <2>2, <2>3 DEF ExecuteStep, AppendDecided, Refuse, RunTool, ExecutionFailed,
                                  MarkExecuted, AppendExecuted
<1>5. ASSUME NEW i \in Ids
      PROVE  items'[i].call = items[i].call
             /\ (items'[i].state = "absent" <=> items[i].state = "absent")
  <2>1. CASE UNCHANGED items
    BY <2>1
  <2>2. CASE \E s \in {"cancelled", "executed"} :
               ValidateApprovalTransition(items[id].state, s) /\ SetState(id, s)
    <3>1. items[id].state # "absent"
      BY <2>2 DEF ValidateApprovalTransition, approvalTransitions
    <3> QED BY <2>2, <3>1 DEF SetState, TypeOK
  <2> QED BY <1>1, <2>1, <2>2 DEF ExecuteStep, AppendDecided, Refuse, RunTool, ExecutionFailed,
                             MarkExecuted, AppendExecuted, CancelItem
<1>6. ASSUME NEW i \in Ids
      PROVE  /\ i >= now => log'[i] = log[i]
             /\ \A k \in 1..Len(log'[i]) : IsProposed(log'[i], k) =>
                  k \in 1..Len(log[i]) /\ log'[i][k] = log[i][k]
  <2>1. CASE UNCHANGED log
    BY <2>1
  <2>2. ASSUME NEW e \in Event, e.kind # "proposed", AppendEvent(id, e)
        PROVE  /\ i >= now => log'[i] = log[i]
               /\ \A k \in 1..Len(log'[i]) : IsProposed(log'[i], k) =>
                    k \in 1..Len(log[i]) /\ log'[i][k] = log[i][k]
    <3>1. log[id] \in Seq(Event) /\ log'[id] = Append(log[id], e)
          /\ \A j \in Ids \ {id} : log'[j] = log[j]
      BY <2>2 DEF AppendEvent, TypeOK
    <3>2. /\ 1..Len(log'[id]) = 1..Len(log[id]) \cup {Len(log[id]) + 1}
          /\ log'[id][Len(log[id]) + 1] = e
          /\ \A k \in 1..Len(log[id]) : log'[id][k] = log[id][k]
      BY <3>1
    <3>3. i >= now => i # id
      BY <1>3 DEF TypeOK, Ids
    <3> QED BY <2>2, <3>1, <3>2, <3>3 DEF IsProposed
  <2>3. /\ \A d \in {"approve", "deny"} : Decided(d) \in Event /\ Decided(d).kind # "proposed"
        /\ ExecutedEvent \in Event /\ ExecutedEvent.kind # "proposed"
    BY EventType DEF Decided, ExecutedEvent
  <2> QED BY <1>1, <2>1, <2>2, <2>3 DEF ExecuteStep, AppendDecided, Refuse, RunTool,
                                        ExecutionFailed, MarkExecuted, AppendExecuted
<1>7. \A i \in Ids : BindsSame(i)
  BY <1>2, <1>5, <1>6 DEF BindsSame
<1> QED BY <1>2, <1>4, <1>7, OwnBindingStep

\* A listing displays what memory holds.
LEMMA ListShown ==
  ASSUME TypeOK, TypeOK', ShownInv, ListPending
  PROVE  ShownInv'
<1>1. UNCHANGED <<now, readings, req, log>>
  BY DEF ListPending
<1>2. ASSUME NEW i \in Ids
      PROVE  /\ items'[i].call = items[i].call
             /\ items'[i].state = "absent" <=> items[i].state = "absent"
             /\ \/ shown'[i] = shown[i]
                \/ items[i].state = "pending" /\ shown'[i] = items[i].call
  BY DEF ListPending, TypeOK
<1>3. \A i \in Ids : ShownIsHeld(i) /\ shown[i] \in Calls \cup {NoCall}
  BY DEF ShownInv, TypeOK
<1>4. ASSUME NEW i \in Ids
      PROVE  ShownIsHeld(i)'
  <2>1. items'[i].state # "absent" /\ shown'[i] # NoCall => items'[i].call = shown'[i]
    BY <1>2, <1>3 DEF ShownIsHeld
  <2>2. ASSUME NEW k \in 1..Len(log[i]), IsProposed(log[i], k)
        PROVE  log[i][k].call = shown'[i]
    <3>1. log[i][k].call = shown[i] /\ log[i][k] \in Event
      BY <1>3, <2>2 DEF ShownIsHeld, TypeOK
    <3>2. shown[i] # NoCall
      BY <2>2, <3>1, ConstantsAssumption DEF IsProposed, Event
    <3> QED BY <1>2, <1>3, <3>1, <3>2 DEF ShownIsHeld
  <2> QED BY <1>1, <2>1, <2>2 DEF ShownIsHeld
<1>5. NoneShownAhead'
  <2>1. \A i \in Ids : items[i].state = "absent" => shown'[i] = shown[i]
    BY <1>2
  <2> QED BY <1>1, <1>2, <2>1 DEF ShownInv, NoneShownAhead, Working, Has
<1>6. OneProposer'
  BY <1>1 DEF ShownInv, OneProposer, Has
<1>7. ASSUME NEW q \in Requests
      PROVE  ProposerShows(q)' /\ DeciderSaw(q)'
  <2>1. ProposerShows(q) /\ DeciderSaw(q)
    BY DEF ShownInv
  <2>2. CASE ~Has(q, ProposingPC)
    BY <1>1, <2>1, <2>2 DEF ProposerShows, DeciderSaw, Has, At, ProposingPC
  <2>3. CASE Has(q, ProposingPC)
    <3>1. PICK i \in Ids : i = req[q].id
      BY <2>3 DEF Has, TypeOK, RequestsTypeOK, ProposingPC
    <3>2. At(q, "stamped") => shown'[i] = shown[i]
      BY <1>2, <2>1, <3>1 DEF ProposerShows
    <3>3. Has(q, {"inserted", "copied"}) => items[i].call = req[q].call
      BY <2>1, <3>1 DEF ProposerShows
    <3>4. At(q, "stamped") \/ Has(q, {"inserted", "copied"})
      BY <2>3 DEF Has, At, ProposingPC
    <3> QED BY <1>1, <1>2, <2>1, <3>1, <3>2, <3>3, <3>4 DEF ProposerShows, DeciderSaw, Has, At
  <2> QED BY <2>2, <2>3
<1> QED BY <1>4, <1>5, <1>6, <1>7 DEF ShownInv

\* What a restart rebuilds holds the call that was stored, hence displayed.
LEMMA RestartShown ==
  ASSUME TypeOK, TypeOK', ShownInv, Restart
  PROVE  ShownInv'
<1>1. /\ UNCHANGED <<now, readings, log, shown>>
      /\ \A i \in Ids : items'[i] = Restored(i)
      /\ \A r \in Requests : req'[r].pc = "idle"
  BY IdleType DEF Restart
<1>2. ASSUME NEW i \in Ids, items'[i].state # "absent"
      PROVE  WasProposed(log[i]) /\ items'[i].call = shown[i]
  <2>1. WasProposed(log[i])
    <3>1. ~WasProposed(log[i]) => Restored(i) = Absent
      BY DEF Restored, Replay, Absent
    <3>2. Absent.state = "absent"
      BY DEF Absent
    <3> QED BY <1>1, <1>2, <3>1, <3>2
  <2> DEFINE a == Replay(log[i])
  <2>2. a = [state |-> a.state, call |-> log[i][LastProposed(log[i])].call]
    BY <2>1 DEF Replay
  <2>3. Restored(i) = IF a.state = "approved" \/ (a.state = "pending" /\ i \in expired)
                      THEN [a EXCEPT !.state = "cancelled"] ELSE a
    BY DEF Restored
  <2> HIDE DEF a
  <2>4. Restored(i).call = log[i][LastProposed(log[i])].call
    BY <2>2, <2>3
  <2>5. log[i] \in Seq(Event)
    BY DEF TypeOK
  <2>6. LastProposed(log[i]) \in 1..Len(log[i]) /\ IsProposed(log[i], LastProposed(log[i]))
    BY <2>1, <2>5, LastProposedExists
  <2> QED BY <1>1, <2>1, <2>4, <2>6 DEF ShownInv, ShownIsHeld
<1>3. \A q \in Requests : ~Working(q)' /\ ~Has(q, ProposingPC)' /\ ProposerShows(q)' /\ DeciderSaw(q)'
  BY <1>1 DEF Working, Has, At, ProposerShows, DeciderSaw, ProposingPC, OwnerPC
<1>4. NoneShownAhead'
  <2>1. \A i \in Ids : log[i] = <<>> => ~WasProposed(log[i])
    BY DEF WasProposed
  <2> QED BY <1>1, <1>2, <1>3, <2>1 DEF ShownInv, NoneShownAhead
<1>5. \A i \in Ids : ShownIsHeld(i)'
  BY <1>1, <1>2 DEF ShownInv, ShownIsHeld
<1> QED BY <1>3, <1>4, <1>5 DEF ShownInv, OneProposer

LEMMA NextShown ==
  ASSUME PerTick = 1, TypeOK, TypeOK', ShownInv, [Next]_vars
  PROVE  ShownInv'
<1>1. ASSUME NEW r \in Requests, ProposeStep(r)
      PROVE  ShownInv'
  BY <1>1, StampShown, InsertShown, CopyShown, AppendProposedShown DEF ProposeStep
<1>2. ASSUME NEW r \in Requests, TellTurn(r)
      PROVE  ShownInv'
  <2>1. /\ UNCHANGED <<now, readings, items, log, shown>> /\ req'[r].pc = "idle"
        /\ \A q \in Requests \ {r} : req'[q] = req[q]
    BY <1>2, Moves DEF TellTurn
  <2>2. /\ \A i \in Ids : BindsSame(i)
        /\ ~Working(r)' /\ ~Has(r, ProposingPC)' /\ DeciderSaw(r)'
    BY <2>1 DEF BindsSame, Working, Has, DeciderSaw, ProposingPC, OwnerPC
  <2> QED BY <2>1, <2>2, BindingStep
<1>3. CASE (\E id \in Ids : Expire(id)) \/ UNCHANGED vars
  <2>1. UNCHANGED <<now, readings, items, req, log, shown>>
    BY <1>3 DEF Expire, vars
  <2> QED BY <2>1 DEF ShownInv, NoneShownAhead, OneProposer, ProposerShows, DeciderSaw,
                      ShownIsHeld, Working, Has, At
<1>4. ~Tick
  BY DEF Tick, ShownInv, NoneShownAhead
<1> QED BY <1>1, <1>2, <1>3, <1>4, DecideShown, ExecuteShown, ListShown, RestartShown DEF Next

LEMMA ShownInvariant ==
  ASSUME PerTick = 1
  PROVE  Spec => [](TypeOK /\ ShownInv)
<1>1. Init => ShownInv
  BY IdleType DEF Init, Absent, ShownInv, NoneShownAhead, OneProposer, ProposerShows,
                  DeciderSaw, ShownIsHeld, Working, Has, At, ProposingPC, OwnerPC
<1>2. TypeOK /\ TypeOK' /\ ShownInv /\ [Next]_vars => ShownInv'
  BY NextShown
<1> QED BY <1>1, <1>2, TypeCorrect, PTL DEF Spec

\* Where approval ids are distinct, what handleApprovalByID executes is the call
\* that the deciding operator was shown under the id, however handlers, listings
\* and restarts interleave, and also when the decision comes before the
\* proposing call has returned.
THEOREM ShownRuns ==
  ASSUME PerTick = 1
  PROVE  Spec => []RunsWhatWasShown
<1>1. ShownInv => RunsWhatWasShown
  BY DEF ShownInv, DeciderSaw, RunsWhatWasShown, Has, At, OwnerPC
<1> QED BY <1>1, ShownInvariant, PTL

\* A change of a state that the transition table allows leaves no final state.
LEMMA NotFinal ==
  ASSUME TypeOK, NEW id \in Ids, NEW s,
         ValidateApprovalTransition(items[id].state, s), SetState(id, s)
  PROVE  /\ items[id].state \notin TerminalApproval
         /\ \A i \in Ids \ {id} : items'[i].state = items[i].state
  BY DEF ValidateApprovalTransition, SetState, TypeOK

\* Where approval ids are distinct, an approval that is denied, executed or
\* cancelled stays so until the server restarts: no late proposal, decision,
\* expiry or execution takes its end back.
THEOREM FinalState ==
  ASSUME PerTick = 1
  PROVE  Spec => FinalWithinALife
<1> DEFINE Keeps == \A id \in Ids : items[id].state \in TerminalApproval /\ boots' = boots
                                     => items'[id].state = items[id].state
<1>1. ASSUME TypeOK, ShownInv, [Next]_vars
      PROVE  Keeps
  <2>1. ASSUME NEW r \in Requests, Insert(r)
        PROVE  Keeps
    <3>1. req[r].id \in Ids /\ items[req[r].id].state = "absent"
      BY <1>1, <2>1 DEF Insert, At, ShownInv, ProposerShows, TypeOK, RequestsTypeOK
    <3> QED BY <1>1, <2>1, <3>1 DEF Insert, TypeOK, TerminalApproval
  <2>2. ASSUME NEW r \in Requests, DecideStep(r)
        PROVE  Keeps
    <3>1. PICK id \in Ids : \E s : SetState(id, s) /\ items[id].state = "pending"
      BY <1>1, <2>2 DEF DecideStep, Decide, DecideExpired, Decidable
    <3> QED BY <1>1, <3>1 DEF SetState, TypeOK, TerminalApproval
  <2>3. ASSUME NEW r \in Requests,
               Refuse(r) \/ ExecutionFailed(r) \/ MarkExecuted(r)
        PROVE  Keeps
    <3>1. req[r].id \in Ids
      BY <1>1, <2>3 DEF Refuse, ExecutionFailed, MarkExecuted, At, TypeOK, RequestsTypeOK
    <3>2. \/ UNCHANGED items
          \/ \E s : ValidateApprovalTransition(items[req[r].id].state, s) /\ SetState(req[r].id, s)
      BY <1>1, <2>3 DEF Refuse, ExecutionFailed, MarkExecuted, CancelItem
    <3> QED BY <1>1, <3>1, <3>2, NotFinal
  <2>4. CASE ListPending
    BY <1>1, <2>4 DEF ListPending, TypeOK, TerminalApproval
  <2>5. CASE Restart
    BY <1>1, <2>5 DEF Restart, TypeOK
  <2>6. ASSUME UNCHANGED items
        PROVE  Keeps
    BY <1>1, <2>6
  <2> HIDE DEF Keeps
  <2> QED BY <1>1, <2>1, <2>2, <2>3, <2>4, <2>5, <2>6
          DEF Next, ProposeStep, Stamp, CopyApproval, AppendProposed, ExecuteStep,
              AppendDecided, RunTool, AppendExecuted, TellTurn, Expire, Tick, vars
<1>2. TypeOK /\ ShownInv /\ [Next]_vars => [Keeps]_vars
  BY <1>1
<1> QED BY <1>2, ShownInvariant, PTL DEF Spec, FinalWithinALife

----------------------------------------------------------------------------
(***************************************************************************)
(* The promise of ApprovalSpec, when ids are distinct and operators decide *)
(* after the proposing call returned.  The invariant is PromiseInv;        *)
(* OneRunInv says who works on an approval.                                *)
(***************************************************************************)

\* The parts of PromiseInv that are about one approval.
Causal(id) ==
  /\ \A i, j \in 1..Len(log[id]) :
       log[id][i].kind = "decided" /\ log[id][j].kind = "decided" => i = j
  /\ \A i \in 1..Len(log[id]) : log[id][i].kind = "executed" =>
       \E j \in 1..(i - 1) : log[id][j] = Decided("approve")

Truthful(id) ==
  /\ \A o, p \in ToldOutcomes(id) : o = p
  /\ "cancelled" \in ToldOutcomes(id) => runs[id] = 0
  /\ "completed" \in ToldOutcomes(id) => runs[id] = 1

ApprovalOK(id) ==
  Causal(id) /\ Truthful(id) /\ ProposalIsFirst(id) /\ MemoryMatchesStore(id) /\ OutcomesStand(id)

\* PromiseInv, approval by approval and handler by handler, before a step and
\* after it.
LEMMA PromiseParts ==
  /\ PromiseInv => /\ OneConcludes
                   /\ \A id \in Ids : ApprovalOK(id)
                   /\ \A r \in Requests : HandlerMatches(r)
  /\ OneConcludes' /\ (\A id \in Ids : ApprovalOK(id)') /\ (\A r \in Requests : HandlerMatches(r)')
       => PromiseInv'
<1>1. ASSUME PromiseInv, NEW id \in Ids
      PROVE  Causal(id) /\ Truthful(id)
  BY <1>1 DEF PromiseInv, LogIsCausal, Causal, TurnToldTruth, Truthful, ToldOutcomes, TurnOutcome
<1>2. (\A id \in Ids : Causal(id)') => LogIsCausal'
  BY DEF LogIsCausal, Causal
<1>3. (\A id \in Ids : Truthful(id)') => TurnToldTruth'
  BY DEF TurnToldTruth, Truthful, ToldOutcomes, TurnOutcome
<1> QED BY <1>1, <1>2, <1>3 DEF PromiseInv, ApprovalOK

\* What a step leaves alone of an approval.
Same(id) ==
  /\ items'[id] = items[id] /\ log'[id] = log[id] /\ runs'[id] = runs[id]
  /\ ToldOutcomes(id)' = ToldOutcomes(id)

\* Time only passes.
Later == now <= now' /\ expired \subseteq expired'

\* An approval that a step leaves alone stays as it should be.
LEMMA SameApproval ==
  ASSUME TypeOK, TypeOK', Later, NEW id \in Ids, Same(id), ApprovalOK(id)
  PROVE  ApprovalOK(id)'
<1>1. Causal(id)'
  BY DEF ApprovalOK, Causal, Same
<1>2. Truthful(id)'
  BY DEF ApprovalOK, Truthful, Same
<1>3. ProposalIsFirst(id)'
  BY DEF ApprovalOK, ProposalIsFirst, IsProposed, Same, Later
<1>4. MemoryMatchesStore(id)'
  BY DEF ApprovalOK, MemoryMatchesStore, HasDecision, WasProposed, IsProposed, EndsWith, Same, Later
<1>5. OutcomesStand(id)'
  BY DEF ApprovalOK, OutcomesStand, Concluded, EndsWith, Same, Later, TypeOK, Ids
<1> QED BY <1>1, <1>2, <1>3, <1>4, <1>5 DEF ApprovalOK

\* So does a handler whose approval a step leaves alone.
LEMMA SameHandler ==
  ASSUME Later, NEW q \in Requests, req'[q] = req[q], Same(req[q].id), HandlerMatches(q)
  PROVE  HandlerMatches(q)'
  BY DEF HandlerMatches, Has, At, Concluding, Concluded, EndsWith, HasDecision, Same, Later

\* Busy with an approval: at any place where HandlerMatches says something.
Busy(r) == Has(r, ProposingPC) \/ Concluding(r)

\* A handler that is not busy matches anything, and one that has returned, or
\* only has to tell the turn to wait, is not busy.
LEMMA NotBusy ==
  ASSUME NEW r \in Requests
  PROVE  /\ ~Busy(r) => HandlerMatches(r) /\ ~Concluding(r)
         /\ ~Busy(r)' => HandlerMatches(r)' /\ ~Concluding(r)'
         /\ req'[r].pc = "idle" => ~Busy(r)'
         /\ req'[r].pc = "telling" /\ req'[r].tell = "awaiting_approval" => ~Busy(r)'
<1>1. ~Busy(r) => HandlerMatches(r) /\ ~Concluding(r)
  BY DEF Busy, HandlerMatches, Has, At, Concluding, ProposingPC, OwnerPC
<1>2. ~Busy(r)' => HandlerMatches(r)' /\ ~Concluding(r)'
  BY DEF Busy, HandlerMatches, Has, At, Concluding, ProposingPC, OwnerPC
<1>3. req'[r].pc = "idle" => ~Busy(r)'
  BY DEF Busy, Has, At, Concluding, ProposingPC, OwnerPC
<1>4. req'[r].pc = "telling" /\ req'[r].tell = "awaiting_approval" => ~Busy(r)'
  BY DEF Busy, Has, At, Concluding, ProposingPC, OwnerPC, TurnOutcome
<1> QED BY <1>1, <1>2, <1>3, <1>4

(***************************************************************************)
(* A step of r on the approval id alone, with which no other handler is    *)
(* busy.                                                                   *)
(***************************************************************************)
LEMMA AloneStep ==
  ASSUME TypeOK, TypeOK', PromiseInv, Later, NEW r \in Requests, NEW id \in Ids,
         \A q \in Requests \ {r} : req'[q] = req[q] /\ (Busy(q) => req[q].id # id),
         \A i \in Ids \ {id} : Same(i),
         ApprovalOK(id)',
         HandlerMatches(r)',
         Concluding(r)' => req'[r].id = id
  PROVE  PromiseInv'
<1>1. ASSUME NEW i \in Ids
      PROVE  ApprovalOK(i)'
  BY SameApproval, PromiseParts
<1>2. ASSUME NEW q \in Requests \ {r}
      PROVE  Busy(q)' <=> Busy(q)
  BY DEF Busy, Concluding, Has, At
<1>3. ASSUME NEW q \in Requests
      PROVE  HandlerMatches(q)'
  <2>1. CASE q = r
    BY <2>1
  <2>2. CASE q # r /\ ~Busy(q)
    BY <1>2, <2>2, NotBusy
  <2>3. CASE q # r /\ Busy(q)
    <3>1. req[q].id \in Ids \ {id}
      BY <2>3 DEF Busy, Concluding, Has, At, TypeOK, RequestsTypeOK, ProposingPC, OwnerPC
    <3> QED BY <2>3, <3>1, SameHandler, PromiseParts
  <2> QED BY <2>1, <2>2, <2>3
<1>4. OneConcludes'
  <2> SUFFICES ASSUME NEW p \in Requests, NEW q \in Requests,
                      Concluding(p)', Concluding(q)', req'[p].id = req'[q].id
               PROVE  p = q
    BY DEF OneConcludes
  <2>1. \A s \in Requests \ {r} : Concluding(s)' => Concluding(s) /\ Busy(s)
    BY DEF Busy, Concluding, Has, At
  <2>2. CASE p # r /\ q # r
    BY <2>1, <2>2, PromiseParts DEF OneConcludes
  <2>3. CASE p = r \/ q = r
    BY <2>1, <2>3
  <2> QED BY <2>2, <2>3
<1> QED BY <1>1, <1>3, <1>4, PromiseParts

\* A step of r that leaves every approval alone and after which it is not busy.
LEMMA QuietStep ==
  ASSUME TypeOK, TypeOK', PromiseInv, Later, NEW r \in Requests,
         \A q \in Requests \ {r} : req'[q] = req[q],
         \A i \in Ids : Same(i),
         ~Busy(r)'
  PROVE  PromiseInv'
<1>1. ASSUME NEW i \in Ids
      PROVE  ApprovalOK(i)'
  BY SameApproval, PromiseParts
<1>2. ASSUME NEW q \in Requests
      PROVE  HandlerMatches(q)'
  <2>1. CASE q = r \/ ~Busy(q)
    <3>1. q # r => (Busy(q)' <=> Busy(q))
      BY DEF Busy, Concluding, Has, At
    <3> QED BY <2>1, <3>1, NotBusy
  <2>2. CASE q # r /\ Busy(q)
    <3>1. req[q].id \in Ids
      BY <2>2 DEF Busy, Concluding, Has, At, TypeOK, RequestsTypeOK, ProposingPC, OwnerPC
    <3> QED BY <2>2, <3>1, SameHandler, PromiseParts
  <2> QED BY <2>1, <2>2
<1>3. OneConcludes'
  <2>1. \A s \in Requests : Concluding(s)' => s # r /\ Concluding(s)
    BY NotBusy DEF Concluding, Has, At
  <2> QED BY <2>1, PromiseParts DEF OneConcludes
<1> QED BY <1>1, <1>2, <1>3, PromiseParts

------------------------------------------------------------------------------
(* Who is alone with an approval *)

\* What an append makes of a stored history.
LEMMA Appended ==
  ASSUME NEW l \in Seq(Event), NEW e \in Event
  PROVE  LET k == Append(l, e)
         IN /\ k # <<>> /\ Len(k) = Len(l) + 1 /\ k[Len(l) + 1] = e
            /\ \A i \in 1..Len(l) : k[i] = l[i]
            /\ 1..Len(k) = 1..Len(l) \cup {Len(l) + 1}
  OBVIOUS

\* What a handler looks like that is about to tell its turn.
LEMMA Tells ==
  ASSUME TypeOK, NEW r \in Requests, NEW status, Tell(r, status)
  PROVE  req'[r].pc = "telling" /\ req'[r].tell = status /\ req'[r].id = req[r].id
<1>1. r \in DOMAIN req /\ {"pc", "id", "tell"} \subseteq DOMAIN req[r]
  BY DEF TypeOK, RequestsTypeOK, RequestState
<1> QED BY <1>1 DEF Tell

\* A busy handler has a valid approval.
LEMMA BusyId ==
  ASSUME TypeOK, NEW r \in Requests, Busy(r)
  PROVE  req[r].id \in Ids
  BY DEF Busy, Concluding, Has, At, TypeOK, RequestsTypeOK, ProposingPC, OwnerPC

\* An approval that has a history was born.
LEMMA HistoryIsBorn ==
  ASSUME TypeOK, OneRunInv, NEW id \in Ids, log[id] # <<>>
  PROVE  id < now
  BY DEF OneRunInv, Unborn, TypeOK, Ids

\* A handler is alone with the approval it is busy with.
LEMMA BusyAlone ==
  ASSUME TypeOK, OneRunInv, PromiseInv, NEW q \in Requests, NEW r \in Requests,
         Busy(q), Busy(r), req[q].id = req[r].id
  PROVE  q = r
<1>1. ASSUME NEW s \in Requests, NEW t \in Requests, Has(s, ProposingPC), Concluding(t),
             req[s].id = req[t].id
      PROVE  FALSE
  <2>1. log[req[s].id] = <<>> /\ ~Has(t, OwnerPC)
    BY <1>1 DEF OneRunInv, ProposalsFirst
  <2>2. Concluded(req[t].id)
    BY <1>1, <2>1, PromiseParts DEF Concluding, HandlerMatches
  <2> QED BY <1>1, <2>1, <2>2 DEF Concluded, EndsWith
<1>2. CASE Has(q, ProposingPC) /\ Has(r, ProposingPC)
  BY <1>2 DEF OneRunInv, OneOwner
<1>3. CASE Concluding(q) /\ Concluding(r)
  BY <1>3, PromiseParts DEF OneConcludes
<1> QED BY <1>1, <1>2, <1>3 DEF Busy

\* Nobody is busy with an approval that is up for decision, and no turn was
\* told an outcome of it.
LEMMA PendingAlone ==
  ASSUME DecideAfterLogged, TypeOK, OneRunInv, PromiseInv, NEW id \in Ids, Decidable(id)
  PROVE  /\ items[id].state = "pending" /\ ToldOutcomes(id) = {} /\ ~HasDecision(id)
         /\ \A q \in Requests : Busy(q) => req[q].id # id
<1>1. /\ items[id].state = "pending"
      /\ \A q \in Requests : Has(q, ProposingPC \cup OwnerPC) => req[q].id # id
  BY PendingIsFree
<1>2. ToldOutcomes(id) = {} /\ ~HasDecision(id)
  BY <1>1, PromiseParts DEF ApprovalOK, OutcomesStand, Concluded, MemoryMatchesStore
<1>3. ASSUME NEW q \in Requests, At(q, "telling") /\ req[q].tell \in TurnOutcome,
             req[q].id = id
      PROVE  FALSE
  BY <1>1, <1>3, PromiseParts DEF HandlerMatches, Concluded
<1> QED BY <1>1, <1>2, <1>3 DEF Busy, Concluding, Has

------------------------------------------------------------------------------
(* The invariant, action by action *)

\* A step of a busy handler on its own approval.
LEMMA OwnPromiseStep ==
  ASSUME TypeOK, TypeOK', OneRunInv, PromiseInv, Later,
         NEW r \in Requests, NEW id \in Ids, req[r].id = id, Busy(r),
         \A q \in Requests \ {r} : req'[q] = req[q],
         \A i \in Ids \ {id} : Same(i),
         ApprovalOK(id)',
         HandlerMatches(r)',
         Concluding(r)' => req'[r].id = id
  PROVE  PromiseInv'
<1>1. \A q \in Requests \ {r} : Busy(q) => req[q].id # id
  BY BusyAlone
<1> QED BY <1>1, AloneStep

\* A new id is unknown to everybody.
LEMMA StampKeeps ==
  ASSUME PerTick = 1, TypeOK, TypeOK', OneRunInv, PromiseInv,
         NEW r \in Requests, NEW c \in Calls, Stamp(r, c)
  PROVE  PromiseInv'
<1>0. PICK id \in Ids : id = now
  BY DEF Stamp
<1>1. UNCHANGED <<items, expired, log, told, runs>> /\ Later
  BY DEF Stamp, Later, TypeOK
<1>2. req'[r].pc = "stamped" /\ req'[r].id = id /\ \A q \in Requests \ {r} : req'[q] = req[q]
  BY <1>0 DEF Stamp, Idle, TypeOK, RequestsTypeOK
<1>3. \A i \in Ids : Same(i)
  BY <1>1 DEF Same, ToldOutcomes
<1>4. ASSUME NEW q \in Requests, Busy(q)
      PROVE  req[q].id # id
  <2>1. CASE Has(q, ProposingPC \cup OwnerPC)
    BY <1>0, <2>1 DEF OneRunInv, Unborn, TypeOK, RequestsTypeOK, RequestState
  <2>2. CASE At(q, "telling") /\ req[q].tell \in TurnOutcome
    <3>1. log[req[q].id] # <<>> /\ req[q].id \in Ids
      BY <1>4, <2>2, BusyId, PromiseParts DEF HandlerMatches, Concluded, EndsWith
    <3>2. req[q].id < now
      BY <3>1, HistoryIsBorn
    <3> QED BY <1>0, <3>2 DEF TypeOK, Ids
  <2> QED BY <1>4, <2>1, <2>2 DEF Busy, Concluding, Has
<1>5. ToldOutcomes(id) = {} /\ ApprovalOK(id)
  BY <1>0, PromiseParts DEF ApprovalOK, OutcomesStand, TypeOK, Ids
<1>6. HandlerMatches(r)'
  BY <1>1, <1>2, <1>5 DEF HandlerMatches, Has, At, Concluding, OwnerPC, ToldOutcomes
<1>7. ApprovalOK(id)'
  BY <1>1, <1>3, <1>5, SameApproval
<1>8. ~Concluding(r)'
  BY <1>2 DEF Concluding, Has, At, OwnerPC
<1> QED BY <1>1, <1>2, <1>3, <1>4, <1>6, <1>7, <1>8, AloneStep

\* An approval is inserted pending, without a history.
LEMMA InsertKeeps ==
  ASSUME TypeOK, TypeOK', OneRunInv, PromiseInv,
         NEW r \in Requests, NEW id \in Ids, req[r].id = id, Insert(r)
  PROVE  PromiseInv'
<1>1. Has(r, ProposingPC) /\ Busy(r)
  BY DEF Insert, At, Has, ProposingPC, Busy
<1>2. /\ items'[id].state = "pending" /\ \A i \in Ids \ {id} : items'[i] = items[i]
      /\ UNCHANGED <<now, expired, log, told, runs>> /\ Later
  BY DEF Insert, TypeOK, Later
<1>3. req'[r].pc = "inserted" /\ req'[r].id = id /\ \A q \in Requests \ {r} : req'[q] = req[q]
  BY Moves DEF Insert
<1>4. log[id] = <<>> /\ ToldOutcomes(id) = {}
  BY <1>1, PromiseParts DEF OneRunInv, ProposalsFirst, HandlerMatches
<1>5. \A i \in Ids \ {id} : Same(i)
  BY <1>2 DEF Same, ToldOutcomes
<1>6. ApprovalOK(id)'
  BY <1>2, <1>4
     DEF ApprovalOK, Causal, Truthful, ProposalIsFirst, MemoryMatchesStore, OutcomesStand,
         HasDecision, WasProposed, EndsWith, ToldOutcomes
<1>7. HandlerMatches(r)'
  BY <1>2, <1>3, <1>4 DEF HandlerMatches, Has, At, Concluding, OwnerPC, ToldOutcomes
<1> QED BY <1>1, <1>2, <1>3, <1>5, <1>6, <1>7, OwnPromiseStep

\* The copy is what memory said, or a state on the way to its expiry.
LEMMA CopyKeeps ==
  ASSUME TypeOK, TypeOK', OneRunInv, PromiseInv,
         NEW r \in Requests, NEW id \in Ids, req[r].id = id, CopyApproval(r)
  PROVE  PromiseInv'
<1>1. Has(r, ProposingPC) /\ Busy(r)
  BY DEF CopyApproval, At, Has, ProposingPC, Busy
<1>2. UNCHANGED <<now, items, expired, log, told, runs>> /\ Later
  BY DEF CopyApproval, TypeOK, Later
<1>3. PICK s \in CopyOutcome(items[id].state) :
        req' = [req EXCEPT ![r].pc = "copied", ![r].copy = s]
  BY DEF CopyApproval
<1>4. /\ req'[r].pc = "copied" /\ req'[r].id = id /\ req'[r].copy = s
      /\ \A q \in Requests \ {r} : req'[q] = req[q]
  BY <1>3 DEF TypeOK, RequestsTypeOK, RequestState
<1>5. /\ items[id].state = "pending" \/ (items[id].state = "cancelled" /\ id \in expired)
      /\ ToldOutcomes(id) = {}
  BY <1>1, PromiseParts DEF HandlerMatches, CopyApproval, Has, At
<1>6. s \in {"pending", "cancelled", "torn"} /\ (s # "pending" => id \in expired)
  BY <1>3, <1>5 DEF CopyOutcome
<1>7. \A i \in Ids : Same(i)
  BY <1>2 DEF Same, ToldOutcomes
<1>8. ApprovalOK(id)'
  BY <1>2, <1>7, SameApproval, PromiseParts
<1>9. HandlerMatches(r)'
  BY <1>2, <1>4, <1>5, <1>6 DEF HandlerMatches, Has, At, Concluding, OwnerPC, ToldOutcomes
<1> QED BY <1>1, <1>2, <1>4, <1>7, <1>8, <1>9, OwnPromiseStep

\* The proposal becomes the first event, of an approval pending or expired.
LEMMA AppendProposedKeeps ==
  ASSUME TypeOK, TypeOK', OneRunInv, PromiseInv,
         NEW r \in Requests, NEW id \in Ids, req[r].id = id, AppendProposed(r)
  PROVE  PromiseInv'
<1>1. Has(r, ProposingPC) /\ Busy(r) /\ req[r].call \in Calls /\ req[r].copy \in ItemState
  BY DEF AppendProposed, At, Has, ProposingPC, Busy, TypeOK, RequestsTypeOK, RequestState
<1>2. UNCHANGED <<now, items, expired, told, runs>> /\ Later
  BY DEF AppendProposed, TypeOK, Later
<1>3. ~Busy(r)' /\ \A q \in Requests \ {r} : req'[q] = req[q]
  <2>1. CASE Tell(r, "awaiting_approval")
    BY <2>1, Moves, Tells, NotBusy
  <2>2. CASE Return(r)
    BY <2>2, Moves, NotBusy
  <2> QED BY <2>1, <2>2 DEF AppendProposed
<1>4. CASE UNCHANGED log
  <2>1. \A i \in Ids : Same(i)
    BY <1>2, <1>4 DEF Same, ToldOutcomes
  <2> QED BY <1>2, <1>3, <2>1, QuietStep
<1>5. CASE AppendEvent(id, Proposed(req[r].copy, req[r].call))
  <2>1. /\ log[id] = <<>> /\ ToldOutcomes(id) = {}
        /\ items[id].state = "pending" \/ (items[id].state = "cancelled" /\ id \in expired)
        /\ req[r].copy \in {"pending", "cancelled", "torn"}
        /\ req[r].copy # "pending" => id \in expired
    BY <1>1, PromiseParts DEF OneRunInv, ProposalsFirst, HandlerMatches, AppendProposed, Has, At
  <2>2. PICK e \in Event : /\ e = Proposed(req[r].copy, req[r].call)
                           /\ e.kind = "proposed" /\ e.state = req[r].copy
    BY <1>1, EventType DEF Proposed
  <2>3. log'[id] = Append(<<>>, e) /\ \A i \in Ids \ {id} : log'[i] = log[i]
    BY <1>5, <2>1, <2>2 DEF AppendEvent, TypeOK
  <2>4. Len(log'[id]) = 1 /\ log'[id][1] = e /\ log'[id] # <<>>
    BY <2>3
  <2>5. ~HasDecision(id)' /\ WasProposed(log'[id])
    BY <2>2, <2>4 DEF HasDecision, WasProposed, IsProposed
  <2>6. e # Decided("deny") /\ e # ExecutedEvent
    BY <2>2 DEF Decided, ExecutedEvent
  <2>7. Causal(id)' /\ ProposalIsFirst(id)'
    BY <1>2, <2>1, <2>2, <2>4 DEF Causal, ProposalIsFirst, IsProposed
  <2>8. MemoryMatchesStore(id)'
    BY <1>2, <2>1, <2>4, <2>5, <2>6 DEF MemoryMatchesStore, EndsWith
  <2>9. Truthful(id)' /\ OutcomesStand(id)'
    BY <1>2, <2>1 DEF Truthful, OutcomesStand, ToldOutcomes
  <2>10. \A i \in Ids \ {id} : Same(i)
    BY <1>2, <2>3 DEF Same, ToldOutcomes
  <2>11. ApprovalOK(id)'
    BY <2>7, <2>8, <2>9 DEF ApprovalOK
  <2> QED BY <1>1, <1>2, <1>3, <2>10, <2>11, NotBusy, OwnPromiseStep
<1> QED BY <1>4, <1>5 DEF AppendProposed

\* The decider takes an approval that nobody is busy with.
LEMMA DecideKeeps ==
  ASSUME DecideAfterLogged, TypeOK, TypeOK', OneRunInv, PromiseInv,
         NEW r \in Requests, NEW id \in Ids, NEW decided \in {"approved", "denied"},
         Decide(r, id, decided)
  PROVE  PromiseInv'
<1>1. /\ items'[id].state = decided /\ \A i \in Ids \ {id} : items'[i] = items[i]
      /\ UNCHANGED <<now, expired, log, told, runs>> /\ Later
  BY DEF Decide, SetState, TypeOK, Later
<1>2. req'[r].pc = decided /\ req'[r].id = id /\ \A q \in Requests \ {r} : req'[q] = req[q]
  BY DEF Decide, Idle, TypeOK, RequestsTypeOK
<1>3. /\ items[id].state = "pending" /\ ToldOutcomes(id) = {} /\ ~HasDecision(id)
      /\ \A q \in Requests : Busy(q) => req[q].id # id
      /\ ApprovalOK(id)
  BY PendingAlone, PromiseParts DEF Decide
<1>4. \A i \in Ids \ {id} : Same(i)
  BY <1>1 DEF Same, ToldOutcomes
<1>5. ~EndsWith(id, Decided("deny")) /\ ~EndsWith(id, ExecutedEvent)
  BY <1>3 DEF ApprovalOK, MemoryMatchesStore
<1>6. ApprovalOK(id)'
  <2>1. Causal(id)' /\ ProposalIsFirst(id)' /\ Truthful(id)'
    BY <1>1, <1>3 DEF ApprovalOK, Causal, ProposalIsFirst, Truthful, ToldOutcomes
  <2>2. MemoryMatchesStore(id)'
    BY <1>1, <1>5 DEF MemoryMatchesStore, EndsWith
  <2>3. OutcomesStand(id)'
    BY <1>1, <1>3 DEF OutcomesStand, ToldOutcomes
  <2> QED BY <2>1, <2>2, <2>3 DEF ApprovalOK
<1>7. HandlerMatches(r)'
  BY <1>1, <1>2, <1>3
     DEF HandlerMatches, Has, At, Concluding, HasDecision, ToldOutcomes, ProposingPC
<1> QED BY <1>1, <1>2, <1>3, <1>4, <1>6, <1>7, AloneStep

\* Deciding too late cancels an approval that nobody is busy with.
LEMMA DecideExpiredKeeps ==
  ASSUME DecideAfterLogged, TypeOK, TypeOK', OneRunInv, PromiseInv,
         NEW r \in Requests, NEW id \in Ids, DecideExpired(r, id)
  PROVE  PromiseInv'
<1>1. /\ items'[id].state = "cancelled" /\ \A i \in Ids \ {id} : items'[i] = items[i]
      /\ UNCHANGED <<now, expired, log, told, runs, req>> /\ Later /\ id \in expired
  BY DEF DecideExpired, SetState, TypeOK, Later
<1>2. /\ items[id].state = "pending" /\ ToldOutcomes(id) = {} /\ ~HasDecision(id)
      /\ \A q \in Requests : Busy(q) => req[q].id # id
      /\ ApprovalOK(id)
  BY PendingAlone, PromiseParts DEF DecideExpired
<1>3. \A i \in Ids \ {id} : Same(i)
  BY <1>1 DEF Same, ToldOutcomes
<1>4. ~EndsWith(id, Decided("deny")) /\ ~EndsWith(id, ExecutedEvent)
  BY <1>2 DEF ApprovalOK, MemoryMatchesStore
<1>5. ApprovalOK(id)'
  <2>1. Causal(id)' /\ ProposalIsFirst(id)' /\ Truthful(id)'
    BY <1>1, <1>2 DEF ApprovalOK, Causal, ProposalIsFirst, Truthful, ToldOutcomes
  <2>2. MemoryMatchesStore(id)'
    BY <1>1, <1>4 DEF MemoryMatchesStore, EndsWith
  <2>3. OutcomesStand(id)'
    BY <1>1, <1>2 DEF OutcomesStand, ToldOutcomes
  <2> QED BY <2>1, <2>2, <2>3 DEF ApprovalOK
<1>6. ~Busy(r) /\ ~Busy(r)'
  BY <1>1 DEF DecideExpired, Busy, Has, At, Concluding, ProposingPC, OwnerPC
<1> QED BY <1>1, <1>2, <1>3, <1>5, <1>6, NotBusy, AloneStep

\* A decision is stored once, whatever the history was.
LEMMA DecisionStored ==
  ASSUME TypeOK, Later, NEW id \in Ids, NEW d \in {"approve", "deny"},
         Causal(id), ProposalIsFirst(id), ~HasDecision(id), AppendEvent(id, Decided(d))
  PROVE  /\ Causal(id)' /\ ProposalIsFirst(id)' /\ EndsWith(id, Decided(d))'
         /\ \A i \in Ids \ {id} : log'[i] = log[i]
<1>1. PICK e \in Event : e = Decided(d) /\ e.kind = "decided"
  BY EventType DEF Decided
<1>2. /\ log[id] \in Seq(Event) /\ log'[id] = Append(log[id], e)
      /\ \A i \in Ids \ {id} : log'[i] = log[i]
  BY <1>1 DEF AppendEvent, TypeOK
<1>3. /\ log'[id] # <<>> /\ Len(log'[id]) = Len(log[id]) + 1 /\ log'[id][Len(log[id]) + 1] = e
      /\ \A i \in 1..Len(log[id]) : log'[id][i] = log[id][i]
      /\ 1..Len(log'[id]) = 1..Len(log[id]) \cup {Len(log[id]) + 1}
  BY <1>2, Appended
<1>4. EndsWith(id, Decided(d))'
  BY <1>1, <1>3 DEF EndsWith
<1>5. \A i \in 1..Len(log[id]) : log[id][i].kind # "decided" /\ log[id][i].kind # "executed"
  <2>1. \A i \in 1..Len(log[id]) : log[id][i].kind # "decided"
    BY DEF HasDecision
  <2>2. \A i \in 1..Len(log[id]) : \A j \in 1..(i - 1) : j \in 1..Len(log[id])
    BY <1>2
  <2>3. Decided("approve").kind = "decided"
    BY DEF Decided
  <2> QED BY <2>1, <2>2, <2>3 DEF Causal
<1>6. Causal(id)'
  BY <1>1, <1>3, <1>5 DEF Causal
<1>7. ProposalIsFirst(id)'
  BY <1>1, <1>3 DEF ProposalIsFirst, IsProposed, Later
<1> QED BY <1>2, <1>4, <1>6, <1>7

\* A stored decision is there to be found.
LEMMA EndsDecided ==
  ASSUME TypeOK, NEW id \in Ids, NEW d \in {"approve", "deny"}
  PROVE  /\ EndsWith(id, Decided(d)) => HasDecision(id)
         /\ TypeOK' /\ EndsWith(id, Decided(d))' => HasDecision(id)'
<1>1. ASSUME NEW l \in Seq(Event), l # <<>>
      PROVE  Len(l) \in 1..Len(l)
  BY <1>1
<1>2. Decided(d).kind = "decided"
  BY DEF Decided
<1>3. log[id] \in Seq(Event) /\ (TypeOK' => log'[id] \in Seq(Event))
  BY DEF TypeOK
<1> QED BY <1>1, <1>2, <1>3 DEF EndsWith, HasDecision

\* Three last events a history may have.
LEMMA DistinctEnds ==
  /\ Decided("approve") # Decided("deny")
  /\ \A d : Decided(d) # ExecutedEvent
<1>1. Decided("approve").decision = "approve" /\ Decided("deny").decision = "deny"
  BY DEF Decided
<1>2. ExecutedEvent.kind = "executed" /\ \A d : Decided(d).kind = "decided"
  BY DEF Decided, ExecutedEvent
<1> QED BY <1>1, <1>2

\* The decision is stored once; what was denied is what the turn will be told.
LEMMA AppendDecidedKeeps ==
  ASSUME TypeOK, TypeOK', OneRunInv, PromiseInv,
         NEW r \in Requests, NEW id \in Ids, req[r].id = id, AppendDecided(r)
  PROVE  PromiseInv'
<1>1. /\ Has(r, {"approved", "denied"}) /\ Busy(r) /\ ~HasDecision(id) /\ ToldOutcomes(id) = {}
      /\ items[id].state = req[r].pc /\ runs[id] = 0 /\ ApprovalOK(id)
  <2>1. Has(r, {"approved", "denied"}) /\ Has(r, OwnerPC) /\ Concluding(r)
    BY DEF AppendDecided, Has, At, OwnerPC, Concluding
  <2>2. HandlerMatches(r) /\ OwnerAgrees(r) /\ ApprovalOK(id)
    BY PromiseParts DEF OneRunInv, OwnersAgree
  <2> QED BY <2>1, <2>2 DEF HandlerMatches, OwnerAgrees, Has, At, Busy
<1>2. UNCHANGED <<now, items, expired, told, runs>> /\ Later
  BY DEF AppendDecided, TypeOK, Later
<1>3. \A q \in Requests \ {r} : req'[q] = req[q]
  BY Moves DEF AppendDecided
<1>4. CASE Return(r) /\ UNCHANGED log
  <2>1. \A i \in Ids : Same(i)
    BY <1>2, <1>4 DEF Same, ToldOutcomes
  <2>2. ~Busy(r)'
    BY <1>4, Moves, NotBusy
  <2> QED BY <1>2, <1>3, <2>1, <2>2, QuietStep
<1>5. CASE At(r, "approved") /\ AppendEvent(id, Decided("approve")) /\ Goto(r, "authorised")
  <2>1. req'[r].pc = "authorised" /\ req'[r].id = id
    BY <1>5, Moves
  <2>2. /\ Causal(id)' /\ ProposalIsFirst(id)' /\ EndsWith(id, Decided("approve"))'
        /\ \A i \in Ids \ {id} : log'[i] = log[i]
    BY <1>1, <1>2, <1>5, DecisionStored DEF ApprovalOK
  <2>3. items'[id].state = "approved"
    BY <1>1, <1>2, <1>5 DEF At
  <2>4. MemoryMatchesStore(id)'
    BY <2>2, <2>3, DistinctEnds DEF MemoryMatchesStore, EndsWith
  <2>5. Truthful(id)' /\ OutcomesStand(id)'
    BY <1>1, <1>2 DEF Truthful, OutcomesStand, ToldOutcomes
  <2>6. HandlerMatches(r)'
    BY <1>1, <1>2, <2>1, <2>2 DEF HandlerMatches, Has, At, ToldOutcomes
  <2>7. \A i \in Ids \ {id} : Same(i)
    BY <1>2, <2>2 DEF Same, ToldOutcomes
  <2> QED BY <1>1, <1>2, <1>3, <2>1, <2>2, <2>4, <2>5, <2>6, <2>7, OwnPromiseStep DEF ApprovalOK
<1>6. CASE At(r, "denied") /\ AppendEvent(id, Decided("deny")) /\ Tell(r, "cancelled")
  <2>1. req'[r].pc = "telling" /\ req'[r].tell = "cancelled" /\ req'[r].id = id
    BY <1>6, Tells
  <2>2. /\ Causal(id)' /\ ProposalIsFirst(id)' /\ EndsWith(id, Decided("deny"))'
        /\ \A i \in Ids \ {id} : log'[i] = log[i]
    BY <1>1, <1>2, <1>6, DecisionStored DEF ApprovalOK
  <2>3. items'[id].state = "denied"
    BY <1>1, <1>2, <1>6 DEF At
  <2>4. MemoryMatchesStore(id)'
    BY <2>2, <2>3, DistinctEnds DEF MemoryMatchesStore, EndsWith
  <2>5. Truthful(id)' /\ OutcomesStand(id)'
    BY <1>1, <1>2 DEF Truthful, OutcomesStand, ToldOutcomes
  <2>6. HandlerMatches(r)'
    BY <1>1, <1>2, <2>1, <2>2, <2>3
       DEF HandlerMatches, Has, At, ToldOutcomes, Concluded, ProposingPC
  <2>7. \A i \in Ids \ {id} : Same(i)
    BY <1>2, <2>2 DEF Same, ToldOutcomes
  <2> QED BY <1>1, <1>2, <1>3, <2>1, <2>2, <2>4, <2>5, <2>6, <2>7, OwnPromiseStep DEF ApprovalOK
<1> QED BY <1>4, <1>5, <1>6 DEF AppendDecided

\* What the handler that executes an approved call knows of it.
LEMMA Executing ==
  ASSUME TypeOK, OneRunInv, PromiseInv, NEW r \in Requests, NEW id \in Ids, req[r].id = id,
         Has(r, {"authorised", "running", "marked"})
  PROVE  /\ Busy(r) /\ ApprovalOK(id) /\ ToldOutcomes(id) = {}
         /\ EndsWith(id, Decided("approve")) /\ HasDecision(id)
         /\ Has(r, {"authorised", "running"}) => items[id].state = "approved"
         /\ At(r, "marked") => items[id].state = "executed"
         /\ runs[id] = IF At(r, "authorised") THEN 0 ELSE 1
<1>1. Has(r, OwnerPC) /\ Concluding(r)
  BY DEF Has, OwnerPC, Concluding
<1>2. HandlerMatches(r) /\ OwnerAgrees(r) /\ ApprovalOK(id)
  BY PromiseParts DEF OneRunInv, OwnersAgree
<1>3. EndsWith(id, Decided("approve")) /\ ToldOutcomes(id) = {}
  BY <1>1, <1>2 DEF HandlerMatches
<1> QED BY <1>1, <1>2, <1>3, EndsDecided DEF OwnerAgrees, Has, At, Busy

\* Giving an execution up leaves the approval cancelled, its decision stored.
LEMMA GiveUpKeeps ==
  ASSUME TypeOK, TypeOK', OneRunInv, PromiseInv,
         NEW r \in Requests, NEW id \in Ids, req[r].id = id, Refuse(r) \/ ExecutionFailed(r)
  PROVE  PromiseInv'
<1>1. /\ Has(r, {"authorised", "running"}) /\ CancelItem(id)
      /\ UNCHANGED <<now, expired, log, told, runs>> /\ Later
  BY DEF Refuse, ExecutionFailed, Has, At, TypeOK, Later
<1>2. /\ Busy(r) /\ ApprovalOK(id) /\ ToldOutcomes(id) = {}
      /\ EndsWith(id, Decided("approve")) /\ HasDecision(id)
      /\ items[id].state = "approved"
      /\ runs[id] = IF At(r, "authorised") THEN 0 ELSE 1
  BY <1>1, Executing DEF Has
<1>3. items'[id].state = "cancelled" /\ \A i \in Ids \ {id} : items'[i] = items[i]
  BY <1>1, <1>2, CancelApproved
<1>4. /\ req'[r].pc = "telling" /\ req'[r].id = id
      /\ \/ req'[r].tell = "failed"
         \/ req'[r].tell = "cancelled" /\ runs'[id] = 0
      /\ \A q \in Requests \ {r} : req'[q] = req[q]
  BY <1>1, <1>2, Tells, Moves DEF Refuse, ExecutionFailed
<1>5. ApprovalOK(id)'
  <2>1. Causal(id)' /\ ProposalIsFirst(id)' /\ Truthful(id)'
    BY <1>1, <1>2 DEF ApprovalOK, Causal, ProposalIsFirst, Truthful, ToldOutcomes
  <2>2. MemoryMatchesStore(id)'
    BY <1>1, <1>2, <1>3, DistinctEnds DEF MemoryMatchesStore, HasDecision, EndsWith
  <2>3. OutcomesStand(id)'
    BY <1>1, <1>2 DEF OutcomesStand, ToldOutcomes
  <2> QED BY <2>1, <2>2, <2>3 DEF ApprovalOK
<1>6. HandlerMatches(r)'
  BY <1>1, <1>2, <1>3, <1>4
     DEF HandlerMatches, Has, At, ToldOutcomes, Concluded, EndsWith, ProposingPC
<1>7. \A i \in Ids \ {id} : Same(i)
  BY <1>1, <1>3 DEF Same, ToldOutcomes
<1> QED BY <1>1, <1>2, <1>4, <1>5, <1>6, <1>7, OwnPromiseStep

\* The tool is started while nothing was told of its approval.
LEMMA RunToolKeeps ==
  ASSUME TypeOK, TypeOK', OneRunInv, PromiseInv,
         NEW r \in Requests, NEW id \in Ids, req[r].id = id, RunTool(r)
  PROVE  PromiseInv'
<1>1. /\ Has(r, {"authorised", "running"}) /\ runs' = [runs EXCEPT ![id] = @ + 1]
      /\ UNCHANGED <<now, items, expired, log, told>> /\ Later
  BY DEF RunTool, Has, At, TypeOK, Later
<1>2. Busy(r) /\ ApprovalOK(id) /\ ToldOutcomes(id) = {} /\ EndsWith(id, Decided("approve"))
  BY <1>1, Executing DEF Has
<1>3. /\ req'[r].pc = "running" /\ req'[r].id = id
      /\ \A q \in Requests \ {r} : req'[q] = req[q]
  BY Moves DEF RunTool
<1>4. ApprovalOK(id)'
  BY <1>1, <1>2
     DEF ApprovalOK, Causal, ProposalIsFirst, Truthful, ToldOutcomes, OutcomesStand,
         MemoryMatchesStore, HasDecision, EndsWith
<1>5. HandlerMatches(r)'
  BY <1>1, <1>2, <1>3 DEF HandlerMatches, Has, At, ToldOutcomes, EndsWith
<1>6. \A i \in Ids \ {id} : Same(i)
  BY <1>1 DEF Same, ToldOutcomes, TypeOK
<1> QED BY <1>1, <1>2, <1>3, <1>4, <1>5, <1>6, OwnPromiseStep

\* Marking finds the approval approved, and its decision is in the store.
LEMMA MarkExecutedKeeps ==
  ASSUME TypeOK, TypeOK', OneRunInv, PromiseInv,
         NEW r \in Requests, NEW id \in Ids, req[r].id = id, MarkExecuted(r)
  PROVE  PromiseInv'
<1>1. Has(r, {"authorised", "running"}) /\ UNCHANGED <<now, expired, log, told, runs>> /\ Later
  BY DEF MarkExecuted, Has, At, TypeOK, Later
<1>2. /\ Busy(r) /\ ApprovalOK(id) /\ ToldOutcomes(id) = {}
      /\ EndsWith(id, Decided("approve")) /\ HasDecision(id)
      /\ items[id].state = "approved"
  BY <1>1, Executing DEF Has
<1>3. ValidateApprovalTransition("approved", "executed")
  BY DEF ValidateApprovalTransition, TerminalApproval, approvalTransitions
<1>4. /\ items'[id].state = "executed" /\ \A i \in Ids \ {id} : items'[i] = items[i]
      /\ Goto(r, "marked")
  BY <1>2, <1>3 DEF MarkExecuted, SetState, TypeOK
<1>5. /\ req'[r].pc = "marked" /\ req'[r].id = id
      /\ \A q \in Requests \ {r} : req'[q] = req[q]
  BY <1>4, Moves
<1>6. ApprovalOK(id)'
  <2>1. Causal(id)' /\ ProposalIsFirst(id)' /\ Truthful(id)'
    BY <1>1, <1>2 DEF ApprovalOK, Causal, ProposalIsFirst, Truthful, ToldOutcomes
  <2>2. MemoryMatchesStore(id)'
    BY <1>1, <1>2, <1>4, DistinctEnds DEF MemoryMatchesStore, HasDecision, EndsWith
  <2>3. OutcomesStand(id)'
    BY <1>1, <1>2 DEF OutcomesStand, ToldOutcomes
  <2> QED BY <2>1, <2>2, <2>3 DEF ApprovalOK
<1>7. HandlerMatches(r)'
  BY <1>1, <1>2, <1>5 DEF HandlerMatches, Has, At, ToldOutcomes, EndsWith
<1>8. \A i \in Ids \ {id} : Same(i)
  BY <1>1, <1>4 DEF Same, ToldOutcomes
<1> QED BY <1>1, <1>2, <1>5, <1>6, <1>7, <1>8, OwnPromiseStep

\* The execution is stored after the approval it follows from.
LEMMA AppendExecutedKeeps ==
  ASSUME TypeOK, TypeOK', OneRunInv, PromiseInv,
         NEW r \in Requests, NEW id \in Ids, req[r].id = id, AppendExecuted(r)
  PROVE  PromiseInv'
<1>1. /\ Has(r, {"marked"}) /\ At(r, "marked") /\ ~At(r, "authorised")
      /\ UNCHANGED <<now, items, expired, told, runs>> /\ Later
  BY DEF AppendExecuted, Has, At, TypeOK, Later
<1>2. /\ Busy(r) /\ ApprovalOK(id) /\ ToldOutcomes(id) = {}
      /\ EndsWith(id, Decided("approve"))
      /\ items[id].state = "executed" /\ runs[id] = 1
  BY <1>1, Executing DEF Has
<1>3. \A q \in Requests \ {r} : req'[q] = req[q]
  BY Moves DEF AppendExecuted
<1>4. CASE Return(r) /\ UNCHANGED log
  <2>1. \A i \in Ids : Same(i)
    BY <1>1, <1>4 DEF Same, ToldOutcomes
  <2>2. ~Busy(r)'
    BY <1>4, Moves, NotBusy
  <2> QED BY <1>1, <1>3, <2>1, <2>2, QuietStep
<1>5. CASE AppendEvent(id, ExecutedEvent) /\ Tell(r, "completed")
  <2>1. req'[r].pc = "telling" /\ req'[r].tell = "completed" /\ req'[r].id = id
    BY <1>5, Tells
  <2>2. PICK e \in Event : e = ExecutedEvent /\ e.kind = "executed"
    BY EventType DEF ExecutedEvent
  <2>3. /\ log[id] \in Seq(Event) /\ log'[id] = Append(log[id], e)
        /\ \A i \in Ids \ {id} : log'[i] = log[i]
    BY <1>5, <2>2 DEF AppendEvent, TypeOK
  <2>4. /\ log'[id] # <<>> /\ Len(log'[id]) = Len(log[id]) + 1 /\ log'[id][Len(log[id]) + 1] = e
        /\ \A i \in 1..Len(log[id]) : log'[id][i] = log[id][i]
        /\ 1..Len(log'[id]) = 1..Len(log[id]) \cup {Len(log[id]) + 1}
    BY <2>3, Appended
  <2>5. Len(log[id]) \in 1..Len(log[id]) /\ log[id][Len(log[id])] = Decided("approve")
    BY <1>2, <2>3 DEF EndsWith
  <2>6. EndsWith(id, ExecutedEvent)'
    BY <2>2, <2>4 DEF EndsWith
  <2>7. Causal(id)'
    <3>1. \A i, j \in 1..Len(log'[id]) :
            log'[id][i].kind = "decided" /\ log'[id][j].kind = "decided" => i = j
      <4>1. \A i \in 1..Len(log'[id]) : log'[id][i].kind = "decided" =>
              i \in 1..Len(log[id]) /\ log[id][i].kind = "decided"
        BY <2>2, <2>4
      <4>2. \A i, j \in 1..Len(log[id]) :
              log[id][i].kind = "decided" /\ log[id][j].kind = "decided" => i = j
        BY <1>2 DEF ApprovalOK, Causal
      <4> QED BY <4>1, <4>2
    <3>2. ASSUME NEW i \in 1..Len(log'[id]), log'[id][i].kind = "executed"
          PROVE  \E j \in 1..(i - 1) : log'[id][j] = Decided("approve")
      <4>1. CASE i = Len(log[id]) + 1
        BY <2>3, <2>4, <2>5, <4>1
      <4>2. CASE i \in 1..Len(log[id])
        <5>1. PICK j \in 1..(i - 1) : log[id][j] = Decided("approve")
          BY <1>2, <2>4, <3>2, <4>2 DEF ApprovalOK, Causal
        <5>2. j \in 1..Len(log[id])
          BY <2>3, <4>2
        <5> QED BY <2>4, <5>1, <5>2
      <4> QED BY <2>4, <4>1, <4>2
    <3> QED BY <3>1, <3>2 DEF Causal
  <2>8. ProposalIsFirst(id)'
    <3>1. ProposalIsFirst(id)
      BY <1>2 DEF ApprovalOK
    <3>2. \A i \in 1..Len(log'[id]) : log'[id][i].kind = "proposed" =>
            i \in 1..Len(log[id]) /\ log'[id][i] = log[id][i]
      BY <2>2, <2>4
    <3> QED BY <1>1, <3>1, <3>2 DEF ProposalIsFirst, IsProposed
  <2>9. HasDecision(id)'
    <3>1. Decided("approve").kind = "decided"
      BY DEF Decided
    <3> QED BY <2>4, <2>5, <3>1 DEF HasDecision
  <2>10. MemoryMatchesStore(id)'
    BY <1>1, <1>2, <2>6, <2>9, DistinctEnds DEF MemoryMatchesStore, EndsWith
  <2>11. Truthful(id)' /\ OutcomesStand(id)'
    BY <1>1, <1>2 DEF Truthful, OutcomesStand, ToldOutcomes
  <2>12. HandlerMatches(r)'
    BY <1>1, <1>2, <2>1, <2>6 DEF HandlerMatches, Has, At, ToldOutcomes, Concluded, ProposingPC
  <2>13. \A i \in Ids \ {id} : Same(i)
    BY <1>1, <2>3 DEF Same, ToldOutcomes
  <2> QED BY <1>1, <1>2, <1>3, <2>1, <2>7, <2>8, <2>10, <2>11, <2>12, <2>13, OwnPromiseStep
          DEF ApprovalOK
<1> QED BY <1>4, <1>5 DEF AppendExecuted

\* The outcome that a turn is told is the first, true, and stands.
LEMMA TellTurnKeeps ==
  ASSUME TypeOK, TypeOK', OneRunInv, PromiseInv,
         NEW r \in Requests, NEW id \in Ids, req[r].id = id, TellTurn(r)
  PROVE  PromiseInv'
<1>1. /\ At(r, "telling") /\ told' = [told EXCEPT ![id] = @ \cup {req[r].tell}]
      /\ UNCHANGED <<now, items, expired, log, runs>> /\ Later
  BY DEF TellTurn, TypeOK, Later
<1>2. ~Busy(r)' /\ \A q \in Requests \ {r} : req'[q] = req[q]
  BY Moves, NotBusy DEF TellTurn
<1>3. /\ \A i \in Ids \ {id} : told'[i] = told[i]
      /\ told'[id] = told[id] \cup {req[r].tell}
  BY <1>1 DEF TypeOK
<1>4. CASE req[r].tell \notin TurnOutcome
  <2>1. \A i \in Ids : Same(i)
    BY <1>1, <1>3, <1>4 DEF Same, ToldOutcomes
  <2> QED BY <1>1, <1>2, <2>1, QuietStep
<1>5. CASE req[r].tell \in TurnOutcome
  <2>1. Concluding(r) /\ Busy(r)
    BY <1>1, <1>5 DEF Concluding, Busy
  <2>2. HandlerMatches(r) /\ ApprovalOK(id)
    BY PromiseParts
  <2>3. ToldOutcomes(id) = {} /\ Concluded(id)
    BY <1>1, <1>5, <2>1, <2>2 DEF HandlerMatches
  <2>4. ToldOutcomes(id)' = {req[r].tell}
    BY <1>3, <1>5, <2>3 DEF ToldOutcomes
  <2>5. id < now
    BY <2>3, HistoryIsBorn DEF Concluded, EndsWith
  <2>6. Truthful(id)'
    BY <1>1, <1>5, <2>2, <2>4 DEF Truthful, HandlerMatches
  <2>7. OutcomesStand(id)'
    BY <1>1, <2>3, <2>5 DEF OutcomesStand, Concluded, EndsWith
  <2>8. Causal(id)' /\ ProposalIsFirst(id)' /\ MemoryMatchesStore(id)'
    BY <1>1, <2>2 DEF ApprovalOK, Causal, ProposalIsFirst, MemoryMatchesStore, HasDecision, EndsWith
  <2>9. \A i \in Ids \ {id} : Same(i)
    BY <1>1, <1>3 DEF Same, ToldOutcomes
  <2>10. ApprovalOK(id)'
    BY <2>6, <2>7, <2>8 DEF ApprovalOK
  <2> QED BY <1>1, <1>2, <2>1, <2>9, <2>10, NotBusy, OwnPromiseStep
<1> QED BY <1>4, <1>5

\* Listing cancels approvals that are pending and overdue, of which no turn was
\* told anything and with which nobody is past proposing.
LEMMA ListKeeps ==
  ASSUME TypeOK, TypeOK', PromiseInv, ListPending
  PROVE  PromiseInv'
<1>1. UNCHANGED <<now, expired, req, log, told, runs>> /\ Later
  BY DEF ListPending, TypeOK, Later
<1>2. ASSUME NEW id \in Ids
      PROVE  \/ Same(id)
             \/ /\ items[id].state = "pending" /\ items'[id].state = "cancelled"
                /\ id \in expired
  BY <1>1 DEF ListPending, TypeOK, Same, ToldOutcomes
<1>3. ASSUME NEW id \in Ids, items[id].state = "pending", items'[id].state = "cancelled",
             id \in expired
      PROVE  ApprovalOK(id)'
  <2>1. ApprovalOK(id)
    BY PromiseParts
  <2>2. /\ ToldOutcomes(id) = {}
        /\ ~EndsWith(id, Decided("deny")) /\ ~EndsWith(id, ExecutedEvent)
    BY <1>3, <2>1 DEF ApprovalOK, OutcomesStand, Concluded, MemoryMatchesStore
  <2>3. Causal(id)' /\ ProposalIsFirst(id)' /\ Truthful(id)'
    BY <1>1, <2>1 DEF ApprovalOK, Causal, ProposalIsFirst, Truthful, ToldOutcomes
  <2>4. MemoryMatchesStore(id)'
    BY <1>1, <1>3, <2>2 DEF MemoryMatchesStore, EndsWith
  <2>5. OutcomesStand(id)'
    BY <1>1, <2>2 DEF OutcomesStand, ToldOutcomes
  <2> QED BY <2>3, <2>4, <2>5 DEF ApprovalOK
<1>4. \A id \in Ids : ApprovalOK(id)'
  BY <1>1, <1>2, <1>3, SameApproval, PromiseParts
<1>5. ASSUME NEW q \in Requests
      PROVE  HandlerMatches(q)'
  <2>1. HandlerMatches(q) /\ req'[q] = req[q] /\ (Busy(q)' <=> Busy(q))
    BY <1>1, PromiseParts DEF Busy, Concluding, Has, At
  <2>2. CASE ~Busy(q)
    BY <2>1, <2>2, NotBusy
  <2>3. CASE Busy(q)
    <3>1. PICK id \in Ids : id = req[q].id
      BY <2>3, BusyId
    <3>2. CASE Same(id)
      BY <1>1, <2>1, <3>1, <3>2, SameHandler
    <3>3. CASE items[id].state = "pending" /\ items'[id].state = "cancelled" /\ id \in expired
      <4>1. ~(At(q, "telling") /\ req[q].tell \in TurnOutcome)
        BY <2>1, <3>1, <3>3 DEF HandlerMatches, Concluded
      <4> QED BY <1>1, <2>1, <3>1, <3>3, <4>1
              DEF HandlerMatches, Has, At, Concluding, HasDecision, EndsWith, ToldOutcomes
    <3> QED BY <1>2, <3>2, <3>3
  <2> QED BY <2>2, <2>3
<1>6. OneConcludes'
  BY <1>1, PromiseParts DEF OneConcludes, Concluding, Has, At
<1> QED BY <1>4, <1>5, <1>6, PromiseParts

------------------------------------------------------------------------------
(* What a restart rebuilds *)

\* What the last event makes of an approval that was proposed.
LEMMA RestoredLast ==
  ASSUME TypeOK, NEW id \in Ids, WasProposed(log[id])
  PROVE  /\ log[id] # <<>> /\ log[id][Len(log[id])] \in Event /\ Len(log[id]) \in 1..Len(log[id])
         /\ LET s == StateAfter(log[id][Len(log[id])])
            IN Restored(id).state =
                 IF s = "approved" \/ (s = "pending" /\ id \in expired) THEN "cancelled" ELSE s
<1>1. log[id] \in Seq(Event)
  BY DEF TypeOK
<1>2. log[id] # <<>> /\ Len(log[id]) \in 1..Len(log[id])
  BY <1>1 DEF WasProposed
<1>3. log[id][Len(log[id])] \in Event
  BY <1>1, <1>2
<1> DEFINE a == Replay(log[id])
<1>4. a = [state |-> StateAfter(log[id][Len(log[id])]), call |-> a.call]
  BY DEF Replay
<1>5. Restored(id) = IF a.state = "approved" \/ (a.state = "pending" /\ id \in expired)
                     THEN [a EXCEPT !.state = "cancelled"] ELSE a
  BY DEF Restored
<1> HIDE DEF a
<1> QED BY <1>2, <1>3, <1>4, <1>5

\* The three kinds of event, and the two decisions.
LEMMA EventKinds ==
  ASSUME NEW e \in Event
  PROVE  \/ e.kind = "proposed"
         \/ e = Decided("approve") \/ e = Decided("deny") \/ e = ExecutedEvent
<1>1. CASE e \in [kind: {"proposed"}, state: ItemState, call: Calls]
  BY <1>1
<1>2. CASE e \in [kind: {"decided"}, decision: {"approve", "deny"}]
  BY <1>2 DEF Decided
<1>3. CASE e \in [kind: {"executed"}]
  BY <1>3 DEF ExecutedEvent
<1> QED BY <1>1, <1>2, <1>3 DEF Event

(***************************************************************************)
(* What a restart makes of an approval: forgotten when its proposal was    *)
(* not stored, pending or cancelled when its decision was not, and after   *)
(* that what the last event says, except that an approved call is          *)
(* cancelled.                                                              *)
(***************************************************************************)
RestoredAs(id, s) ==
  \/ s = "absent" /\ ~WasProposed(log[id])
  \/ /\ WasProposed(log[id]) /\ ~HasDecision(id) /\ ToldOutcomes(id) = {}
     /\ ~EndsWith(id, Decided("deny")) /\ ~EndsWith(id, ExecutedEvent)
     /\ \/ s = "pending" /\ id \notin expired /\ runs[id] = 0
        \/ s \in {"cancelled", "torn"} /\ id \in expired
  \/ /\ WasProposed(log[id]) /\ HasDecision(id)
     /\ \/ s = "cancelled" /\ EndsWith(id, Decided("approve"))
        \/ s = "denied"    /\ EndsWith(id, Decided("deny"))
        \/ s = "executed"  /\ EndsWith(id, ExecutedEvent)

LEMMA RestoredState ==
  ASSUME TypeOK, OneRunInv, PromiseInv, NEW id \in Ids
  PROVE  RestoredAs(id, Restored(id).state)
<1>1. CASE ~WasProposed(log[id])
  BY <1>1 DEF RestoredAs, Restored, Replay, Absent
<1>2. CASE WasProposed(log[id])
  <2>1. PICK n \in 1..Len(log[id]) : n = Len(log[id])
    BY <1>2, RestoredLast
  <2>2. PICK e \in Event : e = log[id][n]
    BY <1>2, <2>1, RestoredLast
  <2>3. log[id] # <<>> /\ (\A f : EndsWith(id, f) <=> e = f)
    BY <1>2, <2>1, <2>2, RestoredLast DEF EndsWith
  <2>4. LET s == StateAfter(e)
        IN Restored(id).state =
             IF s = "approved" \/ (s = "pending" /\ id \in expired) THEN "cancelled" ELSE s
    BY <1>2, <2>1, <2>2, RestoredLast
  <2>5. ApprovalOK(id)
    BY PromiseParts
  <2>6. CASE e.kind = "proposed"
    <3>1. n = 1 /\ e.state \in {"pending", "cancelled", "torn"}
          /\ (e.state # "pending" => id \in expired)
      BY <2>2, <2>5, <2>6 DEF ApprovalOK, ProposalIsFirst, IsProposed
    <3>2. ~HasDecision(id)
      BY <2>1, <2>2, <2>6, <3>1 DEF HasDecision
    <3>3. e # Decided("approve") /\ e # Decided("deny") /\ e # ExecutedEvent
      BY <2>6 DEF Decided, ExecutedEvent
    <3>4. ToldOutcomes(id) = {}
      BY <1>2, <2>3, <2>5, <3>3
         DEF ApprovalOK, OutcomesStand, Concluded, MemoryMatchesStore
    <3>5. StateAfter(e) = e.state
      BY <2>6 DEF StateAfter
    <3>6. runs[id] = 0
      BY <2>1, <2>2, <3>1, <3>5 DEF OneRunInv, RunsAreSettled, Settled
    <3> QED BY <1>2, <2>3, <2>4, <3>1, <3>2, <3>3, <3>4, <3>5, <3>6 DEF RestoredAs
  <2>7. CASE e = Decided("approve")
    <3>1. StateAfter(e) = "approved"
      BY <2>7, AfterDecisions
    <3> QED BY <1>2, <2>3, <2>4, <2>7, <3>1, EndsDecided DEF RestoredAs
  <2>8. CASE e = Decided("deny")
    <3>1. StateAfter(e) = "denied"
      BY <2>8 DEF StateAfter, Decided
    <3> QED BY <1>2, <2>3, <2>4, <2>8, <3>1, EndsDecided DEF RestoredAs
  <2>9. CASE e = ExecutedEvent
    <3>1. StateAfter(e) = "executed"
      BY <2>9, AfterDecisions
    <3>2. e.kind = "executed" /\ Decided("approve").kind = "decided"
      BY <2>9 DEF ExecutedEvent, Decided
    <3>3. PICK j \in 1..(n - 1) : log[id][j] = Decided("approve")
      BY <2>2, <2>5, <3>2 DEF ApprovalOK, Causal
    <3>4. j \in 1..Len(log[id])
      BY <2>1
    <3>5. HasDecision(id)
      BY <3>2, <3>3, <3>4 DEF HasDecision
    <3> QED BY <1>2, <2>3, <2>4, <2>9, <3>1, <3>5 DEF RestoredAs
  <2> QED BY <2>6, <2>7, <2>8, <2>9, EventKinds
<1> QED BY <1>1, <1>2

\* What is rebuilt agrees with the store and with what the turns were told.
LEMMA RestartKeeps ==
  ASSUME TypeOK, OneRunInv, PromiseInv, Restart
  PROVE  PromiseInv'
<1>1. UNCHANGED <<now, expired, log, told, runs>> /\ \A id \in Ids : items'[id] = Restored(id)
  BY DEF Restart
<1>2. \A q \in Requests : ~Busy(q)'
  BY IdleType, NotBusy DEF Restart
<1>3. ASSUME NEW id \in Ids
      PROVE  ApprovalOK(id)'
  <2>1. ApprovalOK(id)
    BY PromiseParts
  <2>2. Causal(id)' /\ ProposalIsFirst(id)' /\ Truthful(id)'
    BY <1>1, <2>1 DEF ApprovalOK, Causal, ProposalIsFirst, Truthful, ToldOutcomes
  <2>3. RestoredAs(id, items'[id].state)
    BY <1>1, RestoredState
  <2>4. MemoryMatchesStore(id)'
    BY <1>1, <2>3, DistinctEnds DEF RestoredAs, MemoryMatchesStore, HasDecision, EndsWith
  <2>5. ToldOutcomes(id) # {} => id < now
    BY <2>1 DEF ApprovalOK, OutcomesStand
  <2>6. OutcomesStand(id)'
    BY <1>1, <2>3, <2>5 DEF RestoredAs, OutcomesStand, Concluded, EndsWith, ToldOutcomes
  <2> QED BY <2>2, <2>4, <2>6 DEF ApprovalOK
<1> QED BY <1>2, <1>3, NotBusy, PromiseParts DEF OneConcludes

------------------------------------------------------------------------------
(* The invariant *)

\* Time alone, and what PromiseInv does not speak of, leave it as it is.
LEMMA TimeKeeps ==
  ASSUME TypeOK, TypeOK', PromiseInv, Later, UNCHANGED <<items, req, log, told, runs>>
  PROVE  PromiseInv'
<1>1. \A i \in Ids : Same(i)
  BY DEF Same, ToldOutcomes
<1>2. \A i \in Ids : ApprovalOK(i)'
  BY <1>1, SameApproval, PromiseParts
<1>3. ASSUME NEW q \in Requests
      PROVE  HandlerMatches(q)'
  <2>1. CASE ~Busy(q)
    <3>1. Busy(q)' <=> Busy(q)
      BY DEF Busy, Concluding, Has, At
    <3> QED BY <2>1, <3>1, NotBusy
  <2>2. CASE Busy(q)
    BY <1>1, <2>2, BusyId, SameHandler, PromiseParts
  <2> QED BY <2>1, <2>2
<1>4. OneConcludes'
  BY PromiseParts DEF OneConcludes, Concluding, Has, At
<1> QED BY <1>2, <1>3, <1>4, PromiseParts

LEMMA NextKeeps ==
  ASSUME PerTick = 1, DecideAfterLogged, TypeOK, TypeOK', OneRunInv, PromiseInv, [Next]_vars
  PROVE  PromiseInv'
<1>1. ASSUME NEW r \in Requests, ProposeStep(r)
      PROVE  PromiseInv'
  <2>1. CASE \E c \in Calls : Stamp(r, c)
    BY <2>1, StampKeeps
  <2>2. CASE Insert(r) \/ CopyApproval(r) \/ AppendProposed(r)
    <3>1. req[r].id \in Ids
      BY <2>2 DEF Insert, CopyApproval, AppendProposed, At, TypeOK, RequestsTypeOK
    <3> QED BY <2>2, <3>1, InsertKeeps, CopyKeeps, AppendProposedKeeps
  <2> QED BY <1>1, <2>1, <2>2 DEF ProposeStep
<1>2. ASSUME NEW r \in Requests, DecideStep(r)
      PROVE  PromiseInv'
  BY <1>2, DecideKeeps, DecideExpiredKeeps DEF DecideStep
<1>3. ASSUME NEW r \in Requests, ExecuteStep(r)
      PROVE  PromiseInv'
  <2>1. req[r].id \in Ids
    BY <1>3 DEF ExecuteStep, AppendDecided, Refuse, RunTool, ExecutionFailed,
                MarkExecuted, AppendExecuted, At, TypeOK, RequestsTypeOK
  <2> QED BY <1>3, <2>1, AppendDecidedKeeps, GiveUpKeeps, RunToolKeeps,
             MarkExecutedKeeps, AppendExecutedKeeps DEF ExecuteStep
<1>4. ASSUME NEW r \in Requests, TellTurn(r)
      PROVE  PromiseInv'
  <2>1. req[r].id \in Ids
    BY <1>4 DEF TellTurn, At, TypeOK, RequestsTypeOK
  <2> QED BY <1>4, <2>1, TellTurnKeeps
<1>5. CASE (\E id \in Ids : Expire(id)) \/ Tick \/ UNCHANGED vars
  <2>1. Later /\ UNCHANGED <<items, req, log, told, runs>>
    BY <1>5 DEF Expire, Tick, vars, Later, TypeOK
  <2> QED BY <2>1, TimeKeeps
<1> QED BY <1>1, <1>2, <1>3, <1>4, <1>5, ListKeeps, RestartKeeps DEF Next

LEMMA PromiseInvariant ==
  ASSUME PerTick = 1, DecideAfterLogged
  PROVE  Spec => [](TypeOK /\ OneRunInv /\ PromiseInv)
<1>1. Init => PromiseInv
  <2> SUFFICES ASSUME Init PROVE PromiseInv
    OBVIOUS
  <2>1. \A r \in Requests : ~Busy(r)
    BY IdleType DEF Init, Busy, Concluding, Has, At, ProposingPC, OwnerPC
  <2>2. ASSUME NEW id \in Ids
        PROVE  ProposalIsFirst(id) /\ MemoryMatchesStore(id) /\ OutcomesStand(id)
    BY DEF Init, Absent, ProposalIsFirst, MemoryMatchesStore, OutcomesStand, HasDecision,
           WasProposed, EndsWith, ToldOutcomes
  <2>3. LogIsCausal /\ TurnToldTruth
    BY DEF Init, LogIsCausal, TurnToldTruth
  <2> QED BY <2>1, <2>2, <2>3, NotBusy DEF PromiseInv, OneConcludes
<1>2. TypeOK /\ TypeOK' /\ OneRunInv /\ PromiseInv /\ [Next]_vars => PromiseInv'
  BY NextKeeps
<1> QED BY <1>1, <1>2, OneRunInvariant, PTL DEF Spec

\* Where approval ids are distinct and operators decide after the proposing call
\* returned, the events of an approval hold one decision, and an execution only
\* behind the approval it follows from, whichever appends fail and however often
\* the server restarts.
THEOREM CausalLog ==
  ASSUME PerTick = 1, DecideAfterLogged
  PROVE  Spec => []LogIsCausal
<1>1. PromiseInv => LogIsCausal
  BY DEF PromiseInv
<1> QED BY <1>1, PromiseInvariant, PTL

\* Under the same assumptions the turn behind an approval is told one outcome,
\* cancelled only if the tool was not started and completed only if it was.
THEOREM ToldTruth ==
  ASSUME PerTick = 1, DecideAfterLogged
  PROVE  Spec => []TurnToldTruth
<1>1. PromiseInv => TurnToldTruth
  BY DEF PromiseInv
<1> QED BY <1>1, PromiseInvariant, PTL

------------------------------------------------------------------------------
(* The refinement, step by step *)

\* The promise's name for a state of the manager.
Promised(s) == CASE s = "absent" -> "none" [] s = "torn" -> "cancelled" [] OTHER -> s

\* A step that the promise does not see.
LEMMA Unseen ==
  ASSUME UNCHANGED runs, \A i \in Ids : items'[i] = items[i] /\ ToldOutcomes(i)' = ToldOutcomes(i)
  PROVE  UNCHANGED Abs!vars
  BY DEF Abs!vars, ToldOutcomes

\* Two states that differ at one approval's state are one move apart.
LEMMA OneMove ==
  ASSUME NEW id \in Ids, NEW from, NEW to,
         from = Promised(items[id].state), to = Promised(items'[id].state),
         UNCHANGED <<runs, told>>, \A i \in Ids \ {id} : items'[i] = items[i]
  PROVE  Abs!Move(id, from, to)
  BY DEF Abs!Move, Promised

\* The approval that is inserted is new to the promise.
LEMMA InsertRefines ==
  ASSUME TypeOK, OneRunInv, NEW r \in Requests, NEW id \in Ids, req[r].id = id, Insert(r)
  PROVE  Abs!Propose(id)
<1>1. items[id].state = "absent" /\ runs[id] = 0
  BY DEF Insert, OneRunInv, ProposalsFirst, Has, At, ProposingPC, Absent
<1>2. /\ items'[id].state = "pending" /\ \A i \in Ids \ {id} : items'[i] = items[i]
      /\ UNCHANGED <<runs, told>>
  BY DEF Insert, TypeOK
<1>3. Promised("absent") = "none" /\ Promised("pending") = "pending"
  BY DEF Promised
<1>4. Abs!Move(id, "none", "pending")
  BY <1>1, <1>2, <1>3, OneMove
<1> QED BY <1>1, <1>4 DEF Abs!Propose

\* A decision in time is the operator's, one too late an expiry.
LEMMA DecideRefines ==
  ASSUME TypeOK, NEW r \in Requests, NEW id \in Ids
  PROVE  /\ Decide(r, id, "approved") => Abs!Approve(id)
         /\ Decide(r, id, "denied") => Abs!Deny(id)
         /\ DecideExpired(r, id) => Abs!ExpireSome({id})
<1>1. ASSUME NEW to \in {"approved", "denied"}, Decide(r, id, to)
      PROVE  Abs!Move(id, "pending", to)
  <2>1. /\ items[id].state = "pending" /\ items'[id].state = to
        /\ \A i \in Ids \ {id} : items'[i] = items[i]
        /\ UNCHANGED <<runs, told>>
    BY <1>1 DEF Decide, Decidable, SetState, TypeOK
  <2>2. Promised("pending") = "pending" /\ Promised(to) = to
    BY DEF Promised
  <2> QED BY <2>1, <2>2, OneMove
<1>2. ASSUME DecideExpired(r, id)
      PROVE  Abs!ExpireSome({id})
  <2>1. /\ items[id].state = "pending" /\ items'[id].state = "cancelled"
        /\ \A i \in Ids \ {id} : items'[i] = items[i]
        /\ UNCHANGED <<runs, told>>
    BY <1>2 DEF DecideExpired, Decidable, SetState, TypeOK
  <2> QED BY <2>1 DEF Abs!ExpireSome
<1> QED BY <1>1, <1>2 DEF Abs!Approve, Abs!Deny

\* What the handler does that executes an approved call.
LEMMA ExecuteRefines ==
  ASSUME TypeOK, OneRunInv, PromiseInv, NEW r \in Requests, NEW id \in Ids, req[r].id = id
  PROVE  /\ Refuse(r) \/ ExecutionFailed(r) => Abs!Abandon(id)
         /\ RunTool(r) => Abs!Start(id)
         /\ MarkExecuted(r) => Abs!Execute(id)
<1>1. ASSUME Refuse(r) \/ ExecutionFailed(r)
      PROVE  Abs!Abandon(id)
  <2>1. Has(r, {"authorised", "running"}) /\ CancelItem(id) /\ UNCHANGED <<runs, told>>
    BY <1>1 DEF Refuse, ExecutionFailed, Has, At
  <2>2. items[id].state = "approved"
    BY <2>1, Executing DEF Has
  <2>3. items'[id].state = "cancelled" /\ \A i \in Ids \ {id} : items'[i] = items[i]
    BY <2>1, <2>2, CancelApproved
  <2>4. Promised("approved") = "approved" /\ Promised("cancelled") = "cancelled"
    BY DEF Promised
  <2> QED BY <2>1, <2>2, <2>3, <2>4, OneMove DEF Abs!Abandon
<1>2. ASSUME RunTool(r)
      PROVE  Abs!Start(id)
  <2>1. Has(r, {"authorised", "running"}) /\ At(r, "authorised")
    BY <1>2 DEF RunTool, Has, At
  <2>2. items[id].state = "approved" /\ runs[id] = 0
    BY <2>1, Executing DEF Has
  <2>3. runs' = [runs EXCEPT ![id] = 1] /\ UNCHANGED <<items, told>>
    BY <1>2, <2>2 DEF RunTool
  <2> QED BY <2>2, <2>3 DEF Abs!Start
<1>3. ASSUME MarkExecuted(r)
      PROVE  Abs!Execute(id)
  <2>1. Has(r, {"authorised", "running"}) /\ ~At(r, "authorised")
    BY <1>3 DEF MarkExecuted, Has, At
  <2>2. items[id].state = "approved" /\ runs[id] = 1
    BY <2>1, Executing DEF Has
  <2>3. ValidateApprovalTransition("approved", "executed")
    BY DEF ValidateApprovalTransition, TerminalApproval, approvalTransitions
  <2>4. /\ items'[id].state = "executed" /\ \A i \in Ids \ {id} : items'[i] = items[i]
        /\ UNCHANGED <<runs, told>>
    BY <1>3, <2>2, <2>3 DEF MarkExecuted, SetState, TypeOK
  <2>5. Promised("approved") = "approved" /\ Promised("executed") = "executed"
    BY DEF Promised
  <2> QED BY <2>2, <2>4, <2>5, OneMove DEF Abs!Execute
<1> QED BY <1>1, <1>2, <1>3

\* What a turn is told is its approval's first outcome, and true.
LEMMA TellTurnRefines ==
  ASSUME TypeOK, PromiseInv, NEW r \in Requests, NEW id \in Ids, req[r].id = id, TellTurn(r)
  PROVE  (\E o \in {"completed", "failed", "cancelled"} : Abs!Tell(id, o)) \/ UNCHANGED Abs!vars
<1>1. /\ At(r, "telling") /\ told' = [told EXCEPT ![id] = @ \cup {req[r].tell}]
      /\ UNCHANGED <<items, runs>>
  BY DEF TellTurn
<1>2. /\ \A i \in Ids \ {id} : told'[i] = told[i]
      /\ told'[id] = told[id] \cup {req[r].tell}
  BY <1>1 DEF TypeOK
<1>3. CASE req[r].tell \notin TurnOutcome
  <2>1. \A i \in Ids : ToldOutcomes(i)' = ToldOutcomes(i)
    BY <1>2, <1>3 DEF ToldOutcomes
  <2> QED BY <1>1, <2>1, Unseen
<1>4. CASE req[r].tell \in TurnOutcome
  <2>1. PICK o \in TurnOutcome : o = req[r].tell
    BY <1>4
  <2>2. HandlerMatches(r) /\ Concluding(r)
    BY <1>1, <1>4, PromiseParts DEF Concluding
  <2>3. /\ ToldOutcomes(id) = {} /\ Concluded(id)
        /\ o = "completed" => items[id].state = "executed"
        /\ o = "failed" => items[id].state = "cancelled"
        /\ o = "cancelled" => items[id].state # "executed" /\ runs[id] = 0
    BY <1>1, <2>1, <2>2 DEF HandlerMatches
  <2>4. Abs!TrueOutcome(id, o)
    BY <2>3 DEF Abs!TrueOutcome, Concluded, TurnOutcome
  <2>5. /\ ToldOutcomes(id)' = {o}
        /\ \A i \in Ids \ {id} : ToldOutcomes(i)' = ToldOutcomes(i)
    BY <1>2, <2>1, <2>3 DEF ToldOutcomes
  <2>6. Abs!Tell(id, o)
    BY <1>1, <2>3, <2>4, <2>5 DEF Abs!Tell, ToldOutcomes
  <2> QED BY <2>6 DEF TurnOutcome
<1> QED BY <1>3, <1>4

\* The sweep is one expiry of everything overdue.
LEMMA ListRefines ==
  ASSUME TypeOK, ListPending
  PROVE  \E S \in SUBSET Ids : Abs!ExpireSome(S)
<1>0. PICK S \in SUBSET Ids : S = {id \in Ids : id \in expired /\ items[id].state = "pending"}
  OBVIOUS
<1>1. \A id \in Ids : items'[id].state = IF id \in S THEN "cancelled" ELSE items[id].state
  BY <1>0 DEF ListPending, TypeOK
<1>2. \A id \in S : items[id].state = "pending"
  BY <1>0
<1>3. UNCHANGED <<runs, told>>
  BY DEF ListPending
<1>4. Abs!ExpireSome(S)
  BY <1>1, <1>2, <1>3 DEF Abs!ExpireSome
<1> QED BY <1>4

\* A restart contradicts nothing that a turn was told.
LEMMA RestartRefines ==
  ASSUME TypeOK, OneRunInv, PromiseInv, Restart
  PROVE  Abs!Restart
<1>1. UNCHANGED <<runs, told>> /\ \A id \in Ids : items'[id] = Restored(id)
  BY DEF Restart
<1>2. ASSUME NEW id \in Ids
      PROVE  /\ Promised(items'[id].state) \in Abs!Status
             /\ Abs!RestartMoves(id, Promised(items'[id].state))
  <2>1. RestoredAs(id, items'[id].state)
    BY <1>1, RestoredState
  <2>2. ApprovalOK(id) /\ items[id].state \in ItemState
    BY PromiseParts DEF TypeOK
  <2>3. Promised(items'[id].state) \in Abs!Status
    BY <2>1 DEF RestoredAs, Promised, Abs!Status
  <2> SUFFICES Abs!RestartMoves(id, Promised(items'[id].state))
    BY <2>3
  <2>4. CASE items'[id].state = "absent"
    BY <2>4 DEF Promised, Abs!RestartMoves
  <2>5. CASE WasProposed(log[id]) /\ ~HasDecision(id)
    <3>1. items[id].state # "absent" /\ ToldOutcomes(id) = {}
      BY <2>1, <2>2, <2>5 DEF RestoredAs, ApprovalOK, MemoryMatchesStore
    <3>2. CASE items'[id].state = "pending" /\ id \notin expired /\ runs[id] = 0
      <4>1. items[id].state \in {"pending", "approved", "denied"}
        BY <2>2, <2>5, <3>1, <3>2
           DEF ApprovalOK, MemoryMatchesStore, ItemState, ApprovalState
      <4> QED BY <3>1, <3>2, <4>1 DEF Promised, Abs!RestartMoves, ToldOutcomes
    <3>3. CASE items'[id].state \in {"cancelled", "torn"}
      BY <2>2, <3>1, <3>3 DEF Promised, Abs!RestartMoves, ToldOutcomes, ItemState, ApprovalState
    <3> QED BY <2>1, <2>5, <3>2, <3>3 DEF RestoredAs
  <2>6. CASE WasProposed(log[id]) /\ HasDecision(id)
    <3>1. items[id].state # "absent"
      BY <2>2, <2>6 DEF ApprovalOK, MemoryMatchesStore
    <3>2. CASE items'[id].state = "cancelled" /\ EndsWith(id, Decided("approve"))
      <4>1. ToldOutcomes(id) # {} => items[id].state = "cancelled"
        BY <2>2, <3>1, <3>2, DistinctEnds DEF ApprovalOK, OutcomesStand, Concluded, EndsWith
      <4>2. CASE ToldOutcomes(id) # {}
        BY <3>2, <4>1, <4>2 DEF Promised, Abs!RestartMoves
      <4>3. CASE ToldOutcomes(id) = {}
        BY <2>2, <3>1, <3>2, <4>3
           DEF Promised, Abs!RestartMoves, ToldOutcomes, ItemState, ApprovalState
      <4> QED BY <4>2, <4>3
    <3>3. CASE items'[id].state = "denied" /\ EndsWith(id, Decided("deny"))
      <4>1. items[id].state = "denied"
        BY <2>2, <3>1, <3>3 DEF ApprovalOK, MemoryMatchesStore
      <4> QED BY <3>3, <4>1 DEF Promised, Abs!RestartMoves
    <3>4. CASE items'[id].state = "executed" /\ EndsWith(id, ExecutedEvent)
      <4>1. items[id].state = "executed"
        BY <2>2, <3>1, <3>4 DEF ApprovalOK, MemoryMatchesStore
      <4> QED BY <3>4, <4>1 DEF Promised, Abs!RestartMoves
    <3> QED BY <2>1, <2>6, <3>2, <3>3, <3>4 DEF RestoredAs
  <2> QED BY <2>1, <2>4, <2>5, <2>6 DEF RestoredAs
<1> QED BY <1>1, <1>2 DEF Abs!Restart, Promised

\* Every step is a step of the promise, or one that it does not see.
LEMMA NextRefines ==
  ASSUME TypeOK, OneRunInv, PromiseInv, [Next]_vars
  PROVE  [Abs!Next]_Abs!vars
<1>1. ASSUME UNCHANGED <<items, told, runs>>
      PROVE  UNCHANGED Abs!vars
  BY <1>1, Unseen DEF ToldOutcomes
<1>2. ASSUME NEW r \in Requests, ProposeStep(r)
      PROVE  [Abs!Next]_Abs!vars
  <2>1. CASE Insert(r)
    <3>1. req[r].id \in Ids
      BY <2>1 DEF Insert, At, TypeOK, RequestsTypeOK
    <3> QED BY <2>1, <3>1, InsertRefines DEF Abs!Next
  <2>2. CASE (\E c \in Calls : Stamp(r, c)) \/ CopyApproval(r) \/ AppendProposed(r)
    BY <1>1, <2>2 DEF Stamp, CopyApproval, AppendProposed
  <2> QED BY <1>2, <2>1, <2>2 DEF ProposeStep
<1>3. ASSUME NEW r \in Requests, DecideStep(r)
      PROVE  [Abs!Next]_Abs!vars
  <2>1. PICK id \in Ids :
          Decide(r, id, "approved") \/ Decide(r, id, "denied") \/ DecideExpired(r, id)
    BY <1>3 DEF DecideStep
  <2>2. {id} \in SUBSET Ids
    OBVIOUS
  <2> QED BY <2>1, <2>2, DecideRefines DEF Abs!Next
<1>4. ASSUME NEW r \in Requests, ExecuteStep(r)
      PROVE  [Abs!Next]_Abs!vars
  <2>1. req[r].id \in Ids
    BY <1>4 DEF ExecuteStep, AppendDecided, Refuse, RunTool, ExecutionFailed,
                MarkExecuted, AppendExecuted, At, TypeOK, RequestsTypeOK
  <2>2. CASE AppendDecided(r) \/ AppendExecuted(r)
    BY <1>1, <2>2 DEF AppendDecided, AppendExecuted
  <2>3. CASE Refuse(r) \/ ExecutionFailed(r) \/ RunTool(r) \/ MarkExecuted(r)
    BY <2>1, <2>3, ExecuteRefines DEF Abs!Next
  <2> QED BY <1>4, <2>2, <2>3 DEF ExecuteStep
<1>5. ASSUME NEW r \in Requests, TellTurn(r)
      PROVE  [Abs!Next]_Abs!vars
  <2>1. req[r].id \in Ids
    BY <1>5 DEF TellTurn, At, TypeOK, RequestsTypeOK
  <2> QED BY <1>5, <2>1, TellTurnRefines DEF Abs!Next
<1>6. CASE ListPending
  BY <1>6, ListRefines DEF Abs!Next
<1>7. CASE Restart
  BY <1>7, RestartRefines DEF Abs!Next
<1>8. CASE (\E id \in Ids : Expire(id)) \/ Tick \/ UNCHANGED vars
  BY <1>1, <1>8 DEF Expire, Tick, vars
<1> QED BY <1>2, <1>3, <1>4, <1>5, <1>6, <1>7, <1>8 DEF Next

\* The approval service of the control plane implements the promise of
\* ApprovalSpec: whatever goroutines, expiries, failed appends and restarts do,
\* an approval walks its lifecycle, its tool is started once and only while it
\* is approved, its turn is told one outcome and a true one, and no restart
\* contradicts what was told.
THEOREM ServiceKeepsPromise ==
  ASSUME PerTick = 1, DecideAfterLogged
  PROVE  Spec => KeepsPromise
<1>1. Init => Abs!Init
  BY DEF Init, Absent, Abs!Init
<1>2. TypeOK /\ OneRunInv /\ PromiseInv /\ [Next]_vars => [Abs!Next]_Abs!vars
  BY NextRefines
<1> QED BY <1>1, <1>2, PromiseInvariant, PTL DEF Spec, KeepsPromise, Abs!Spec

==============================================================================
