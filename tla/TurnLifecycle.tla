---------------------------- MODULE TurnLifecycle ----------------------------
(***************************************************************************)
(* The turns of one session.  A turn has no state of its own: it is what   *)
(* the session's events make of it.  TurnManager.Create                    *)
(* (internal/context/context.go) refuses a turn while another is mutable,  *)
(* runAgentTurn (internal/controlplane/server.go) stores what the agent's  *)
(* runner emits, and the tool and approval handlers store turn outcomes    *)
(* with appendTurnLifecycleEvent, for whichever turn they find active.     *)
(*                                                                         *)
(* Each of them reads the events, takes a timestamp and appends, as three  *)
(* steps: others may append in between, and an event may become visible    *)
(* after one with a later timestamp.  Readers see events in the order of   *)
(* their timestamps.                                                       *)
(***************************************************************************)
EXTENDS Naturals, Sequences, FiniteSets

CONSTANTS
  Turns,        \* turn ids; each also names the goroutine that stores its agent's events
  Creators,     \* goroutines that serve POST .../turns
  Handlers,     \* goroutines that serve tool and approval requests
  NoTurn,       \* no turn
  MaxCalls,     \* bound: tool calls made by clients
  MaxDeltas,    \* bound: deltas a turn's agent emits
  MaxBoots,     \* bound: restarts after a crash
  StoreMayFail, \* an append may return an error; a client may disconnect
  HasRunner     \* the server has an agent runner for every session

ASSUME ConstantsAssumption ==
  /\ NoTurn \notin Turns
  /\ Turns \cap (Creators \cup Handlers) = {}
  /\ Creators \cap Handlers = {}
  /\ MaxCalls \in Nat /\ MaxDeltas \in Nat /\ MaxBoots \in Nat
  /\ StoreMayFail \in BOOLEAN /\ HasRunner \in BOOLEAN

VARIABLES
  log,     \* the session's stored events that name a turn
  work,    \* what each goroutine is about to append
  running, \* turns whose Runner.loop is running
  channel, \* agent events emitted and not yet stored, per turn
  asked,   \* turns whose agent's approval request is undecided
  deltas,  \* deltas emitted so far, per turn
  calls,   \* tool calls made so far
  boots    \* restarts so far

vars == <<log, work, running, channel, asked, deltas, calls, boots>>

Workers == Creators \cup Handlers \cup Turns

\* The event types that set a turn's status; "other" stands for the rest.
Terminal == {"completed", "failed", "cancelled"}
Kind     == {"started", "awaiting", "other"} \cup Terminal

Idle == [pc |-> "idle", turn |-> NoTurn, kind |-> "other", at |-> 0]

At(w, pc)   == work[w].pc = pc
Return(w)   == work' = [work EXCEPT ![w] = Idle]
\* The clock gives a later time than any in use; times that no event carries,
\* because its append failed, need not be told apart.
Now == LET times == {e.at : e \in log} \cup {work[w].at : w \in Workers}
       IN 1 + (CHOOSE n \in times : \A m \in times : m <= n)

Holds(w, t) == work[w].pc # "idle" /\ work[w].turn = t

Init ==
  /\ log = {}
  /\ work = [w \in Workers |-> Idle]
  /\ running = {}
  /\ channel = [t \in Turns |-> <<>>]
  /\ asked = {}
  /\ deltas = [t \in Turns |-> 0]
  /\ calls = 0
  /\ boots = 0

------------------------------------------------------------------------------
(* Reading the events *)

EventsOf(t) == {e \in log : e.turn = t}
Started(t)  == \E e \in EventsOf(t) : e.kind = "started"
Ended(t)    == \E e \in EventsOf(t) : e.kind \in Terminal

\* hasActiveMutableTurn: for this reader a turn that ended stays ended.
Mutable(t) ==
  /\ \E e \in EventsOf(t) : e.kind \in {"started", "awaiting"}
  /\ ~Ended(t)

Latest(S) == CHOOSE e \in S : \A f \in S : f.at <= e.at

\* Fault: the status of a turn that ended is kept.
StatusKeepsEnd(t) ==
  LET changes == {e \in EventsOf(t) : e.kind \in {"awaiting"} \cup Terminal}
      ends    == {e \in changes : e.kind \in Terminal}
  IN IF ~Started(t) THEN "none"
     ELSE IF ends # {} THEN Latest(ends).kind
     ELSE IF changes # {} THEN Latest(changes).kind
     ELSE "active"

\* ListBySession with deriveTurnStatuses: for this reader the last event of a
\* turn decides, and a turn that has not started is not listed.
Status(t) ==
  LET changes == {e \in EventsOf(t) : e.kind \in {"awaiting"} \cup Terminal}
  IN IF ~Started(t) THEN "none"
     ELSE IF changes = {} THEN "active"
     ELSE Latest(changes).kind

UpdatedAt(t) == Latest(EventsOf(t)).at

Active == {t \in Turns : Status(t) \in {"active", "awaiting"}}

------------------------------------------------------------------------------
(* Writing an event: steps shared by all goroutines *)

\* time.Now() between the read and the append.
Stamp(w) ==
  /\ At(w, "chosen")
  /\ work' = [work EXCEPT ![w].pc = "stamped", ![w].at = Now]
  /\ UNCHANGED <<log, running, channel, asked, deltas, calls, boots>>

Stored(w) == log' = log \cup {[at |-> work[w].at, turn |-> work[w].turn, kind |-> work[w].kind]}

\* Handlers and the goroutine behind an agent ignore the result of Append.
AppendEvent(w) ==
  /\ At(w, "stamped")
  /\ w \notin Creators
  /\ Return(w)
  /\ Stored(w) \/ (StoreMayFail /\ UNCHANGED log)
  /\ UNCHANGED <<running, channel, asked, deltas, calls, boots>>

Report(w, kind) ==
  work' = [work EXCEPT ![w] = [Idle EXCEPT !.pc = "reporting", !.kind = kind]]

\* appendTurnLifecycleEvent: the event is for the active turn that was updated
\* last, whatever turn the worker is busy with; without one it is dropped.
Resolve(w) ==
  /\ At(w, "reporting")
  /\ \/ \E t \in Active :
          /\ \A u \in Active : UpdatedAt(u) <= UpdatedAt(t)
          /\ work' = [work EXCEPT ![w].pc = "chosen", ![w].turn = t]
     \/ Active = {} /\ Return(w)
  /\ UNCHANGED <<log, running, channel, asked, deltas, calls, boots>>

------------------------------------------------------------------------------
(* TurnManager.Create and createSessionTurn *)

\* Fault: a turn that awaits an approval does not count.
CheckActive(c) ==
  /\ At(c, "idle")
  /\ ~\E t \in Turns : Status(t) = "active"
  /\ \E t \in Turns :
       /\ EventsOf(t) = {}
       /\ \A w \in Workers : ~Holds(w, t)
       /\ work' = [work EXCEPT ![c] =
                     [Idle EXCEPT !.pc = "chosen", !.turn = t, !.kind = "started"]]
  /\ UNCHANGED <<log, running, channel, asked, deltas, calls, boots>>

\* No mutable turn is found.  Otherwise the request is refused.
Check(c) ==
  /\ At(c, "idle")
  /\ ~\E t \in Turns : Mutable(t)
  /\ \E t \in Turns :
       /\ EventsOf(t) = {}
       /\ \A w \in Workers : ~Holds(w, t)
       /\ work' = [work EXCEPT ![c] =
                     [Idle EXCEPT !.pc = "chosen", !.turn = t, !.kind = "started"]]
  /\ UNCHANGED <<log, running, channel, asked, deltas, calls, boots>>

\* turn_started is stored and the agent is started, unless there is no runner or
\* the session can no longer be read.
Create(c) ==
  /\ At(c, "stamped")
  /\ Stored(c)
  /\ Return(c)
  /\ \/ running' = running \cup {work[c].turn}
     \/ (~HasRunner \/ StoreMayFail) /\ UNCHANGED running
  /\ UNCHANGED <<channel, asked, deltas, calls, boots>>

\* The client of a request disconnects, or the store answers with an error,
\* and nothing is appended.  Agents do not depend on a client.
GiveUp(w) ==
  /\ StoreMayFail
  /\ w \in Creators \cup Handlers
  /\ ~At(w, "idle")
  /\ Return(w)
  /\ UNCHANGED <<log, running, channel, asked, deltas, calls, boots>>

------------------------------------------------------------------------------
(* The agent of a turn: Runner.loop, and runAgentTurn which stores its events *)

EmitAll(t, kinds) == channel' = [channel EXCEPT ![t] = @ \o kinds]

EmitDelta(t) ==
  /\ t \in running
  /\ deltas[t] < MaxDeltas
  /\ deltas' = [deltas EXCEPT ![t] = @ + 1]
  /\ EmitAll(t, <<"other">>)
  /\ UNCHANGED <<log, work, running, asked, calls, boots>>

\* Fault: the agent goes on after it has reported the end of the turn.
FinishEarly(t) ==
  /\ t \in running
  /\ channel[t] = <<>> /\ At(t, "idle")
  /\ \E k \in {"completed", "failed"} : EmitAll(t, <<k>>)
  /\ UNCHANGED <<log, work, running, asked, deltas, calls, boots>>

\* The model is done, or the turn fails, times out or hits a limit.
Finish(t) ==
  /\ t \in running
  /\ running' = running \ {t}
  /\ \E k \in {"completed", "failed"} : EmitAll(t, <<k>>)
  /\ UNCHANGED <<log, work, asked, deltas, calls, boots>>

\* Fault: the turn is not completed when the agent asks for an approval.
AskAndPause(t) ==
  /\ t \in running
  /\ running' = running \ {t}
  /\ asked' = asked \cup {t}
  /\ EmitAll(t, <<"other", "awaiting">>)
  /\ UNCHANGED <<log, work, deltas, calls, boots>>

\* A tool call needs an approval: the runner emits awaiting_approval and
\* turn_completed, or turn_failed when the proposal could not be stored.
Ask(t) ==
  /\ t \in running
  /\ running' = running \ {t}
  /\ asked' = asked \cup {t}
  /\ \/ EmitAll(t, <<"other", "awaiting", "completed">>)
     \/ StoreMayFail /\ EmitAll(t, <<"failed">>)
  /\ UNCHANGED <<log, work, deltas, calls, boots>>

\* runAgentTurn takes the next event: it is stamped and appended as it is, for
\* its own turn, and awaiting_approval is reported as a change of status besides.
Take(t) ==
  /\ At(t, "idle")
  /\ channel[t] # <<>>
  /\ channel' = [channel EXCEPT ![t] = Tail(@)]
  /\ LET kind == Head(channel[t])
     IN IF kind = "awaiting"
        THEN Report(t, kind)
        ELSE work' = [work EXCEPT ![t] =
               [pc |-> "stamped", turn |-> t, kind |-> kind, at |-> Now]]
  /\ UNCHANGED <<log, running, asked, deltas, calls, boots>>

------------------------------------------------------------------------------
(* Tool and approval requests of clients *)

\* handleToolExecute, or a decision on an approval it proposed.
CallTool(h, kind) ==
  /\ At(h, "idle")
  /\ calls < MaxCalls
  /\ calls' = calls + 1
  /\ Report(h, kind)
  /\ UNCHANGED <<log, running, channel, asked, deltas, boots>>

\* handleApprovalByID, on the approval an agent asked for.
DecideAsked(h, t, kind) ==
  /\ At(h, "idle")
  /\ t \in asked
  /\ asked' = asked \ {t}
  /\ Report(h, kind)
  /\ UNCHANGED <<log, running, channel, deltas, calls, boots>>

\* An approval that expires says nothing to its turn.
ExpireAsked(t) ==
  /\ t \in asked
  /\ asked' = asked \ {t}
  /\ UNCHANGED <<log, work, running, channel, deltas, calls, boots>>

\* Goroutines and channels are lost, and no turn is ended on the next start.
\* Approvals that the next start does not rebuild expire, see ExpireAsked.
Restart ==
  /\ boots < MaxBoots
  /\ boots' = boots + 1
  /\ work' = [w \in Workers |-> Idle]
  /\ running' = {}
  /\ channel' = [t \in Turns |-> <<>>]
  /\ UNCHANGED <<log, asked, deltas, calls>>

------------------------------------------------------------------------------
AgentStep(t) == EmitDelta(t) \/ Finish(t) \/ Ask(t) \/ Take(t)

HandlerStep(h) ==
  \/ \E kind \in {"awaiting"} \cup Terminal : CallTool(h, kind)
  \/ \E t \in Turns, kind \in Terminal : DecideAsked(h, t, kind)

WriteStep(w) == Stamp(w) \/ AppendEvent(w) \/ Resolve(w)

Next ==
  \/ \E c \in Creators : Check(c) \/ Create(c)
  \/ \E t \in Turns : AgentStep(t) \/ ExpireAsked(t)
  \/ \E h \in Handlers : HandlerStep(h)
  \/ \E w \in Workers : WriteStep(w) \/ GiveUp(w)
  \/ Restart

Spec == Init /\ [][Next]_vars

\* Started goroutines are scheduled; a turn's agent stops at its time limit.
Progress ==
  /\ \A c \in Creators : WF_vars(Create(c))
  /\ \A w \in Workers : WF_vars(WriteStep(w))
  /\ \A t \in Turns : WF_vars(Take(t)) /\ WF_vars(Finish(t) \/ Ask(t))

FairSpec == Spec /\ Progress

------------------------------------------------------------------------------
(* Properties *)

WorkState == [pc: {"idle", "reporting", "chosen", "stamped"},
              turn: Turns \cup {NoTurn}, kind: Kind, at: Nat]

\* Every variable has its type; a worker about to append knows its turn.
TypeOK ==
  /\ log \subseteq [at: Nat, turn: Turns, kind: Kind]
  /\ work \in [Workers -> WorkState]
  /\ \A w \in Workers : work[w].pc \in {"chosen", "stamped"} => work[w].turn \in Turns
  /\ running \subseteq Turns
  /\ channel \in [Turns -> Seq(Kind \ {"started"})]
  /\ asked \subseteq Turns
  /\ deltas \in [Turns -> 0..MaxDeltas]
  /\ calls \in 0..MaxCalls
  /\ boots \in 0..MaxBoots

\* A session has at most one turn that may still change it, whatever outcomes
\* agents, operators and tool calls report meanwhile and after any crash: the
\* check of TurnManager.Create and its append cannot be fooled by others.
OneMutableTurn == \A t, u \in Turns : Mutable(t) /\ Mutable(u) => t = u

(***************************************************************************)
(* Why one creator at a time is enough: while it is between its check and  *)
(* its append nobody else starts a turn, and nobody reopens one.           *)
(***************************************************************************)
OnlyCreatorsStart ==
  \A w \in Workers \ Creators : work[w].kind # "started"

CreatorsCheckFirst ==
  \A c \in Creators : ~At(c, "idle") =>
    /\ work[c].pc \in {"chosen", "stamped"}
    /\ work[c].kind = "started"
    /\ \A t \in Turns : ~Mutable(t)

ReportsAfterStart ==
  /\ \A w \in Workers \ Creators :
       work[w].pc \in {"chosen", "stamped"} => Started(work[w].turn)
  /\ \A t \in Turns : t \in running \/ channel[t] # <<>> => Started(t)

OneTurnInv ==
  OnlyCreatorsStart /\ CreatorsCheckFirst /\ ReportsAfterStart /\ OneMutableTurn

(***************************************************************************)
(* An agent starts on a turn that it may change, and as long as it runs    *)
(* only the report of a client's request can end that turn under it, by    *)
(* finding it active when it meant another (appendTurnLifecycleEvent): no  *)
(* other agent, nor what this one emitted, and no creator does.  So two    *)
(* agents work in one session only after such a report.                    *)
(***************************************************************************)
AgentKeepsItsTurn ==
  [][ \A t \in running' : ~Mutable(t)' =>
        /\ t \in running
        /\ ~Mutable(t) \/ \E h \in Handlers : AppendEvent(h) /\ work[h].turn = t ]_vars

(***************************************************************************)
(* Why that is so, with any number of creators and handlers: each creator  *)
(* has a fresh turn of its own in hand, everybody else a turn that has     *)
(* started, and an agent's outcome is emitted as it stops.                 *)
(***************************************************************************)
WorkFits(w, q) ==
  /\ w \in Creators => \/ q.pc = "idle"
                       \/ q.pc \in {"chosen", "stamped"} /\ q.kind = "started" /\ EventsOf(q.turn) = {}
  /\ w \notin Creators => (q.pc \in {"chosen", "stamped"} => Started(q.turn))
  /\ w \in Turns /\ q.kind \in Terminal => q.pc = "stamped" /\ q.turn = w /\ w \notin running

CreatorsDiffer ==
  \A c, d \in Creators : c # d /\ ~At(c, "idle") /\ ~At(d, "idle") => work[c].turn # work[d].turn

OutcomeAfterStop ==
  \A t \in Turns : \A i \in DOMAIN channel[t] : channel[t][i] \in Terminal => t \notin running

AgentInv ==
  /\ \A w \in Workers : WorkFits(w, work[w])
  /\ CreatorsDiffer
  /\ OutcomeAfterStop
  /\ \A t \in Turns : channel[t] # <<>> => Started(t)
  /\ running \subseteq Turns /\ \A t \in running : Started(t)

\* A turn that has an agent ends, so that the session accepts another one;
\* an approval that is never decided does not keep it open.
TurnsEnd == \A t \in Turns : Started(t) ~> Ended(t)

(* A statement of the documents that the code does not keep (see README) *)

\* docs/explanation/architecture.md: nothing follows completed, failed and
\* cancelled in the life of a turn.
TerminalTurnIsFinal ==
  [][ \A t \in Turns : Status(t) \in Terminal => Status(t)' = Status(t) ]_vars
==============================================================================
