------------------------- MODULE TurnLifecycleProofs -------------------------
(* What holds of TurnLifecycle for every value of its constants. *)
EXTENDS MCTurnLifecycle, FiniteSetTheorems, SequenceTheorems, TLAPS

(***************************************************************************)
(* What the proof needs of the types: where a worker is and what it will   *)
(* write.  Timestamps do not matter to it.                                 *)
(***************************************************************************)
Fields == {"pc", "turn", "kind", "at"}

WorkOK ==
  /\ DOMAIN work = Workers
  /\ \A w \in Workers : DOMAIN work[w] = Fields
  /\ \A w \in Workers : work[w].pc \in {"chosen", "stamped"} => work[w].turn \in Turns

Inv == WorkOK /\ OneTurnInv

\* What reading says after an event for a turn that has started was stored.
LEMMA OtherStored ==
  ASSUME NEW e, e.kind # "started", Started(e.turn), log' = log \cup {e}
  PROVE  \A t : (Mutable(t)' => Mutable(t)) /\ (Started(t) => Started(t)')
<1> SUFFICES ASSUME NEW t
             PROVE  (Mutable(t)' => Mutable(t)) /\ (Started(t) => Started(t)')
  OBVIOUS
<1>1. Started(t) => Started(t)'
  BY DEF Started, EventsOf
<1>2. ASSUME Mutable(t)'
      PROVE  Mutable(t)
  <2>1. ~Ended(t)
    BY <1>2 DEF Mutable, Ended, EventsOf
  <2>2. PICK f \in log' : f.turn = t /\ f.kind \in {"started", "awaiting"}
    BY <1>2 DEF Mutable, EventsOf
  <2>3. CASE f \in log
    BY <2>1, <2>2, <2>3 DEF Mutable, EventsOf
  <2>4. CASE f = e
    BY <2>1, <2>2, <2>4 DEF Mutable, Started, EventsOf
  <2> QED BY <2>2, <2>3, <2>4
<1> QED BY <1>1, <1>2

\* Storing turn_started can make that turn mutable and no other.
LEMMA StartStored ==
  ASSUME NEW e, log' = log \cup {e}
  PROVE  \A t : /\ Mutable(t)' => Mutable(t) \/ t = e.turn
                /\ Started(t) => Started(t)'
                /\ e.kind = "started" => Started(e.turn)'
<1> SUFFICES ASSUME NEW t
             PROVE  /\ Mutable(t)' => Mutable(t) \/ t = e.turn
                    /\ Started(t) => Started(t)'
                    /\ e.kind = "started" => Started(e.turn)'
  OBVIOUS
<1>1. Mutable(t)' => Mutable(t) \/ t = e.turn
  BY DEF Mutable, Ended, EventsOf
<1>2. Started(t) => Started(t)'
  BY DEF Started, EventsOf
<1>3. e.kind = "started" => Started(e.turn)'
  BY DEF Started, EventsOf
<1> QED BY <1>1, <1>2, <1>3

\* As long as no event is stored, every reader sees the same.
LEMMA SameLog ==
  ASSUME UNCHANGED log
  PROVE  \A t : /\ Mutable(t)' = Mutable(t)
                /\ Started(t)' = Started(t)
                /\ Status(t)' = Status(t)
  BY DEF Mutable, Started, Ended, Status, EventsOf

\* The kinds of goroutine are disjoint.
LEMMA Disjoint ==
  /\ \A t \in Turns : t \in Workers /\ t \notin Creators /\ t \notin Handlers
  /\ \A c \in Creators : c \in Workers /\ c \notin Handlers
  /\ \A h \in Handlers : h \in Workers
  BY ConstantsAssumption DEF Workers

\* A turn that is active for the API has started.
LEMMA ActiveStarted == \A t \in Active : t \in Turns /\ Started(t)
<1> SUFFICES ASSUME NEW t \in Active PROVE t \in Turns /\ Started(t)
  OBVIOUS
<1>1. t \in Turns /\ Status(t) \in {"active", "awaiting"}
  BY DEF Active
<1>2. Status(t) = "none" => FALSE
  BY <1>1
<1> QED BY <1>1, <1>2 DEF Status

\* A step of one goroutine that stores nothing.
LEMMA QuietStep ==
  ASSUME Inv, UNCHANGED log, NEW w \in Workers \ Creators, NEW q,
         work' = [work EXCEPT ![w] = q], DOMAIN q = Fields, q.kind # "started",
         q.pc \in {"chosen", "stamped"} => q.turn \in Turns /\ Started(q.turn),
         \A t \in Turns : t \in running' \/ channel'[t] # <<>> => Started(t)
  PROVE  Inv'
<1>1. work'[w] = q /\ \A v \in Workers \ {w} : work'[v] = work[v]
  BY DEF Inv, WorkOK
<1>2. WorkOK'
  BY <1>1 DEF Inv, WorkOK
<1>3. OnlyCreatorsStart'
  BY <1>1 DEF Inv, OneTurnInv, OnlyCreatorsStart
<1>4. CreatorsCheckFirst'
  BY <1>1, SameLog, Disjoint DEF Inv, OneTurnInv, CreatorsCheckFirst, At
<1>5. ReportsAfterStart'
  BY <1>1, SameLog DEF Inv, OneTurnInv, ReportsAfterStart
<1>6. OneMutableTurn'
  BY SameLog DEF Inv, OneTurnInv, OneMutableTurn
<1> QED BY <1>2, <1>3, <1>4, <1>5, <1>6 DEF Inv, OneTurnInv

\* A creator that gives up stores nothing.
LEMMA CreatorReturns ==
  ASSUME Inv, UNCHANGED <<log, running, channel>>, NEW c \in Creators, Return(c)
  PROVE  Inv'
<1>1. work'[c] = Idle /\ \A v \in Workers \ {c} : work'[v] = work[v]
  BY Disjoint DEF Inv, WorkOK, Return
<1>2. WorkOK'
  BY <1>1 DEF Inv, WorkOK, Return, Idle, Fields
<1>3. OnlyCreatorsStart'
  BY <1>1 DEF Inv, OneTurnInv, OnlyCreatorsStart
<1>4. CreatorsCheckFirst'
  BY <1>1, SameLog, Disjoint DEF Inv, OneTurnInv, CreatorsCheckFirst, At, Idle
<1>5. ReportsAfterStart'
  BY <1>1, SameLog DEF Inv, OneTurnInv, ReportsAfterStart
<1>6. OneMutableTurn'
  BY SameLog DEF Inv, OneTurnInv, OneMutableTurn
<1> QED BY <1>2, <1>3, <1>4, <1>5, <1>6 DEF Inv, OneTurnInv

\* A creator that checked, or took its timestamp, still finds no mutable turn.
LEMMA CreatorMoves ==
  ASSUME Inv, UNCHANGED <<log, running, channel>>, NEW c \in Creators, NEW q,
         work' = [work EXCEPT ![c] = q], DOMAIN q = Fields, q.kind = "started",
         q.pc \in {"chosen", "stamped"}, q.turn \in Turns,
         \A t \in Turns : ~Mutable(t)
  PROVE  Inv'
<1>1. work'[c] = q /\ \A v \in Workers \ {c} : work'[v] = work[v]
  BY Disjoint DEF Inv, WorkOK
<1>2. WorkOK'
  BY <1>1 DEF Inv, WorkOK
<1>3. OnlyCreatorsStart'
  BY <1>1 DEF Inv, OneTurnInv, OnlyCreatorsStart
<1>4. CreatorsCheckFirst'
  BY <1>1, SameLog, Disjoint DEF Inv, OneTurnInv, CreatorsCheckFirst, At
<1>5. ReportsAfterStart'
  BY <1>1, SameLog DEF Inv, OneTurnInv, ReportsAfterStart
<1>6. OneMutableTurn'
  BY SameLog DEF Inv, OneTurnInv, OneMutableTurn
<1> QED BY <1>2, <1>3, <1>4, <1>5, <1>6 DEF Inv, OneTurnInv

\* A creator goes on only when it found no mutable turn.
LEMMA CheckOne ==
  ASSUME Inv, NEW c \in Creators, Check(c)
  PROVE  Inv'
<1>1. PICK t \in Turns :
        work' = [work EXCEPT ![c] =
                   [Idle EXCEPT !.pc = "chosen", !.turn = t, !.kind = "started"]]
  BY DEF Check
<1> DEFINE q == [Idle EXCEPT !.pc = "chosen", !.turn = t, !.kind = "started"]
<1>2. DOMAIN q = Fields /\ q.pc = "chosen" /\ q.turn = t /\ q.kind = "started"
  BY DEF Idle, Fields
<1>3. work' = [work EXCEPT ![c] = q]
  BY <1>1
<1> HIDE DEF q
<1> QED BY <1>2, <1>3, CreatorMoves DEF Check

\* Taking a timestamp changes nothing of what a goroutine will write.
LEMMA StampOne ==
  ASSUME Inv, NEW w \in Workers, Stamp(w)
  PROVE  Inv'
<1> DEFINE q == [work[w] EXCEPT !.pc = "stamped", !.at = Now]
<1>1. /\ DOMAIN q = Fields /\ q.pc = "stamped"
      /\ q.turn = work[w].turn /\ q.kind = work[w].kind
  BY DEF Inv, WorkOK, Fields
<1>2. work' = [work EXCEPT ![w] = q]
  BY DEF Stamp, Inv, WorkOK
<1>3. work[w].turn \in Turns /\ work[w].pc = "chosen"
  BY DEF Stamp, At, Inv, WorkOK
<1> HIDE DEF q
<1>4. CASE w \in Creators
  <2>1. work[w].kind = "started" /\ \A t \in Turns : ~Mutable(t)
    BY <1>3, <1>4 DEF Inv, OneTurnInv, CreatorsCheckFirst, At
  <2> QED BY <1>1, <1>2, <1>3, <1>4, <2>1, CreatorMoves DEF Stamp
<1>5. CASE w \notin Creators
  <2>1. work[w].kind # "started" /\ Started(work[w].turn)
    BY <1>3, <1>5 DEF Inv, OneTurnInv, OnlyCreatorsStart, ReportsAfterStart
  <2>2. \A t \in Turns : t \in running' \/ channel'[t] # <<>> => Started(t)
    BY DEF Stamp, Inv, OneTurnInv, ReportsAfterStart
  <2> QED BY <1>1, <1>2, <1>3, <1>5, <2>1, <2>2, QuietStep DEF Stamp
<1> QED BY <1>4, <1>5

\* A goroutine that is not a creator returns to idle, its event stored or not.
LEMMA AppendOne ==
  ASSUME Inv, NEW w \in Workers, AppendEvent(w)
  PROVE  Inv'
<1>1. /\ w \notin Creators /\ Return(w) /\ work[w].pc = "stamped"
      /\ UNCHANGED <<running, channel>>
  BY DEF AppendEvent, At
<1>2. work[w].kind # "started" /\ Started(work[w].turn)
  BY <1>1 DEF Inv, OneTurnInv, OnlyCreatorsStart, ReportsAfterStart
<1>3. \A t : (Mutable(t)' => Mutable(t)) /\ (Started(t) => Started(t)')
  <2>1. CASE UNCHANGED log
    BY <2>1, SameLog
  <2>2. CASE Stored(w)
    <3> DEFINE e == [at |-> work[w].at, turn |-> work[w].turn, kind |-> work[w].kind]
    <3>1. e.kind # "started" /\ Started(e.turn) /\ log' = log \cup {e}
      BY <1>2, <2>2 DEF Stored
    <3> HIDE DEF e
    <3> QED BY <3>1, OtherStored
  <2> QED BY <2>1, <2>2 DEF AppendEvent
<1>4. work'[w] = Idle /\ \A v \in Workers \ {w} : work'[v] = work[v]
  BY <1>1 DEF Inv, WorkOK, Return
<1>5. WorkOK'
  BY <1>1, <1>4 DEF Inv, WorkOK, Return, Idle, Fields
<1>6. OnlyCreatorsStart'
  BY <1>4 DEF Inv, OneTurnInv, OnlyCreatorsStart, Idle
<1>7. CreatorsCheckFirst'
  BY <1>1, <1>3, <1>4, Disjoint DEF Inv, OneTurnInv, CreatorsCheckFirst, At
<1>8. ReportsAfterStart'
  BY <1>1, <1>3, <1>4 DEF Inv, OneTurnInv, ReportsAfterStart, Idle
<1>9. OneMutableTurn'
  BY <1>3 DEF Inv, OneTurnInv, OneMutableTurn
<1> QED BY <1>5, <1>6, <1>7, <1>8, <1>9 DEF Inv, OneTurnInv

\* A report goes to a turn that has started, or nowhere.
LEMMA ResolveOne ==
  ASSUME Inv, NEW w \in Workers, Resolve(w)
  PROVE  Inv'
<1>1. w \notin Creators
  BY DEF Resolve, At, Inv, OneTurnInv, CreatorsCheckFirst
<1>2. work[w].kind # "started"
  BY <1>1 DEF Inv, OneTurnInv, OnlyCreatorsStart
<1>3. \A t \in Turns : t \in running' \/ channel'[t] # <<>> => Started(t)
  BY DEF Resolve, Inv, OneTurnInv, ReportsAfterStart
<1>4. CASE Return(w)
  <2>1. DOMAIN Idle = Fields /\ Idle.kind # "started" /\ Idle.pc = "idle"
    BY DEF Idle, Fields
  <2>2. work' = [work EXCEPT ![w] = Idle]
    BY <1>4 DEF Return
  <2> QED BY <1>1, <1>3, <2>1, <2>2, QuietStep DEF Resolve
<1>5. ASSUME NEW t \in Active,
             work' = [work EXCEPT ![w].pc = "chosen", ![w].turn = t]
      PROVE  Inv'
  <2> DEFINE q == [work[w] EXCEPT !.pc = "chosen", !.turn = t]
  <2>1. DOMAIN q = Fields /\ q.kind # "started" /\ q.turn = t
    BY <1>2 DEF Inv, WorkOK, Fields
  <2>2. work' = [work EXCEPT ![w] = q]
    BY <1>5 DEF Inv, WorkOK
  <2>3. t \in Turns /\ Started(t)
    BY ActiveStarted
  <2> HIDE DEF q
  <2> QED BY <1>1, <1>3, <2>1, <2>2, <2>3, QuietStep DEF Resolve
<1> QED BY <1>4, <1>5 DEF Resolve

(***************************************************************************)
(* The creator stores turn_started while no turn is mutable, and no other  *)
(* creator has checked meanwhile: there is none.                           *)
(***************************************************************************)
LEMMA CreateOne ==
  ASSUME \A c, d \in Creators : c = d, Inv, NEW c \in Creators, Create(c)
  PROVE  Inv'
<1>0. PICK u : u = work[c].turn
  OBVIOUS
<1> DEFINE e == [at |-> work[c].at, turn |-> u, kind |-> work[c].kind]
<1>1. /\ work[c].pc = "stamped" /\ work[c].kind = "started"
      /\ \A t \in Turns : ~Mutable(t)
  BY DEF Create, At, Inv, OneTurnInv, CreatorsCheckFirst
<1>2. e.kind = "started" /\ e.turn = u /\ log' = log \cup {e}
  BY <1>0, <1>1 DEF Create, Stored
<1> HIDE DEF e
<1>3. Started(u)' /\ \A t : /\ Mutable(t)' => Mutable(t) \/ t = u
                            /\ Started(t) => Started(t)'
  <2>1. \A t : /\ Mutable(t)' => Mutable(t) \/ t = e.turn
               /\ Started(t) => Started(t)'
    BY <1>2, StartStored
  <2>2. Started(u)'
    BY <1>2 DEF Started, EventsOf
  <2> QED BY <1>2, <2>1, <2>2
<1>4. work'[c] = Idle /\ \A v \in Workers \ {c} : work'[v] = work[v]
  BY Disjoint DEF Inv, WorkOK, Create, Return
<1>5. WorkOK'
  BY <1>4 DEF Inv, WorkOK, Create, Return, Idle, Fields
<1>6. OnlyCreatorsStart'
  BY <1>4 DEF Inv, OneTurnInv, OnlyCreatorsStart
<1>7. CreatorsCheckFirst'
  BY <1>4 DEF CreatorsCheckFirst, At, Idle
<1>8. ReportsAfterStart'
  <2>1. \A w \in Workers \ Creators :
          work'[w].pc \in {"chosen", "stamped"} => Started(work[w].turn) /\ work'[w] = work[w]
    BY <1>4 DEF Inv, OneTurnInv, ReportsAfterStart
  <2>2. ASSUME NEW w \in Workers \ Creators, work'[w].pc \in {"chosen", "stamped"}
        PROVE  Started(work[w].turn)'
    <3>1. PICK x : x = work[w].turn
      OBVIOUS
    <3>2. Started(x)' /\ work'[w].turn = x
      BY <1>3, <2>1, <2>2, <3>1
    <3> QED BY <3>2 DEF Started, EventsOf
  <2>3. ASSUME NEW t \in Turns, t \in running' \/ channel'[t] # <<>>
        PROVE  Started(t)'
    <3>1. t = u \/ t \in running \/ channel[t] # <<>>
      BY <1>0, <2>3 DEF Create
    <3> QED BY <1>3, <3>1 DEF Inv, OneTurnInv, ReportsAfterStart
  <2> QED BY <2>2, <2>3 DEF ReportsAfterStart
<1>9. OneMutableTurn'
  BY <1>1, <1>3 DEF OneMutableTurn
<1> QED BY <1>5, <1>6, <1>7, <1>8, <1>9 DEF Inv, OneTurnInv

\* A step that stores nothing and moves no goroutine.
LEMMA SameReading ==
  ASSUME Inv, UNCHANGED <<log, work>>,
         \A t \in Turns : t \in running' \/ channel'[t] # <<>> => Started(t)
  PROVE  Inv'
<1>1. WorkOK'
  BY DEF Inv, WorkOK
<1>2. OnlyCreatorsStart'
  BY DEF Inv, OneTurnInv, OnlyCreatorsStart
<1>3. CreatorsCheckFirst'
  BY SameLog DEF Inv, OneTurnInv, CreatorsCheckFirst, At
<1>4. ReportsAfterStart'
  BY SameLog DEF Inv, OneTurnInv, ReportsAfterStart
<1>5. OneMutableTurn'
  BY SameLog DEF Inv, OneTurnInv, OneMutableTurn
<1> QED BY <1>1, <1>2, <1>3, <1>4, <1>5 DEF Inv, OneTurnInv

\* An agent that emits events, or stops, says nothing of other turns.
LEMMA AgentEmits ==
  ASSUME Inv, UNCHANGED <<log, work>>, NEW t \in Turns, t \in running,
         NEW kinds, EmitAll(t, kinds), running' \subseteq running
  PROVE  Inv'
<1>1. ASSUME NEW u \in Turns, u \in running' \/ channel'[u] # <<>>
      PROVE  Started(u)
  <2>1. u = t \/ u \in running \/ channel[u] # <<>>
    BY <1>1 DEF EmitAll
  <2> QED BY <2>1 DEF Inv, OneTurnInv, ReportsAfterStart
<1> QED BY <1>1, SameReading

\* Events wait in the channel of their turn, and no agent emits turn_started.
ChannelOK == channel \in [Turns -> Seq(Kind \ {"started"})]

\* No step puts turn_started into a channel.
LEMMA ChannelStep ==
  ASSUME ChannelOK, [Next]_vars
  PROVE  ChannelOK'
<1>1. ASSUME NEW t \in Turns, NEW kinds \in Seq(Kind \ {"started"}), EmitAll(t, kinds)
      PROVE  ChannelOK'
  BY <1>1 DEF ChannelOK, EmitAll
<1>2. /\ <<"other">> \in Seq(Kind \ {"started"})
      /\ <<"failed">> \in Seq(Kind \ {"started"})
      /\ <<"completed">> \in Seq(Kind \ {"started"})
      /\ <<"other", "awaiting", "completed">> \in Seq(Kind \ {"started"})
  BY DEF Kind, Terminal
<1>3. ASSUME NEW t \in Turns, AgentStep(t)
      PROVE  ChannelOK'
  <2>1. CASE EmitDelta(t)
    BY <1>1, <1>2, <2>1 DEF EmitDelta
  <2>2. CASE Finish(t)
    BY <1>1, <1>2, <2>2 DEF Finish
  <2>3. CASE Ask(t)
    BY <1>1, <1>2, <2>3 DEF Ask
  <2>4. CASE Take(t)
    BY <2>4 DEF ChannelOK, Take
  <2> QED BY <1>3, <2>1, <2>2, <2>3, <2>4 DEF AgentStep
<1>4. CASE Restart
  BY <1>4 DEF ChannelOK, Restart
<1>5. CASE UNCHANGED channel
  BY <1>5 DEF ChannelOK
<1>6. ASSUME NEW c \in Creators, Check(c) \/ Create(c)
      PROVE  UNCHANGED channel
  BY <1>6 DEF Check, Create
<1>7. ASSUME NEW t \in Turns, ExpireAsked(t)
      PROVE  UNCHANGED channel
  BY <1>7 DEF ExpireAsked
<1>8. ASSUME NEW h \in Handlers, HandlerStep(h)
      PROVE  UNCHANGED channel
  BY <1>8 DEF HandlerStep, CallTool, DecideAsked
<1>9. ASSUME NEW w \in Workers, WriteStep(w) \/ GiveUp(w)
      PROVE  UNCHANGED channel
  BY <1>9 DEF WriteStep, Stamp, AppendEvent, Resolve, GiveUp
<1> QED BY <1>3, <1>4, <1>5, <1>6, <1>7, <1>8, <1>9 DEF Next, vars

\* An event that is taken belongs to a turn that has started.
LEMMA TakeOne ==
  ASSUME Inv, ChannelOK, NEW t \in Turns, Take(t)
  PROVE  Inv'
<1> DEFINE kind == Head(channel[t])
<1>1. kind # "started" /\ Started(t)
  BY DEF Take, ChannelOK, Inv, OneTurnInv, ReportsAfterStart
<1>2. PICK q : /\ work' = [work EXCEPT ![t] = q]
               /\ DOMAIN q = Fields /\ q.kind = kind
               /\ q.pc = "reporting" \/ q.turn = t
               /\ q.pc \in {"reporting", "stamped"}
  <2>1. CASE kind = "awaiting"
    <3> DEFINE r == [Idle EXCEPT !.pc = "reporting", !.kind = kind]
    <3>1. DOMAIN r = Fields /\ r.kind = kind /\ r.pc = "reporting"
      BY DEF Idle, Fields
    <3>2. work' = [work EXCEPT ![t] = r]
      BY <2>1 DEF Take, Report
    <3> HIDE DEF r, kind
    <3> QED BY <3>1, <3>2
  <2>2. CASE kind # "awaiting"
    <3> DEFINE r == [pc |-> "stamped", turn |-> t, kind |-> kind, at |-> Now]
    <3>1. DOMAIN r = Fields /\ r.kind = kind /\ r.pc = "stamped" /\ r.turn = t
      BY DEF Fields
    <3>2. work' = [work EXCEPT ![t] = r]
      BY <2>2 DEF Take
    <3> HIDE DEF r, kind
    <3> QED BY <3>1, <3>2
  <2> QED BY <2>1, <2>2
<1>3. \A u \in Turns : u \in running' \/ channel'[u] # <<>> => Started(u)
  <2> SUFFICES ASSUME NEW u \in Turns, u \in running' \/ channel'[u] # <<>>
               PROVE  Started(u)
    OBVIOUS
  <2>1. u = t \/ u \in running \/ channel[u] # <<>>
    BY DEF Take
  <2> QED BY <1>1, <2>1 DEF Inv, OneTurnInv, ReportsAfterStart
<1> HIDE DEF kind
<1>4. q.kind # "started" /\ (q.pc \in {"chosen", "stamped"} => q.turn \in Turns /\ Started(q.turn))
  BY <1>1, <1>2
<1>5. t \in Workers \ Creators /\ UNCHANGED log
  BY Disjoint DEF Take
<1> QED BY <1>2, <1>3, <1>4, <1>5, QuietStep

\* A request that reports an outcome has not chosen a turn yet.
LEMMA ReportOne ==
  ASSUME Inv, NEW h \in Handlers, NEW kind \in Kind \ {"started"}, Report(h, kind),
         UNCHANGED <<log, running, channel>>
  PROVE  Inv'
<1> DEFINE q == [Idle EXCEPT !.pc = "reporting", !.kind = kind]
<1>1. DOMAIN q = Fields /\ q.kind # "started" /\ q.pc = "reporting"
  BY DEF Idle, Fields
<1>2. work' = [work EXCEPT ![h] = q]
  BY DEF Report
<1>3. \A t \in Turns : t \in running' \/ channel'[t] # <<>> => Started(t)
  BY DEF Inv, OneTurnInv, ReportsAfterStart
<1>4. h \in Workers \ Creators
  BY Disjoint
<1> HIDE DEF q
<1> QED BY <1>1, <1>2, <1>3, <1>4, QuietStep

\* A request that is given up stores nothing.
LEMMA GiveUpOne ==
  ASSUME Inv, NEW w \in Workers, GiveUp(w)
  PROVE  Inv'
<1>1. CASE w \in Creators
  BY <1>1, CreatorReturns DEF GiveUp
<1>2. CASE w \in Handlers
  <2>1. DOMAIN Idle = Fields /\ Idle.kind # "started" /\ Idle.pc = "idle"
    BY DEF Idle, Fields
  <2>2. \A t \in Turns : t \in running' \/ channel'[t] # <<>> => Started(t)
    BY DEF GiveUp, Inv, OneTurnInv, ReportsAfterStart
  <2>3. w \in Workers \ Creators
    BY <1>2, Disjoint
  <2> QED BY <2>1, <2>2, <2>3, QuietStep DEF GiveUp, Return
<1> QED BY <1>1, <1>2 DEF GiveUp

\* After a crash no goroutine is about to append.
LEMMA RestartOne ==
  ASSUME Inv, Restart
  PROVE  Inv'
<1>1. \A w \in Workers : work'[w] = Idle
  BY DEF Restart
<1>2. WorkOK'
  BY <1>1 DEF WorkOK, Restart, Idle, Fields
<1>3. OnlyCreatorsStart'
  BY <1>1 DEF OnlyCreatorsStart, Idle
<1>4. CreatorsCheckFirst'
  BY <1>1, Disjoint DEF CreatorsCheckFirst, At, Idle
<1>5. ReportsAfterStart'
  BY <1>1 DEF ReportsAfterStart, Restart, Idle
<1>6. OneMutableTurn'
  BY SameLog DEF Restart, Inv, OneTurnInv, OneMutableTurn
<1> QED BY <1>2, <1>3, <1>4, <1>5, <1>6 DEF Inv, OneTurnInv

\* Nothing is stored at first and everyone is idle.
LEMMA InitInv == Init => Inv /\ ChannelOK
<1> SUFFICES ASSUME Init PROVE Inv /\ ChannelOK
  OBVIOUS
<1>1. \A w \in Workers : work[w] = Idle
  BY DEF Init
<1>2. WorkOK
  BY <1>1 DEF WorkOK, Init, Idle, Fields
<1>3. OnlyCreatorsStart /\ CreatorsCheckFirst
  BY <1>1, Disjoint DEF OnlyCreatorsStart, CreatorsCheckFirst, At, Idle
<1>4. ReportsAfterStart
  BY <1>1 DEF ReportsAfterStart, Init, Idle
<1>5. OneMutableTurn
  BY DEF Init, OneMutableTurn, Mutable, EventsOf
<1>6. ChannelOK
  BY DEF Init, ChannelOK
<1> QED BY <1>2, <1>3, <1>4, <1>5, <1>6 DEF Inv, OneTurnInv

\* Every step of every goroutine keeps the invariant.
LEMMA StepInv ==
  ASSUME \A c, d \in Creators : c = d, Inv, ChannelOK, [Next]_vars
  PROVE  Inv'
<1>1. ASSUME NEW c \in Creators, Check(c) \/ Create(c)
      PROVE  Inv'
  BY <1>1, CheckOne, CreateOne
<1>2. ASSUME NEW t \in Turns, AgentStep(t)
      PROVE  Inv'
  <2>1. CASE EmitDelta(t)
    BY <2>1, AgentEmits DEF EmitDelta
  <2>2. CASE Finish(t)
    BY <2>2, AgentEmits DEF Finish
  <2>3. CASE Ask(t)
    BY <2>3, AgentEmits DEF Ask
  <2>4. CASE Take(t)
    BY <2>4, TakeOne
  <2> QED BY <1>2, <2>1, <2>2, <2>3, <2>4 DEF AgentStep
<1>3. ASSUME UNCHANGED <<log, work, running, channel>>
      PROVE  Inv'
  BY <1>3, SameReading DEF Inv, OneTurnInv, ReportsAfterStart
<1>4. ASSUME NEW t \in Turns, ExpireAsked(t)
      PROVE  Inv'
  BY <1>3, <1>4 DEF ExpireAsked
<1>5. ASSUME NEW h \in Handlers, HandlerStep(h)
      PROVE  Inv'
  <2>1. ASSUME NEW kind \in {"awaiting"} \cup Terminal, CallTool(h, kind)
        PROVE  Inv'
    BY <2>1, ReportOne DEF CallTool, Kind, Terminal
  <2>2. ASSUME NEW t \in Turns, NEW kind \in Terminal, DecideAsked(h, t, kind)
        PROVE  Inv'
    BY <2>2, ReportOne DEF DecideAsked, Kind, Terminal
  <2> QED BY <1>5, <2>1, <2>2 DEF HandlerStep
<1>6. ASSUME NEW w \in Workers, WriteStep(w) \/ GiveUp(w)
      PROVE  Inv'
  BY <1>6, StampOne, AppendOne, ResolveOne, GiveUpOne DEF WriteStep
<1>7. CASE Restart
  BY <1>7, RestartOne
<1>8. CASE UNCHANGED vars
  BY <1>3, <1>8 DEF vars
<1> QED BY <1>1, <1>2, <1>4, <1>5, <1>6, <1>7, <1>8 DEF Next

(***************************************************************************)
(* With one creator at a time a session has at most one mutable turn, for  *)
(* any number of turns, handlers and restarts, and whatever is reported    *)
(* between the check of TurnManager.Create and its append.                 *)
(***************************************************************************)
THEOREM OneTurn ==
  ASSUME \A c, d \in Creators : c = d
  PROVE  Spec => []OneMutableTurn
<1>1. Init => Inv /\ ChannelOK
  BY InitInv
<1>2. Inv /\ ChannelOK /\ [Next]_vars => (Inv /\ ChannelOK)'
  BY StepInv, ChannelStep
<1>3. Inv => OneMutableTurn
  BY DEF Inv, OneTurnInv
<1> QED BY <1>1, <1>2, <1>3, PTL DEF Spec

------------------------------------------------------------------------------
(* The loops of the code.  Every event has a timestamp of its own, so that *)
(* a query returns the events in one order, and going through them one by  *)
(* one finds for each turn what TurnLifecycle says of it.                  *)

\* The timestamps in use.
Times == {e.at : e \in log} \cup {work[w].at : w \in Workers}

\* What Now needs: the timestamps have a greatest.
TimesOK == Times \subseteq Nat /\ \E n \in Nat : \A m \in Times : m <= n

WorkerOK(q) == q \in WorkState /\ (q.pc \in {"chosen", "stamped"} => q.turn \in Turns)

\* No two events carry one timestamp, and none that is about to be appended.
OwnTimes ==
  /\ \A e, f \in log : e.at = f.at => e = f
  /\ \A w \in Workers : At(w, "stamped") =>
       /\ \A e \in log : e.at # work[w].at
       /\ \A v \in Workers \ {w} : At(v, "stamped") => work[v].at # work[w].at

LogInv ==
  /\ log \subseteq [at : Nat, turn : Turns, kind : Kind] /\ IsFiniteSet(log)
  /\ work = [w \in Workers |-> work[w]] /\ \A w \in Workers : WorkerOK(work[w])
  /\ TimesOK /\ OwnTimes

Tests == INSTANCE SequenceFacts WITH Op <- LAMBDA p, states, e : Loops!hasActiveStep(states, e)
Lists == INSTANCE SequenceFacts WITH Op <- LAMBDA p, statuses, e : Loops!deriveStep(statuses, e)

\* The clock gives a later time than any in use.
LEMMA NowIs ==
  ASSUME TimesOK, Times # {}
  PROVE  Now \in Nat /\ \A m \in Times : m < Now
<1>1. PICK n \in Nat : \A m \in Times : m <= n
  BY DEF TimesOK
<1> DEFINE Gaps == {d \in 0..n : n - d \in Times}
<1>2. Times \subseteq Nat
  BY DEF TimesOK
<1>3. Gaps \in SUBSET Nat /\ Gaps # {}
  <2>1. PICK m \in Times : TRUE
    OBVIOUS
  <2>2. m \in Nat /\ m <= n
    BY <1>1, <1>2
  <2>3. n - m \in 0..n /\ n - (n - m) = m
    BY <2>2
  <2> QED BY <2>1, <2>3
<1>4. PICK d \in Gaps : \A g \in Gaps : d <= g
  <2> HIDE DEF Gaps
  <2> QED BY <1>3, Tests!Least
<1>5. n - d \in Times /\ \A m \in Times : m <= n - d
  <2>1. d \in 0..n /\ n - d \in Times
    OBVIOUS
  <2>2. ASSUME NEW m \in Times PROVE m <= n - d
    <3>1. m \in Nat /\ m <= n
      BY <1>1, <1>2
    <3>2. n - m \in 0..n /\ n - (n - m) = m
      BY <3>1
    <3>3. n - m \in Gaps
      BY <3>2
    <3>4. d <= n - m
      BY <1>4, <3>3
    <3> QED BY <2>1, <3>1, <3>4
  <2> QED BY <2>1, <2>2
<1>6. PICK top : top = CHOOSE x \in Times : \A m \in Times : m <= x
  OBVIOUS
<1>7. top \in Times /\ \A m \in Times : m <= top
  BY <1>5, <1>6
<1>8. Now = 1 + top
  BY <1>6 DEF Now, Times
<1> HIDE DEF Gaps
<1>9. top \in Nat
  BY <1>2, <1>7
<1> QED BY <1>2, <1>7, <1>8, <1>9

\* One goroutine goes on without storing anything; a timestamp it takes is new.
LEMMA WorkMoves ==
  ASSUME LogInv, UNCHANGED log, NEW w \in Workers, NEW q, work' = [work EXCEPT ![w] = q], WorkerOK(q),
         q.pc = "stamped" => \A m \in Times : m # q.at
  PROVE  LogInv'
<1>1. work'[w] = q /\ (\A v \in Workers \ {w} : work'[v] = work[v]) /\ work' = [v \in Workers |-> work'[v]]
  BY DEF LogInv
<1>2. /\ log' \subseteq [at : Nat, turn : Turns, kind : Kind] /\ IsFiniteSet(log')
      /\ work' = [v \in Workers |-> work'[v]] /\ \A v \in Workers : WorkerOK(work'[v])
  BY <1>1 DEF LogInv
<1>3. \A m \in Times' : m \in Times \/ m = q.at
  BY <1>1 DEF Times
<1>4. TimesOK'
  <2>1. q.at \in Nat /\ Times \subseteq Nat
    BY DEF WorkerOK, WorkState, LogInv, TimesOK
  <2>2. PICK n \in Nat : \A m \in Times : m <= n
    BY DEF LogInv, TimesOK
  <2>3. PICK k \in Nat : k >= n /\ k >= q.at
    BY <2>1
  <2>4. ASSUME NEW m \in Times' PROVE m \in Nat /\ m <= k
    <3>1. m \in Times \/ m = q.at
      BY <1>3
    <3>2. CASE m \in Times
      <4>1. m \in Nat /\ m <= n
        BY <2>1, <2>2, <3>2
      <4> QED BY <2>3, <4>1
    <3>3. CASE m = q.at
      BY <2>1, <2>3, <3>3
    <3> QED BY <3>1, <3>2, <3>3
  <2> QED BY <2>4 DEF TimesOK
<1>5. OwnTimes'
  <2>1. /\ \A e \in log : e.at \in Times
        /\ \A v \in Workers : work[v].at \in Times
    BY DEF Times
  <2>2. q.pc = "stamped" => /\ \A e \in log : e.at # q.at
                            /\ \A v \in Workers : work[v].at # q.at
    BY <2>1
  <2> QED BY <1>1, <2>2 DEF LogInv, OwnTimes, At
<1> QED BY <1>2, <1>4, <1>5 DEF LogInv

\* A goroutine stores the event for which it took a timestamp.
LEMMA EventStored ==
  ASSUME LogInv, NEW w \in Workers, At(w, "stamped"), Stored(w), Return(w)
  PROVE  LogInv'
<1> DEFINE e == [at |-> work[w].at, turn |-> work[w].turn, kind |-> work[w].kind]
<1>1. /\ log' = log \cup {e} /\ e \in [at : Nat, turn : Turns, kind : Kind]
      /\ e.at = work[w].at
  BY DEF LogInv, WorkerOK, WorkState, Stored, At
<1> HIDE DEF e
<1>2. work'[w] = Idle /\ (\A v \in Workers \ {w} : work'[v] = work[v]) /\ work' = [v \in Workers |-> work'[v]]
  BY DEF LogInv, Return
<1>3. IsFiniteSet(log')
  BY <1>1, FS_AddElement DEF LogInv
<1>4. WorkerOK(Idle) /\ Idle.at = 0 /\ Idle.pc = "idle"
  BY DEF WorkerOK, WorkState, Idle, Fields, Kind
<1>5. \A v \in Workers : WorkerOK(work'[v])
  BY <1>2, <1>4 DEF LogInv
<1>6. \A m \in Times' : m \in Times \/ m = 0
  BY <1>1, <1>2, <1>4 DEF Times
<1>7. TimesOK'
  <2>1. PICK n \in Nat : \A m \in Times : m <= n
    BY DEF LogInv, TimesOK
  <2>2. ASSUME NEW m \in Times' PROVE m \in Nat /\ m <= n
    <3>1. m \in Times \/ m = 0
      BY <1>6
    <3>2. Times \subseteq Nat
      BY DEF LogInv, TimesOK
    <3>3. m \in Times => m \in Nat /\ m <= n
      BY <2>1, <3>2
    <3>4. 0 \in Nat /\ 0 <= n
      OBVIOUS
    <3> QED BY <3>1, <3>3, <3>4
  <2> QED BY <2>2 DEF TimesOK
<1>8. OwnTimes'
  <2>1. \A f \in log : f.at # e.at
    BY <1>1 DEF LogInv, OwnTimes
  <2>2. \A v \in Workers \ {w} : At(v, "stamped") => work[v].at # e.at
    BY <1>1 DEF LogInv, OwnTimes
  <2> QED BY <1>1, <1>2, <1>4, <2>1, <2>2 DEF LogInv, OwnTimes, At
<1> QED BY <1>1, <1>2, <1>3, <1>5, <1>7, <1>8 DEF LogInv

\* A goroutine returns, or has something to report, without a timestamp.
LEMMA Returns ==
  ASSUME LogInv, UNCHANGED log, NEW w \in Workers, Return(w)
  PROVE  LogInv'
<1>1. WorkerOK(Idle) /\ Idle.pc # "stamped"
  BY DEF WorkerOK, WorkState, Idle, Fields, Kind
<1> QED BY <1>1, WorkMoves DEF Return

LEMMA Reports ==
  ASSUME LogInv, UNCHANGED log, NEW w \in Workers, NEW kind \in Kind, Report(w, kind)
  PROVE  LogInv'
<1>1. PICK q : q = [Idle EXCEPT !.pc = "reporting", !.kind = kind]
  OBVIOUS
<1>2. WorkerOK(q) /\ q.pc # "stamped"
  BY <1>1 DEF WorkerOK, WorkState, Idle, Fields
<1>3. work' = [work EXCEPT ![w] = q]
  BY <1>1 DEF Report
<1> QED BY <1>2, <1>3, WorkMoves

LEMMA FreshTime ==
  ASSUME LogInv, NEW w \in Workers
  PROVE  Now \in Nat /\ \A m \in Times : m # Now
<1>1. work[w].at \in Times
  BY DEF Times
<1>2. TimesOK /\ Times # {}
  BY <1>1 DEF LogInv
<1>3. Now \in Nat /\ \A m \in Times : m < Now
  BY <1>2, NowIs
<1> QED BY <1>2, <1>3 DEF TimesOK

LEMMA NothingMoves ==
  ASSUME LogInv, UNCHANGED <<log, work>>
  PROVE  LogInv'
<1>1. Times' = Times
  BY DEF Times
<1>2. TimesOK'
  BY <1>1 DEF LogInv, TimesOK
<1>3. OwnTimes'
  BY DEF LogInv, OwnTimes, At
<1> QED BY <1>2, <1>3 DEF LogInv, WorkerOK, WorkState

\* One step of a goroutine that writes an event.
LEMMA WriterKeeps ==
  ASSUME LogInv, NEW w \in Workers, WriteStep(w) \/ GiveUp(w)
  PROVE  LogInv'
<1>1. WorkerOK(work[w]) /\ DOMAIN work = Workers
  BY DEF LogInv
<1>2. CASE Stamp(w)
  <2>1. PICK now : now = Now
    OBVIOUS
  <2>2. now \in Nat /\ \A m \in Times : m # now
    BY <2>1, FreshTime
  <2>3. PICK q : q = [work[w] EXCEPT !.pc = "stamped", !.at = now]
    OBVIOUS
  <2>4. WorkerOK(q) /\ q.at = now
    BY <1>1, <1>2, <2>2, <2>3 DEF WorkerOK, WorkState, Fields, Stamp, At
  <2>5. work' = [work EXCEPT ![w] = q] /\ UNCHANGED log
    BY <1>1, <1>2, <2>1, <2>3 DEF Stamp
  <2> QED BY <2>2, <2>4, <2>5, WorkMoves
<1>3. CASE AppendEvent(w)
  <2>1. At(w, "stamped") /\ Return(w) /\ (Stored(w) \/ UNCHANGED log)
    BY <1>3 DEF AppendEvent
  <2> QED BY <2>1, EventStored, Returns
<1>4. CASE Resolve(w)
  <2>1. UNCHANGED log
    BY <1>4 DEF Resolve
  <2>2. ASSUME NEW t \in Active, work' = [work EXCEPT ![w].pc = "chosen", ![w].turn = t]
        PROVE  LogInv'
    <3>1. PICK q : q = [work[w] EXCEPT !.pc = "chosen", !.turn = t]
      OBVIOUS
    <3>2. t \in Turns
      BY DEF Active
    <3>3. WorkerOK(q) /\ q.pc # "stamped"
      BY <1>1, <3>1, <3>2 DEF WorkerOK, WorkState, Fields
    <3>4. work' = [work EXCEPT ![w] = q]
      BY <1>1, <2>2, <3>1
    <3> QED BY <2>1, <3>3, <3>4, WorkMoves
  <2> QED BY <1>4, <2>1, <2>2, Returns DEF Resolve
<1>5. CASE GiveUp(w)
  BY <1>5, Returns DEF GiveUp
<1> QED BY <1>2, <1>3, <1>4, <1>5 DEF WriteStep

\* What runAgentTurn takes from the channel gets a new timestamp.
LEMMA TakeKeeps ==
  ASSUME LogInv, ChannelOK, NEW t \in Turns, Take(t)
  PROVE  LogInv'
<1>1. t \in Workers /\ UNCHANGED log
  BY DEF Workers, Take
<1>2. PICK kind : kind = Head(channel[t])
  OBVIOUS
<1>3. kind \in Kind
  <2>1. PICK s \in Seq(Kind \ {"started"}) : s = channel[t] /\ s # <<>>
    BY DEF ChannelOK, Take
  <2> QED BY <1>2, <2>1, HeadTailProperties
<1>4. CASE kind = "awaiting"
  <2>1. Report(t, kind)
    BY <1>2, <1>4 DEF Take
  <2> QED BY <1>1, <1>3, <2>1, Reports
<1>5. CASE kind # "awaiting"
  <2>1. PICK now : now = Now
    OBVIOUS
  <2>2. now \in Nat /\ \A m \in Times : m # now
    BY <1>1, <2>1, FreshTime
  <2>3. PICK q : q = [pc |-> "stamped", turn |-> t, kind |-> kind, at |-> now]
    OBVIOUS
  <2>4. WorkerOK(q) /\ q.at = now
    BY <1>3, <2>2, <2>3 DEF WorkerOK, WorkState, Fields
  <2>5. work' = [work EXCEPT ![t] = q]
    BY <1>2, <1>5, <2>1, <2>3 DEF Take
  <2> QED BY <1>1, <2>2, <2>4, <2>5, WorkMoves
<1> QED BY <1>4, <1>5

\* Every event that is stored has a timestamp of its own.
LEMMA LogStep ==
  ASSUME LogInv, ChannelOK, [Next]_vars
  PROVE  LogInv'
<1>1. ASSUME NEW c \in Creators, Check(c) \/ Create(c)
      PROVE  LogInv'
  <2>1. c \in Workers
    BY DEF Workers
  <2>2. CASE Create(c)
    BY <2>1, <2>2, EventStored DEF Create
  <2>3. CASE Check(c)
    <3>1. PICK t \in Turns : work' = [work EXCEPT ![c] =
                       [Idle EXCEPT !.pc = "chosen", !.turn = t, !.kind = "started"]]
      BY <2>3 DEF Check
    <3>2. PICK q : q = [Idle EXCEPT !.pc = "chosen", !.turn = t, !.kind = "started"]
      OBVIOUS
    <3>3. WorkerOK(q) /\ q.pc # "stamped"
      BY <3>2 DEF WorkerOK, WorkState, Idle, Fields, Kind
    <3>4. work' = [work EXCEPT ![c] = q] /\ UNCHANGED log
      BY <2>3, <3>1, <3>2 DEF Check
    <3> QED BY <2>1, <3>3, <3>4, WorkMoves
  <2> QED BY <1>1, <2>2, <2>3
<1>2. ASSUME NEW t \in Turns, AgentStep(t) \/ ExpireAsked(t)
      PROVE  LogInv'
  <2>1. CASE Take(t)
    BY <2>1, TakeKeeps
  <2>2. CASE EmitDelta(t) \/ Finish(t) \/ Ask(t) \/ ExpireAsked(t)
    BY <2>2, NothingMoves DEF EmitDelta, Finish, Ask, ExpireAsked
  <2> QED BY <1>2, <2>1, <2>2 DEF AgentStep
<1>3. ASSUME NEW h \in Handlers, HandlerStep(h)
      PROVE  LogInv'
  <2>1. \E kind \in Kind : Report(h, kind) /\ UNCHANGED log
    BY <1>3 DEF HandlerStep, CallTool, DecideAsked, Kind
  <2> QED BY <2>1, Reports DEF Workers
<1>4. CASE Restart
  <2>1. PICK q : q = Idle
    OBVIOUS
  <2>2. UNCHANGED log /\ work' = [w \in Workers |-> work'[w]] /\ \A w \in Workers : work'[w] = q
    BY <1>4, <2>1 DEF Restart
  <2>3. WorkerOK(q) /\ q.at = 0 /\ q.pc # "stamped"
    BY <2>1 DEF WorkerOK, WorkState, Idle, Fields, Kind
  <2>4. \A m \in Times' : m \in Times \/ m = 0
    BY <2>2, <2>3 DEF Times
  <2>5. TimesOK'
    <3>1. PICK n \in Nat : \A m \in Times : m <= n
      BY DEF LogInv, TimesOK
    <3>2. Times \subseteq Nat
      BY DEF LogInv, TimesOK
    <3>3. 0 \in Nat /\ 0 <= n
      OBVIOUS
    <3>4. \A m \in Times' : m \in Nat /\ m <= n
      BY <2>4, <3>1, <3>2, <3>3, Zenon
    <3> QED BY <3>4 DEF TimesOK
  <2>6. OwnTimes'
    BY <2>2, <2>3 DEF LogInv, OwnTimes, At
  <2> QED BY <2>2, <2>3, <2>5, <2>6 DEF LogInv
<1>5. ASSUME NEW w \in Workers, WriteStep(w) \/ GiveUp(w)
      PROVE  LogInv'
  BY <1>5, WriterKeeps
<1>6. CASE UNCHANGED vars
  BY <1>6, NothingMoves DEF vars
<1> QED BY <1>1, <1>2, <1>3, <1>4, <1>5, <1>6 DEF Next

LEMMA LogInit ==
  ASSUME Init
  PROVE  LogInv
<1>1. PICK q : q = Idle
  OBVIOUS
<1>2. log = {} /\ work = [w \in Workers |-> work[w]] /\ \A w \in Workers : work[w] = q
  BY <1>1 DEF Init
<1>3. WorkerOK(q) /\ q.at = 0 /\ q.pc # "stamped"
  BY <1>1 DEF WorkerOK, WorkState, Idle, Fields, Kind
<1>4. \A m \in Times : m = 0
  BY <1>2, <1>3 DEF Times
<1>5. TimesOK
  <2>1. 0 \in Nat /\ 0 <= 0
    OBVIOUS
  <2> QED BY <1>4, <2>1 DEF TimesOK
<1>6. OwnTimes
  BY <1>2, <1>3 DEF OwnTimes, At
<1>7. IsFiniteSet(log)
  BY <1>2, FS_EmptySet
<1> QED BY <1>2, <1>3, <1>5, <1>6, <1>7 DEF LogInv

(***************************************************************************)
(* What the loops of the code make of the events, one after another.  `o'  *)
(* is the sequence that a query returns, `n' its length.                   *)
(***************************************************************************)
Told(o, n) ==
  /\ n \in Nat /\ o \in [1..n -> [at : Nat, turn : Turns, kind : Kind]]
  /\ log = {o[i] : i \in 1..n}
  /\ \A i, j \in 1..n : i < j <=> o[i].at < o[j].at

Named(o, n) == {o[i].turn : i \in 1..n}
Says(o, i, t, kinds) == o[i].turn = t /\ o[i].kind \in kinds
Statuses == {"none", "active", "awaiting"} \cup Terminal

\* What hasActiveMutableTurn has after k events.
OpenAfter(o, k, t, status) ==
  /\ status \in Terminal <=> \E i \in 1..k : Says(o, i, t, Terminal)
  /\ status \in {"active", "awaiting"} <=>
       /\ \E i \in 1..k : Says(o, i, t, {"started", "awaiting"})
       /\ ~\E i \in 1..k : Says(o, i, t, Terminal)

OpenStates(o, n, k) ==
  {states \in [Named(o, n) -> Statuses] : \A t \in Named(o, n) : OpenAfter(o, k, t, states[t])}

LEMMA KindCases ==
  /\ \A x \in Kind : x \in Terminal \/ x = "started" \/ x = "awaiting" \/ x = "other"
  /\ "started" \notin Terminal /\ "awaiting" \notin Terminal /\ "other" \notin Terminal
  /\ "active" \notin Terminal /\ "none" \notin Terminal
  /\ Loops!Terminal = Terminal
  BY DEF Kind, Terminal, Loops!Terminal

LEMMA OpenStep ==
  ASSUME NEW o, NEW n, Told(o, n), NEW k \in 1..n, NEW st \in OpenStates(o, n, k - 1)
  PROVE  Loops!hasActiveStep(st, o[k]) \in OpenStates(o, n, k)
<1>1. PICK u, x : u = o[k].turn /\ x = o[k].kind
  OBVIOUS
<1>2. u \in Named(o, n) /\ x \in Kind
  BY <1>1 DEF Named, Told
<1>3. PICK new : new = Loops!hasActiveStep(st, o[k])
  OBVIOUS
<1>4. st \in [Named(o, n) -> Statuses] /\ \A t \in Named(o, n) : OpenAfter(o, k - 1, t, st[t])
  BY DEF OpenStates
<1>5. /\ x = "other" \/ (st[u] \in Terminal /\ x \notin Terminal) => new = st
      /\ x = "started" /\ st[u] \notin Terminal => new = [st EXCEPT ![u] = "active"]
      /\ x = "awaiting" /\ st[u] \notin Terminal => new = [st EXCEPT ![u] = x]
      /\ x \in Terminal => new = [st EXCEPT ![u] = x]
  BY <1>1, <1>2, <1>3, KindCases DEF Loops!hasActiveStep
<1>6. /\ new \in [Named(o, n) -> Statuses]
      /\ \A t \in Named(o, n) : t # u => new[t] = st[t]
  BY <1>2, <1>4, <1>5, KindCases DEF Statuses
<1>7. k - 1 \in Nat /\ 1..k = (1..(k - 1)) \cup {k}
  BY DEF Told
<1>8. \A t, kinds : (\E i \in 1..k : Says(o, i, t, kinds)) <=>
                       \/ \E i \in 1..(k - 1) : Says(o, i, t, kinds)
                       \/ Says(o, k, t, kinds)
  BY <1>7
<1>9. ASSUME NEW t \in Named(o, n) PROVE OpenAfter(o, k, t, new[t])
  <2>1. OpenAfter(o, k - 1, t, st[t])
    BY <1>4
  <2>2. PICK ended, open \in BOOLEAN :
          /\ ended <=> \E i \in 1..(k - 1) : Says(o, i, t, Terminal)
          /\ open <=> \E i \in 1..(k - 1) : Says(o, i, t, {"started", "awaiting"})
    OBVIOUS
  <2>3. /\ st[t] \in Terminal <=> ended
        /\ st[t] \in {"active", "awaiting"} <=> open /\ ~ended
    BY <2>1, <2>2 DEF OpenAfter
  <2>4. CASE t # u
    <3>1. \A kinds : ~Says(o, k, t, kinds)
      BY <1>1, <2>4 DEF Says
    <3> QED BY <1>6, <1>8, <2>1, <2>4, <3>1 DEF OpenAfter
  <2>5. CASE t = u
    <3>1. \A kinds : Says(o, k, t, kinds) <=> x \in kinds
      BY <1>1, <2>5 DEF Says
    <3>2. /\ new[t] \in Terminal <=> ended \/ x \in Terminal
          /\ new[t] \in {"active", "awaiting"} <=>
               (open \/ x \in {"started", "awaiting"}) /\ ~(ended \/ x \in Terminal)
      BY <1>2, <1>4, <1>5, <2>3, <2>5, KindCases DEF Statuses
    <3> QED BY <1>8, <2>2, <3>1, <3>2 DEF OpenAfter
  <2> QED BY <2>4, <2>5
<1> QED BY <1>3, <1>6, <1>9 DEF OpenStates

\* What deriveTurnStatuses has after k events.
Changing == {"awaiting"} \cup Terminal

ListedAfter(o, k, t, status) ==
  \/ /\ \A i \in 1..k : ~Says(o, i, t, Changing)
     /\ status = IF \E i \in 1..k : Says(o, i, t, {"started"}) THEN "active" ELSE "none"
  \/ \E i \in 1..k : /\ Says(o, i, t, Changing) /\ status = o[i].kind
                     /\ \A j \in 1..k : Says(o, j, t, Changing) => j <= i

ListedStates(o, n, k) ==
  {states \in [Named(o, n) -> Statuses] : \A t \in Named(o, n) : ListedAfter(o, k, t, states[t])}

LEMMA ListedStep ==
  ASSUME NEW o, NEW n, Told(o, n), NEW k \in 1..n, NEW st \in ListedStates(o, n, k - 1)
  PROVE  Loops!deriveStep(st, o[k]) \in ListedStates(o, n, k)
<1>1. PICK u, x : u = o[k].turn /\ x = o[k].kind
  OBVIOUS
<1>2. u \in Named(o, n) /\ x \in Kind
  BY <1>1 DEF Named, Told
<1>3. PICK new : new = Loops!deriveStep(st, o[k])
  OBVIOUS
<1>4. st \in [Named(o, n) -> Statuses] /\ \A t \in Named(o, n) : ListedAfter(o, k - 1, t, st[t])
  BY DEF ListedStates
<1>5. /\ x = "other" \/ (x = "started" /\ st[u] # "none") => new = st
      /\ x = "started" /\ st[u] = "none" => new = [st EXCEPT ![u] = "active"]
      /\ x \in Changing => new = [st EXCEPT ![u] = x]
  BY <1>1, <1>2, <1>3, KindCases DEF Loops!deriveStep, Changing
<1>6. /\ new \in [Named(o, n) -> Statuses]
      /\ \A t \in Named(o, n) : t # u => new[t] = st[t]
  BY <1>2, <1>4, <1>5, KindCases DEF Statuses, Changing
<1>7. k \in Nat /\ k - 1 \in Nat /\ 1..k = (1..(k - 1)) \cup {k} /\ \A i \in 1..(k - 1) : i <= k
  BY DEF Told
<1>8. ASSUME NEW t \in Named(o, n) PROVE ListedAfter(o, k, t, new[t])
  <2>1. ListedAfter(o, k - 1, t, st[t])
    BY <1>4
  <2>2. CASE t # u
    <3>1. \A kinds : ~Says(o, k, t, kinds)
      BY <1>1, <2>2 DEF Says
    <3> QED BY <1>6, <1>7, <2>1, <2>2, <3>1 DEF ListedAfter
  <2>3. CASE t = u /\ x \in Changing
    <3>1. Says(o, k, t, Changing) /\ new[t] = o[k].kind
      BY <1>1, <1>2, <1>4, <1>5, <2>3 DEF Says
    <3>2. k \in 1..k /\ \A j \in 1..k : j <= k
      BY <1>7
    <3> QED BY <3>1, <3>2 DEF ListedAfter
  <2>4. CASE t = u /\ x \notin Changing
    <3>1. ~Says(o, k, t, Changing) /\ (Says(o, k, t, {"started"}) <=> x = "started")
      BY <1>1, <2>4 DEF Says
    <3>2. x = "started" \/ x = "other"
      BY <1>2, <2>4, KindCases DEF Changing
    <3>3. ASSUME NEW i \in 1..(k - 1), Says(o, i, t, Changing), st[t] = o[i].kind,
                 \A j \in 1..(k - 1) : Says(o, j, t, Changing) => j <= i
          PROVE  ListedAfter(o, k, t, new[t])
      <4>1. st[t] # "none"
        BY <3>3, KindCases DEF Says, Changing
      <4>2. new[t] = st[t]
        BY <1>5, <2>4, <3>2, <4>1
      <4>3. i \in 1..k /\ \A j \in 1..k : Says(o, j, t, Changing) => j <= i
        BY <1>7, <3>1, <3>3
      <4> QED BY <3>3, <4>2, <4>3 DEF ListedAfter
    <3>4. ASSUME \A i \in 1..(k - 1) : ~Says(o, i, t, Changing),
                 st[t] = IF \E i \in 1..(k - 1) : Says(o, i, t, {"started"}) THEN "active" ELSE "none"
          PROVE  ListedAfter(o, k, t, new[t])
      <4>1. \A i \in 1..k : ~Says(o, i, t, Changing)
        BY <1>7, <3>1, <3>4
      <4>2. PICK was \in BOOLEAN : was <=> \E i \in 1..(k - 1) : Says(o, i, t, {"started"})
        OBVIOUS
      <4>3. (\E i \in 1..k : Says(o, i, t, {"started"})) <=> was \/ x = "started"
        BY <1>7, <3>1, <4>2
      <4>4. st[t] = IF was THEN "active" ELSE "none"
        BY <3>4, <4>2
      <4>5. new[t] = IF was \/ x = "started" THEN "active" ELSE "none"
        BY <1>2, <1>4, <1>5, <2>4, <3>2, <4>4
      <4> QED BY <4>1, <4>3, <4>5 DEF ListedAfter
    <3> QED BY <2>1, <3>3, <3>4 DEF ListedAfter
  <2> QED BY <2>2, <2>3, <2>4
<1> QED BY <1>3, <1>6, <1>8 DEF ListedStates

LEMMA OpenFold ==
  ASSUME NEW o, NEW n, Told(o, n)
  PROVE  Loops!turnStateByID(o) \in OpenStates(o, n, n)
<1> DEFINE Keeps == [k \in 0..n |-> OpenStates(o, n, k)]
<1>1. PICK base : base = Loops!NoStatus(o)
  OBVIOUS
<1>2. n \in Nat /\ DOMAIN o = 1..n
  BY DEF Told
<1>3. base \in [Named(o, n) -> {"none"}]
  BY <1>1, <1>2 DEF Loops!NoStatus, Named
<1>4. base \in OpenStates(o, n, 0)
  <2>1. \A t \in Named(o, n) : base[t] = "none"
    BY <1>3
  <2>2. base \in [Named(o, n) -> Statuses]
    BY <1>3 DEF Statuses
  <2>3. 1..0 = {}
    OBVIOUS
  <2> QED BY <2>1, <2>2, <2>3, KindCases DEF OpenStates, OpenAfter
<1>5. \A k \in 1..n : k \in 0..n /\ k - 1 \in 0..n
  BY <1>2
<1>6. \A k \in 0..n : Keeps[k] = OpenStates(o, n, k)
  OBVIOUS
<1> HIDE DEF Keeps
<1>7. base \in Keeps[0]
  BY <1>2, <1>4, <1>6
<1>8. \A k \in 1..n : \A a \in Keeps[k - 1] : Loops!hasActiveStep(a, o[k]) \in Keeps[k]
  BY <1>5, <1>6, OpenStep
<1>9. Tests!Fold(0, base, o) \in Keeps[n]
  BY <1>2, <1>7, <1>8, Tests!FoldKeeps
<1>10. Tests!Fold(0, base, o) = Loops!turnStateByID(o)
  BY <1>1 DEF Loops!turnStateByID, Loops!FoldLeft, Loops!MapThenFoldSet, Loops!Max,
              Tests!Fold, Tests!FoldLeft, Tests!MapThenFoldSet, Tests!Max
<1> QED BY <1>2, <1>6, <1>9, <1>10

LEMMA ListedFold ==
  ASSUME NEW o, NEW n, Told(o, n)
  PROVE  Loops!deriveTurnStatuses(o) \in ListedStates(o, n, n)
<1> DEFINE Keeps == [k \in 0..n |-> ListedStates(o, n, k)]
<1>1. PICK base : base = Loops!NoStatus(o)
  OBVIOUS
<1>2. n \in Nat /\ DOMAIN o = 1..n
  BY DEF Told
<1>3. base \in [Named(o, n) -> {"none"}]
  BY <1>1, <1>2 DEF Loops!NoStatus, Named
<1>4. base \in ListedStates(o, n, 0)
  <2>1. \A t \in Named(o, n) : base[t] = "none"
    BY <1>3
  <2>2. base \in [Named(o, n) -> Statuses]
    BY <1>3 DEF Statuses
  <2>3. 1..0 = {}
    OBVIOUS
  <2> QED BY <2>1, <2>2, <2>3 DEF ListedStates, ListedAfter
<1>5. \A k \in 1..n : k \in 0..n /\ k - 1 \in 0..n
  BY <1>2
<1>6. \A k \in 0..n : Keeps[k] = ListedStates(o, n, k)
  OBVIOUS
<1> HIDE DEF Keeps
<1>7. base \in Keeps[0]
  BY <1>2, <1>4, <1>6
<1>8. \A k \in 1..n : \A a \in Keeps[k - 1] : Loops!deriveStep(a, o[k]) \in Keeps[k]
  BY <1>5, <1>6, ListedStep
<1>9. Lists!Fold(0, base, o) \in Keeps[n]
  BY <1>2, <1>7, <1>8, Lists!FoldKeeps
<1>10. Lists!Fold(0, base, o) = Loops!deriveTurnStatuses(o)
  BY <1>1 DEF Loops!deriveTurnStatuses, Loops!FoldLeft, Loops!MapThenFoldSet, Loops!Max,
              Lists!Fold, Lists!FoldLeft, Lists!MapThenFoldSet, Lists!Max
<1> QED BY <1>2, <1>6, <1>9, <1>10

\* A query returns every event once, in the order of their timestamps.
LEMMA EventsTold ==
  ASSUME LogInv
  PROVE  \E n : Told(Events, n)
<1> DEFINE R == {pair \in log \X log : pair[1].at < pair[2].at}
<1>1. PICK o : o = Events
  OBVIOUS
<1>2. o = Tests!Ordered(log, R) /\ Tests!IsFiniteSet(log)
  <2>1. Tests!IsFiniteSet(log) = IsFiniteSet(log)
    BY DEF Tests!IsFiniteSet, IsFiniteSet
  <2>2. Tests!Ordered(log, R) = Ordered(log, R)
    BY DEF Tests!Cardinality, Cardinality, Tests!IsFiniteSet, IsFiniteSet, Ordered, Tests!Ordered
  <2> QED BY <1>1, <2>1, <2>2 DEF Events, LogInv
<1>3. \A a, b \in log : <<a, b>> \in R <=> a.at < b.at
  OBVIOUS
<1>4. \A e \in log : e \in [at : Nat, turn : Turns, kind : Kind]
  BY DEF LogInv
<1> HIDE DEF R
<1>5. \A a, b \in log : a.at \in Nat /\ (a # b => a.at # b.at)
  BY <1>4 DEF LogInv, OwnTimes
<1>6. Tests!StrictOrder(log, R)
  BY <1>3, <1>5 DEF Tests!StrictOrder
<1>7. Tests!InOrder(o, log, R)
  BY <1>2, <1>6, Tests!OrderedIs
<1>8. PICK n \in Nat : /\ o \in [1..n -> log]
                       /\ \A e \in log : \E i \in 1..n : o[i] = e
                       /\ \A i, j \in 1..n : i < j <=> <<o[i], o[j]>> \in R
  BY <1>7 DEF Tests!InOrder
<1>9. o \in [1..n -> [at : Nat, turn : Turns, kind : Kind]] /\ log = {o[i] : i \in 1..n}
  BY <1>4, <1>8
<1>10. \A i, j \in 1..n : i < j <=> o[i].at < o[j].at
  BY <1>3, <1>8
<1>11. Told(o, n)
  BY ONLY <1>8, <1>9, <1>10 DEF Told
<1> QED BY <1>1, <1>8, <1>11

\* A turn can still change for hasActiveMutableTurn when it can for the model.
LEMMA TestAgrees ==
  ASSUME NEW o, NEW n, Told(o, n)
  PROVE  (\E t \in Turns : Mutable(t)) <=> Loops!hasActiveMutableTurn(o)
<1>1. PICK st : st = Loops!turnStateByID(o)
  OBVIOUS
<1>2. st \in [Named(o, n) -> Statuses] /\ \A t \in Named(o, n) : OpenAfter(o, n, t, st[t])
  BY <1>1, OpenFold DEF OpenStates
<1>3. Loops!hasActiveMutableTurn(o) <=> \E t \in Named(o, n) : st[t] \in {"active", "awaiting"}
  BY <1>1, <1>2 DEF Loops!hasActiveMutableTurn
<1>4. \A t, kinds : (\E i \in 1..n : Says(o, i, t, kinds)) <=> \E e \in EventsOf(t) : e.kind \in kinds
  BY DEF Says, EventsOf, Told
<1>5. \A t : Mutable(t) <=> /\ \E i \in 1..n : Says(o, i, t, {"started", "awaiting"})
                            /\ ~\E i \in 1..n : Says(o, i, t, Terminal)
  BY <1>4, Zenon DEF Mutable, Ended
<1>6. \A t \in Named(o, n) : Mutable(t) <=> st[t] \in {"active", "awaiting"}
  BY <1>2, <1>5 DEF OpenAfter
<1>7. \A t \in Turns : Mutable(t) => t \in Named(o, n)
  BY <1>5 DEF Says, Named
<1>8. Named(o, n) \subseteq Turns
  BY DEF Named, Told
<1> QED BY <1>3, <1>6, <1>7, <1>8

\* What the API shows of a turn is what the model says of it.
LEMMA ListAgrees ==
  ASSUME NEW o, NEW n, Told(o, n), NEW t \in Turns, Started(t)
  PROVE  Status(t) = Loops!deriveTurnStatuses(o)[t]
<1>1. PICK st : st = Loops!deriveTurnStatuses(o)
  OBVIOUS
<1>2. \A u \in Named(o, n) : ListedAfter(o, n, u, st[u])
  BY <1>1, ListedFold DEF ListedStates
<1>3. \A kinds : (\E i \in 1..n : Says(o, i, t, kinds)) <=> \E e \in EventsOf(t) : e.kind \in kinds
  BY DEF Says, EventsOf, Told
<1>4. \E i \in 1..n : Says(o, i, t, {"started"})
  BY <1>3 DEF Started
<1>5. ListedAfter(o, n, t, st[t])
  BY <1>2, <1>4 DEF Says, Named
<1>6. PICK changes : changes = {e \in EventsOf(t) : e.kind \in Changing}
  OBVIOUS
<1>7. Status(t) = IF changes = {} THEN "active" ELSE Latest(changes).kind
  BY <1>6 DEF Status, Changing
<1>8. ASSUME \A i \in 1..n : ~Says(o, i, t, Changing), st[t] = "active"
      PROVE  Status(t) = st[t]
  <2>1. changes = {}
    BY <1>3, <1>6, <1>8
  <2> QED BY <1>7, <1>8, <2>1
<1>9. ASSUME NEW i \in 1..n, Says(o, i, t, Changing), st[t] = o[i].kind,
             \A j \in 1..n : Says(o, j, t, Changing) => j <= i
      PROVE  Status(t) = st[t]
  <2>1. o[i] \in changes
    BY <1>6, <1>9 DEF Says, EventsOf, Told
  <2>2. \A f \in changes : \E j \in 1..n : f = o[j] /\ Says(o, j, t, Changing)
    BY <1>6 DEF Says, EventsOf, Told
  <2>3. \A j, k \in 1..n : /\ o[j].at \in Nat /\ (j < k <=> o[j].at < o[k].at)
                           /\ j \in Nat
    BY DEF Told
  <2>4. \A f \in changes : f.at <= o[i].at /\ (o[i].at <= f.at => f = o[i])
    <3>1. ASSUME NEW j \in 1..n, j <= i
          PROVE  o[j].at <= o[i].at /\ (o[i].at <= o[j].at => o[j] = o[i])
      BY <2>3, <3>1
    <3> QED BY <1>9, <2>2, <3>1
  <2>5. PICK last : last = Latest(changes)
    OBVIOUS
  <2>6. last \in changes /\ \A f \in changes : f.at <= last.at
    BY <2>1, <2>4, <2>5 DEF Latest
  <2>7. last = o[i]
    BY <2>1, <2>4, <2>6
  <2> QED BY <1>7, <1>9, <2>1, <2>5, <2>7
<1> QED BY <1>1, <1>4, <1>5, <1>8, <1>9 DEF ListedAfter

(***************************************************************************)
(* Whatever goroutines, agents and crashes leave in the store, the status  *)
(* that TurnLifecycle gives a turn is what the two loops of context.go     *)
(* (hasActiveMutableTurn, deriveTurnStatuses) make of the events: no two   *)
(* events carry the same timestamp, and so the last event of a turn is the *)
(* last that a loop reads.                                                 *)
(***************************************************************************)
THEOREM LoopsDoAgree == Spec => []LoopsAgree
<1>1. Init => LogInv /\ ChannelOK
  <2>1. ASSUME Init PROVE ChannelOK
    BY <2>1 DEF Init, ChannelOK
  <2> QED BY <2>1, LogInit
<1>2. LogInv /\ ChannelOK /\ [Next]_vars => (LogInv /\ ChannelOK)'
  BY LogStep, ChannelStep
<1>3. LogInv => LoopsAgree
  <2> SUFFICES ASSUME LogInv PROVE LoopsAgree
    OBVIOUS
  <2>1. PICK o : o = Events
    OBVIOUS
  <2>2. PICK n : Told(o, n)
    BY <2>1, EventsTold
  <2>3. (\E t \in Turns : Mutable(t)) <=> Loops!hasActiveMutableTurn(o)
    BY <2>2, TestAgrees
  <2>4. \A t \in Turns : Started(t) => Status(t) = Loops!deriveTurnStatuses(o)[t]
    BY <2>2, ListAgrees
  <2>5. Loops!hasActiveMutableTurn(o) \in BOOLEAN
    BY DEF Loops!hasActiveMutableTurn
  <2> QED BY <2>1, <2>3, <2>4, <2>5 DEF LoopsAgree
<1> QED BY <1>1, <1>2, <1>3, PTL DEF Spec

------------------------------------------------------------------------------
(* Types. *)

CountsOK ==
  /\ running \subseteq Turns /\ asked \subseteq Turns
  /\ deltas \in [Turns -> 0..MaxDeltas] /\ calls \in 0..MaxCalls /\ boots \in 0..MaxBoots

LEMMA CountsStep ==
  ASSUME CountsOK, LogInv, [Next]_vars
  PROVE  CountsOK'
<1>1. MaxDeltas \in Nat /\ MaxCalls \in Nat /\ MaxBoots \in Nat
  BY ConstantsAssumption
<1>2. CASE UNCHANGED <<running, asked, deltas, calls, boots>>
  BY <1>2 DEF CountsOK
<1>3. ASSUME NEW c \in Creators, Check(c) \/ Create(c)
      PROVE  CountsOK'
  <2>1. CASE Check(c)
    BY <1>2, <2>1 DEF Check
  <2>2. CASE Create(c)
    <3>1. work[c].turn \in Turns
      BY <2>2 DEF Create, At, LogInv, WorkerOK, Workers
    <3> QED BY <2>2, <3>1 DEF Create, CountsOK
  <2> QED BY <1>3, <2>1, <2>2
<1>4. ASSUME NEW t \in Turns, AgentStep(t) \/ ExpireAsked(t)
      PROVE  CountsOK'
  <2>1. CASE EmitDelta(t)
    <3>1. PICK n \in 0..MaxDeltas : n = deltas[t]
      BY DEF CountsOK
    <3>2. n + 1 \in 0..MaxDeltas /\ deltas' = [deltas EXCEPT ![t] = n + 1]
      BY <1>1, <2>1, <3>1 DEF EmitDelta
    <3> QED BY <2>1, <3>2 DEF EmitDelta, CountsOK
  <2>2. CASE Finish(t) \/ Ask(t) \/ Take(t) \/ ExpireAsked(t)
    BY <2>2 DEF Finish, Ask, Take, ExpireAsked, CountsOK
  <2> QED BY <1>4, <2>1, <2>2 DEF AgentStep
<1>5. ASSUME NEW h \in Handlers, HandlerStep(h)
      PROVE  CountsOK'
  <2>1. CASE \E kind \in {"awaiting"} \cup Terminal : CallTool(h, kind)
    BY <1>1, <2>1 DEF CallTool, CountsOK
  <2>2. CASE \E t \in Turns, kind \in Terminal : DecideAsked(h, t, kind)
    BY <2>2 DEF DecideAsked, CountsOK
  <2> QED BY <1>5, <2>1, <2>2 DEF HandlerStep
<1>6. ASSUME NEW w \in Workers, WriteStep(w) \/ GiveUp(w)
      PROVE  CountsOK'
  BY <1>2, <1>6 DEF WriteStep, Stamp, AppendEvent, Resolve, GiveUp
<1>7. CASE Restart
  BY <1>1, <1>7 DEF Restart, CountsOK
<1>8. CASE UNCHANGED vars
  BY <1>2, <1>8 DEF vars
<1> QED BY <1>3, <1>4, <1>5, <1>6, <1>7, <1>8 DEF Next

(***************************************************************************)
(* The events of the store, what goroutines hold and what agents have      *)
(* emitted keep their types, through crashes too: a goroutine that is      *)
(* about to append an event knows which turn it is for.                    *)
(***************************************************************************)
THEOREM TurnsTyped == Spec => []TypeOK
<1>1. Init => LogInv /\ ChannelOK /\ CountsOK
  <2>1. ASSUME Init PROVE ChannelOK /\ CountsOK
    BY <2>1, ConstantsAssumption DEF Init, ChannelOK, CountsOK
  <2> QED BY <2>1, LogInit
<1>2. LogInv /\ ChannelOK /\ CountsOK /\ [Next]_vars => (LogInv /\ ChannelOK /\ CountsOK)'
  BY LogStep, ChannelStep, CountsStep
<1>3. LogInv /\ ChannelOK /\ CountsOK => TypeOK
  <2> SUFFICES ASSUME LogInv, ChannelOK, CountsOK PROVE TypeOK
    OBVIOUS
  <2>1. ASSUME work = [w \in Workers |-> work[w]] PROVE work \in [Workers -> WorkState]
    BY <2>1 DEF LogInv, WorkerOK
  <2>2. work = [w \in Workers |-> work[w]]
    BY DEF LogInv
  <2> QED BY <2>1, <2>2 DEF TypeOK, LogInv, WorkerOK, ChannelOK, CountsOK, At
<1> QED BY <1>1, <1>2, <1>3, PTL DEF Spec

------------------------------------------------------------------------------
(* The end of a turn.  Its outcome is always with somebody: the agent that *)
(* still works, the channel, or the goroutine that is about to store it.   *)

\* An outcome of this turn that is about to be stored for it.
HeldOutcome(q, t) == q.pc = "stamped" /\ q.turn = t /\ q.kind \in Terminal

EndIsComing(t) ==
  \/ t \in running
  \/ \E i \in DOMAIN channel[t] : channel[t][i] \in Terminal
  \/ HeldOutcome(work[t], t)

NoEndIsLost ==
  boots = 0 => \A t \in Turns : Started(t) => Ended(t) \/ EndIsComing(t)

EndInv == OnlyCreatorsStart /\ NoEndIsLost

\* What an agent emits comes after what it emitted before.
LEMMA Emitted ==
  ASSUME ChannelOK, NEW t \in Turns, NEW kinds \in Seq(Kind \ {"started"}), EmitAll(t, kinds)
  PROVE  /\ \A u \in Turns \ {t} : channel'[u] = channel[u]
         /\ \A i \in DOMAIN channel[t] : i \in DOMAIN channel'[t] /\ channel'[t][i] = channel[t][i]
         /\ \A i \in DOMAIN kinds : \E j \in DOMAIN channel'[t] : channel'[t][j] = kinds[i]
<1>1. PICK s \in Seq(Kind \ {"started"}) : s = channel[t]
  BY DEF ChannelOK
<1>2. PICK q : q = s \o kinds
  OBVIOUS
<1>3. channel' = [channel EXCEPT ![t] = q]
  BY <1>1, <1>2 DEF EmitAll
<1>4. channel'[t] = q /\ \A u \in Turns \ {t} : channel'[u] = channel[u]
  BY <1>3 DEF ChannelOK
<1>5. PICK n \in Nat, m \in Nat : n = Len(s) /\ m = Len(kinds) /\ DOMAIN s = 1..n /\ DOMAIN kinds = 1..m
  BY LenProperties
<1>6. /\ q \in Seq(Kind \ {"started"}) /\ Len(q) = n + m
      /\ \A i \in 1..n + m : q[i] = IF i <= n THEN s[i] ELSE kinds[i - n]
  BY <1>2, <1>5, ConcatProperties
<1>7. DOMAIN q = 1..n + m
  BY <1>5, <1>6, LenProperties
<1>8. \A i \in 1..n : i \in 1..n + m /\ q[i] = s[i]
  BY <1>5, <1>6
<1>9. ASSUME NEW i \in 1..m PROVE i + n \in 1..n + m /\ q[i + n] = kinds[i]
  <2>1. i + n \in 1..n + m /\ ~(i + n <= n) /\ (i + n) - n = i
    BY <1>5
  <2> QED BY <1>6, <2>1
<1> QED BY <1>1, <1>4, <1>5, <1>7, <1>8, <1>9

\* A step that keeps what was stored and what is coming.
LEMMA EndsKept ==
  ASSUME NoEndIsLost, ConstantsAssumption, boots' = boots, log \subseteq log',
         \A t \in Turns : Started(t)' => Started(t) \/ EndIsComing(t)',
         \A t \in Turns : EndIsComing(t) => EndIsComing(t)' \/ Ended(t)'
  PROVE  NoEndIsLost'
<1> SUFFICES ASSUME boots = 0, NEW t \in Turns, Started(t)' PROVE (Ended(t) \/ EndIsComing(t))'
  BY DEF NoEndIsLost
<1>1. Ended(t) => Ended(t)'
  BY DEF Ended, EventsOf
<1> QED BY <1>1 DEF NoEndIsLost

\* A goroutine that has no outcome in hand goes on.
LEMMA OthersGoOn ==
  ASSUME NoEndIsLost, LogInv, NEW w \in Workers, NEW q, work' = [work EXCEPT ![w] = q],
         UNCHANGED <<log, running, channel, boots>>, work[w].pc # "stamped"
  PROVE  NoEndIsLost'
<1>1. \A v \in Workers \ {w} : work'[v] = work[v]
  BY DEF LogInv
<1>2. \A t \in Turns : Started(t)' => Started(t)
  BY DEF Started, EventsOf
<1>3. \A t \in Turns : EndIsComing(t) => EndIsComing(t)'
  BY <1>1, Disjoint DEF EndIsComing, HeldOutcome
<1> QED BY <1>2, <1>3, EndsKept, ConstantsAssumption

\* An event is stored: it is the outcome that its goroutine had in hand, or
\* another, which starts nothing.
LEMMA AppendEnds ==
  ASSUME EndInv, LogInv, ~StoreMayFail, NEW w \in Workers, AppendEvent(w)
  PROVE  NoEndIsLost'
<1>1. /\ At(w, "stamped") /\ w \in Workers \ Creators /\ Return(w) /\ Stored(w)
      /\ UNCHANGED <<running, channel, boots>>
  BY DEF AppendEvent
<1>2. PICK e : e = [at |-> work[w].at, turn |-> work[w].turn, kind |-> work[w].kind]
  OBVIOUS
<1>3. log' = log \cup {e} /\ e.turn = work[w].turn /\ e.kind = work[w].kind
  BY <1>1, <1>2 DEF Stored
<1>4. e.kind # "started"
  BY <1>1, <1>3 DEF EndInv, OnlyCreatorsStart
<1>5. \A t \in Turns : Started(t)' => Started(t)
  BY <1>3, <1>4 DEF Started, EventsOf
<1>6. \A v \in Workers \ {w} : work'[v] = work[v]
  BY <1>1 DEF LogInv, Return
<1>7. ASSUME NEW t \in Turns, EndIsComing(t) PROVE EndIsComing(t)' \/ Ended(t)'
  <2>1. CASE t = w /\ HeldOutcome(work[t], t)
    BY <1>3, <2>1 DEF HeldOutcome, Ended, EventsOf
  <2>2. CASE t # w \/ ~HeldOutcome(work[t], t)
    BY <1>1, <1>6, <1>7, <2>2, Disjoint DEF EndIsComing
  <2> QED BY <2>1, <2>2
<1> QED BY <1>1, <1>3, <1>5, <1>7, EndsKept, ConstantsAssumption DEF EndInv

\* turn_started is stored, and the turn's agent starts with it.
LEMMA CreateEnds ==
  ASSUME EndInv, LogInv, ~StoreMayFail, HasRunner, NEW c \in Creators, Create(c)
  PROVE  NoEndIsLost'
<1>1. /\ Return(c) /\ Stored(c) /\ running' = running \cup {work[c].turn}
      /\ UNCHANGED <<channel, boots>>
  BY DEF Create
<1>2. PICK e : e = [at |-> work[c].at, turn |-> work[c].turn, kind |-> work[c].kind]
  OBVIOUS
<1>3. log' = log \cup {e} /\ e.turn = work[c].turn
  BY <1>1, <1>2 DEF Stored
<1>4. \A t \in Turns : Started(t)' => Started(t) \/ EndIsComing(t)'
  BY <1>1, <1>3 DEF Started, EventsOf, EndIsComing
<1>5. \A v \in Turns : work'[v] = work[v]
  BY <1>1, Disjoint DEF LogInv, Return
<1>6. \A t \in Turns : EndIsComing(t) => EndIsComing(t)'
  BY <1>1, <1>5 DEF EndIsComing
<1> QED BY <1>1, <1>3, <1>4, <1>6, EndsKept, ConstantsAssumption DEF EndInv

\* An agent that stops has emitted how.
LEMMA AgentEnds ==
  ASSUME EndInv, ChannelOK, ~StoreMayFail, NEW t \in Turns, EmitDelta(t) \/ Finish(t) \/ Ask(t)
  PROVE  NoEndIsLost'
<1>1. UNCHANGED <<log, work, boots>>
  BY DEF EmitDelta, Finish, Ask
<1>2. PICK kinds \in Seq(Kind \ {"started"}) :
        EmitAll(t, kinds) /\ (running' = running \/ \E i \in DOMAIN kinds : kinds[i] \in Terminal)
                          /\ running \subseteq running' \cup {t}
  <2>1. CASE EmitDelta(t)
    <3>1. <<"other">> \in Seq(Kind \ {"started"})
      BY DEF Kind
    <3> QED BY <2>1, <3>1 DEF EmitDelta
  <2>2. CASE Finish(t)
    <3>1. PICK k \in {"completed", "failed"} : EmitAll(t, <<k>>)
      BY <2>2 DEF Finish
    <3>2. PICK d : d = <<k>>
      OBVIOUS
    <3>3. d \in Seq(Kind \ {"started"}) /\ 1 \in DOMAIN d /\ d[1] \in Terminal
      BY <3>2 DEF Kind, Terminal
    <3> QED BY <2>2, <3>1, <3>2, <3>3 DEF Finish
  <2>3. CASE Ask(t)
    <3>1. PICK d : d = <<"other", "awaiting", "completed">>
      OBVIOUS
    <3>2. d \in Seq(Kind \ {"started"}) /\ 3 \in DOMAIN d /\ d[3] \in Terminal
      BY <3>1 DEF Kind, Terminal
    <3> QED BY <2>3, <3>1, <3>2 DEF Ask
  <2> QED BY <2>1, <2>2, <2>3
<1>3. /\ \A u \in Turns \ {t} : channel'[u] = channel[u]
      /\ \A i \in DOMAIN channel[t] : i \in DOMAIN channel'[t] /\ channel'[t][i] = channel[t][i]
      /\ \A i \in DOMAIN kinds : \E j \in DOMAIN channel'[t] : channel'[t][j] = kinds[i]
  BY <1>2, Emitted
<1>4. ASSUME NEW u \in Turns, EndIsComing(u) PROVE EndIsComing(u)'
  <2>1. CASE u # t
    BY <1>1, <1>2, <1>3, <1>4, <2>1 DEF EndIsComing
  <2>2. CASE u = t
    <3>1. HeldOutcome(work[t], t) => EndIsComing(t)'
      BY <1>1 DEF EndIsComing
    <3>2. (\E i \in DOMAIN channel[t] : channel[t][i] \in Terminal) => EndIsComing(t)'
      BY <1>3 DEF EndIsComing
    <3>3. t \in running => EndIsComing(t)'
      BY <1>2, <1>3 DEF EndIsComing
    <3> QED BY <1>4, <2>2, <3>1, <3>2, <3>3 DEF EndIsComing
  <2> QED BY <2>1, <2>2
<1>5. \A u \in Turns : Started(u)' => Started(u)
  BY <1>1 DEF Started, EventsOf
<1> QED BY <1>1, <1>4, <1>5, EndsKept, ConstantsAssumption DEF EndInv

\* An outcome that is taken from the channel is then in hand.
LEMMA TakeEnds ==
  ASSUME EndInv, LogInv, ChannelOK, NEW t \in Turns, Take(t)
  PROVE  NoEndIsLost'
<1>1. /\ UNCHANGED <<log, running, boots>> /\ channel[t] # <<>> /\ At(t, "idle")
      /\ channel' = [channel EXCEPT ![t] = Tail(@)]
  BY DEF Take
<1>2. PICK s \in Seq(Kind \ {"started"}) : s = channel[t]
  BY DEF ChannelOK
<1>3. PICK n : n = Len(s) /\ n \in Nat \ {0} /\ DOMAIN s = 1..n
  BY <1>1, <1>2, LenProperties, EmptySeq
<1>4. PICK kind, rest : kind = Head(s) /\ rest = Tail(s)
  OBVIOUS
<1>5. /\ kind = s[1] /\ rest \in Seq(Kind \ {"started"}) /\ DOMAIN rest = 1..n - 1
      /\ \A i \in 1..n - 1 : rest[i] = s[i + 1]
  BY <1>1, <1>2, <1>3, <1>4, HeadTailProperties, LenProperties
<1>6. channel'[t] = rest /\ \A u \in Turns \ {t} : channel'[u] = channel[u]
  BY <1>1, <1>2, <1>4 DEF ChannelOK
<1>7. \A v \in Workers \ {t} : work'[v] = work[v]
  BY DEF Take, Report, LogInv
<1>8. kind \in Terminal => HeldOutcome(work'[t], t)
  <2>1. t \in Workers
    BY DEF Workers
  <2>2. PICK q : q = [pc |-> "stamped", turn |-> t, kind |-> kind, at |-> Now]
    OBVIOUS
  <2>3. kind \in Terminal => work' = [work EXCEPT ![t] = q]
    BY <1>2, <1>4, <2>2 DEF Take, Terminal
  <2>4. q.pc = "stamped" /\ q.turn = t /\ q.kind = kind
    BY <2>2
  <2>5. kind \in Terminal => work'[t] = q
    BY <2>1, <2>3 DEF LogInv
  <2> QED BY <2>4, <2>5 DEF HeldOutcome
<1>9. ASSUME NEW i \in 1..n, s[i] \in Terminal PROVE EndIsComing(t)'
  <2>1. CASE i = 1
    BY <1>5, <1>8, <1>9, <2>1 DEF EndIsComing
  <2>2. CASE i # 1
    <3>1. i - 1 \in 1..n - 1 /\ (i - 1) + 1 = i
      BY <1>3, <2>2
    <3>2. i - 1 \in DOMAIN rest /\ rest[i - 1] = s[i]
      BY <1>5, <3>1
    <3> QED BY <1>6, <1>9, <3>2 DEF EndIsComing
  <2> QED BY <2>1, <2>2
<1>10. ASSUME NEW u \in Turns, EndIsComing(u) PROVE EndIsComing(u)'
  <2>1. CASE u # t
    BY <1>1, <1>6, <1>7, <1>10, <2>1, Disjoint DEF EndIsComing
  <2>2. CASE u = t
    <3>1. ~HeldOutcome(work[t], t)
      BY <1>1 DEF HeldOutcome, At
    <3>2. t \in running => EndIsComing(t)'
      BY <1>1 DEF EndIsComing
    <3> QED BY <1>2, <1>3, <1>9, <1>10, <2>2, <3>1, <3>2 DEF EndIsComing
  <2> QED BY <2>1, <2>2
<1>11. \A u \in Turns : Started(u)' => Started(u)
  BY <1>1 DEF Started, EventsOf
<1> QED BY <1>1, <1>10, <1>11, EndsKept, ConstantsAssumption DEF EndInv

\* Nobody but a creator ever has turn_started in hand.
LEMMA StartersStep ==
  ASSUME OnlyCreatorsStart, LogInv, ChannelOK, [Next]_vars
  PROVE  OnlyCreatorsStart'
<1>1. ASSUME NEW w \in Workers, NEW q, work' = [work EXCEPT ![w] = q],
             w \in Creators \/ q.kind # "started"
      PROVE  OnlyCreatorsStart'
  BY <1>1 DEF OnlyCreatorsStart, LogInv
<1>2. Idle.kind # "started"
  BY DEF Idle
<1>3. ASSUME NEW w \in Workers, NEW kind, kind # "started", Report(w, kind) PROVE OnlyCreatorsStart'
  <2>1. PICK q : q = [Idle EXCEPT !.pc = "reporting", !.kind = kind]
    OBVIOUS
  <2>2. q.kind = kind /\ work' = [work EXCEPT ![w] = q]
    BY <1>3, <2>1 DEF Report, Idle
  <2> QED BY <1>1, <1>3, <2>2
<1>4. ASSUME NEW c \in Creators, Check(c) \/ Create(c) PROVE OnlyCreatorsStart'
  <2>1. c \in Workers /\ \E q : work' = [work EXCEPT ![c] = q]
    BY <1>4 DEF Check, Create, Return, Workers
  <2> QED BY <1>1, <2>1
<1>5. ASSUME NEW t \in Turns, Take(t) PROVE OnlyCreatorsStart'
  <2>1. PICK kind : kind = Head(channel[t])
    OBVIOUS
  <2>2. kind # "started" /\ t \in Workers
    BY <1>5, <2>1 DEF Take, ChannelOK, Workers
  <2>3. CASE kind = "awaiting"
    BY <1>3, <1>5, <2>1, <2>2, <2>3 DEF Take
  <2>4. CASE kind # "awaiting"
    <3>1. PICK q : q = [pc |-> "stamped", turn |-> t, kind |-> kind, at |-> Now]
      OBVIOUS
    <3>2. q.kind = kind /\ work' = [work EXCEPT ![t] = q]
      BY <1>5, <2>1, <2>4, <3>1 DEF Take
    <3> QED BY <1>1, <2>2, <3>2
  <2> QED BY <2>3, <2>4
<1>6. CASE UNCHANGED work
  BY <1>6 DEF OnlyCreatorsStart
<1>7. ASSUME NEW t \in Turns, AgentStep(t) \/ ExpireAsked(t) PROVE OnlyCreatorsStart'
  BY <1>5, <1>6, <1>7 DEF AgentStep, EmitDelta, Finish, Ask, ExpireAsked
<1>8. ASSUME NEW h \in Handlers, HandlerStep(h) PROVE OnlyCreatorsStart'
  <2>1. h \in Workers /\ \E kind \in {"awaiting"} \cup Terminal : Report(h, kind)
    BY <1>8 DEF HandlerStep, CallTool, DecideAsked, Workers
  <2> QED BY <1>3, <2>1 DEF Terminal
<1>9. ASSUME NEW w \in Workers, WriteStep(w) \/ GiveUp(w) PROVE OnlyCreatorsStart'
  <2>1. CASE Return(w)
    <3>1. PICK q : q = Idle
      OBVIOUS
    <3> QED BY <1>1, <1>2, <2>1, <3>1 DEF Return
  <2>2. CASE Stamp(w)
    <3>1. PICK q : q = [work[w] EXCEPT !.pc = "stamped", !.at = Now]
      OBVIOUS
    <3>2. work' = [work EXCEPT ![w] = q] /\ q.kind = work[w].kind
      BY <2>2, <3>1 DEF Stamp, LogInv, WorkerOK, WorkState
    <3> QED BY <1>1, <3>2 DEF OnlyCreatorsStart
  <2>3. ASSUME NEW t, work' = [work EXCEPT ![w].pc = "chosen", ![w].turn = t] PROVE OnlyCreatorsStart'
    <3>1. PICK q : q = [work[w] EXCEPT !.pc = "chosen", !.turn = t]
      OBVIOUS
    <3>2. work' = [work EXCEPT ![w] = q] /\ q.kind = work[w].kind
      BY <2>3, <3>1 DEF LogInv, WorkerOK, WorkState
    <3> QED BY <1>1, <3>2 DEF OnlyCreatorsStart
  <2> QED BY <1>9, <2>1, <2>2, <2>3 DEF WriteStep, AppendEvent, Resolve, GiveUp
<1>10. CASE Restart
  BY <1>2, <1>10 DEF Restart, OnlyCreatorsStart
<1>11. CASE UNCHANGED vars
  BY <1>6, <1>11 DEF vars
<1> QED BY <1>4, <1>7, <1>8, <1>9, <1>10, <1>11 DEF Next

LEMMA EndsStep ==
  ASSUME ~StoreMayFail, HasRunner, EndInv, LogInv, ChannelOK, CountsOK, [Next]_vars
  PROVE  EndInv'
<1>1. ASSUME UNCHANGED <<log, work, running, channel, boots>> PROVE NoEndIsLost'
  BY <1>1 DEF EndInv, NoEndIsLost, Started, Ended, EventsOf, EndIsComing
<1>2. ASSUME NEW w \in Workers, NEW q, work' = [work EXCEPT ![w] = q],
             UNCHANGED <<log, running, channel, boots>>, work[w].pc # "stamped"
      PROVE  NoEndIsLost'
  BY <1>2, OthersGoOn DEF EndInv
<1>3. ASSUME NEW c \in Creators, Check(c) \/ Create(c) PROVE NoEndIsLost'
  <2>1. CASE Check(c)
    <3>1. c \in Workers /\ \E q : work' = [work EXCEPT ![c] = q]
      BY <2>1 DEF Check, Workers
    <3>2. UNCHANGED <<log, running, channel, boots>> /\ work[c].pc # "stamped"
      BY <2>1 DEF Check, At
    <3> QED BY <1>2, <3>1, <3>2
  <2> QED BY <1>3, <2>1, CreateEnds
<1>4. ASSUME NEW t \in Turns, AgentStep(t) \/ ExpireAsked(t) PROVE NoEndIsLost'
  BY <1>1, <1>4, AgentEnds, TakeEnds DEF AgentStep, ExpireAsked
<1>5. ASSUME NEW h \in Handlers, HandlerStep(h) PROVE NoEndIsLost'
  <2>1. h \in Workers /\ \E q : work' = [work EXCEPT ![h] = q]
    BY <1>5 DEF HandlerStep, CallTool, DecideAsked, Report, Workers
  <2>2. UNCHANGED <<log, running, channel, boots>> /\ work[h].pc # "stamped"
    BY <1>5 DEF HandlerStep, CallTool, DecideAsked, At
  <2> QED BY <1>2, <2>1, <2>2
<1>6. ASSUME NEW w \in Workers, WriteStep(w) \/ GiveUp(w) PROVE NoEndIsLost'
  <2>1. CASE AppendEvent(w)
    BY <2>1, AppendEnds
  <2>2. CASE Stamp(w) \/ Resolve(w)
    <3>1. UNCHANGED <<log, running, channel, boots>> /\ work[w].pc # "stamped"
      BY <2>2 DEF Stamp, Resolve, At
    <3>2. \E q : work' = [work EXCEPT ![w] = q]
      BY <2>2 DEF Stamp, Resolve, Return
    <3> QED BY <1>2, <3>1, <3>2
  <2> QED BY <1>6, <2>1, <2>2 DEF WriteStep, GiveUp
<1>7. ASSUME Restart PROVE NoEndIsLost'
  <2>1. boots' # 0
    BY <1>7, ConstantsAssumption DEF Restart, CountsOK
  <2> QED BY <2>1 DEF NoEndIsLost
<1>8. ASSUME UNCHANGED vars PROVE NoEndIsLost'
  BY <1>1, <1>8 DEF vars
<1>9. NoEndIsLost'
  BY <1>3, <1>4, <1>5, <1>6, <1>7, <1>8 DEF Next
<1> QED BY <1>9, StartersStep DEF EndInv

(***************************************************************************)
(* With a runner and a store that does not fail, the outcome of a started  *)
(* turn is stored, or its agent works, or the outcome waits in the channel *)
(* or is in the hand of the goroutine that stores it (Runner.loop,         *)
(* runAgentTurn): for any number of creators, handlers and turns, and      *)
(* whatever else is reported, only a restart loses it.  So TurnsEnd asks   *)
(* no more than that agents stop and their goroutines go on.               *)
(***************************************************************************)
THEOREM EndsAreKept ==
  ASSUME HasRunner, ~StoreMayFail
  PROVE  Spec => []NoEndIsLost
<1>1. Init => LogInv /\ ChannelOK /\ CountsOK /\ EndInv
  <2>1. ASSUME Init PROVE ChannelOK /\ CountsOK
    BY <2>1, ConstantsAssumption DEF Init, ChannelOK, CountsOK
  <2>2. ASSUME Init PROVE EndInv
    BY <2>2 DEF Init, EndInv, OnlyCreatorsStart, Idle, NoEndIsLost, Started, EventsOf
  <2> QED BY <2>1, <2>2, LogInit
<1>2. LogInv /\ ChannelOK /\ CountsOK /\ EndInv /\ [Next]_vars
        => (LogInv /\ ChannelOK /\ CountsOK /\ EndInv)'
  BY LogStep, ChannelStep, CountsStep, EndsStep
<1>3. EndInv => NoEndIsLost
  BY DEF EndInv
<1> QED BY <1>1, <1>2, <1>3, PTL DEF Spec

------------------------------------------------------------------------------
(* The agent of a turn.  For any number of creators, handlers and turns    *)
(* nobody but a client's report ends a turn while its agent runs.          *)

\* What fits a goroutine still does when nothing was stored and no agent started.
LEMMA StillFits ==
  ASSUME UNCHANGED log, running' \subseteq running
  PROVE  \A w, q : WorkFits(w, q) => WorkFits(w, q)'
  BY DEF WorkFits, EventsOf, Started

\* A step of one goroutine that stores nothing.
LEMMA OneFits ==
  ASSUME AgentInv, LogInv, NEW w \in Workers, NEW q, work' = [work EXCEPT ![w] = q],
         UNCHANGED log, running' \subseteq running, WorkFits(w, q), OutcomeAfterStop',
         \A t \in Turns : channel'[t] # <<>> => channel[t] # <<>>,
         w \in Creators /\ q.pc # "idle" =>
           \A c \in Creators \ {w} : work[c].pc # "idle" => work[c].turn # q.turn
  PROVE  AgentInv'
<1>1. work'[w] = q /\ \A v \in Workers \ {w} : work'[v] = work[v]
  BY DEF LogInv
<1>2. ASSUME NEW v \in Workers PROVE WorkFits(v, work[v])'
  <2>1. CASE v = w
    BY <1>1, <2>1, StillFits DEF WorkFits, EventsOf, Started
  <2>2. CASE v # w
    <3>1. WorkFits(v, work[v])
      BY DEF AgentInv
    <3> QED BY <1>1, <2>2, <3>1 DEF WorkFits, EventsOf, Started
  <2> QED BY <2>1, <2>2
<1>3. CreatorsDiffer'
  <2> SUFFICES ASSUME NEW c \in Creators, NEW d \in Creators, c # d,
                      work'[c].pc # "idle", work'[d].pc # "idle"
               PROVE  work'[c].turn # work'[d].turn
    BY DEF CreatorsDiffer, At
  <2>1. c \in Workers /\ d \in Workers
    BY Disjoint
  <2>2. CASE w \notin {c, d}
    BY <1>1, <2>1, <2>2 DEF AgentInv, CreatorsDiffer, At
  <2>3. CASE w = c
    BY <1>1, <2>1, <2>3
  <2>4. CASE w = d
    BY <1>1, <2>1, <2>4
  <2> QED BY <2>2, <2>3, <2>4
<1>4. \A t \in Turns : channel'[t] # <<>> => Started(t)'
  BY SameLog DEF AgentInv
<1>5. running' \subseteq Turns /\ \A t \in running' : Started(t)'
  BY SameLog DEF AgentInv
<1> QED BY <1>2, <1>3, <1>4, <1>5 DEF AgentInv

\* A goroutine that leaves agents and channels alone.
LEMMA QuietFits ==
  ASSUME AgentInv, LogInv, NEW w \in Workers, NEW q, work' = [work EXCEPT ![w] = q],
         UNCHANGED <<log, running, channel>>, WorkFits(w, q),
         w \in Creators /\ q.pc # "idle" =>
           \A c \in Creators \ {w} : work[c].pc # "idle" => work[c].turn # q.turn
  PROVE  AgentInv'
<1>1. OutcomeAfterStop'
  BY DEF AgentInv, OutcomeAfterStop
<1> QED BY <1>1, OneFits

LEMMA CheckFits ==
  ASSUME AgentInv, LogInv, NEW c \in Creators, Check(c)
  PROVE  AgentInv'
<1>1. PICK t \in Turns :
        /\ EventsOf(t) = {} /\ \A w \in Workers : ~Holds(w, t)
        /\ work' = [work EXCEPT ![c] = [Idle EXCEPT !.pc = "chosen", !.turn = t, !.kind = "started"]]
  BY DEF Check
<1>2. PICK q : q = [Idle EXCEPT !.pc = "chosen", !.turn = t, !.kind = "started"]
  OBVIOUS
<1>3. q.turn = t /\ q.kind = "started" /\ q.pc = "chosen"
  BY <1>2 DEF Idle
<1>4. WorkFits(c, q)
  BY <1>1, <1>3, Disjoint DEF WorkFits
<1>5. \A d \in Creators \ {c} : work[d].pc # "idle" => work[d].turn # q.turn
  BY <1>1, <1>3, Disjoint DEF Holds
<1> QED BY <1>1, <1>2, <1>4, <1>5, QuietFits, Disjoint DEF Check

\* What a creator stores starts a fresh turn, and with it its agent.
LEMMA CreateFits ==
  ASSUME AgentInv, LogInv, NEW c \in Creators, Create(c)
  PROVE  /\ AgentInv'
         /\ \A t \in running' : Mutable(t)' \/ (t \in running /\ ~Mutable(t))
<1>1. PICK u : u = work[c].turn
  OBVIOUS
<1>2. c \in Workers /\ work[c].pc = "stamped"
  BY Disjoint DEF Create, At
<1>3. EventsOf(u) = {} /\ work[c].kind = "started" /\ u \in Turns
  BY <1>1, <1>2 DEF AgentInv, WorkFits, LogInv, WorkerOK
<1>4. running' \subseteq running \cup {u} /\ channel' = channel
  BY <1>1 DEF Create
<1>5. PICK e : e = [at |-> work[c].at, turn |-> u, kind |-> "started"]
  OBVIOUS
<1>6. log' = log \cup {e} /\ e.turn = u /\ e.kind = "started"
  BY <1>1, <1>3, <1>5 DEF Create, Stored
<1>7. work'[c] = Idle /\ \A v \in Workers \ {c} : work'[v] = work[v]
  BY <1>2 DEF LogInv, Create, Return
<1>8. EventsOf(u)' = {e} /\ \A t \in Turns \ {u} : EventsOf(t)' = EventsOf(t)
  BY <1>3, <1>6 DEF EventsOf
<1>9. ~Started(u) /\ Started(u)' /\ Mutable(u)'
  BY <1>3, <1>6, <1>8 DEF Started, Mutable, Ended, Terminal
<1>10. \A t \in Turns \ {u} : Started(t)' = Started(t) /\ Mutable(t)' = Mutable(t)
  BY <1>8 DEF Started, Mutable, Ended
<1>11. ASSUME NEW v \in Workers PROVE WorkFits(v, work[v])'
  <2>1. CASE v = c
    BY <1>7, <2>1, Disjoint DEF WorkFits, Idle
  <2>2. CASE v \in Creators \ {c}
    <3>1. work[v].pc # "idle" => work[v].turn # u
      BY <1>1, <1>2, <2>2 DEF AgentInv, CreatorsDiffer, At
    <3>2. WorkFits(v, work[v])
      BY DEF AgentInv
    <3>3. work[v].pc \in {"chosen", "stamped"} => work[v].turn \in Turns
      BY DEF LogInv, WorkerOK
    <3>4. work'[v] = work[v] /\ v \notin Turns
      BY <1>7, <2>2, Disjoint
    <3>5. PICK x : x = work[v].turn
      OBVIOUS
    <3>6. work[v].pc \in {"chosen", "stamped"} /\ EventsOf(x) = {} => EventsOf(x)' = {}
      BY <1>8, <3>1, <3>3, <3>5
    <3> QED BY <2>2, <3>2, <3>4, <3>5, <3>6 DEF WorkFits
  <2>3. CASE v \notin Creators
    <3>1. WorkFits(v, work[v])
      BY DEF AgentInv
    <3>2. work'[v] = work[v]
      BY <1>7, <2>3
    <3>3. \A x : Started(x) => Started(x)'
      BY <1>6 DEF Started, EventsOf
    <3>4. PICK q : q = work[v]
      OBVIOUS
    <3>5. q.kind \in Terminal /\ v \in Turns => v # u
      BY <1>9, <2>3, <3>1, <3>4 DEF WorkFits
    <3> QED BY <1>4, <2>3, <3>1, <3>2, <3>3, <3>4, <3>5 DEF WorkFits
  <2> QED BY <2>1, <2>2, <2>3
<1>12. CreatorsDiffer'
  BY <1>7, Disjoint DEF AgentInv, CreatorsDiffer, At, Idle
<1>13. OutcomeAfterStop'
  <2>1. channel[u] = <<>>
    BY <1>3, <1>9 DEF AgentInv
  <2> QED BY <1>4, <2>1 DEF AgentInv, OutcomeAfterStop
<1>14. \A t \in Turns : channel'[t] # <<>> => Started(t)'
  BY <1>4, <1>9, <1>10 DEF AgentInv
<1>15. running' \subseteq Turns /\ \A t \in running' : Started(t)'
  BY <1>3, <1>4, <1>9, <1>10 DEF AgentInv
<1>16. \A t \in running' : Mutable(t)' \/ (t \in running /\ ~Mutable(t))
  BY <1>4, <1>9, <1>10, <1>15
<1> QED BY <1>11, <1>12, <1>13, <1>14, <1>15, <1>16 DEF AgentInv

\* An event that is stored ends the turn of a running agent only as a report.
LEMMA AppendFits ==
  ASSUME AgentInv, LogInv, OnlyCreatorsStart, NEW w \in Workers, AppendEvent(w)
  PROVE  /\ AgentInv'
         /\ \A t \in running' : Mutable(t)' \/ (t \in running /\ (~Mutable(t) \/ (w \in Handlers /\ work[w].turn = t)))
<1>1. /\ w \notin Creators /\ Return(w) /\ work[w].pc = "stamped"
      /\ UNCHANGED <<running, channel>>
  BY DEF AppendEvent, At
<1>2. work'[w] = Idle /\ \A v \in Workers \ {w} : work'[v] = work[v]
  BY <1>1 DEF LogInv, Return
<1>3. PICK u, k : u = work[w].turn /\ k = work[w].kind
  OBVIOUS
<1>4. Started(u) /\ k # "started" /\ (w \in Turns /\ k \in Terminal => u = w /\ w \notin running)
  BY <1>1, <1>3 DEF AgentInv, WorkFits, OnlyCreatorsStart
<1>5. PICK e : e.turn = u /\ e.kind = k /\ (log' = log \/ log' = log \cup {e})
  <2>1. PICK e : e = [at |-> work[w].at, turn |-> u, kind |-> k]
    OBVIOUS
  <2> QED BY <1>3, <2>1 DEF AppendEvent, Stored
<1>6. \A x : Started(x) => Started(x)'
  BY <1>5 DEF Started, EventsOf
<1>7. \A x : EventsOf(x) = {} => x # u /\ EventsOf(x)' = {}
  BY <1>4, <1>5 DEF Started, EventsOf
<1>8. ASSUME NEW v \in Workers PROVE WorkFits(v, work[v])'
  <2>1. CASE v = w
    BY <1>1, <1>2, <2>1 DEF WorkFits, Idle, Terminal
  <2>2. CASE v # w
    <3>1. PICK q : q = work[v]
      OBVIOUS
    <3>2. WorkFits(v, q)
      BY <3>1 DEF AgentInv
    <3>3. work'[v] = q
      BY <1>2, <2>2, <3>1
    <3> QED BY <1>1, <1>6, <1>7, <3>2, <3>3 DEF WorkFits
  <2> QED BY <2>1, <2>2
<1>9. CreatorsDiffer'
  <2>1. \A c \in Creators : work'[c] = work[c]
    BY <1>1, <1>2, Disjoint
  <2> QED BY <2>1 DEF AgentInv, CreatorsDiffer, At
<1>10. AgentInv'
  BY <1>1, <1>6, <1>8, <1>9 DEF AgentInv, OutcomeAfterStop
<1>11. ASSUME NEW t \in running'
       PROVE  Mutable(t)' \/ (t \in running /\ (~Mutable(t) \/ (w \in Handlers /\ work[w].turn = t)))
  <2>1. t \in running
    BY <1>1
  <2>2. ASSUME ~Mutable(t)', Mutable(t) PROVE w \in Handlers /\ work[w].turn = t
    <3>1. t = u /\ k \in Terminal
      BY <1>5, <2>2 DEF Mutable, Ended, EventsOf
    <3>2. w \notin Turns
      BY <1>4, <2>1, <3>1
    <3> QED BY <1>1, <1>3, <3>1, <3>2 DEF Workers
  <2> QED BY <2>1, <2>2
<1> QED BY <1>10, <1>11

\* A worker that takes its timestamp, finds a turn to report to, or gives up.
LEMMA MoveFits ==
  ASSUME AgentInv, LogInv, NEW w \in Workers, Stamp(w) \/ Resolve(w) \/ GiveUp(w)
  PROVE  AgentInv'
<1>1. UNCHANGED <<log, running, channel>>
  BY DEF Stamp, Resolve, GiveUp
<1>2. WorkFits(w, work[w])
  BY DEF AgentInv
<1>3. ASSUME Return(w) PROVE AgentInv'
  <2>1. PICK q : q = Idle
    OBVIOUS
  <2>2. q.pc = "idle" /\ q.kind \notin Terminal
    BY <2>1 DEF Idle, Terminal
  <2>3. WorkFits(w, q)
    BY <2>2 DEF WorkFits
  <2> QED BY <1>1, <1>3, <2>1, <2>2, <2>3, QuietFits DEF Return
<1>4. ASSUME Stamp(w) PROVE AgentInv'
  <2>1. PICK q : q = [work[w] EXCEPT !.pc = "stamped", !.at = Now]
    OBVIOUS
  <2>2. /\ q.pc = "stamped" /\ q.kind = work[w].kind /\ q.turn = work[w].turn
        /\ work[w].pc = "chosen" /\ work' = [work EXCEPT ![w] = q]
    BY <1>4, <2>1 DEF Stamp, At, LogInv, WorkerOK, WorkState
  <2>3. WorkFits(w, q)
    BY <1>2, <2>2 DEF WorkFits
  <2>4. w \in Creators => \A c \in Creators \ {w} : work[c].pc # "idle" => work[c].turn # q.turn
    BY <2>2 DEF AgentInv, CreatorsDiffer, At
  <2> QED BY <1>1, <2>2, <2>3, <2>4, QuietFits
<1>5. ASSUME NEW t \in Active, At(w, "reporting"), work' = [work EXCEPT ![w].pc = "chosen", ![w].turn = t]
      PROVE  AgentInv'
  <2>1. PICK q : q = [work[w] EXCEPT !.pc = "chosen", !.turn = t]
    OBVIOUS
  <2>2. /\ q.pc = "chosen" /\ q.kind = work[w].kind /\ q.turn = t
        /\ work[w].pc = "reporting" /\ work' = [work EXCEPT ![w] = q]
    BY <1>5, <2>1 DEF At, LogInv, WorkerOK, WorkState
  <2>3. w \notin Creators /\ WorkFits(w, q)
    BY <1>2, <2>2, ActiveStarted DEF WorkFits
  <2> QED BY <1>1, <2>2, <2>3, QuietFits
<1> QED BY <1>3, <1>4, <1>5 DEF Resolve, GiveUp

\* A report names no turn yet.
LEMMA ReportFits ==
  ASSUME AgentInv, LogInv, NEW h \in Handlers, HandlerStep(h)
  PROVE  AgentInv'
<1>1. PICK kind : Report(h, kind) /\ UNCHANGED <<log, running, channel>>
  BY DEF HandlerStep, CallTool, DecideAsked
<1>2. PICK q : q = [Idle EXCEPT !.pc = "reporting", !.kind = kind]
  OBVIOUS
<1>3. q.pc = "reporting" /\ work' = [work EXCEPT ![h] = q]
  BY <1>1, <1>2 DEF Report, Idle
<1>4. h \in Workers /\ h \notin Creators /\ h \notin Turns
  BY ConstantsAssumption DEF Workers
<1>5. WorkFits(h, q)
  BY <1>3, <1>4 DEF WorkFits
<1> QED BY <1>1, <1>3, <1>4, <1>5, QuietFits

\* What an agent emits while it runs is no outcome.
LEMMA EmitFits ==
  ASSUME AgentInv, ChannelOK, NEW t \in Turns, EmitDelta(t) \/ Finish(t) \/ Ask(t)
  PROVE  AgentInv'
<1>1. UNCHANGED <<log, work>> /\ running' \subseteq running /\ t \in running
  BY DEF EmitDelta, Finish, Ask
<1>2. \A u \in Turns \ {t} : channel'[u] = channel[u]
  BY DEF EmitDelta, Finish, Ask, EmitAll, ChannelOK
<1>3. \A i \in DOMAIN channel'[t] : channel'[t][i] \in Terminal => t \notin running'
  <2>1. CASE EmitDelta(t)
    <3>1. PICK s \in Seq(Kind \ {"started"}) : s = channel[t]
      BY DEF ChannelOK
    <3>0. <<"other">> \in Seq(Kind \ {"started"}) /\ Len(<<"other">>) = 1 /\ <<"other">>[1] = "other"
      BY DEF Kind
    <3>2. PICK d \in Seq(Kind \ {"started"}) : d = <<"other">> /\ Len(d) = 1 /\ d[1] = "other"
      BY ONLY <3>0
    <3>3. Len(d) = 1 /\ d[1] = "other"
      BY <3>2
    <3>4. channel'[t] = s \o d
      BY <2>1, <3>1, <3>2 DEF EmitDelta, EmitAll, ChannelOK
    <3>5. \A i \in DOMAIN s : s[i] \notin Terminal
      BY <1>1, <3>1 DEF AgentInv, OutcomeAfterStop
    <3>6. /\ DOMAIN s = 1..Len(s) /\ Len(s) \in Nat
          /\ s \o d \in Seq(Kind \ {"started"}) /\ Len(s \o d) = Len(s) + 1
          /\ \A i \in 1..Len(s) + 1 : (s \o d)[i] = IF i <= Len(s) THEN s[i] ELSE d[i - Len(s)]
      BY <3>1, <3>2, ConcatProperties, LenProperties
    <3>7. DOMAIN (s \o d) = 1..Len(s) + 1
      BY <3>6, LenProperties
    <3>8. ASSUME NEW i \in DOMAIN (s \o d) PROVE (s \o d)[i] \notin Terminal
      <4>1. CASE i <= Len(s)
        BY <3>5, <3>6, <3>7, <4>1
      <4>2. CASE ~(i <= Len(s))
        <5>1. i = Len(s) + 1 /\ i - Len(s) = 1
          BY <3>6, <3>7, <4>2
        <5>2. (s \o d)[i] = "other"
          BY <3>3, <3>6, <3>7, <4>2, <5>1
        <5> QED BY <5>2 DEF Terminal
      <4> QED BY <4>1, <4>2
    <3> QED BY <3>4, <3>8
  <2>2. CASE Finish(t) \/ Ask(t)
    BY <2>2 DEF Finish, Ask
  <2> QED BY <2>1, <2>2
<1>4. OutcomeAfterStop'
  BY <1>1, <1>2, <1>3 DEF AgentInv, OutcomeAfterStop
<1>5. \A w \in Workers : WorkFits(w, work[w])'
  BY <1>1 DEF AgentInv, WorkFits, EventsOf, Started
<1>6. CreatorsDiffer'
  BY <1>1 DEF AgentInv, CreatorsDiffer, At
<1>7. \A u \in Turns : channel'[u] # <<>> => Started(u)'
  BY <1>1, <1>2, SameLog DEF AgentInv
<1>8. running' \subseteq Turns /\ \A u \in running' : Started(u)'
  BY <1>1, SameLog DEF AgentInv
<1> QED BY <1>4, <1>5, <1>6, <1>7, <1>8 DEF AgentInv

\* An outcome that is taken from the channel is the one of its own turn.
LEMMA TakeFits ==
  ASSUME AgentInv, LogInv, ChannelOK, NEW t \in Turns, Take(t)
  PROVE  AgentInv'
<1>1. UNCHANGED <<log, running>> /\ channel[t] # <<>> /\ channel' = [channel EXCEPT ![t] = Tail(@)]
  BY DEF Take
<1>2. PICK s \in Seq(Kind \ {"started"}) : s = channel[t]
  BY DEF ChannelOK
<1>3. PICK kind, rest : kind = Head(s) /\ rest = Tail(s)
  OBVIOUS
<1>4. PICK n : n = Len(s) /\ n \in Nat \ {0} /\ DOMAIN s = 1..n
  BY <1>1, <1>2, LenProperties, EmptySeq
<1>5. /\ kind = s[1] /\ rest \in Seq(Kind \ {"started"}) /\ DOMAIN rest = 1..n - 1
      /\ \A i \in 1..n - 1 : rest[i] = s[i + 1]
  BY <1>1, <1>2, <1>3, <1>4, HeadTailProperties, LenProperties
<1>6. channel'[t] = rest /\ \A u \in Turns \ {t} : channel'[u] = channel[u]
  BY <1>1, <1>2, <1>3 DEF ChannelOK
<1>7. \A i \in 1..n : s[i] \in Terminal => t \notin running
  BY <1>2, <1>4 DEF AgentInv, OutcomeAfterStop
<1>8. \A i \in 1..n - 1 : i + 1 \in 1..n
  BY <1>4
<1>9. OutcomeAfterStop'
  BY <1>1, <1>5, <1>6, <1>7, <1>8 DEF AgentInv, OutcomeAfterStop
<1>10. Started(t) /\ (kind \in Terminal => t \notin running) /\ t \in Workers /\ t \notin Creators
  BY <1>1, <1>4, <1>5, <1>7, Disjoint DEF AgentInv
<1>11. PICK q : work' = [work EXCEPT ![t] = q] /\ WorkFits(t, q)
  <2>1. CASE kind = "awaiting"
    <3>1. PICK q : q = [Idle EXCEPT !.pc = "reporting", !.kind = kind]
      OBVIOUS
    <3>2. q.kind \notin Terminal /\ q.pc = "reporting"
      BY <2>1, <3>1 DEF Idle, Terminal
    <3>3. work' = [work EXCEPT ![t] = q]
      BY <1>2, <1>3, <2>1, <3>1 DEF Take, Report
    <3> QED BY <1>10, <3>2, <3>3 DEF WorkFits
  <2>2. CASE kind # "awaiting"
    <3>1. PICK q : q = [pc |-> "stamped", turn |-> t, kind |-> kind, at |-> Now]
      OBVIOUS
    <3>2. q.kind = kind /\ q.pc = "stamped" /\ q.turn = t
      BY <3>1
    <3>3. work' = [work EXCEPT ![t] = q]
      BY <1>2, <1>3, <2>2, <3>1 DEF Take
    <3> QED BY <1>10, <3>2, <3>3 DEF WorkFits
  <2> QED BY <2>1, <2>2
<1>12. \A u \in Turns : channel'[u] # <<>> => channel[u] # <<>>
  BY <1>1, <1>6
<1> QED BY <1>1, <1>9, <1>10, <1>11, <1>12, OneFits

LEMMA AgentsStep ==
  ASSUME AgentInv, LogInv, ChannelOK, OnlyCreatorsStart, [Next]_vars
  PROVE  /\ AgentInv'
         /\ \A t \in running' : ~Mutable(t)' =>
              /\ t \in running
              /\ ~Mutable(t) \/ \E h \in Handlers : AppendEvent(h) /\ work[h].turn = t
<1> DEFINE Kept == \A t \in running' : ~Mutable(t)' =>
              /\ t \in running
              /\ ~Mutable(t) \/ \E h \in Handlers : AppendEvent(h) /\ work[h].turn = t
<1>1. ASSUME UNCHANGED log, running' \subseteq running PROVE Kept
  BY <1>1, SameLog
<1>2. ASSUME NEW c \in Creators, Check(c) \/ Create(c) PROVE AgentInv' /\ Kept
  <2>1. CASE Check(c)
    BY <1>1, <2>1, CheckFits DEF Check
  <2>2. CASE Create(c)
    BY <2>2, CreateFits
  <2> QED BY <1>2, <2>1, <2>2
<1>3. ASSUME UNCHANGED <<log, work, running, channel>> PROVE AgentInv' /\ Kept
  <2>1. AgentInv'
    BY <1>3 DEF AgentInv, WorkFits, CreatorsDiffer, OutcomeAfterStop, At, EventsOf, Started
  <2> QED BY <1>1, <1>3, <2>1
<1>4. ASSUME NEW t \in Turns, AgentStep(t) \/ ExpireAsked(t) PROVE AgentInv' /\ Kept
  <2>1. CASE EmitDelta(t) \/ Finish(t) \/ Ask(t)
    <3>1. UNCHANGED log /\ running' \subseteq running
      BY <2>1 DEF EmitDelta, Finish, Ask
    <3> QED BY <1>1, <2>1, <3>1, EmitFits
  <2>2. CASE Take(t)
    <3>1. UNCHANGED log /\ running' \subseteq running
      BY <2>2 DEF Take
    <3> QED BY <1>1, <2>2, <3>1, TakeFits
  <2>3. CASE ExpireAsked(t)
    BY <1>3, <2>3 DEF ExpireAsked
  <2> QED BY <1>4, <2>1, <2>2, <2>3 DEF AgentStep
<1>5. ASSUME NEW h \in Handlers, HandlerStep(h) PROVE AgentInv' /\ Kept
  <2>1. UNCHANGED log /\ running' \subseteq running
    BY <1>5 DEF HandlerStep, CallTool, DecideAsked
  <2> QED BY <1>1, <1>5, <2>1, ReportFits
<1>6. ASSUME NEW w \in Workers, WriteStep(w) \/ GiveUp(w) PROVE AgentInv' /\ Kept
  <2>1. CASE AppendEvent(w)
    BY <2>1, AppendFits
  <2>2. CASE Stamp(w) \/ Resolve(w) \/ GiveUp(w)
    <3>1. UNCHANGED log /\ running' \subseteq running
      BY <2>2 DEF Stamp, Resolve, GiveUp
    <3> QED BY <1>1, <2>2, <3>1, MoveFits
  <2> QED BY <1>6, <2>1, <2>2 DEF WriteStep
<1>7. ASSUME Restart PROVE AgentInv' /\ Kept
  <2>1. work' = [w \in Workers |-> Idle] /\ running' = {} /\ channel' = [t \in Turns |-> <<>>]
    BY <1>7 DEF Restart
  <2>2. Idle.pc = "idle" /\ Idle.kind \notin Terminal
    BY DEF Idle, Terminal
  <2>3. \A w \in Workers : WorkFits(w, work[w])'
    BY <2>1, <2>2 DEF WorkFits
  <2>4. CreatorsDiffer'
    BY <2>1, <2>2, Disjoint DEF CreatorsDiffer, At
  <2> QED BY <2>1, <2>3, <2>4 DEF AgentInv, OutcomeAfterStop
<1>8. ASSUME UNCHANGED vars PROVE AgentInv' /\ Kept
  BY <1>3, <1>8 DEF vars
<1>9. AgentInv' /\ Kept
  BY <1>2, <1>4, <1>5, <1>6, <1>7, <1>8 DEF Next
<1> QED BY <1>9

(***************************************************************************)
(* The agent of a turn (createSessionTurn, runAgentTurn) starts on a turn  *)
(* that may change, and only the report of a client's request, stored by   *)
(* appendTurnLifecycleEvent, ends that turn while the agent runs: for any  *)
(* number of creators, handlers and turns, a store that fails, clients     *)
(* that leave and any number of restarts.                                  *)
(***************************************************************************)
THEOREM AgentKeepsTurn == Spec => AgentKeepsItsTurn
<1>1. Init => AgentInv /\ LogInv /\ ChannelOK /\ OnlyCreatorsStart
  <2> SUFFICES ASSUME Init PROVE AgentInv /\ ChannelOK /\ OnlyCreatorsStart
    BY LogInit
  <2>1. work = [w \in Workers |-> Idle] /\ running = {} /\ channel = [t \in Turns |-> <<>>]
    BY DEF Init
  <2>2. Idle.pc = "idle" /\ Idle.kind \notin Terminal /\ Idle.kind # "started"
    BY DEF Idle, Terminal
  <2>3. \A w \in Workers : WorkFits(w, work[w])
    BY <2>1, <2>2 DEF WorkFits
  <2>4. CreatorsDiffer /\ OnlyCreatorsStart
    BY <2>1, <2>2, Disjoint DEF CreatorsDiffer, OnlyCreatorsStart, At
  <2> QED BY <2>1, <2>3, <2>4 DEF AgentInv, OutcomeAfterStop, ChannelOK
<1>2. AgentInv /\ LogInv /\ ChannelOK /\ OnlyCreatorsStart /\ [Next]_vars
        => (AgentInv /\ LogInv /\ ChannelOK /\ OnlyCreatorsStart)'
  BY AgentsStep, LogStep, ChannelStep, StartersStep
<1>3. AgentInv /\ LogInv /\ ChannelOK /\ OnlyCreatorsStart /\ [Next]_vars
        => [ \A t \in running' : ~Mutable(t)' =>
               /\ t \in running
               /\ ~Mutable(t) \/ \E h \in Handlers : AppendEvent(h) /\ work[h].turn = t ]_vars
  BY AgentsStep
<1> QED BY <1>1, <1>2, <1>3, PTL DEF Spec, AgentKeepsItsTurn

==============================================================================
