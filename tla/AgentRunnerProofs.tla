-------------------------- MODULE AgentRunnerProofs --------------------------
(***************************************************************************)
(* Theorems about AgentRunner, for every value of its constants: however   *)
(* the model, the gate and the tools behave, a turn ends once, its tools   *)
(* run as the model asked, and the conversation it sends back answers      *)
(* every tool use.  The inductive invariant is AgentInv.                   *)
(***************************************************************************)
EXTENDS AgentRunner, SequenceTheorems, FiniteSetTheorems, TLAPS

(***************************************************************************)
(* The types                                                               *)
(***************************************************************************)
LEMMA ConstantTypes ==
  /\ MaxDepth \in Nat /\ MaxToolCalls \in Nat /\ MaxOutput \in Nat
  /\ MaxChunks \in Nat /\ MaxUses \in Nat /\ MaxFragments \in Nat
  /\ StreamSize \in Nat \ {0} /\ ChannelSize \in Nat \ {0}
BY AgentAssumption

\* A sequence and one more element.
LEMMA Appended ==
  ASSUME NEW S, NEW s \in Seq(S), NEW e \in S
  PROVE  /\ Append(s, e) \in Seq(S) /\ DOMAIN Append(s, e) = 1..Len(s) + 1
         /\ Len(s) \in Nat /\ Len(Append(s, e)) = Len(s) + 1
         /\ \A i \in 1..Len(s) : Append(s, e)[i] = s[i]
         /\ Append(s, e)[Len(s) + 1] = e
<1>1. /\ Append(s, e) \in Seq(S) /\ Len(Append(s, e)) = Len(s) + 1 /\ Len(s) \in Nat
  BY AppendProperties, LenProperties
<1>2. /\ \A i \in 1..Len(s) : Append(s, e)[i] = s[i]
      /\ Append(s, e)[Len(s) + 1] = e
  BY AppendProperties
<1>3. DOMAIN Append(s, e) = 1..Len(s) + 1
  BY <1>1, LenProperties
<1> QED BY <1>1, <1>2, <1>3

LEMMA ChunkTypes ==
  ASSUME NEW e \in Chunk
  PROVE  /\ e.type \in {"text", "start", "input", "stop"}
         /\ e.type = "start" => e.id \in Ids
         /\ e.type = "input" => e \in Fragment
         /\ e.type = "stop" => e.reason \in Reasons \cup {"error"}
BY DEF Chunk, Fragment

\* A chunk that is put in the stream.
LEMMA PutTypes ==
  ASSUME TypeOK, NEW e \in Chunk, Put(e)
  PROVE  /\ stream' \in [buf : Seq(Chunk), open : BOOLEAN]
         /\ Len(stream'.buf) <= StreamSize /\ chunks' \in 0..MaxChunks
<1>1. /\ Append(stream.buf, e) \in Seq(Chunk)
      /\ Len(Append(stream.buf, e)) = Len(stream.buf) + 1
      /\ Len(stream.buf) \in Nat
  BY AppendProperties, LenProperties DEF TypeOK
<1>2. stream' = [stream EXCEPT !.buf = Append(stream.buf, e)] /\ chunks' = chunks + 1
      /\ Len(stream.buf) < StreamSize /\ chunks < MaxChunks
  BY DEF Put
<1>3. stream \in [buf : Seq(Chunk), open : BOOLEAN] /\ chunks \in 0..MaxChunks
  BY DEF TypeOK
<1>4. stream' = [buf |-> Append(stream.buf, e), open |-> stream.open]
  BY <1>2, <1>3
<1>5. Len(stream'.buf) <= StreamSize /\ stream' \in [buf : Seq(Chunk), open : BOOLEAN]
  <2>1. stream'.buf = Append(stream.buf, e) /\ stream'.open = stream.open /\ stream.open \in BOOLEAN
    BY <1>3, <1>4
  <2>2. Len(stream'.buf) <= StreamSize
    BY <1>1, <1>2, <2>1, ConstantTypes
  <2> QED BY <1>1, <1>4, <2>1, <2>2
<1>6. chunks' \in 0..MaxChunks
  <2> HIDE DEF Put
  <2>1. chunks' = chunks + 1 /\ chunks < MaxChunks /\ chunks \in 0..MaxChunks
    BY <1>2, <1>3
  <2> QED BY <2>1, ConstantTypes
<1> QED BY <1>5, <1>6

\* What is sent on the channel fits.
ChannelOK ==
  emitted \in Seq(Event) /\ taken \in 0..Len(emitted) /\ Len(emitted) - taken <= ChannelSize

LEMMA ChannelTypes ==
  ASSUME TypeOK, taken' = taken, emitted' = emitted \/ \E t \in Event : Emit(t)
  PROVE  ChannelOK'
<1>1. CASE emitted' = emitted
  BY <1>1 DEF TypeOK, ChannelOK
<1>2. ASSUME NEW t \in Event, Emit(t)
      PROVE  ChannelOK'
  <2>1. /\ emitted' \in Seq(Event) /\ Len(emitted') = Len(emitted) + 1
        /\ Len(emitted) \in Nat
    BY <1>2, AppendProperties, LenProperties DEF Emit, TypeOK
  <2>2. taken \in 0..Len(emitted) /\ Len(emitted) - taken < ChannelSize /\ taken' = taken
    BY <1>2 DEF Emit, TypeOK
  <2>3. taken' \in 0..Len(emitted') /\ Len(emitted') - taken' <= ChannelSize
    BY <2>1, <2>2, ConstantTypes
  <2> QED BY <2>1, <2>3 DEF ChannelOK
<1> QED BY <1>1, <1>2

LEMMA InitTypes == Init => TypeOK
<1> SUFFICES ASSUME Init PROVE TypeOK
  OBVIOUS
<1>1. \A S : <<>> \in Seq(S) /\ Len(<<>>) = 0
  BY EmptySeq
<1>2. said \in [DOMAIN said -> [fragments : Nat, whole : BOOLEAN]] /\ DOMAIN said = {}
  BY DEF Init
<1>3. turn \in [depth : 0..MaxDepth, calls : 0..MaxToolCalls + 1, output : 0..MaxOutput + 1]
  BY ConstantTypes DEF Init
<1>4. /\ collected \in [stop : Reasons \cup {"end_turn", "error"}, uses : Seq(Use)]
      /\ blocks \in [next : Nat \ {0}, uses : Seq(Ids), results : Seq(Ids)]
      /\ blocks.next <= Len(collected.uses) + 1
  BY <1>1 DEF Init, NoBlocks
<1>5. stream \in [buf : Seq(Chunk), open : BOOLEAN] /\ Len(stream.buf) <= StreamSize
  BY <1>1, ConstantTypes DEF Init
<1>6. taken \in 0..Len(emitted) /\ Len(emitted) - taken <= ChannelSize /\ chunks \in 0..MaxChunks
  BY <1>1, ConstantTypes DEF Init
<1> QED BY <1>1, <1>2, <1>3, <1>4, <1>5, <1>6 DEF Init, TypeOK

LEMMA ProviderTypes ==
  ASSUME TypeOK, InPlace, Provider
  PROVE  TypeOK'
<1>1. UNCHANGED <<agentVars, taken, toolVars>>
  BY DEF Provider, Text, ToolUseStart, StopReason, BreakStream, CloseStream, InputDelta, Put
<1> SUFFICES /\ stream' \in [buf : Seq(Chunk), open : BOOLEAN] /\ Len(stream'.buf) <= StreamSize
             /\ DOMAIN said' \subseteq Ids
             /\ said' \in [DOMAIN said' -> [fragments : Nat, whole : BOOLEAN]]
             /\ chunks' \in 0..MaxChunks
  BY <1>1 DEF TypeOK, agentVars, toolVars
<1>2. CASE Text
  <2>1. [type |-> "text"] \in Chunk
    BY DEF Chunk
  <2> QED BY <1>2, <2>1, PutTypes DEF Text, TypeOK
<1>3. CASE ToolUseStart
  <2> DEFINE id == <<turn.depth, Cardinality(UsesSaid) + 1>>
  <2>1. id \in Ids /\ Put([type |-> "start", id |-> id])
        /\ said' = [i \in DOMAIN said \cup {id} |->
                      IF i = id THEN [fragments |-> 0, whole |-> FALSE] ELSE said[i]]
    BY <1>3 DEF ToolUseStart
  <2> HIDE DEF id
  <2>2. [type |-> "start", id |-> id] \in Chunk
    BY <2>1 DEF Chunk
  <2> QED BY <2>1, <2>2, PutTypes DEF TypeOK
<1>4. ASSUME NEW id \in UsesSaid, NEW last \in BOOLEAN, InputDelta(id, last)
      PROVE  /\ stream' \in [buf : Seq(Chunk), open : BOOLEAN] /\ Len(stream'.buf) <= StreamSize
             /\ DOMAIN said' \subseteq Ids
             /\ said' \in [DOMAIN said' -> [fragments : Nat, whole : BOOLEAN]]
             /\ chunks' \in 0..MaxChunks
  <2> DEFINE e == [type |-> "input", id |-> id, n |-> said[id].fragments + 1, last |-> last]
  <2>1. id \in DOMAIN said /\ id \in Ids /\ said[id].fragments \in Nat
    BY DEF UsesSaid, TypeOK
  <2>2. e \in Chunk
    BY <2>1 DEF Chunk, Fragment
  <2>3. Put(e) /\ said' = [said EXCEPT ![id] = [fragments |-> @.fragments + 1, whole |-> last]]
    BY <1>4 DEF InputDelta
  <2> HIDE DEF e
  <2>4. said' \in [DOMAIN said -> [fragments : Nat, whole : BOOLEAN]] /\ DOMAIN said' = DOMAIN said
    BY <2>1, <2>3, SMTT(30) DEF TypeOK
  <2> QED BY <2>2, <2>3, <2>4, PutTypes DEF TypeOK
<1>5. CASE BreakStream
  <2> DEFINE e == [type |-> "stop", reason |-> "error"]
  <2>1. e \in Chunk
    BY DEF Chunk
  <2>2. /\ stream' = [buf |-> Append(stream.buf, e), open |-> FALSE]
        /\ Len(stream.buf) < StreamSize /\ said' = said /\ chunks' = chunks
    BY <1>5 DEF BreakStream
  <2> HIDE DEF e
  <2>3. Append(stream.buf, e) \in Seq(Chunk) /\ Len(Append(stream.buf, e)) = Len(stream.buf) + 1
        /\ Len(stream.buf) \in Nat
    BY <2>1, AppendProperties, LenProperties DEF TypeOK
  <2>4. stream' \in [buf : Seq(Chunk), open : BOOLEAN] /\ Len(stream'.buf) <= StreamSize
    BY <2>2, <2>3, ConstantTypes
  <2> QED BY <2>2, <2>4 DEF TypeOK
<1>6. CASE CloseStream
  BY <1>6 DEF CloseStream, TypeOK
<1>7. ASSUME NEW reason \in Reasons, StopReason(reason)
      PROVE  /\ stream' \in [buf : Seq(Chunk), open : BOOLEAN] /\ Len(stream'.buf) <= StreamSize
             /\ said' = said /\ chunks' \in 0..MaxChunks
  <2>1. [type |-> "stop", reason |-> reason] \in Chunk
    BY DEF Chunk
  <2> QED BY <1>7, <2>1, PutTypes DEF StopReason, TypeOK
<1> QED BY <1>2, <1>3, <1>4, <1>5, <1>6, <1>7, SMTT(30) DEF Provider, TypeOK

\* One more unit of output, before the cap is compared.
LEMMA CountTypes ==
  ASSUME TypeOK, InPlace, pc # "done"
  PROVE  /\ Count \in [depth : 0..MaxDepth, calls : 0..MaxToolCalls + 1, output : 0..MaxOutput + 1]
         /\ Count.depth = turn.depth /\ Count.calls = turn.calls /\ Count.output = turn.output + 1
<1>1. turn.output \in 0..MaxOutput + 1 /\ turn.output <= MaxOutput
  BY DEF InPlace, TypeOK
<1>2. turn.output + 1 \in 0..MaxOutput + 1
  BY <1>1, ConstantTypes
<1> QED BY <1>2 DEF Count, TypeOK

LEMMA CollectTypes ==
  ASSUME TypeOK, InPlace, Collect
  PROVE  TypeOK'
<1> DEFINE e == Head(stream.buf)
<1>1. /\ e \in Chunk /\ Tail(stream.buf) \in Seq(Chunk)
      /\ Len(Tail(stream.buf)) = Len(stream.buf) - 1 /\ Len(stream.buf) \in Nat
  BY HeadTailProperties, LenProperties DEF Collect, TypeOK
<1>2. stream' = [stream EXCEPT !.buf = Tail(stream.buf)] /\ pc = "collect"
      /\ UNCHANGED <<blocks, messages, expired, taken, said, chunks, toolVars>>
  BY DEF Collect
<1>3. blocks.next = 1
  BY <1>2 DEF InPlace, NoBlocks
<1> SUFFICES /\ pc' \in {"collect", "done"}
             /\ turn' \in [depth : 0..MaxDepth, calls : 0..MaxToolCalls + 1, output : 0..MaxOutput + 1]
             /\ collected' \in [stop : Reasons \cup {"end_turn", "error"}, uses : Seq(Use)]
             /\ emitted' = emitted \/ \E t \in Event : Emit(t)
  <2>1. ChannelOK'
    BY <1>2, ChannelTypes
  <2>2. Len(collected'.uses) \in Nat
    BY LenProperties
  <2>3. blocks'.next <= Len(collected'.uses) + 1
    BY <1>2, <1>3, <2>2
  <2>4. stream' \in [buf : Seq(Chunk), open : BOOLEAN] /\ stream'.buf = Tail(stream.buf)
    BY <1>1, <1>2 DEF TypeOK
  <2>5. Len(stream'.buf) <= StreamSize
    <3>1. Len(stream.buf) <= StreamSize
      BY DEF TypeOK
    <3> HIDE DEF e
    <3> QED BY <1>1, <2>4, <3>1, ConstantTypes
  <2> QED BY <1>2, <2>1, <2>3, <2>4, <2>5 DEF TypeOK, ChannelOK, toolVars
<1>4. CASE e.type = "text" /\ turn' = Count
           /\ (IF CapExceeded THEN Completed ELSE Emit("text_delta") /\ UNCHANGED pc)
           /\ UNCHANGED collected
  <2>2. turn' \in [depth : 0..MaxDepth, calls : 0..MaxToolCalls + 1, output : 0..MaxOutput + 1]
    BY <1>2, <1>4, CountTypes
  <2>3. /\ pc' \in {"collect", "done"}
        /\ \E t \in Event : Emit(t)
    BY <1>2, <1>4 DEF Completed, EndTurn, Event
  <2> QED BY <1>4, <2>2, <2>3 DEF TypeOK
<1>5. CASE e.type = "start" /\ Emit("tool_use_start")
           /\ collected' = [collected EXCEPT !.uses = Append(@, [id |-> e.id, input |-> <<>>])]
           /\ UNCHANGED <<pc, turn>>
  <2>1. [id |-> e.id, input |-> <<>>] \in Use
    BY <1>1, <1>5, ChunkTypes, EmptySeq DEF Use
  <2>2. Append(collected.uses, [id |-> e.id, input |-> <<>>]) \in Seq(Use)
    BY <2>1, AppendProperties DEF TypeOK
  <2> QED BY <1>2, <1>5, <2>2 DEF TypeOK, Event
<1>6. CASE e.type = "input" /\ Emit("tool_input_delta")
           /\ collected' = [collected EXCEPT !.uses = Accumulate(@, e)]
           /\ UNCHANGED <<pc, turn>>
  <2>1. e \in Fragment /\ collected.uses \in Seq(Use)
    BY <1>1, <1>6, ChunkTypes DEF TypeOK
  <2>2. Accumulate(collected.uses, e) \in Seq(Use)
    <3> HIDE DEF e
    <3>1. /\ collected.uses \in [1..Len(collected.uses) -> Use] /\ Len(collected.uses) \in Nat
          /\ DOMAIN collected.uses = 1..Len(collected.uses)
      BY <2>1, LenProperties
    <3>2. ASSUME NEW i \in DOMAIN collected.uses
          PROVE  [collected.uses[i] EXCEPT !.input = Append(@, e)] \in Use
      <4>1. collected.uses[i] \in Use
        BY <3>1
      <4>2. Append(collected.uses[i].input, e) \in Seq(Fragment)
        BY <2>1, <4>1, AppendProperties DEF Use
      <4> QED BY <4>1, <4>2 DEF Use
    <3>3. Accumulate(collected.uses, e) \in [1..Len(collected.uses) -> Use]
      BY <3>1, <3>2 DEF Accumulate
    <3> QED BY <3>1, <3>3, IsASeq
  <2> QED BY <1>2, <1>6, <2>2 DEF TypeOK, Event
<1>7. CASE e.type = "stop" /\ collected' = [collected EXCEPT !.stop = e.reason]
           /\ UNCHANGED <<pc, turn, emitted>>
  <2>1. e.reason \in Reasons \cup {"error"}
    BY <1>1, <1>7, ChunkTypes
  <2> QED BY <1>2, <1>7, <2>1 DEF TypeOK
<1> QED BY <1>4, <1>5, <1>6, <1>7 DEF Collect

\* The steps that end the turn or wait for what comes next.
LEMMA QuietTypes ==
  ASSUME TypeOK, OpenStream \/ CollectTimeout \/ CollectEnd \/ Awaited \/ Deadline
  PROVE  TypeOK'
<1>1. CASE OpenStream
  <2>1. ChannelOK'
    BY <1>1, ChannelTypes DEF OpenStream, Completed, EndTurn, Event
  <2>2. UNCHANGED <<turn, messages, expired, taken, said, toolVars>>
    BY <1>1 DEF OpenStream
  <2>3. CASE turn.depth = MaxDepth
    BY <1>1, <2>1, <2>2, <2>3 DEF OpenStream, Completed, EndTurn, TypeOK, ChannelOK, toolVars
  <2>4. CASE turn.depth # MaxDepth
    <3>1. /\ pc' = "collect" /\ stream' = [buf |-> <<>>, open |-> TRUE] /\ chunks' = 0
          /\ collected' = [stop |-> "end_turn", uses |-> <<>>] /\ blocks' = NoBlocks
      BY <1>1, <2>4 DEF OpenStream
    <3>2. /\ \A S : <<>> \in Seq(S)
          /\ Len(<<>>) = 0
      BY EmptySeq
    <3>3. /\ stream' \in [buf : Seq(Chunk), open : BOOLEAN] /\ Len(stream'.buf) <= StreamSize
          /\ chunks' \in 0..MaxChunks
      BY <3>1, <3>2, ConstantTypes
    <3>4. /\ collected' \in [stop : Reasons \cup {"end_turn", "error"}, uses : Seq(Use)]
          /\ blocks' \in [next : Nat \ {0}, uses : Seq(Ids), results : Seq(Ids)]
          /\ blocks'.next <= Len(collected'.uses) + 1
      BY <3>1, <3>2 DEF NoBlocks
    <3> QED BY <2>1, <2>2, <3>1, <3>3, <3>4 DEF TypeOK, ChannelOK, toolVars
  <2> QED BY <2>3, <2>4
<1>2. CASE CollectTimeout \/ CollectEnd \/ Awaited
  <2>1. ChannelOK'
    BY <1>2, ChannelTypes
       DEF CollectTimeout, CollectEnd, Awaited, Failed, Completed, EndTurn, Event
  <2>2. /\ UNCHANGED <<turn, collected, blocks, messages, expired, taken, modelVars, toolVars>>
        /\ pc' \in {"done", "tools"}
    BY <1>2 DEF CollectTimeout, CollectEnd, Awaited, Failed, Completed, EndTurn
  <2> QED BY <2>1, <2>2 DEF TypeOK, ChannelOK, toolVars, modelVars
<1>3. CASE Deadline
  BY <1>3 DEF Deadline, TypeOK, toolVars, modelVars
<1> QED BY <1>1, <1>2, <1>3

LEMMA UseToolTypes ==
  ASSUME TypeOK, InPlace, UseTool
  PROVE  TypeOK'
<1>1. /\ pc = "tools" /\ blocks.next <= Len(collected.uses)
      /\ turn' = [turn EXCEPT !.calls = @ + 1]
      /\ UNCHANGED <<collected, blocks, messages, expired, taken, modelVars>>
  BY DEF UseTool
<1>2. turn' \in [depth : 0..MaxDepth, calls : 0..MaxToolCalls + 1, output : 0..MaxOutput + 1]
  <2>1. turn.calls \in 0..MaxToolCalls + 1 /\ turn.calls <= MaxToolCalls
    BY <1>1 DEF InPlace, TypeOK
  <2>2. turn.calls + 1 \in 0..MaxToolCalls + 1
    BY <2>1, ConstantTypes
  <2> QED BY <1>1, <2>2 DEF TypeOK
<1>3. Current \in Use
  <2>1. blocks.next \in 1..Len(collected.uses)
    BY <1>1, LenProperties DEF TypeOK
  <2> QED BY <2>1, ElementOfSeq DEF Current, TypeOK
<1>4. Current.id \in Ids /\ Call = Current
  BY <1>3 DEF Use, Call
<1>5. ChannelOK'
  BY <1>1, ChannelTypes DEF UseTool, Failed, Completed, EndTurn, Event
<1>6. pc' \in {"done", "awaited", "running"}
  BY DEF UseTool, Failed, Completed, EndTurn
<1>7. runs' \in Seq(Use) /\ allowed' \cup proposed' \subseteq Ids
  <2>1. Append(runs, Call) \in Seq(Use)
    BY <1>3, <1>4, AppendProperties DEF TypeOK
  <2> HIDE DEF Call
  <2> QED BY <1>4, <2>1 DEF UseTool, TypeOK, toolVars
<1> QED BY <1>1, <1>2, <1>5, <1>6, <1>7 DEF TypeOK, ChannelOK, modelVars

LEMMA ToolReturnsTypes ==
  ASSUME TypeOK, InPlace, NEW failed \in BOOLEAN, ToolReturns(failed)
  PROVE  TypeOK'
<1>1. /\ pc = "running" /\ turn' = Count
      /\ UNCHANGED <<collected, messages, expired, taken, modelVars, toolVars>>
  BY DEF ToolReturns
<1>2. turn' \in [depth : 0..MaxDepth, calls : 0..MaxToolCalls + 1, output : 0..MaxOutput + 1]
  BY <1>1, CountTypes
<1>3. ChannelOK'
  BY <1>1, ChannelTypes DEF ToolReturns, Completed, EndTurn, Event
<1>4. pc' \in {"done", "tools"}
  BY DEF ToolReturns, Completed, EndTurn
<1>5. blocks' \in [next : Nat \ {0}, uses : Seq(Ids), results : Seq(Ids)]
      /\ blocks'.next <= Len(collected.uses) + 1
  <2>1. CASE blocks' = blocks
    BY <2>1 DEF TypeOK
  <2>2. CASE blocks' = [next |-> blocks.next + 1, uses |-> Append(blocks.uses, Current.id),
                        results |-> Append(blocks.results, Current.id)]
    <3>1. blocks.next \in 1..Len(collected.uses) /\ Len(collected.uses) \in Nat
      BY <1>1, LenProperties DEF TypeOK, InPlace
    <3>2. Current.id \in Ids
      <4>1. Current \in Use
        BY <3>1, ElementOfSeq DEF Current, TypeOK
      <4> QED BY <4>1 DEF Use
    <3>3. Append(blocks.uses, Current.id) \in Seq(Ids) /\ Append(blocks.results, Current.id) \in Seq(Ids)
      BY <3>2, AppendProperties DEF TypeOK
    <3>4. blocks.next + 1 \in Nat \ {0} /\ blocks.next + 1 <= Len(collected.uses) + 1
      BY <3>1
    <3> HIDE DEF Current
    <3>5. blocks'.next = blocks.next + 1
      BY <2>2
    <3> QED BY <2>2, <3>3, <3>4, <3>5
  <2> QED BY <2>1, <2>2 DEF ToolReturns, Results
<1> QED BY <1>1, <1>2, <1>3, <1>4, <1>5 DEF TypeOK, ChannelOK, modelVars, toolVars

LEMMA NextExchangeTypes ==
  ASSUME TypeOK, InPlace, NextExchange
  PROVE  TypeOK'
<1>1. /\ pc = "tools" /\ pc' = "open" /\ turn' = [turn EXCEPT !.depth = @ + 1]
      /\ messages' = Append(messages, [uses |-> blocks.uses, results |-> blocks.results])
      /\ UNCHANGED <<collected, blocks, emitted, expired, taken, modelVars, toolVars>>
  BY DEF NextExchange
<1>2. turn' \in [depth : 0..MaxDepth, calls : 0..MaxToolCalls + 1, output : 0..MaxOutput + 1]
  <2>1. turn.depth \in 0..MaxDepth /\ turn.depth < MaxDepth
    BY <1>1 DEF InPlace, TypeOK
  <2>2. turn.depth + 1 \in 0..MaxDepth
    BY <2>1, ConstantTypes
  <2> QED BY <1>1, <2>2 DEF TypeOK
<1>3. messages' \in Seq([uses : Seq(Ids), results : Seq(Ids)])
  <2>1. [uses |-> blocks.uses, results |-> blocks.results] \in [uses : Seq(Ids), results : Seq(Ids)]
    BY DEF TypeOK
  <2> QED BY <1>1, <2>1, AppendProperties DEF TypeOK
<1> QED BY <1>1, <1>2, <1>3 DEF TypeOK, modelVars, toolVars

LEMMA TakeEventTypes ==
  ASSUME TypeOK, TakeEvent
  PROVE  TypeOK'
<1>1. taken' = taken + 1 /\ taken < Len(emitted) /\ UNCHANGED <<agentVars, modelVars, toolVars>>
  BY DEF TakeEvent
<1>2. taken \in 0..Len(emitted) /\ Len(emitted) \in Nat /\ Len(emitted) - taken <= ChannelSize
  BY LenProperties DEF TypeOK
<1>3. taken' \in 0..Len(emitted) /\ Len(emitted) - taken' <= ChannelSize
  BY <1>1, <1>2, ConstantTypes
<1> QED BY <1>1, <1>3 DEF TypeOK, agentVars, modelVars, toolVars

LEMMA NextTypes == TypeOK /\ InPlace /\ [Next]_vars => TypeOK'
<1> SUFFICES ASSUME TypeOK, InPlace, [Next]_vars
             PROVE  TypeOK'
  OBVIOUS
<1>1. CASE UNCHANGED vars
  BY <1>1 DEF TypeOK, vars, agentVars, modelVars, toolVars
<1> QED BY <1>1, ProviderTypes, CollectTypes, QuietTypes, UseToolTypes, ToolReturnsTypes,
           NextExchangeTypes, TakeEventTypes DEF Next, Runner

(***************************************************************************)
(* The runner's place in the loop, and the end of the turn                 *)
(***************************************************************************)
LEMMA ProviderFrame ==
  ASSUME Provider
  PROVE  UNCHANGED <<agentVars, taken, toolVars>> /\ stream.open
BY DEF Provider, Text, ToolUseStart, StopReason, BreakStream, CloseStream, InputDelta, Put

LEMMA NextInPlace == TypeOK /\ InPlace /\ [Next]_vars => InPlace'
<1> SUFFICES ASSUME TypeOK, InPlace, [Next]_vars
             PROVE  InPlace'
  OBVIOUS
<1>1. CASE UNCHANGED vars
  BY <1>1 DEF InPlace, vars, agentVars, modelVars, toolVars
<1>2. CASE Provider
  BY <1>2, ProviderFrame DEF InPlace, agentVars, toolVars
<1>3. CASE OpenStream
  <2>1. UNCHANGED <<turn, toolVars>> /\ pc = "open" /\ proposed = {}
    BY <1>3 DEF OpenStream, InPlace, toolVars
  <2>2. turn.depth \in 0..MaxDepth
    BY DEF TypeOK
  <2>3. CASE turn.depth = MaxDepth
    BY <1>3, <2>1, <2>3 DEF OpenStream, Completed, EndTurn, InPlace, toolVars
  <2>4. CASE turn.depth # MaxDepth
    <3>1. turn.depth < MaxDepth
      BY <2>2, <2>4, ConstantTypes
    <3>2. pc' = "collect" /\ blocks' = NoBlocks
      BY <1>3, <2>4 DEF OpenStream
    <3> QED BY <2>1, <3>1, <3>2 DEF InPlace, toolVars
  <2> QED BY <2>3, <2>4
<1>4. CASE Collect
  <2> DEFINE e == Head(stream.buf)
  <2>1. /\ pc = "collect" /\ stream'.open = stream.open
        /\ UNCHANGED <<blocks, toolVars>>
    BY <1>4 DEF Collect, TypeOK
  <2>2. CASE pc' = "done"
    BY <2>1, <2>2 DEF InPlace, toolVars
  <2>3. CASE pc' = "collect" /\ turn' = turn
    BY <2>1, <2>3 DEF InPlace, toolVars
  <2>4. CASE pc' = "collect" /\ turn' = Count /\ ~CapExceeded
    <3>1. turn'.depth = turn.depth /\ turn'.calls = turn.calls /\ turn'.output = turn.output + 1
      BY <2>1, <2>4, CountTypes
    <3>2. turn'.output <= MaxOutput
      <4>1. turn.output \in Nat
        BY DEF TypeOK
      <4> QED BY <2>4, <3>1, <4>1, ConstantTypes DEF CapExceeded
    <3> QED BY <2>1, <2>4, <3>1, <3>2 DEF InPlace, toolVars
  <2> QED BY <1>4, <2>1, <2>2, <2>3, <2>4 DEF Collect, Completed, EndTurn
<1>5. CASE CollectTimeout
  BY <1>5 DEF CollectTimeout, Failed, EndTurn, InPlace, toolVars, modelVars
<1>6. CASE CollectEnd
  <2>1. /\ pc' = "done" \/ (pc' = "tools" /\ stream'.buf = <<>> /\ ~stream'.open)
        /\ pc = "collect" /\ UNCHANGED <<turn, collected, blocks, stream, proposed>>
    BY <1>6 DEF CollectEnd, Failed, Completed, EndTurn, modelVars, toolVars
  <2> QED BY <2>1 DEF InPlace
<1>7. CASE UseTool
  <2>1. /\ pc = "tools" /\ blocks.next <= Len(collected.uses)
        /\ turn' = [turn EXCEPT !.calls = turn.calls + 1]
        /\ UNCHANGED <<collected, blocks, stream>>
    BY <1>7 DEF UseTool, modelVars
  <2>2. CASE pc' = "done"
    BY <2>1, <2>2 DEF InPlace
  <2>3. CASE ~TooMany /\ (pc' = "awaited" \/ (pc' = "running" /\ proposed' = proposed))
    <3>1. turn'.calls = turn.calls + 1 /\ turn'.depth = turn.depth /\ turn'.output = turn.output
          /\ turn.calls \in Nat
      BY <2>1 DEF TypeOK
    <3>2. turn'.calls <= MaxToolCalls
      BY <2>3, <3>1, ConstantTypes DEF TooMany
    <3> QED BY <2>1, <2>3, <3>1, <3>2 DEF InPlace
  <2> QED BY <1>7, <2>2, <2>3 DEF UseTool, Completed, Failed, EndTurn
<1>8. CASE Awaited
  BY <1>8 DEF Awaited, Completed, EndTurn, InPlace, toolVars, modelVars
<1>9. CASE NextExchange
  <2>1. /\ pc = "tools" /\ pc' = "open" /\ UNCHANGED <<stream, proposed>>
        /\ turn'.calls = turn.calls /\ turn'.output = turn.output
    BY <1>9 DEF NextExchange, modelVars, toolVars, TypeOK
  <2> QED BY <2>1 DEF InPlace
<1>10. ASSUME NEW failed \in BOOLEAN, ToolReturns(failed)
       PROVE  InPlace'
  <2>1. pc = "running" /\ turn' = Count /\ UNCHANGED <<stream, proposed, collected>>
        /\ (pc' = "done" \/ (pc' = "tools" /\ ~CapExceeded))
    BY <1>10 DEF ToolReturns, Completed, EndTurn, modelVars, toolVars
  <2>2. turn'.depth = turn.depth /\ turn'.calls = turn.calls /\ turn'.output = turn.output + 1
        /\ turn.output \in Nat
    BY <2>1, CountTypes DEF TypeOK
  <2>3. ~CapExceeded => turn'.output <= MaxOutput
    BY <2>2, ConstantTypes DEF CapExceeded
  <2> QED BY <2>1, <2>2, <2>3 DEF InPlace
<1>11. CASE TakeEvent \/ Deadline
  BY <1>11 DEF TakeEvent, Deadline, agentVars, modelVars, toolVars, InPlace
<1> QED BY <1>1, <1>2, <1>3, <1>4, <1>5, <1>6, <1>7, <1>8, <1>9, <1>10, <1>11 DEF Next, Runner

LEMMA EmittedIs ==
  ASSUME TypeOK, NEW t \in Event, Emit(t)
  PROVE  /\ emitted' \in Seq(Event) /\ Len(emitted') = Len(emitted) + 1
         /\ \A i \in 1..Len(emitted) : emitted'[i] = emitted[i]
         /\ emitted'[Len(emitted) + 1] = t
<1>1. emitted \in Seq(Event)
  BY DEF TypeOK
<1>2. emitted' = Append(emitted, t)
  BY DEF Emit
<1> QED BY ONLY <1>1, <1>2, t \in Event, Appended

\* A turn that goes on has emitted no end; the event that ends it is the last.
LEMMA EmitKeepsEnds ==
  ASSUME TypeOK, EndsOnce, pc # "done",
         \/ emitted' = emitted /\ pc' # "done"
         \/ \E t \in Event : Emit(t) /\ (t \in Ends <=> pc' = "done")
  PROVE  EndsOnce'
<1>1. /\ emitted \in Seq(Event) /\ Len(emitted) \in Nat /\ DOMAIN emitted = 1..Len(emitted)
  BY LenProperties DEF TypeOK
<1>2. \A i \in DOMAIN emitted : emitted[i] \notin Ends
  BY <1>1, EmptySeq DEF EndsOnce, Last
<1>3. CASE emitted' = emitted /\ pc' # "done"
  BY <1>3 DEF EndsOnce
<1>4. ASSUME NEW t \in Event, Emit(t), t \in Ends <=> pc' = "done"
      PROVE  EndsOnce'
  <2>1. /\ emitted' \in Seq(Event) /\ Len(emitted') = Len(emitted) + 1
        /\ \A i \in 1..Len(emitted) : emitted'[i] = emitted[i]
        /\ emitted'[Len(emitted) + 1] = t
    BY <1>4, EmittedIs
  <2>2. DOMAIN emitted' = 1..Len(emitted) + 1
    BY <2>1, LenProperties
  <2>3. \A i \in DOMAIN emitted' : emitted'[i] \in Ends => i = Len(emitted')
    BY <1>1, <1>2, <2>1, <2>2
  <2>4. Last(emitted') = t /\ emitted' # <<>>
    BY <1>1, <2>1, EmptySeq DEF Last
  <2> QED BY <1>4, <2>3, <2>4 DEF EndsOnce
<1> QED BY <1>3, <1>4

LEMMA NextEndsOnce == TypeOK /\ EndsOnce /\ [Next]_vars => EndsOnce'
<1> SUFFICES ASSUME TypeOK, EndsOnce, [Next]_vars
             PROVE  EndsOnce'
  OBVIOUS
<1>1. CASE UNCHANGED <<emitted, pc>>
  BY <1>1 DEF EndsOnce
<1>2. CASE UNCHANGED vars \/ Provider \/ TakeEvent \/ Deadline
  BY <1>1, <1>2, ProviderFrame DEF TakeEvent, Deadline, vars, agentVars
<1>3. ASSUME Runner
      PROVE  /\ pc # "done"
             /\ \/ emitted' = emitted /\ pc' # "done"
                \/ \E t \in Event : Emit(t) /\ (t \in Ends <=> pc' = "done")
  BY <1>3 DEF Runner, OpenStream, Collect, CollectTimeout, CollectEnd, UseTool, Awaited,
              NextExchange, ToolReturns, Completed, Failed, EndTurn, Ends, Event
<1> QED BY <1>2, <1>3, EmitKeepsEnds DEF Next

(***************************************************************************)
(* What the model has said                                                 *)
(***************************************************************************)
\* The uses numbered 1 to n of a response are n uses.
LEMMA NumberedCount ==
  ASSUME NEW e, NEW n \in Nat
  PROVE  Cardinality({<<e, k>> : k \in 1..n}) = n
<1> DEFINE S == {<<e, k>> : k \in 1..n}
           f == [k \in 1..n |-> <<e, k>>]
<1>1. f \in [1..n -> S]
  OBVIOUS
<1>2. IsInjective(f)
  BY DEF IsInjective
<1>3. \A t \in S : \E k \in 1..n : f[k] = t
  OBVIOUS
<1> HIDE DEF f, S
<1>4. ExistsBijection(1..n, S)
  BY <1>1, <1>2, <1>3 DEF ExistsBijection, Bijection, Injection, Surjection
<1> QED BY <1>4, FS_CountingElements DEF S

LEMMA SaidIds ==
  ASSUME TypeOK
  PROVE  \A id \in DOMAIN said : id \in Ids /\ id[1] \in 0..MaxDepth /\ id[2] \in 1..MaxUses
BY DEF TypeOK, Ids

\* A tool use starts with the next number.
LEMMA StartIsNext ==
  ASSUME TypeOK, InPlace, SaidInOrder, ToolUseStart
  PROVE  \E n \in 0..MaxUses :
           /\ Numbered(turn.depth, n) /\ n + 1 \in 1..MaxUses
           /\ <<turn.depth, n + 1>> \notin DOMAIN said
           /\ Put([type |-> "start", id |-> <<turn.depth, n + 1>>])
           /\ DOMAIN said' = DOMAIN said \cup {<<turn.depth, n + 1>>}
           /\ \A id \in DOMAIN said : said'[id] = said[id]
           /\ Numbered(turn.depth, n + 1)'
<1> DEFINE d == turn.depth
<1>1. PICK n \in 0..MaxUses : Numbered(d, n)
  BY DEF SaidInOrder
<1>2. n \in Nat /\ d \in Nat
  BY <1>1, ConstantTypes DEF TypeOK
<1>3. Cardinality(UsesSaid) = n
  <2>1. UsesSaid = {<<d, k>> : k \in 1..n}
    BY <1>1 DEF UsesSaid, Numbered
  <2> HIDE DEF d
  <2> QED BY ONLY <1>2, <2>1, NumberedCount
<1>4. /\ <<d, n + 1>> \in Ids /\ Put([type |-> "start", id |-> <<d, n + 1>>])
      /\ said' = [i \in DOMAIN said \cup {<<d, n + 1>>} |->
                    IF i = <<d, n + 1>> THEN [fragments |-> 0, whole |-> FALSE] ELSE said[i]]
  BY <1>3 DEF ToolUseStart
<1>5. n + 1 \in 1..MaxUses
  BY <1>4 DEF Ids
<1>6. <<d, n + 1>> \notin DOMAIN said
  <2>1. <<d, n + 1>> \notin {<<d, k>> : k \in 1..n}
    BY <1>2
  <2> QED BY <1>1, <2>1 DEF Numbered
<1>7. DOMAIN said' = DOMAIN said \cup {<<d, n + 1>>}
  BY <1>4
<1>8. \A id \in DOMAIN said : said'[id] = said[id]
  BY <1>4, <1>6
<1>9. {id \in DOMAIN said' : id[1] = d} = {<<d, k>> : k \in 1..n + 1}
  <2>1. {id \in DOMAIN said' : id[1] = d} = {id \in DOMAIN said : id[1] = d} \cup {<<d, n + 1>>}
    BY <1>7
  <2>2. {<<d, k>> : k \in 1..n + 1} = {<<d, k>> : k \in 1..n} \cup {<<d, n + 1>>}
    <3>1. 1..n + 1 = (1..n) \cup {n + 1}
      BY <1>2
    <3> QED BY <3>1
  <2> QED BY <1>1, <2>1, <2>2 DEF Numbered
<1>10. Numbered(d, n + 1)'
  <2>1. UNCHANGED turn
    BY <1>4 DEF Put, agentVars
  <2> QED BY <1>9, <2>1 DEF Numbered
<1> QED BY <1>1, <1>4, <1>5, <1>6, <1>7, <1>8, <1>10

\* Only the provider says anything, and only the next exchange is of another
\* response.
LEMMA SaidFrame ==
  ASSUME TypeOK, InPlace, [Next]_vars
  PROVE  /\ UNCHANGED said \/ ToolUseStart
            \/ \E id \in UsesSaid, last \in BOOLEAN : InputDelta(id, last)
         /\ NextExchange \/ (turn'.depth = turn.depth /\ (pc' = "open" => pc = "open"))
<1>1. CASE UNCHANGED vars
  BY <1>1 DEF vars, agentVars, modelVars
<1>2. CASE Provider
  BY <1>2, ProviderFrame DEF Provider, Text, StopReason, BreakStream, CloseStream, agentVars
<1>3. CASE TakeEvent \/ Deadline
  BY <1>3 DEF TakeEvent, Deadline, agentVars, modelVars
<1>4. CASE Runner
  <2>1. UNCHANGED said
    BY <1>4 DEF Runner, OpenStream, Collect, CollectTimeout, CollectEnd, UseTool, Awaited,
                NextExchange, ToolReturns, modelVars
  <2>2. CASE OpenStream \/ CollectTimeout \/ CollectEnd \/ Awaited
    BY <2>1, <2>2 DEF OpenStream, CollectTimeout, CollectEnd, Awaited, Completed, Failed, EndTurn
  <2>3. CASE UseTool
    BY <2>1, <2>3 DEF UseTool, Completed, Failed, EndTurn, TypeOK
  <2>4. CASE Collect \/ \E failed \in BOOLEAN : ToolReturns(failed)
    <3>1. pc # "done" /\ (turn' = turn \/ turn' = Count) /\ pc' # "open"
      BY <2>4 DEF Collect, ToolReturns, Completed, EndTurn
    <3> QED BY <2>1, <3>1, CountTypes
  <2> QED BY <1>4, <2>1, <2>2, <2>3, <2>4 DEF Runner
<1> QED BY <1>1, <1>2, <1>3, <1>4 DEF Next

LEMMA InputDeltaSays ==
  ASSUME TypeOK, NEW id \in UsesSaid, NEW last \in BOOLEAN, InputDelta(id, last)
  PROVE  /\ Put([type |-> "input", id |-> id, n |-> said[id].fragments + 1, last |-> last])
         /\ ~said[id].whole
         /\ DOMAIN said' = DOMAIN said
         /\ \A i \in DOMAIN said : i # id => said'[i] = said[i]
         /\ said'[id] = [fragments |-> said[id].fragments + 1, whole |-> last]
<1>1. id \in DOMAIN said
  BY DEF UsesSaid
<1> QED BY <1>1 DEF InputDelta, TypeOK

LEMMA NextSaidInOrder == TypeOK /\ InPlace /\ SaidInOrder /\ [Next]_vars => SaidInOrder'
<1> SUFFICES ASSUME TypeOK, InPlace, SaidInOrder, [Next]_vars
             PROVE  SaidInOrder'
  OBVIOUS
<1>1. CASE ToolUseStart
  <2>1. PICK n \in 0..MaxUses :
           /\ n + 1 \in 1..MaxUses /\ Numbered(turn.depth, n + 1)'
           /\ Put([type |-> "start", id |-> <<turn.depth, n + 1>>])
           /\ DOMAIN said' = DOMAIN said \cup {<<turn.depth, n + 1>>}
    BY <1>1, StartIsNext
  <2>2. UNCHANGED <<pc, turn>> /\ pc # "open"
    BY <2>1 DEF Put, agentVars, InPlace
  <2>3. \A id \in DOMAIN said' : id[1] <= turn'.depth
    <3>1. turn.depth \in Nat /\ turn'.depth = turn.depth
      BY <2>2 DEF TypeOK
    <3>2. \A id \in DOMAIN said : id[1] <= turn.depth
      BY DEF SaidInOrder
    <3> QED BY <2>1, <3>1, <3>2
  <2>4. n + 1 \in 0..MaxUses
    BY <2>1
  <2> QED BY <2>1, <2>2, <2>3, <2>4 DEF SaidInOrder
<1>2. CASE DOMAIN said' = DOMAIN said /\ turn'.depth = turn.depth /\ (pc' = "open" => pc = "open")
  BY <1>2 DEF SaidInOrder, Numbered
<1>3. CASE NextExchange
  <2>1. said' = said /\ turn'.depth = turn.depth + 1 /\ turn.depth \in Nat
    BY <1>3 DEF NextExchange, modelVars, TypeOK
  <2>2. \A id \in DOMAIN said' : id[1] < turn'.depth
    <3>1. \A id \in DOMAIN said : id[1] <= turn.depth
      BY DEF SaidInOrder
    <3>2. \A id \in DOMAIN said : id[1] \in Nat
      BY SaidIds, ConstantTypes
    <3> QED BY <2>1, <3>1, <3>2
  <2>3. Numbered(turn.depth, 0)'
    BY <2>1, <2>2 DEF Numbered, TypeOK, Ids
  <2>4. 0 \in 0..MaxUses
    BY ConstantTypes
  <2>5. \A id \in DOMAIN said' : id[1] <= turn'.depth
    <3>1. \A id \in DOMAIN said : id[1] \in Nat
      BY SaidIds, ConstantTypes
    <3> QED BY <2>1, <2>2, <3>1
  <2> QED BY <2>2, <2>3, <2>4, <2>5 DEF SaidInOrder
<1>4. CASE \E id \in UsesSaid, last \in BOOLEAN : InputDelta(id, last)
  <2>1. DOMAIN said' = DOMAIN said
    BY <1>4, InputDeltaSays
  <2>2. UNCHANGED <<turn, pc>>
    BY <1>4 DEF InputDelta, Put, agentVars
  <2> QED BY <1>2, <2>1, <2>2
<1> QED BY <1>1, <1>2, <1>3, <1>4, SaidFrame

(***************************************************************************)
(* What the runner has collected of it                                     *)
(***************************************************************************)
LEMMA PutBuf ==
  ASSUME TypeOK, NEW e \in Chunk, Put(e)
  PROVE  /\ stream.open /\ UNCHANGED <<agentVars, taken, toolVars>>
         /\ DOMAIN stream.buf = 1..Len(stream.buf) /\ Len(stream.buf) \in Nat
         /\ DOMAIN stream'.buf = 1..Len(stream.buf) + 1
         /\ \A p \in 1..Len(stream.buf) : stream'.buf[p] = stream.buf[p]
         /\ stream'.buf[Len(stream.buf) + 1] = e
<1>1. stream.buf \in Seq(Chunk) /\ stream'.buf = Append(stream.buf, e)
  BY DEF TypeOK, Put
<1>2. stream.open /\ UNCHANGED <<agentVars, taken, toolVars>>
  BY DEF Put
<1>3. /\ DOMAIN Append(stream.buf, e) = 1..Len(stream.buf) + 1
      /\ Len(stream.buf) \in Nat /\ DOMAIN stream.buf = 1..Len(stream.buf)
      /\ \A i \in 1..Len(stream.buf) : Append(stream.buf, e)[i] = stream.buf[i]
      /\ Append(stream.buf, e)[Len(stream.buf) + 1] = e
  BY ONLY <1>1, e \in Chunk, Appended, LenProperties
<1> QED BY <1>1, <1>2, <1>3

\* Chunks other than the start of a use leave the order of the starts alone.
LEMMA NoStartPut ==
  ASSUME TypeOK, InPlace, UsesInOrder, DOMAIN said' = DOMAIN said,
         UNCHANGED <<pc, turn, collected>>,
         \/ UNCHANGED stream.buf
         \/ \E e \in Chunk : /\ e.type # "start"
                             /\ DOMAIN stream.buf = 1..Len(stream.buf) /\ Len(stream.buf) \in Nat
                             /\ DOMAIN stream'.buf = 1..Len(stream.buf) + 1
                             /\ \A p \in 1..Len(stream.buf) : stream'.buf[p] = stream.buf[p]
                             /\ stream'.buf[Len(stream.buf) + 1] = e
  PROVE  UsesInOrder'
<1>1. /\ Starts' = Starts
      /\ \A p \in Starts : stream'.buf[p] = stream.buf[p]
  BY DEF Starts
<1>2. UsesSaid' = UsesSaid /\ Collected' = Collected /\ OfResponse' = OfResponse
  BY DEF UsesSaid, Collected, OfResponse
<1> QED BY <1>1, <1>2 DEF UsesInOrder

LEMMA StartKeepsOrder ==
  ASSUME TypeOK, InPlace, SaidInOrder, UsesInOrder, ToolUseStart
  PROVE  UsesInOrder'
<1>1. PICK n \in 0..MaxUses :
           /\ Numbered(turn.depth, n) /\ n + 1 \in 1..MaxUses
           /\ <<turn.depth, n + 1>> \notin DOMAIN said
           /\ Put([type |-> "start", id |-> <<turn.depth, n + 1>>])
           /\ DOMAIN said' = DOMAIN said \cup {<<turn.depth, n + 1>>}
  BY StartIsNext
<1> DEFINE d == turn.depth
           L == Len(stream.buf)
           e == [type |-> "start", id |-> <<turn.depth, n + 1>>]
<1>2. e \in Chunk
  BY <1>1 DEF Chunk, Ids, TypeOK
<1>3. /\ stream.open /\ UNCHANGED <<agentVars, taken, toolVars>>
      /\ DOMAIN stream.buf = 1..L /\ L \in Nat /\ DOMAIN stream'.buf = 1..L + 1
      /\ \A p \in 1..L : stream'.buf[p] = stream.buf[p]
      /\ stream'.buf[L + 1] = e
  BY <1>1, <1>2, PutBuf
<1> HIDE DEF L
<1>4. Starts' = Starts \cup {L + 1} /\ L + 1 \notin Starts
      /\ Starts \subseteq 1..L
  BY <1>3 DEF Starts
<1>5. UNCHANGED <<turn, pc, collected>> /\ Collected' = Collected /\ OfResponse' = OfResponse
  BY <1>3 DEF agentVars, Collected, OfResponse
<1>6. UsesSaid' = UsesSaid \cup {<<d, n + 1>>}
  BY <1>1, <1>5 DEF UsesSaid
<1> SUFFICES ASSUME OfResponse
             PROVE  UsesInOrder'
  BY <1>5 DEF UsesInOrder
<1>7. \A i \in Collected : collected.uses[i].id = <<d, i>> /\ <<d, i>> \in DOMAIN said
  BY DEF UsesInOrder
<1>8. n + 1 \notin Collected
  BY <1>1, <1>7
<1>9. \A i \in Collected' : collected'.uses[i].id = <<d, i>> /\ <<d, i>> \in DOMAIN said'
  BY <1>1, <1>5, <1>7
<1>10. ASSUME NEW id \in UsesSaid', id[2] \notin Collected
       PROVE  \E p \in Starts' : stream'.buf[p].id = id
  <2>1. CASE id = <<d, n + 1>>
    BY <2>1, <1>3, <1>4
  <2>2. CASE id \in UsesSaid
    <3>1. PICK p \in Starts : stream.buf[p].id = id
      BY <2>2, <1>10 DEF UsesInOrder
    <3> QED BY <3>1, <1>3, <1>4
  <2> QED BY <2>1, <2>2, <1>6
<1>11. \A p \in Starts' : stream'.buf[p].id \in UsesSaid' /\ stream'.buf[p].id[2] \notin Collected
  <2>1. \A p \in Starts : stream.buf[p].id \in UsesSaid /\ stream.buf[p].id[2] \notin Collected
    BY DEF UsesInOrder
  <2>2. ASSUME NEW p \in Starts
        PROVE  stream'.buf[p].id \in UsesSaid' /\ stream'.buf[p].id[2] \notin Collected
    BY <2>1, <1>3, <1>4, <1>6
  <2>3. stream'.buf[L + 1].id = <<d, n + 1>>
    BY <1>3
  <2>4. <<d, n + 1>>[2] = n + 1
    OBVIOUS
  <2> HIDE DEF d
  <2> QED BY <2>2, <2>3, <2>4, <1>4, <1>6, <1>8
<1>12. ASSUME NEW p \in Starts', NEW q \in Starts', p < q
       PROVE  stream'.buf[p].id[2] < stream'.buf[q].id[2]
  <2>1. p \in Starts /\ p \in 1..L
    BY <1>3, <1>4, <1>12
  <2>2. CASE q \in Starts
    <3>1. stream.buf[p].id[2] < stream.buf[q].id[2]
      BY <2>1, <2>2, <1>12 DEF UsesInOrder
    <3>2. stream'.buf[p] = stream.buf[p] /\ stream'.buf[q] = stream.buf[q]
      BY <2>1, <2>2, <1>3, <1>4
    <3> QED BY <3>1, <3>2
  <2>3. CASE q = L + 1
    <3>1. stream.buf[p].id \in UsesSaid
      BY <2>1 DEF UsesInOrder
    <3>2. stream.buf[p].id[2] \in 1..n
      BY <3>1, <1>1 DEF UsesSaid, Numbered
    <3>3. stream'.buf[q].id[2] = n + 1 /\ stream'.buf[p] = stream.buf[p]
      BY <2>1, <2>3, <1>3
    <3> QED BY <3>2, <3>3, <1>1
  <2> QED BY <2>2, <2>3, <1>4
<1> QED BY <1>5, <1>9, <1>10, <1>11, <1>12 DEF UsesInOrder

LEMMA ProviderKeepsOrder ==
  ASSUME TypeOK, InPlace, SaidInOrder, UsesInOrder, Provider
  PROVE  UsesInOrder'
<1>1. UNCHANGED <<pc, turn, collected>>
  BY ProviderFrame DEF agentVars
<1>2. CASE Text
  <2>1. [type |-> "text"] \in Chunk /\ Put([type |-> "text"]) /\ said' = said
    BY <1>2 DEF Text, Chunk
  <2> QED BY <1>1, <2>1, PutBuf, NoStartPut
<1>3. CASE ToolUseStart
  BY <1>3, StartKeepsOrder
<1>4. ASSUME NEW id \in UsesSaid, NEW last \in BOOLEAN, InputDelta(id, last)
      PROVE  UsesInOrder'
  <2> DEFINE e == [type |-> "input", id |-> id, n |-> said[id].fragments + 1, last |-> last]
  <2>1. Put(e) /\ DOMAIN said' = DOMAIN said
    BY <1>4, InputDeltaSays
  <2>2. e \in Chunk
    <3>1. id \in Ids /\ said[id].fragments \in Nat
      BY DEF UsesSaid, TypeOK
    <3> QED BY <3>1 DEF Chunk, Fragment
  <2>3. e.type # "start"
    OBVIOUS
  <2> HIDE DEF e
  <2> QED BY <1>1, <2>1, <2>2, <2>3, PutBuf, NoStartPut
<1>5. CASE BreakStream
  <2> DEFINE e == [type |-> "stop", reason |-> "error"]
  <2>1. e \in Chunk /\ e.type # "start" /\ stream.buf \in Seq(Chunk)
    BY DEF Chunk, TypeOK
  <2>2. stream'.buf = Append(stream.buf, e) /\ said' = said
    BY <1>5 DEF BreakStream
  <2> HIDE DEF e
  <2>3. /\ DOMAIN Append(stream.buf, e) = 1..Len(stream.buf) + 1
        /\ Len(stream.buf) \in Nat /\ DOMAIN stream.buf = 1..Len(stream.buf)
        /\ \A i \in 1..Len(stream.buf) : Append(stream.buf, e)[i] = stream.buf[i]
        /\ Append(stream.buf, e)[Len(stream.buf) + 1] = e
    BY ONLY <2>1, Appended, LenProperties
  <2> QED BY <1>1, <2>1, <2>2, <2>3, NoStartPut
<1>6. CASE CloseStream
  BY <1>1, <1>6, NoStartPut DEF CloseStream, TypeOK
<1>7. ASSUME NEW reason \in Reasons, StopReason(reason)
      PROVE  UsesInOrder'
  <2> DEFINE e == [type |-> "stop", reason |-> reason]
  <2>1. e \in Chunk /\ e.type # "start" /\ Put(e) /\ said' = said
    BY <1>7 DEF StopReason, Chunk
  <2> HIDE DEF e
  <2> QED BY <1>1, <2>1, PutBuf, NoStartPut
<1> QED BY <1>2, <1>3, <1>4, <1>5, <1>6, <1>7 DEF Provider

\* A tool use is appended to those collected when its start is taken, and a
\* fragment to the input of its use.
LEMMA CollectIs ==
  ASSUME TypeOK, Collect
  PROVE  /\ pc = "collect" /\ UNCHANGED <<blocks, messages, expired, taken, said, chunks, toolVars>>
         /\ stream.buf # <<>> /\ Len(stream.buf) \in Nat \ {0}
         /\ DOMAIN stream.buf = 1..Len(stream.buf) /\ Head(stream.buf) = stream.buf[1]
         /\ stream.buf[1] \in Chunk
         /\ DOMAIN stream'.buf = 1..Len(stream.buf) - 1
         /\ \A p \in 1..Len(stream.buf) - 1 : stream'.buf[p] = stream.buf[p + 1]
         /\ turn'.depth = turn.depth /\ pc' \in {"collect", "done"}
         /\ \/ /\ Head(stream.buf).type = "start" /\ UNCHANGED <<pc, turn>>
               /\ collected'.uses = Append(collected.uses, [id |-> Head(stream.buf).id, input |-> <<>>])
            \/ /\ Head(stream.buf).type = "input" /\ UNCHANGED <<pc, turn>>
               /\ collected'.uses = Accumulate(collected.uses, Head(stream.buf))
            \/ /\ Head(stream.buf).type \in {"text", "stop"}
               /\ collected'.uses = collected.uses
<1>1. /\ pc = "collect" /\ UNCHANGED <<blocks, messages, expired, taken, said, chunks, toolVars>>
      /\ stream.buf # <<>> /\ stream'.buf = Tail(stream.buf) /\ stream.buf \in Seq(Chunk)
  BY DEF Collect, TypeOK
<1>2. /\ Len(stream.buf) \in Nat \ {0} /\ DOMAIN stream.buf = 1..Len(stream.buf)
      /\ Head(stream.buf) = stream.buf[1] /\ Head(stream.buf) \in Chunk
      /\ DOMAIN Tail(stream.buf) = 1..Len(stream.buf) - 1
      /\ \A p \in 1..Len(stream.buf) - 1 : Tail(stream.buf)[p] = stream.buf[p + 1]
  <2>1. /\ Tail(stream.buf) \in Seq(Chunk) /\ Len(Tail(stream.buf)) = Len(stream.buf) - 1
        /\ \A p \in 1..Len(Tail(stream.buf)) : Tail(stream.buf)[p] = stream.buf[p + 1]
        /\ Len(stream.buf) \in Nat \ {0}
    BY ONLY <1>1, HeadTailProperties, EmptySeq
  <2>2. DOMAIN Tail(stream.buf) = 1..Len(stream.buf) - 1 /\ DOMAIN stream.buf = 1..Len(stream.buf)
    BY ONLY <1>1, <2>1, LenProperties
  <2>3. Head(stream.buf) = stream.buf[1] /\ Head(stream.buf) \in Chunk
    BY ONLY <1>1, HeadTailProperties
  <2> QED BY <2>1, <2>2, <2>3
<1>3. turn'.depth = turn.depth /\ pc' \in {"collect", "done"}
  BY <1>1 DEF Collect, Count, Completed, EndTurn, TypeOK
<1>4. \/ /\ Head(stream.buf).type = "start" /\ UNCHANGED <<pc, turn>>
         /\ collected'.uses = Append(collected.uses, [id |-> Head(stream.buf).id, input |-> <<>>])
      \/ /\ Head(stream.buf).type = "input" /\ UNCHANGED <<pc, turn>>
         /\ collected'.uses = Accumulate(collected.uses, Head(stream.buf))
      \/ /\ Head(stream.buf).type \in {"text", "stop"}
         /\ collected'.uses = collected.uses
  BY DEF Collect, TypeOK
<1> QED BY <1>1, <1>2, <1>3, <1>4

LEMMA AccumulateIs ==
  ASSUME NEW uses \in Seq(Use), NEW e \in Fragment
  PROVE  /\ Len(uses) \in Nat /\ Accumulate(uses, e) \in Seq(Use) /\ Len(Accumulate(uses, e)) = Len(uses)
         /\ \A i \in 1..Len(uses) :
              /\ Accumulate(uses, e)[i].id = uses[i].id
              /\ uses[i].id # e.id => Accumulate(uses, e)[i] = uses[i]
              /\ uses[i].id = e.id => Accumulate(uses, e)[i].input = Append(uses[i].input, e)
<1>1. uses \in [1..Len(uses) -> Use] /\ Len(uses) \in Nat /\ DOMAIN uses = 1..Len(uses)
  BY LenProperties
<1>2. ASSUME NEW i \in 1..Len(uses)
      PROVE  /\ uses[i] \in Use
             /\ [uses[i] EXCEPT !.input = Append(@, e)] \in Use
             /\ [uses[i] EXCEPT !.input = Append(@, e)].id = uses[i].id
             /\ [uses[i] EXCEPT !.input = Append(@, e)].input = Append(uses[i].input, e)
  <2>1. uses[i] \in Use
    BY <1>1
  <2>2. Append(uses[i].input, e) \in Seq(Fragment)
    BY <2>1, AppendProperties DEF Use
  <2> QED BY <2>1, <2>2 DEF Use
<1>3. Accumulate(uses, e) \in [1..Len(uses) -> Use]
  BY <1>1, <1>2 DEF Accumulate
<1>4. Accumulate(uses, e) \in Seq(Use) /\ Len(Accumulate(uses, e)) = Len(uses)
  <2>1. Accumulate(uses, e) \in Seq(Use)
    BY <1>1, <1>3, SeqDef
  <2>2. DOMAIN Accumulate(uses, e) = 1..Len(uses)
    BY <1>3
  <2>3. DOMAIN Accumulate(uses, e) = 1..Len(Accumulate(uses, e)) /\ Len(Accumulate(uses, e)) \in Nat
    BY <2>1, LenProperties
  <2> HIDE DEF Accumulate
  <2> QED BY ONLY <1>1, <2>1, <2>2, <2>3
<1>5. ASSUME NEW i \in 1..Len(uses)
      PROVE  /\ Accumulate(uses, e)[i].id = uses[i].id
             /\ uses[i].id # e.id => Accumulate(uses, e)[i] = uses[i]
             /\ uses[i].id = e.id => Accumulate(uses, e)[i].input = Append(uses[i].input, e)
  <2>1. Accumulate(uses, e)[i] = IF uses[i].id = e.id THEN [uses[i] EXCEPT !.input = Append(@, e)] ELSE uses[i]
    BY <1>1 DEF Accumulate
  <2> QED BY <1>2, <2>1
<1> QED BY <1>1, <1>4, <1>5

LEMMA CollectKeepsOrder ==
  ASSUME TypeOK, InPlace, SaidInOrder, UsesInOrder, Collect
  PROVE  UsesInOrder'
<1> DEFINE d == turn.depth
           L == Len(stream.buf)
           e == stream.buf[1]
           n == Len(collected.uses)
<1>1. /\ pc = "collect" /\ said' = said /\ L \in Nat \ {0}
      /\ DOMAIN stream.buf = 1..L /\ Head(stream.buf) = e /\ e \in Chunk
      /\ DOMAIN stream'.buf = 1..L - 1
      /\ \A p \in 1..L - 1 : stream'.buf[p] = stream.buf[p + 1]
      /\ turn'.depth = d /\ pc' \in {"collect", "done"}
  BY CollectIs
<1>2. collected.uses \in Seq(Use) /\ n \in Nat
  BY LenProperties DEF TypeOK
<1> HIDE DEF L
<1>3. UsesSaid' = UsesSaid /\ OfResponse
  BY <1>1 DEF UsesSaid, OfResponse
<1>4. Starts' = {p \in 1..L - 1 : p + 1 \in Starts} /\ Starts \subseteq 1..L
  BY <1>1 DEF Starts
<1>5. /\ \A p, q \in Starts : p < q => stream.buf[p].id[2] < stream.buf[q].id[2]
      /\ \A p \in Starts : stream.buf[p].id \in UsesSaid /\ stream.buf[p].id[2] \notin 1..n
      /\ \A i \in 1..n : collected.uses[i].id = <<d, i>> /\ <<d, i>> \in DOMAIN said
      /\ \A id \in UsesSaid : id[2] \notin 1..n => \E p \in Starts : stream.buf[p].id = id
  BY <1>3 DEF UsesInOrder, Collected
<1>6. \A p, q \in Starts' : p < q => stream'.buf[p].id[2] < stream'.buf[q].id[2]
  <2> SUFFICES ASSUME NEW p \in Starts', NEW q \in Starts', p < q
               PROVE  stream'.buf[p].id[2] < stream'.buf[q].id[2]
    OBVIOUS
  <2>1. p \in 1..L - 1 /\ q \in 1..L - 1 /\ p + 1 \in Starts /\ q + 1 \in Starts /\ p + 1 < q + 1
    BY <1>1, <1>4
  <2> QED BY <2>1, <1>1, <1>5
<1>7. CASE e.type # "start"
  <2>1. /\ Len(collected'.uses) = n
        /\ \A i \in 1..n : collected'.uses[i].id = collected.uses[i].id
    <3>1. CASE e.type = "input"
      <4>1. e \in Fragment /\ collected'.uses = Accumulate(collected.uses, e)
        BY <1>1, <3>1, CollectIs, ChunkTypes
      <4> HIDE DEF e
      <4>2. Len(Accumulate(collected.uses, e)) = Len(collected.uses)
            /\ \A i \in 1..Len(collected.uses) : Accumulate(collected.uses, e)[i].id = collected.uses[i].id
        BY ONLY <1>2, <4>1, AccumulateIs
      <4> QED BY <4>1, <4>2
    <3>2. CASE e.type \in {"text", "stop"}
      <4>1. collected'.uses = collected.uses
        BY <1>1, <3>2, CollectIs
      <4> QED BY <4>1
    <3> QED BY <1>1, <1>7, <3>1, <3>2, ChunkTypes
  <2>2. Collected' = 1..n
    BY <2>1 DEF Collected
  <2>3. \A p \in Starts : p # 1 /\ p - 1 \in Starts' /\ stream'.buf[p - 1] = stream.buf[p]
    <3>1. \A p \in Starts : p # 1 /\ p \in 1..L
      BY <1>4, <1>7 DEF Starts
    <3> QED BY <3>1, <1>1, <1>4
  <2>4. \A i \in Collected' : collected'.uses[i].id = <<d, i>> /\ <<d, i>> \in DOMAIN said'
    BY <1>1, <1>5, <2>1, <2>2
  <2>5. \A id \in UsesSaid' : id[2] \notin Collected' => \E p \in Starts' : stream'.buf[p].id = id
    BY <1>3, <1>5, <2>2, <2>3
  <2>6. \A p \in Starts' : stream'.buf[p].id \in UsesSaid' /\ stream'.buf[p].id[2] \notin Collected'
    BY <1>1, <1>3, <1>4, <1>5, <2>2
  <2> QED BY <1>1, <1>6, <2>4, <2>5, <2>6 DEF UsesInOrder
<1>8. CASE e.type = "start"
  <2>1. collected'.uses = Append(collected.uses, [id |-> e.id, input |-> <<>>])
    BY <1>1, <1>8, CollectIs
  <2>2. 1 \in Starts
    BY <1>1, <1>8 DEF Starts
  <2>3. PICK m \in 0..MaxUses : Numbered(d, m)
    BY DEF SaidInOrder
  <2>4. \A id \in UsesSaid : id = <<d, id[2]>> /\ id[2] \in 1..m
    BY <2>3 DEF UsesSaid, Numbered
  <2>5. \A k \in 1..m : <<d, k>> \in UsesSaid
    BY <2>3 DEF UsesSaid, Numbered
  <2>6. e.id = <<d, n + 1>>
    <3>1. PICK k \in 1..m : e.id = <<d, k>>
      BY <1>5, <2>2, <2>4
    <3>2. k \notin 1..n
      BY <1>5, <2>2, <3>1
    <3>3. ASSUME k # n + 1
          PROVE  FALSE
      <4>1. n + 1 \in 1..m /\ n + 1 < k
        <5>1. m \in Nat /\ k \in 1..m /\ n \in Nat /\ k \notin 1..n /\ k # n + 1
          BY <1>2, <2>3, <3>1, <3>2, <3>3, ConstantTypes
        <5> HIDE DEF n
        <5> QED BY ONLY <5>1
      <4>2. PICK p \in Starts : stream.buf[p].id = <<d, n + 1>>
        <5>1. <<d, n + 1>> \in UsesSaid /\ <<d, n + 1>>[2] \notin 1..n
          BY <1>2, <2>5, <4>1
        <5> QED BY <1>5, <5>1
      <4>3. p # 1 /\ 1 < p
        BY <1>4, <3>1, <4>1, <4>2, <1>1
      <4>4. k < n + 1
        BY <1>5, <2>2, <3>1, <4>2, <4>3
      <4> QED BY <1>2, <3>1, <4>1, <4>4, <2>3, ConstantTypes
    <3> QED BY <3>1, <3>3
  <2>7. [id |-> e.id, input |-> <<>>] \in Use
    BY <1>1, <1>8, ChunkTypes, EmptySeq DEF Use
  <2>8. /\ Len(collected'.uses) = n + 1
        /\ \A i \in 1..n : collected'.uses[i] = collected.uses[i]
        /\ collected'.uses[n + 1].id = e.id
    <3> HIDE DEF e
    <3>1. /\ Len(Append(collected.uses, [id |-> e.id, input |-> <<>>])) = n + 1
          /\ \A i \in 1..n : Append(collected.uses, [id |-> e.id, input |-> <<>>])[i] = collected.uses[i]
          /\ Append(collected.uses, [id |-> e.id, input |-> <<>>])[n + 1] = [id |-> e.id, input |-> <<>>]
      BY ONLY <1>2, <2>7, Appended
    <3> QED BY <2>1, <3>1
  <2>9. Collected' = 1..n + 1
    BY <2>8 DEF Collected
  <2>10. \A i \in Collected' : collected'.uses[i].id = <<d, i>> /\ <<d, i>> \in DOMAIN said'
    <3>1. <<d, n + 1>> \in DOMAIN said
      BY <1>5, <2>2, <2>6 DEF UsesSaid
    <3>2. ASSUME NEW i \in 1..n
          PROVE  collected'.uses[i].id = <<d, i>> /\ <<d, i>> \in DOMAIN said'
      BY <1>1, <1>5, <2>8
    <3>3. collected'.uses[n + 1].id = <<d, n + 1>>
      BY <2>6, <2>8
    <3>4. \A i \in 1..n + 1 : i \in 1..n \/ i = n + 1
      BY <1>2
    <3> QED BY <1>1, <2>9, <3>1, <3>2, <3>3, <3>4
  <2>11. ASSUME NEW id \in UsesSaid', id[2] \notin Collected'
         PROVE  \E p \in Starts' : stream'.buf[p].id = id
    <3>1. id \in UsesSaid /\ id[2] \notin 1..n /\ id[2] # n + 1
      BY <1>2, <1>3, <2>9, <2>11
    <3>2. PICK p \in Starts : stream.buf[p].id = id
      BY <1>5, <3>1
    <3>3. p # 1
      BY <2>6, <3>1, <3>2
    <3>4. p - 1 \in Starts' /\ stream'.buf[p - 1] = stream.buf[p]
      BY <1>1, <1>4, <3>3
    <3> QED BY <3>2, <3>4
  <2>12. ASSUME NEW p \in Starts'
         PROVE  stream'.buf[p].id \in UsesSaid' /\ stream'.buf[p].id[2] \notin Collected'
    <3>1. p + 1 \in Starts /\ stream'.buf[p] = stream.buf[p + 1] /\ 1 < p + 1
      BY <1>1, <1>4
    <3>2. n + 1 < stream.buf[p + 1].id[2]
      BY <1>5, <2>2, <2>6, <3>1
    <3>3. stream.buf[p + 1].id \in UsesSaid /\ stream.buf[p + 1].id[2] \in Nat
      BY <1>5, <3>1, <2>4
    <3> QED BY <1>2, <1>3, <2>9, <3>1, <3>2, <3>3
  <2> QED BY <1>1, <1>6, <2>10, <2>11, <2>12 DEF UsesInOrder
<1> QED BY <1>7, <1>8

LEMMA NextUsesInOrder == TypeOK /\ InPlace /\ SaidInOrder /\ UsesInOrder /\ [Next]_vars => UsesInOrder'
<1> SUFFICES ASSUME TypeOK, InPlace, SaidInOrder, UsesInOrder, [Next]_vars
             PROVE  UsesInOrder'
  OBVIOUS
<1>1. CASE /\ UNCHANGED <<collected, stream, said>> /\ turn'.depth = turn.depth
           /\ pc = pc' \/ OfResponse
  BY <1>1 DEF UsesInOrder, OfResponse, Starts, Collected, UsesSaid
<1>2. CASE ~OfResponse'
  BY <1>2 DEF UsesInOrder
<1>3. CASE UNCHANGED vars \/ TakeEvent \/ Deadline
  BY <1>1, <1>3 DEF TakeEvent, Deadline, vars, agentVars, modelVars
<1>4. CASE OpenStream
  <2>1. CASE turn.depth = MaxDepth
    BY <1>2, <1>4, <2>1 DEF OpenStream, Completed, EndTurn, OfResponse
  <2>2. CASE turn.depth # MaxDepth
    <3>1. /\ stream'.buf = <<>> /\ collected'.uses = <<>> /\ UNCHANGED <<said, turn>> /\ pc = "open"
      BY <1>4, <2>2 DEF OpenStream
    <3>2. Starts' = {} /\ Collected' = {}
      BY <3>1 DEF Starts, Collected
    <3>3. UsesSaid' = {}
      <4>1. \A id \in DOMAIN said : id[1] # turn.depth
        <5>1. \A id \in DOMAIN said : id[1] < turn.depth /\ id[1] \in Nat
          BY <3>1, SaidIds, ConstantTypes DEF SaidInOrder
        <5> QED BY <5>1 DEF TypeOK
      <4> QED BY <3>1, <4>1 DEF UsesSaid
    <3> QED BY <3>2, <3>3 DEF UsesInOrder
  <2> QED BY <2>1, <2>2
<1>5. CASE CollectTimeout \/ CollectEnd \/ Awaited
  BY <1>1, <1>5 DEF CollectTimeout, CollectEnd, Awaited, OfResponse, Failed, Completed, EndTurn,
                    modelVars, UsesInOrder
<1>6. CASE UseTool
  BY <1>1, <1>6, SaidFrame DEF UseTool, OfResponse, modelVars, NextExchange
<1>7. CASE NextExchange
  BY <1>2, <1>7 DEF NextExchange, OfResponse
<1>8. ASSUME NEW failed \in BOOLEAN, ToolReturns(failed)
      PROVE  UsesInOrder'
  BY <1>1, <1>8, CountTypes DEF ToolReturns, OfResponse, modelVars
<1> QED BY <1>3, <1>4, <1>5, <1>6, <1>7, <1>8, ProviderKeepsOrder, CollectKeepsOrder
        DEF Next, Runner

\* What the model has said stays said; a use that is whole does not change.
LEMMA WholeStays ==
  ASSUME TypeOK, InPlace, SaidInOrder, [Next]_vars
  PROVE  \A id \in DOMAIN said : id \in DOMAIN said' /\ (said[id].whole => said'[id] = said[id])
<1>1. CASE said' = said
  BY <1>1
<1>2. CASE ToolUseStart
  BY <1>2, StartIsNext
<1>3. ASSUME NEW u \in UsesSaid, NEW last \in BOOLEAN, InputDelta(u, last)
      PROVE  \A id \in DOMAIN said : id \in DOMAIN said' /\ (said[id].whole => said'[id] = said[id])
  BY <1>3, InputDeltaSays
<1> QED BY <1>1, <1>2, <1>3, SaidFrame

\* InputsAsSent with what the model has said as a parameter.
SentIn(s, f) ==
  f.id \in DOMAIN s /\ (f.last => s[f.id].whole /\ s[f.id].fragments = f.n)

LEMMA InputsParts ==
  /\ InputsAsSent /\ OfResponse =>
       /\ \A p \in DOMAIN stream.buf : stream.buf[p].type = "input" => SentIn(said, stream.buf[p])
       /\ \A i \in 1..Len(collected.uses) : \A k \in DOMAIN collected.uses[i].input :
            /\ SentIn(said, collected.uses[i].input[k])
            /\ collected.uses[i].input[k].id = <<turn.depth, i>>
  /\ (OfResponse' =>
       /\ \A p \in DOMAIN stream'.buf : stream'.buf[p].type = "input" => SentIn(said', stream'.buf[p])
       /\ \A i \in 1..Len(collected'.uses) : \A k \in DOMAIN collected'.uses[i].input :
            /\ SentIn(said', collected'.uses[i].input[k])
            /\ collected'.uses[i].input[k].id = <<turn'.depth, i>>)
     => InputsAsSent'
BY DEF InputsAsSent, Collected, Sent, SentIn

LEMMA SentStays ==
  ASSUME TypeOK, InPlace, SaidInOrder, [Next]_vars
  PROVE  \A f : SentIn(said, f) => SentIn(said', f)
BY WholeStays DEF SentIn

LEMMA ProviderSendsInputs ==
  ASSUME TypeOK, InPlace, SaidInOrder, InputsAsSent, Provider
  PROVE  InputsAsSent'
<1>1. UNCHANGED <<pc, turn, collected>> /\ OfResponse' = OfResponse
  BY ProviderFrame DEF agentVars, OfResponse
<1>2. \A f : SentIn(said, f) => SentIn(said', f)
  BY SentStays DEF Next
<1> SUFFICES ASSUME OfResponse
             PROVE  \A p \in DOMAIN stream'.buf :
                      stream'.buf[p].type = "input" => SentIn(said', stream'.buf[p])
  BY <1>1, <1>2, InputsParts
<1>3. \A p \in DOMAIN stream.buf : stream.buf[p].type = "input" => SentIn(said', stream.buf[p])
  BY <1>2, InputsParts
<1>4. ASSUME NEW e \in Chunk, Put(e), e.type = "input" => SentIn(said', e)
      PROVE  \A p \in DOMAIN stream'.buf : stream'.buf[p].type = "input" => SentIn(said', stream'.buf[p])
  <2>1. \A p \in DOMAIN stream'.buf : p = Len(stream.buf) + 1 \/ p \in 1..Len(stream.buf)
    BY <1>4, PutBuf
  <2> QED BY <1>3, <1>4, <2>1, PutBuf
<1>5. CASE Text
  <2>1. [type |-> "text"] \in Chunk /\ Put([type |-> "text"])
    BY <1>5 DEF Text, Chunk
  <2> QED BY <1>4, <2>1
<1>6. CASE ToolUseStart
  <2>1. PICK n \in 0..MaxUses : /\ n + 1 \in 1..MaxUses
                                /\ Put([type |-> "start", id |-> <<turn.depth, n + 1>>])
    BY <1>6, StartIsNext
  <2> DEFINE e == [type |-> "start", id |-> <<turn.depth, n + 1>>]
  <2>2. e \in Chunk /\ e.type # "input"
    BY <2>1 DEF Chunk, Ids, TypeOK
  <2>3. Put(e)
    BY <2>1
  <2> HIDE DEF e
  <2> QED BY <1>4, <2>2, <2>3
<1>7. ASSUME NEW id \in UsesSaid, NEW last \in BOOLEAN, InputDelta(id, last)
      PROVE  \A p \in DOMAIN stream'.buf : stream'.buf[p].type = "input" => SentIn(said', stream'.buf[p])
  <2> DEFINE e == [type |-> "input", id |-> id, n |-> said[id].fragments + 1, last |-> last]
  <2>1. /\ Put(e) /\ DOMAIN said' = DOMAIN said
        /\ said'[id] = [fragments |-> said[id].fragments + 1, whole |-> last]
    BY <1>7, InputDeltaSays
  <2>2. e \in Chunk
    <3>1. id \in Ids /\ said[id].fragments \in Nat
      BY DEF UsesSaid, TypeOK
    <3> QED BY <3>1 DEF Chunk, Fragment
  <2>3. SentIn(said', e)
    BY <2>1 DEF SentIn, UsesSaid
  <2> HIDE DEF e
  <2> QED BY <1>4, <2>1, <2>2, <2>3
<1>8. CASE BreakStream
  <2> DEFINE e == [type |-> "stop", reason |-> "error"]
  <2>1. e \in Chunk /\ e.type # "input" /\ stream.buf \in Seq(Chunk)
    BY DEF Chunk, TypeOK
  <2>2. stream'.buf = Append(stream.buf, e)
    BY <1>8 DEF BreakStream
  <2> HIDE DEF e
  <2>3. /\ DOMAIN Append(stream.buf, e) = 1..Len(stream.buf) + 1
        /\ Len(stream.buf) \in Nat /\ DOMAIN stream.buf = 1..Len(stream.buf)
        /\ \A i \in 1..Len(stream.buf) : Append(stream.buf, e)[i] = stream.buf[i]
        /\ Append(stream.buf, e)[Len(stream.buf) + 1] = e
    BY ONLY <2>1, Appended, LenProperties
  <2>4. \A p \in DOMAIN stream'.buf : p = Len(stream.buf) + 1 \/ p \in 1..Len(stream.buf)
    BY <2>2, <2>3
  <2> QED BY <1>3, <2>1, <2>2, <2>3, <2>4
<1>9. CASE CloseStream
  BY <1>3, <1>9 DEF CloseStream, TypeOK
<1>10. ASSUME NEW reason \in Reasons, StopReason(reason)
       PROVE  \A p \in DOMAIN stream'.buf : stream'.buf[p].type = "input" => SentIn(said', stream'.buf[p])
  <2> DEFINE e == [type |-> "stop", reason |-> reason]
  <2>1. e \in Chunk /\ e.type # "input" /\ Put(e)
    BY <1>10 DEF StopReason, Chunk
  <2> HIDE DEF e
  <2> QED BY <1>4, <2>1
<1> QED BY <1>5, <1>6, <1>7, <1>8, <1>9, <1>10 DEF Provider

LEMMA CollectKeepsInputs ==
  ASSUME TypeOK, InPlace, SaidInOrder, UsesInOrder, InputsAsSent, Collect
  PROVE  InputsAsSent'
<1> DEFINE d == turn.depth
           L == Len(stream.buf)
           e == stream.buf[1]
           U == collected.uses
<1>1. /\ pc = "collect" /\ said' = said /\ L \in Nat \ {0}
      /\ DOMAIN stream.buf = 1..L /\ Head(stream.buf) = e /\ e \in Chunk
      /\ DOMAIN stream'.buf = 1..L - 1
      /\ \A p \in 1..L - 1 : stream'.buf[p] = stream.buf[p + 1]
      /\ turn'.depth = d
  BY CollectIs
<1>2. U \in Seq(Use) /\ Len(U) \in Nat /\ U \in [1..Len(U) -> Use]
  BY LenProperties DEF TypeOK
<1>3. /\ \A p \in 1..L : stream.buf[p].type = "input" => SentIn(said, stream.buf[p])
      /\ \A i \in 1..Len(U) : \A k \in DOMAIN U[i].input :
           SentIn(said, U[i].input[k]) /\ U[i].input[k].id = <<d, i>>
      /\ \A i \in 1..Len(U) : U[i].id = <<d, i>>
  BY <1>1, InputsParts DEF OfResponse, UsesInOrder, Collected
<1> HIDE DEF L
<1>4. \A p \in DOMAIN stream'.buf : stream'.buf[p].type = "input" => SentIn(said', stream'.buf[p])
  <2>1. \A p \in 1..L - 1 : p + 1 \in 1..L
    BY <1>1
  <2> QED BY <1>1, <1>3, <2>1
<1> SUFFICES \A i \in 1..Len(collected'.uses) : \A k \in DOMAIN collected'.uses[i].input :
               SentIn(said', collected'.uses[i].input[k]) /\ collected'.uses[i].input[k].id = <<d, i>>
  BY <1>1, <1>4, InputsParts
<1>5. CASE e.type \in {"text", "stop"}
  <2>1. collected'.uses = U
    BY <1>1, <1>5, CollectIs
  <2> QED BY <1>1, <1>3, <2>1
<1>6. CASE e.type = "start"
  <2> DEFINE u == [id |-> e.id, input |-> <<>>]
  <2>1. collected'.uses = Append(U, u)
    BY <1>1, <1>6, CollectIs
  <2>2. u \in Use /\ DOMAIN u.input = {}
    BY <1>1, <1>6, ChunkTypes, EmptySeq DEF Use
  <2> HIDE DEF u, U
  <2>3. /\ Len(Append(U, u)) = Len(U) + 1 /\ Append(U, u)[Len(U) + 1] = u
        /\ \A i \in 1..Len(U) : Append(U, u)[i] = U[i]
    BY ONLY <1>2, <2>2, Appended
  <2>4. \A i \in 1..Len(Append(U, u)) : i \in 1..Len(U) \/ i = Len(U) + 1
    BY <1>2, <2>3
  <2> QED BY <1>1, <1>3, <2>1, <2>2, <2>3, <2>4
<1>7. CASE e.type = "input"
  <2>1. collected'.uses = Accumulate(U, e) /\ e \in Fragment
    BY <1>1, <1>7, CollectIs, ChunkTypes
  <2>2. SentIn(said, e)
    BY <1>1, <1>3, <1>7
  <2> HIDE DEF e, U
  <2>3. /\ Len(Accumulate(U, e)) = Len(U)
        /\ \A i \in 1..Len(U) :
              /\ U[i].id # e.id => Accumulate(U, e)[i] = U[i]
              /\ U[i].id = e.id => Accumulate(U, e)[i].input = Append(U[i].input, e)
    BY ONLY <1>2, <2>1, AccumulateIs
  <2>4. ASSUME NEW i \in 1..Len(U), NEW k \in DOMAIN Accumulate(U, e)[i].input
        PROVE  /\ SentIn(said, Accumulate(U, e)[i].input[k])
               /\ Accumulate(U, e)[i].input[k].id = <<d, i>>
    <3>1. CASE U[i].id # e.id
      BY <1>3, <2>3, <2>4, <3>1
    <3>2. CASE U[i].id = e.id
      <4>1. U[i].input \in Seq(Fragment)
        BY <1>2 DEF Use
      <4>2. /\ DOMAIN Append(U[i].input, e) = 1..Len(U[i].input) + 1
            /\ Len(U[i].input) \in Nat /\ DOMAIN U[i].input = 1..Len(U[i].input)
            /\ \A j \in 1..Len(U[i].input) : Append(U[i].input, e)[j] = U[i].input[j]
            /\ Append(U[i].input, e)[Len(U[i].input) + 1] = e
        BY ONLY <2>1, <4>1, Appended, LenProperties
      <4>3. k \in 1..Len(U[i].input) \/ k = Len(U[i].input) + 1
        BY <2>3, <2>4, <3>2, <4>2
      <4>4. e.id = <<d, i>>
        BY <1>3, <3>2
      <4>5. Accumulate(U, e)[i].input = Append(U[i].input, e)
        BY <2>3, <3>2
      <4>6. CASE k = Len(U[i].input) + 1
        BY <2>2, <4>2, <4>4, <4>5, <4>6
      <4>7. CASE k \in 1..Len(U[i].input)
        BY <1>3, <4>2, <4>5, <4>7
      <4> QED BY <4>3, <4>6, <4>7
    <3> QED BY <3>1, <3>2
  <2> QED BY <1>1, <2>1, <2>3, <2>4
<1> QED BY <1>1, <1>5, <1>6, <1>7, ChunkTypes

LEMMA NextInputsAsSent ==
  TypeOK /\ InPlace /\ SaidInOrder /\ UsesInOrder /\ InputsAsSent /\ [Next]_vars => InputsAsSent'
<1> SUFFICES ASSUME TypeOK, InPlace, SaidInOrder, UsesInOrder, InputsAsSent, [Next]_vars
             PROVE  InputsAsSent'
  OBVIOUS
<1>1. CASE /\ UNCHANGED <<collected, stream, said>> /\ turn'.depth = turn.depth
           /\ pc = pc' \/ OfResponse
  BY <1>1 DEF InputsAsSent, OfResponse, Collected, Sent
<1>2. CASE ~OfResponse'
  BY <1>2 DEF InputsAsSent
<1>3. CASE UNCHANGED vars \/ TakeEvent \/ Deadline
  BY <1>1, <1>3 DEF TakeEvent, Deadline, vars, agentVars, modelVars
<1>4. CASE OpenStream
  <2>1. CASE turn.depth = MaxDepth
    BY <1>2, <1>4, <2>1 DEF OpenStream, Completed, EndTurn, OfResponse
  <2>2. CASE turn.depth # MaxDepth
    <3>1. stream'.buf = <<>> /\ collected'.uses = <<>>
      BY <1>4, <2>2 DEF OpenStream
    <3> QED BY <3>1, InputsParts
  <2> QED BY <2>1, <2>2
<1>5. CASE CollectTimeout \/ CollectEnd \/ Awaited
  BY <1>1, <1>5 DEF CollectTimeout, CollectEnd, Awaited, OfResponse, Failed, Completed, EndTurn,
                    modelVars, InputsAsSent
<1>6. CASE UseTool
  BY <1>1, <1>6, SaidFrame DEF UseTool, OfResponse, modelVars, NextExchange
<1>7. CASE NextExchange
  BY <1>2, <1>7 DEF NextExchange, OfResponse
<1>8. ASSUME NEW failed \in BOOLEAN, ToolReturns(failed)
      PROVE  InputsAsSent'
  BY <1>1, <1>8, CountTypes DEF ToolReturns, OfResponse, modelVars
<1> QED BY <1>3, <1>4, <1>5, <1>6, <1>7, <1>8, ProviderSendsInputs, CollectKeepsInputs
        DEF Next, Runner

(***************************************************************************)
(* The tools that run                                                      *)
(***************************************************************************)
\* A run as the model asked for it, which says it whole.
RunOK(s, a, r) ==
  /\ r.id \in a /\ r.id \in DOMAIN s /\ s[r.id].whole
  /\ Len(r.input) = s[r.id].fragments
  /\ \A k \in DOMAIN r.input : r.input[k].id = r.id /\ r.input[k].n = k

\* Where a run is, seen from the runner's place.
Behind(r) ==
  /\ pc \in {"open", "collect"} => r.id[1] < turn.depth
  /\ pc = "tools"   => Before(r.id, <<turn.depth, blocks.next>>)
  /\ pc = "running" => Before(r.id, <<turn.depth, blocks.next + 1>>)

RunCount == Len(runs) <= MaxToolCalls /\ (pc # "done" => Len(runs) <= turn.calls)
RunsOrdered == \A i, j \in DOMAIN runs : i < j => Before(runs[i].id, runs[j].id)

LEMMA RunsParts ==
  /\ RunsAsAsked /\ RunsBehind =>
       /\ RunCount /\ RunsOrdered
       /\ \A i \in DOMAIN runs : RunOK(said, allowed, runs[i]) /\ Behind(runs[i])
  /\ RunCount' /\ RunsOrdered' /\ (\A i \in DOMAIN runs' : RunOK(said', allowed', runs'[i]) /\ Behind(runs[i])')
       => (RunsAsAsked /\ RunsBehind)'
BY DEF RunsAsAsked, RunsBehind, RunOK, Behind, RunCount, RunsOrdered

LEMMA RunTypes ==
  ASSUME TypeOK
  PROVE  /\ Len(runs) \in Nat /\ DOMAIN runs = 1..Len(runs)
         /\ \A i \in DOMAIN runs : /\ runs[i] \in Use /\ runs[i].id \in Ids
                                   /\ runs[i].id[1] \in Nat /\ runs[i].id[2] \in Nat
         /\ turn.depth \in Nat /\ turn.calls \in Nat /\ blocks.next \in Nat \ {0}
<1>1. runs \in Seq(Use) /\ turn.depth \in Nat /\ turn.calls \in Nat /\ blocks.next \in Nat \ {0}
  BY DEF TypeOK
<1>2. Len(runs) \in Nat /\ DOMAIN runs = 1..Len(runs) /\ runs \in [1..Len(runs) -> Use]
  BY <1>1, LenProperties
<1>3. \A i \in DOMAIN runs : runs[i] \in Use
  BY <1>2
<1>4. \A r \in Use : r.id \in Ids /\ r.id[1] \in Nat /\ r.id[2] \in Nat
  BY ConstantTypes DEF Use, Ids
<1> QED BY <1>1, <1>2, <1>3, <1>4

\* The use that is let through: its input is what the model said of it.
LEMMA CallIsAsked ==
  ASSUME TypeOK, InPlace, UsesInOrder, InputsAsSent, pc = "tools",
         blocks.next <= Len(collected.uses), Parses(Current.input)
  PROVE  /\ Call \in Use /\ Call.id = <<turn.depth, blocks.next>>
         /\ RunOK(said, {Call.id}, Call)
<1> DEFINE d == turn.depth
           i == blocks.next
           u == collected.uses[blocks.next]
<1>1. /\ i \in 1..Len(collected.uses) /\ collected.uses \in Seq(Use)
  BY LenProperties DEF TypeOK
<1>2. u \in Use
  BY <1>1, ElementOfSeq
<1>3. u.input \in Seq(Fragment) /\ u.id \in Ids /\ Call = u /\ Parses(u.input)
  BY <1>2 DEF Use, Call, Current
<1>4. u.id = <<d, i>> /\ u.id \in DOMAIN said
  BY <1>1 DEF UsesInOrder, OfResponse, Collected
<1>5. \A k \in DOMAIN u.input : SentIn(said, u.input[k]) /\ u.input[k].id = u.id
  BY <1>1, <1>4, InputsParts DEF OfResponse
<1> HIDE DEF u
<1>6. /\ Len(u.input) \in Nat \ {0} /\ DOMAIN u.input = 1..Len(u.input)
      /\ u.input[Len(u.input)].last /\ \A k \in DOMAIN u.input : u.input[k].n = k
  BY <1>3, LenProperties, EmptySeq DEF Parses, Last
<1>7. Len(u.input) \in DOMAIN u.input
  BY <1>6
<1>8. said[u.id].whole /\ said[u.id].fragments = Len(u.input)
  BY <1>5, <1>6, <1>7 DEF SentIn
<1> QED BY <1>2, <1>3, <1>4, <1>5, <1>6, <1>8 DEF RunOK

\* Runs that a step leaves alone stay as the model asked.
LEMMA RunsStay ==
  ASSUME TypeOK, InPlace, SaidInOrder, RunsAsAsked, RunsBehind, [Next]_vars,
         allowed \subseteq allowed'
  PROVE  \A i \in DOMAIN runs : RunOK(said', allowed', runs[i])
<1> SUFFICES ASSUME NEW i \in DOMAIN runs
             PROVE  RunOK(said', allowed', runs[i])
  OBVIOUS
<1>1. RunOK(said, allowed, runs[i])
  BY RunsParts
<1>2. \A id \in DOMAIN said : id \in DOMAIN said' /\ (said[id].whole => said'[id] = said[id])
  BY WholeStays
<1> QED BY <1>1, <1>2 DEF RunOK

LEMMA UseToolRuns ==
  ASSUME TypeOK, InPlace, SaidInOrder, UsesInOrder, InputsAsSent, RunsAsAsked, RunsBehind, UseTool
  PROVE  (RunsAsAsked /\ RunsBehind)'
<1> DEFINE N == Len(runs)
<1>1. /\ pc = "tools" /\ blocks.next <= Len(collected.uses) /\ said' = said
      /\ blocks' = blocks /\ allowed \subseteq allowed'
      /\ turn'.calls = turn.calls + 1 /\ turn'.depth = turn.depth
  BY DEF UseTool, modelVars, toolVars, TypeOK
<1>2. \A i \in DOMAIN runs : RunOK(said', allowed', runs[i])
  BY <1>1, RunsStay DEF Next, Runner
<1>3. RunCount /\ RunsOrdered /\ \A i \in DOMAIN runs : Before(runs[i].id, <<turn.depth, blocks.next>>)
  BY <1>1, RunsParts DEF Behind
<1>4. CASE runs' = runs /\ pc' \in {"done", "awaited"}
  <2>1. RunCount'
    BY <1>1, <1>3, <1>4, RunTypes, ConstantTypes DEF RunCount
  <2>2. RunsOrdered' /\ \A i \in DOMAIN runs' : Behind(runs[i])'
    BY <1>3, <1>4 DEF RunsOrdered, Behind
  <2> QED BY <1>2, <1>4, <2>1, <2>2, RunsParts
<1>5. CASE /\ ~TooMany /\ Parses(Current.input) /\ pc' = "running"
           /\ allowed' = allowed \cup {Current.id} /\ runs' = Append(runs, Call)
  <2>1. Call \in Use /\ Call.id = <<turn.depth, blocks.next>> /\ RunOK(said, {Call.id}, Call)
    BY <1>1, <1>5, CallIsAsked
  <2>2. Call.id \in allowed'
    BY <1>5 DEF Call
  <2>3. RunOK(said', allowed', Call)
    BY <1>1, <2>1, <2>2 DEF RunOK
  <2> HIDE DEF Call
  <2>4. /\ Len(Append(runs, Call)) = N + 1 /\ N \in Nat
        /\ DOMAIN Append(runs, Call) = 1..N + 1
        /\ Append(runs, Call)[N + 1] = Call
        /\ \A i \in 1..N : Append(runs, Call)[i] = runs[i]
    <3>1. runs \in Seq(Use)
      BY DEF TypeOK
    <3> QED BY ONLY <2>1, <3>1, Appended
  <2> HIDE DEF N
  <2>5. /\ DOMAIN runs' = 1..N + 1 /\ DOMAIN runs = 1..N /\ runs'[N + 1] = Call
        /\ \A i \in 1..N : runs'[i] = runs[i]
        /\ \A i \in DOMAIN runs' : i \in 1..N \/ i = N + 1
    BY <1>5, <2>4, RunTypes DEF N
  <2>6. RunCount'
    BY <1>1, <1>3, <1>5, <2>4, RunTypes, ConstantTypes DEF RunCount, TooMany, N
  <2>7. RunsOrdered'
    <3> SUFFICES ASSUME NEW i \in DOMAIN runs', NEW j \in DOMAIN runs', i < j
                 PROVE  Before(runs'[i].id, runs'[j].id)
      BY DEF RunsOrdered, Before
    <3>1. i \in 1..N
      BY <2>4, <2>5
    <3>2. CASE j \in 1..N
      BY <1>3, <2>5, <3>1, <3>2 DEF RunsOrdered
    <3>3. CASE j = N + 1
      BY <1>3, <2>1, <2>5, <3>1, <3>3
    <3> QED BY <2>5, <3>2, <3>3
  <2>8. ASSUME NEW i \in DOMAIN runs'
        PROVE  RunOK(said', allowed', runs'[i]) /\ Behind(runs[i])'
    <3>1. Before(runs'[i].id, <<turn.depth, blocks.next + 1>>)
      <4>1. CASE i \in 1..N
        <5>1. Before(runs[i].id, <<turn.depth, blocks.next>>)
          BY <1>3, <2>5, <4>1
        <5>2. runs'[i] = runs[i] /\ runs[i].id[1] \in Nat /\ runs[i].id[2] \in Nat /\ blocks.next \in Nat
          BY <2>5, <4>1, RunTypes
        <5> QED BY <5>1, <5>2 DEF Before
      <4>2. CASE i = N + 1
        <5>1. runs'[i].id = <<turn.depth, blocks.next>> /\ blocks.next \in Nat
          BY <2>1, <2>5, <4>2, RunTypes
        <5> QED BY <5>1 DEF Before
      <4> QED BY <2>5, <4>1, <4>2
    <3>2. RunOK(said', allowed', runs'[i])
      BY <1>2, <2>3, <2>5
    <3>3. Behind(runs[i])'
      BY <1>1, <1>5, <3>1 DEF Behind, Before
    <3> QED BY <3>2, <3>3
  <2> QED BY <2>6, <2>7, <2>8, RunsParts
<1> QED BY <1>4, <1>5 DEF UseTool, Completed, Failed, EndTurn, toolVars

LEMMA NextRuns ==
  TypeOK /\ InPlace /\ SaidInOrder /\ UsesInOrder /\ InputsAsSent /\ RunsAsAsked /\ RunsBehind /\ [Next]_vars
    => (RunsAsAsked /\ RunsBehind)'
<1> SUFFICES ASSUME TypeOK, InPlace, SaidInOrder, UsesInOrder, InputsAsSent, RunsAsAsked, RunsBehind,
                    [Next]_vars
             PROVE  (RunsAsAsked /\ RunsBehind)'
  OBVIOUS
<1>1. RunCount /\ RunsOrdered /\ \A i \in DOMAIN runs : Behind(runs[i])
  BY RunsParts
<1>2. ASSUME UNCHANGED <<runs, allowed>>, RunCount', \A i \in DOMAIN runs : Behind(runs[i])'
      PROVE  (RunsAsAsked /\ RunsBehind)'
  <2>1. RunsOrdered'
    BY <1>1, <1>2 DEF RunsOrdered
  <2>2. \A i \in DOMAIN runs' : RunOK(said', allowed', runs'[i])
    BY <1>2, RunsStay
  <2> QED BY <1>2, <2>1, <2>2, RunsParts
<1>3. ASSUME UNCHANGED <<runs, allowed>>, pc' = "done"
      PROVE  (RunsAsAsked /\ RunsBehind)'
  BY <1>1, <1>2, <1>3 DEF RunCount, Behind
<1>4. ASSUME UNCHANGED <<runs, allowed, blocks, pc>>, turn'.depth = turn.depth, turn'.calls = turn.calls
      PROVE  (RunsAsAsked /\ RunsBehind)'
  <2>1. RunCount'
    BY <1>1, <1>4 DEF RunCount
  <2>2. \A i \in DOMAIN runs : Behind(runs[i])'
    BY <1>1, <1>4 DEF Behind, Before
  <2> QED BY <1>2, <1>4, <2>1, <2>2
<1>5. CASE UNCHANGED vars \/ Provider \/ TakeEvent \/ Deadline
  BY <1>4, <1>5, ProviderFrame DEF TakeEvent, Deadline, vars, agentVars, modelVars, toolVars
<1>6. CASE OpenStream
  <2>1. CASE turn.depth = MaxDepth
    BY <1>3, <1>6, <2>1 DEF OpenStream, Completed, EndTurn, toolVars
  <2>2. CASE turn.depth # MaxDepth
    <3>1. UNCHANGED <<runs, allowed, turn>> /\ pc = "open" /\ pc' = "collect"
      BY <1>6, <2>2 DEF OpenStream, toolVars
    <3>2. RunCount' /\ \A i \in DOMAIN runs : Behind(runs[i])'
      BY <1>1, <3>1 DEF RunCount, Behind
    <3> QED BY <1>2, <3>1, <3>2
  <2> QED BY <2>1, <2>2
<1>7. CASE Collect
  <2>1. UNCHANGED <<runs, allowed, blocks>> /\ turn'.depth = turn.depth /\ turn'.calls = turn.calls
        /\ (pc' = "done" \/ pc' = pc)
    <3>1. pc = "collect" /\ UNCHANGED <<runs, allowed, blocks>> /\ (turn' = turn \/ turn' = Count)
          /\ (pc' = "done" \/ pc' = pc)
      BY <1>7 DEF Collect, Completed, EndTurn, toolVars
    <3> QED BY <3>1, CountTypes
  <2> QED BY <1>3, <1>4, <2>1
<1>8. CASE CollectTimeout \/ Awaited
  BY <1>3, <1>8 DEF CollectTimeout, Awaited, Failed, Completed, EndTurn, toolVars
<1>9. CASE CollectEnd
  <2>1. CASE pc' = "done"
    BY <1>3, <1>9, <2>1 DEF CollectEnd, toolVars
  <2>2. CASE pc' = "tools"
    <3>1. UNCHANGED <<runs, allowed, turn, blocks>> /\ pc = "collect" /\ blocks.next = 1
      BY <1>9 DEF CollectEnd, toolVars, InPlace, NoBlocks
    <3>2. RunCount'
      BY <1>1, <2>2, <3>1 DEF RunCount
    <3>3. \A i \in DOMAIN runs : Behind(runs[i])'
      BY <1>1, <2>2, <3>1 DEF Behind, Before
    <3> QED BY <1>2, <3>1, <3>2, <3>3
  <2> QED BY <1>9, <2>1, <2>2 DEF CollectEnd, Failed, Completed, EndTurn
<1>10. CASE UseTool
  BY <1>10, UseToolRuns
<1>11. CASE NextExchange
  <2>1. /\ UNCHANGED <<runs, allowed>> /\ pc = "tools" /\ pc' = "open"
        /\ turn'.depth = turn.depth + 1 /\ turn'.calls = turn.calls
    BY <1>11 DEF NextExchange, toolVars, TypeOK
  <2>2. RunCount'
    BY <1>1, <2>1 DEF RunCount
  <2>3. \A i \in DOMAIN runs : Behind(runs[i])'
    <3>1. \A i \in DOMAIN runs : runs[i].id[1] < turn.depth + 1
      BY <1>1, <2>1, RunTypes DEF Behind, Before
    <3> QED BY <2>1, <3>1 DEF Behind
  <2> QED BY <1>2, <2>1, <2>2, <2>3
<1>12. ASSUME NEW failed \in BOOLEAN, ToolReturns(failed)
       PROVE  (RunsAsAsked /\ RunsBehind)'
  <2>1. /\ UNCHANGED <<runs, allowed>> /\ pc = "running"
        /\ turn'.depth = turn.depth /\ turn'.calls = turn.calls
        /\ pc' = "done" \/ (pc' = "tools" /\ blocks'.next = blocks.next + 1)
    <3>1. UNCHANGED <<runs, allowed>> /\ pc = "running" /\ turn' = Count
          /\ (pc' = "done" \/ (pc' = "tools" /\ blocks'.next = blocks.next + 1))
      BY <1>12 DEF ToolReturns, Completed, EndTurn, toolVars
    <3> QED BY <3>1, CountTypes
  <2>2. CASE pc' = "done"
    BY <1>3, <2>1, <2>2
  <2>3. CASE pc' = "tools" /\ blocks'.next = blocks.next + 1
    <3>1. RunCount'
      BY <1>1, <2>1, <2>3 DEF RunCount
    <3>2. \A i \in DOMAIN runs : Behind(runs[i])'
      BY <1>1, <2>1, <2>3 DEF Behind, Before
    <3> QED BY <1>2, <2>1, <3>1, <3>2
  <2> QED BY <2>1, <2>2, <2>3
<1> QED BY <1>5, <1>6, <1>7, <1>8, <1>9, <1>10, <1>11, <1>12 DEF Next, Runner

(***************************************************************************)
(* The conversation that is sent back                                      *)
(***************************************************************************)
LEMMA AskedIs ==
  ASSUME NEW e \in Nat, NEW n \in Nat
  PROVE  /\ Asked(e, 0) = <<>>
         /\ Append(Asked(e, n), <<e, n + 1>>) = Asked(e, n + 1)
<1> DEFINE S == {<<e, k>> : k \in Nat}
<1>1. \A m \in Nat : /\ Asked(e, m) \in Seq(S) /\ Len(Asked(e, m)) = m
                     /\ \A k \in 1..m : Asked(e, m)[k] = <<e, k>>
  <2> SUFFICES ASSUME NEW m \in Nat
               PROVE  /\ Asked(e, m) \in Seq(S) /\ Len(Asked(e, m)) = m
                      /\ \A k \in 1..m : Asked(e, m)[k] = <<e, k>>
    OBVIOUS
  <2>1. Asked(e, m) \in [1..m -> S]
    BY DEF Asked
  <2> HIDE DEF S
  <2>2. Asked(e, m) \in Seq(S) /\ DOMAIN Asked(e, m) = 1..m
    BY <2>1, SeqDef
  <2>3. Len(Asked(e, m)) \in Nat /\ DOMAIN Asked(e, m) = 1..Len(Asked(e, m))
    BY <2>2, LenProperties
  <2>4. Len(Asked(e, m)) = m
    BY ONLY <2>2, <2>3, m \in Nat
  <2> QED BY <2>2, <2>4 DEF Asked
<1> HIDE DEF S
<1>2. Asked(e, 0) = <<>>
  BY <1>1, EmptySeq
<1>3. <<e, n + 1>> \in S
  BY DEF S
<1>4. /\ Append(Asked(e, n), <<e, n + 1>>) \in Seq(S)
      /\ Len(Append(Asked(e, n), <<e, n + 1>>)) = n + 1
      /\ \A k \in 1..n : Append(Asked(e, n), <<e, n + 1>>)[k] = <<e, k>>
      /\ Append(Asked(e, n), <<e, n + 1>>)[n + 1] = <<e, n + 1>>
  <2>1. Asked(e, n) \in Seq(S) /\ Len(Asked(e, n)) = n /\ \A k \in 1..n : Asked(e, n)[k] = <<e, k>>
    BY <1>1
  <2>2. PICK s \in Seq(S) : s = Asked(e, n)
    BY <2>1
  <2>3. /\ Append(s, <<e, n + 1>>) \in Seq(S) /\ Len(Append(s, <<e, n + 1>>)) = Len(s) + 1
        /\ \A k \in 1..Len(s) : Append(s, <<e, n + 1>>)[k] = s[k]
        /\ Append(s, <<e, n + 1>>)[Len(s) + 1] = <<e, n + 1>>
    BY ONLY <1>3, <2>2, Appended
  <2> QED BY <2>1, <2>2, <2>3
<1>5. PICK a, b \in Seq(S) : a = Append(Asked(e, n), <<e, n + 1>>) /\ b = Asked(e, n + 1)
  <2>1. Asked(e, n + 1) \in Seq(S)
    BY <1>1
  <2> QED BY <1>4, <2>1
<1>6. Len(a) = Len(b) /\ Len(a) = n + 1
  BY <1>1, <1>4, <1>5
<1>7. \A k \in 1..Len(a) : a[k] = b[k]
  <2>1. \A k \in 1..n + 1 : b[k] = <<e, k>>
    BY <1>1, <1>5
  <2>2. \A k \in 1..n + 1 : k \in 1..n \/ k = n + 1
    OBVIOUS
  <2> QED BY <1>4, <1>5, <1>6, <2>1, <2>2
<1>8. a = b
  BY ONLY <1>5, <1>6, <1>7, SeqEqual
<1> QED BY <1>2, <1>5, <1>8

Exchange(e, n) ==
  Numbered(e - 1, n) /\ messages[e].uses = Asked(e - 1, n) /\ messages[e].results = Asked(e - 1, n)
Processed ==
  pc \in {"collect", "tools", "running"} =>
    /\ blocks.uses = Asked(turn.depth, blocks.next - 1)
    /\ blocks.results = Asked(turn.depth, blocks.next - 1)

LEMMA ExchangedParts ==
  /\ Exchanged => /\ Len(messages) = turn.depth /\ Processed
                  /\ \A e \in DOMAIN messages : \E n \in 0..MaxUses : Exchange(e, n)
  /\ Len(messages') = turn'.depth /\ Processed' /\ (\A e \in DOMAIN messages' : \E n \in 0..MaxUses : Exchange(e, n)')
       => Exchanged'
BY DEF Exchanged, Processed, Exchange

LEMMA MessagesType ==
  ASSUME TypeOK
  PROVE  Len(messages) \in Nat /\ DOMAIN messages = 1..Len(messages) /\ turn.depth \in Nat
BY LenProperties DEF TypeOK

\* What was exchanged about earlier responses stays.
LEMMA ExchangesStay ==
  ASSUME TypeOK, InPlace, SaidInOrder, Exchanged, [Next]_vars
  PROVE  \A e \in DOMAIN messages : \E n \in 0..MaxUses :
           /\ Numbered(e - 1, n)'
           /\ messages[e].uses = Asked(e - 1, n) /\ messages[e].results = Asked(e - 1, n)
<1> SUFFICES ASSUME NEW e \in DOMAIN messages
             PROVE  \E n \in 0..MaxUses :
                      /\ Numbered(e - 1, n)'
                      /\ messages[e].uses = Asked(e - 1, n) /\ messages[e].results = Asked(e - 1, n)
  OBVIOUS
<1>1. PICK n \in 0..MaxUses : Exchange(e, n)
  BY ExchangedParts
<1>2. e - 1 # turn.depth
  BY MessagesType, ExchangedParts
<1>3. Numbered(e - 1, n)'
  <2>1. CASE DOMAIN said' = DOMAIN said
    BY <1>1, <2>1 DEF Exchange, Numbered
  <2>2. CASE ToolUseStart
    <3>1. PICK m \in 0..MaxUses : DOMAIN said' = DOMAIN said \cup {<<turn.depth, m + 1>>}
      BY <2>2, StartIsNext
    <3>2. {id \in DOMAIN said' : id[1] = e - 1} = {id \in DOMAIN said : id[1] = e - 1}
      BY <1>2, <3>1
    <3> QED BY <1>1, <3>2 DEF Exchange, Numbered
  <2> QED BY <2>1, <2>2, SaidFrame, InputDeltaSays
<1> QED BY <1>1, <1>3 DEF Exchange

LEMMA NextExchanged ==
  TypeOK /\ InPlace /\ SaidInOrder /\ UsesInOrder /\ Exchanged /\ [Next]_vars => Exchanged'
<1> SUFFICES ASSUME TypeOK, InPlace, SaidInOrder, UsesInOrder, Exchanged, [Next]_vars
             PROVE  Exchanged'
  OBVIOUS
<1>1. /\ Len(messages) = turn.depth /\ Processed
      /\ \A e \in DOMAIN messages : \E n \in 0..MaxUses :
           /\ Numbered(e - 1, n)'
           /\ messages[e].uses = Asked(e - 1, n) /\ messages[e].results = Asked(e - 1, n)
  BY ExchangedParts, ExchangesStay
<1>2. ASSUME UNCHANGED messages, turn'.depth = turn.depth, Processed'
      PROVE  Exchanged'
  <2>1. \A e \in DOMAIN messages' : \E n \in 0..MaxUses : Exchange(e, n)'
    BY <1>1, <1>2 DEF Exchange
  <2> QED BY <1>1, <1>2, <2>1, ExchangedParts
<1>3. ASSUME UNCHANGED <<messages, blocks>>, turn'.depth = turn.depth, pc' = "done" \/ pc' = pc
      PROVE  Exchanged'
  BY <1>1, <1>2, <1>3 DEF Processed
<1>4. CASE UNCHANGED vars \/ Provider \/ TakeEvent \/ Deadline
  BY <1>3, <1>4, ProviderFrame DEF TakeEvent, Deadline, vars, agentVars, modelVars
<1>5. CASE OpenStream
  <2>1. UNCHANGED <<messages, turn>> /\ pc' \in {"done", "collect"}
    BY <1>5 DEF OpenStream, Completed, EndTurn
  <2>2. CASE pc' = "collect"
    <3>1. blocks' = NoBlocks
      BY <1>5, <2>2 DEF OpenStream, Completed, EndTurn
    <3>2. blocks'.uses = <<>> /\ blocks'.results = <<>> /\ blocks'.next - 1 = 0
      BY <3>1 DEF NoBlocks
    <3>3. Processed'
      BY <2>1, <3>2, AskedIs, MessagesType DEF Processed
    <3> QED BY <1>2, <2>1, <3>3
  <2>3. CASE pc' = "done"
    BY <1>2, <2>1, <2>3 DEF Processed
  <2> QED BY <2>1, <2>2, <2>3
<1>6. CASE Collect
  <2>1. UNCHANGED <<messages, blocks>> /\ turn'.depth = turn.depth /\ (pc' = "done" \/ pc' = pc)
    BY <1>6, CollectIs
  <2> QED BY <1>3, <2>1
<1>7. CASE CollectTimeout \/ Awaited
  BY <1>3, <1>7 DEF CollectTimeout, Awaited, Failed, Completed, EndTurn
<1>8. CASE CollectEnd
  <2>1. UNCHANGED <<messages, blocks, turn>> /\ pc = "collect" /\ pc' \in {"done", "tools"}
    BY <1>8 DEF CollectEnd, Failed, Completed, EndTurn
  <2> QED BY <1>1, <1>2, <2>1 DEF Processed
<1>9. CASE UseTool
  <2>1. UNCHANGED <<messages, blocks>> /\ turn'.depth = turn.depth /\ pc = "tools"
    BY <1>9 DEF UseTool, TypeOK
  <2> QED BY <1>1, <1>2, <2>1 DEF Processed
<1>10. CASE NextExchange
  <2>1. /\ messages' = Append(messages, [uses |-> blocks.uses, results |-> blocks.results])
        /\ turn'.depth = turn.depth + 1 /\ pc = "tools" /\ pc' = "open" /\ said' = said
        /\ blocks.next > Len(collected.uses)
    BY <1>10 DEF NextExchange, TypeOK, modelVars
  <2> DEFINE m == [uses |-> blocks.uses, results |-> blocks.results]
  <2>2. PICK n \in Nat, D \in Nat : n = Len(collected.uses) /\ D = turn.depth /\ blocks.next - 1 = n
    <3>1. Len(collected.uses) \in Nat /\ blocks.next - 1 = Len(collected.uses)
      <4>1. Len(collected.uses) \in Nat /\ blocks.next \in Nat /\ blocks.next <= Len(collected.uses) + 1
        BY LenProperties DEF TypeOK
      <4> QED BY ONLY <2>1, <4>1
    <3> QED BY <3>1, MessagesType
  <2>3. blocks.uses = Asked(D, n) /\ blocks.results = Asked(D, n)
    BY <1>1, <2>1, <2>2 DEF Processed
  <2>4. Numbered(D, n) /\ n \in 0..MaxUses
    <3>1. PICK k \in 0..MaxUses : Numbered(D, k)
      BY <2>2 DEF SaidInOrder
    <3>2. stream.buf = <<>>
      BY <2>1 DEF InPlace
    <3>3. \A id \in UsesSaid : id[2] \in 1..n
      BY <2>1, <2>2, <3>2 DEF UsesInOrder, OfResponse, Starts, Collected
    <3>4. \A i \in 1..n : <<D, i>> \in UsesSaid
      BY <2>1, <2>2 DEF UsesInOrder, OfResponse, Collected, UsesSaid
    <3>5. UsesSaid = {<<D, i>> : i \in 1..k}
      BY <2>2, <3>1 DEF UsesSaid, Numbered
    <3>6. \A i \in 1..k : i \in 1..n
      <4> SUFFICES ASSUME NEW i \in 1..k
                   PROVE  i \in 1..n
        OBVIOUS
      <4>1. <<D, i>> \in UsesSaid /\ <<D, i>>[2] = i
        BY <3>5
      <4> QED BY <3>3, <4>1
    <3>7. \A i \in 1..n : i \in 1..k
      BY <3>4, <3>5
    <3>8. k \in Nat
      BY <3>1, ConstantTypes
    <3>9. n = k
      BY ONLY <2>2, <3>6, <3>7, <3>8
    <3> QED BY <3>1, <3>9
  <2>5. m \in [uses : Seq(Ids), results : Seq(Ids)] /\ messages \in Seq([uses : Seq(Ids), results : Seq(Ids)])
    BY DEF TypeOK
  <2> HIDE DEF m
  <2>6. /\ Len(Append(messages, m)) = Len(messages) + 1 /\ Len(messages) \in Nat
        /\ DOMAIN Append(messages, m) = 1..Len(messages) + 1
        /\ Append(messages, m)[Len(messages) + 1] = m
        /\ \A e \in 1..Len(messages) : Append(messages, m)[e] = messages[e]
    BY ONLY <2>5, Appended
  <2>7. /\ Len(messages') = Len(messages) + 1 /\ DOMAIN messages' = 1..Len(messages) + 1
        /\ messages'[Len(messages) + 1] = m /\ DOMAIN messages = 1..Len(messages)
        /\ \A e \in 1..Len(messages) : messages'[e] = messages[e]
        /\ \A e \in DOMAIN messages' : e \in 1..Len(messages) \/ e = Len(messages) + 1
    BY <2>1, <2>6, MessagesType DEF m
  <2>8. ASSUME NEW e \in DOMAIN messages'
        PROVE  \E k \in 0..MaxUses : Exchange(e, k)'
    <3>1. CASE e \in 1..Len(messages)
      BY <1>1, <2>7, <3>1 DEF Exchange
    <3>2. CASE e = Len(messages) + 1
      <4>1. e - 1 = D /\ messages'[e].uses = Asked(D, n) /\ messages'[e].results = Asked(D, n)
        BY <1>1, <2>2, <2>3, <2>6, <2>7, <3>2 DEF m
      <4>2. {id \in DOMAIN said' : id[1] = D} = {<<D, k>> : k \in 1..n}
        BY <2>1, <2>4 DEF Numbered
      <4>3. Exchange(e, n)'
        BY <4>1, <4>2 DEF Exchange, Numbered
      <4> QED BY <2>4, <4>3
    <3> QED BY <2>7, <3>1, <3>2
  <2>9. Processed'
    BY <2>1 DEF Processed
  <2> QED BY <1>1, <2>1, <2>7, <2>8, <2>9, ExchangedParts
<1>11. ASSUME NEW failed \in BOOLEAN, ToolReturns(failed)
       PROVE  Exchanged'
  <2>1. UNCHANGED messages /\ pc = "running" /\ turn' = Count /\ pc' \in {"done", "tools"}
    BY <1>11 DEF ToolReturns, Completed, EndTurn
  <2>2. turn'.depth = turn.depth
    BY <2>1, CountTypes
  <2>3. CASE pc' = "done"
    BY <1>2, <2>1, <2>2, <2>3 DEF Processed
  <2>4. CASE pc' = "tools"
    <3>1. blocks' = [next |-> blocks.next + 1, uses |-> Append(blocks.uses, Current.id),
                     results |-> Append(blocks.results, Current.id)]
      BY <1>11, <2>4 DEF ToolReturns, Completed, EndTurn, Results
    <3>2. Current.id = <<turn.depth, blocks.next>> /\ blocks.next \in Nat \ {0}
      <4>1. blocks.next \in 1..Len(collected.uses) /\ blocks.next \in Nat \ {0}
        BY <2>1, LenProperties DEF InPlace, TypeOK
      <4> QED BY <2>1, <4>1 DEF UsesInOrder, OfResponse, Collected, Current
    <3> HIDE DEF Current
    <3>3. PICK d \in Nat, n \in Nat : d = turn.depth /\ n = blocks.next - 1 /\ blocks.next = n + 1
      BY <3>2, MessagesType
    <3>4. blocks.uses = Asked(d, n) /\ blocks.results = Asked(d, n)
      BY <1>1, <2>1, <3>3 DEF Processed
    <3>5. Append(Asked(d, n), <<d, n + 1>>) = Asked(d, n + 1)
      BY AskedIs
    <3>6. blocks'.uses = Asked(d, n + 1) /\ blocks'.results = Asked(d, n + 1) /\ blocks'.next - 1 = n + 1
      <4>1. Append(blocks.uses, Current.id) = Asked(d, n + 1) /\ Append(blocks.results, Current.id) = Asked(d, n + 1)
        BY <3>2, <3>3, <3>4, <3>5
      <4> QED BY <3>1, <3>3, <4>1
    <3>7. Processed'
      BY <2>2, <3>3, <3>6 DEF Processed
    <3> QED BY <1>2, <2>1, <2>2, <3>7
  <2> QED BY <2>1, <2>3, <2>4
<1> QED BY <1>4, <1>5, <1>6, <1>7, <1>8, <1>9, <1>10, <1>11 DEF Next, Runner

(***************************************************************************)
(* The theorems                                                            *)
(***************************************************************************)
LEMMA InitAgentInv == Init => AgentInv
<1> SUFFICES ASSUME Init PROVE AgentInv
  OBVIOUS
<1>1. TypeOK
  BY InitTypes
<1>2. Len(<<>>) = 0 /\ Len(runs) = 0 /\ Len(messages) = 0 /\ DOMAIN runs = {} /\ DOMAIN messages = {}
      /\ DOMAIN emitted = {} /\ DOMAIN said = {}
  BY EmptySeq DEF Init
<1>3. InPlace /\ EndsOnce
  BY <1>2, ConstantTypes DEF Init, InPlace, EndsOnce
<1>4. SaidInOrder
  <2>1. Numbered(0, 0) /\ 0 \in 0..MaxUses
    BY <1>2, ConstantTypes DEF Numbered
  <2> QED BY <1>2, <2>1 DEF Init, SaidInOrder
<1>5. UsesInOrder /\ InputsAsSent
  BY DEF Init, UsesInOrder, InputsAsSent, OfResponse
<1>6. RunsAsAsked /\ RunsBehind
  BY <1>2, ConstantTypes DEF Init, RunsAsAsked, RunsBehind
<1>7. Exchanged
  BY <1>2 DEF Init, Exchanged
<1> QED BY <1>1, <1>3, <1>4, <1>5, <1>6, <1>7 DEF AgentInv

LEMMA NextAgentInv == AgentInv /\ [Next]_vars => AgentInv'
BY NextTypes, NextInPlace, NextEndsOnce, NextSaidInOrder, NextUsesInOrder, NextInputsAsSent,
   NextRuns, NextExchanged DEF AgentInv

LEMMA AgentInvariant == Spec => []AgentInv
BY InitAgentInv, NextAgentInv, PTL DEF Spec

\* The runner, its stream and its counters stay in their types: no response
\* takes the turn past its depth, its calls or its output by more than the one
\* that ends it (runner.go, loop).
THEOREM TurnTypes == Spec => []TypeOK
BY AgentInvariant, PTL DEF AgentInv

\* A turn emits one end, last, and when its runner is done, whatever the model,
\* the gate, the tools and the deadline do (emitTurnCompleted, emitTurnFailed).
THEOREM OneEnd == Spec => []EndsOnce
BY AgentInvariant, PTL DEF AgentInv

\* Every tool that runs was let through, has exactly the input that the model
\* said of it, comes after those that ran before it, and is one of at most
\* MaxToolCalls (collectStreamEvents, processToolUses).
THEOREM AskedRuns == Spec => []RunsAsAsked
BY AgentInvariant, PTL DEF AgentInv

\* The conversation sent back answers every tool use of each response, in order
\* (runner.go, loop).
THEOREM UsesAnswered == Spec => []EveryUseAnswered
<1>1. AgentInv => EveryUseAnswered
  <2> SUFFICES ASSUME AgentInv, NEW e \in DOMAIN messages
               PROVE  LET asked == [k \in 1..Cardinality({id \in DOMAIN said : id[1] = e - 1}) |-> <<e - 1, k>>]
                      IN  messages[e].uses = asked /\ messages[e].results = asked
    BY DEF EveryUseAnswered
  <2>1. PICK n \in 0..MaxUses : Exchange(e, n)
    BY ExchangedParts DEF AgentInv
  <2>2. n \in Nat
    BY <2>1, ConstantTypes
  <2>3. Cardinality({id \in DOMAIN said : id[1] = e - 1}) = n
    <3>1. {id \in DOMAIN said : id[1] = e - 1} = {<<e - 1, k>> : k \in 1..n}
      BY <2>1 DEF Exchange, Numbered
    <3>2. Cardinality({<<e - 1, k>> : k \in 1..n}) = n
      BY <2>2, NumberedCount
    <3> QED BY <3>1, <3>2
  <2> QED BY <2>1, <2>3 DEF Exchange, Asked
<1> QED BY <1>1, AgentInvariant, PTL

\* Once an approval has been proposed the turn runs no further tool
\* (processToolUses).
THEOREM ProposalStops == Spec => StopsAtApproval
<1>1. AgentInv /\ [Next]_vars => [proposed # {} => runs' = runs]_vars
  <2> SUFFICES ASSUME AgentInv, Next, proposed # {}
               PROVE  runs' = runs
    BY DEF vars
  <2>1. pc \in {"awaited", "done"}
    BY DEF AgentInv, InPlace
  <2> QED BY <2>1, ProviderFrame
          DEF Next, Runner, OpenStream, Collect, CollectTimeout, CollectEnd, UseTool, Awaited,
              NextExchange, ToolReturns, TakeEvent, Deadline, toolVars
<1> QED BY <1>1, AgentInvariant, PTL DEF Spec, StopsAtApproval
==============================================================================
