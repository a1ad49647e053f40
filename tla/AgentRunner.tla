----------------------------- MODULE AgentRunner -----------------------------
(***************************************************************************)
(* One agent turn: Runner.loop (internal/agent/runner.go), the provider    *)
(* goroutine whose stream it reads (internal/models), the approval gate    *)
(* and executor it calls, and runAgentTurn, which stores what it emits.    *)
(*                                                                         *)
(* A response of the model is a sequence of chunks: text, the start of a   *)
(* tool use, a fragment of a tool use's input, a stop reason.  JSON parses *)
(* when it is all the fragments of one use, in order.  A text delta, and a *)
(* tool's output, count one unit against MaxOutput.                        *)
(*                                                                         *)
(* MaxChunks, MaxUses and MaxFragments bound a response.                   *)
(***************************************************************************)
EXTENDS Naturals, Sequences, FiniteSets, SequencesExt

CONSTANTS MaxDepth, MaxToolCalls, MaxOutput,   \* Config, of the session's trust tier
          StreamSize, ChannelSize,             \* capacities (32 and 64 in the code)
          Reasons,                             \* stop reasons the model gives
          MaxChunks, MaxUses, MaxFragments

ASSUME AgentAssumption ==
    /\ {MaxDepth, MaxToolCalls, MaxOutput, MaxChunks, MaxUses, MaxFragments} \subseteq Nat
    /\ {StreamSize, ChannelSize} \subseteq Nat \ {0}

VARIABLES
    pc,        \* of the runner's goroutine
    turn,      \* depth, toolCalls and outputBytes of the loop
    collected, \* stopReason and toolUses of the response
    blocks,    \* next tool use to process; ids of the uses and of the results so far
    messages,  \* ids of the uses and of the results of each exchange with the model
    emitted,   \* events sent on the channel and to the stream bus
    taken,     \* how many of them runAgentTurn has taken off the channel
    expired,   \* the turn's deadline has passed
    stream,    \* the channel from the provider
    said,      \* what the model has said in each tool use, by id
    chunks,    \* chunks of the response so far
    runs,      \* tool executions begun
    allowed,   \* tool uses the gate let through
    proposed   \* tool uses the gate proposed for approval

agentVars == <<pc, turn, collected, blocks, messages, emitted, expired>>
modelVars == <<stream, said, chunks>>
toolVars  == <<runs, allowed, proposed>>
vars == <<agentVars, taken, modelVars, toolVars>>

Ids == (0..MaxDepth) \X (1..MaxUses)
NoBlocks == [next |-> 1, uses |-> <<>>, results |-> <<>>]

Fragment == [type : {"input"}, id : Ids, n : Nat, last : BOOLEAN]
Use      == [id : Ids, input : Seq(Fragment)]
Chunk    == [type : {"text"}] \cup [type : {"start"}, id : Ids] \cup Fragment
              \cup [type : {"stop"}, reason : Reasons \cup {"error"}]
Event    == {"text_delta", "tool_use_start", "tool_input_delta", "awaiting_approval",
             "turn_completed", "turn_failed"}

TypeOK ==
    /\ pc \in {"open", "collect", "tools", "running", "awaited", "done"}
    /\ turn \in [depth : 0..MaxDepth, calls : 0..MaxToolCalls + 1, output : 0..MaxOutput + 1]
    /\ collected \in [stop : Reasons \cup {"end_turn", "error"}, uses : Seq(Use)]
    /\ blocks \in [next : Nat \ {0}, uses : Seq(Ids), results : Seq(Ids)]
    /\ blocks.next <= Len(collected.uses) + 1
    /\ messages \in Seq([uses : Seq(Ids), results : Seq(Ids)])
    /\ emitted \in Seq(Event) /\ expired \in BOOLEAN
    /\ taken \in 0..Len(emitted) /\ Len(emitted) - taken <= ChannelSize
    /\ stream \in [buf : Seq(Chunk), open : BOOLEAN] /\ Len(stream.buf) <= StreamSize
    /\ DOMAIN said \subseteq Ids /\ said \in [DOMAIN said -> [fragments : Nat, whole : BOOLEAN]]
    /\ chunks \in 0..MaxChunks
    /\ runs \in Seq(Use) /\ allowed \cup proposed \subseteq Ids

Init ==
    /\ pc = "open"
    /\ turn = [depth |-> 0, calls |-> 0, output |-> 0]
    /\ collected = [stop |-> "end_turn", uses |-> <<>>]
    /\ blocks = NoBlocks /\ messages = <<>>
    /\ emitted = <<>> /\ taken = 0 /\ expired = FALSE
    /\ stream = [buf |-> <<>>, open |-> FALSE] /\ said = <<>> /\ chunks = 0
    /\ runs = <<>> /\ allowed = {} /\ proposed = {}

(***************************************************************************)
(* The provider: Stream's goroutine.  Chunks of one response's tool uses   *)
(* may interleave; each carries the use it belongs to.                     *)
(***************************************************************************)
Put(event) ==
    /\ stream.open /\ Len(stream.buf) < StreamSize /\ chunks < MaxChunks
    /\ stream' = [stream EXCEPT !.buf = Append(@, event)]
    /\ chunks' = chunks + 1
    /\ UNCHANGED <<agentVars, taken, toolVars>>

Text == Put([type |-> "text"]) /\ UNCHANGED said

UsesSaid == {id \in DOMAIN said : id[1] = turn.depth}

ToolUseStart ==
    LET id == <<turn.depth, Cardinality(UsesSaid) + 1>>
    IN  /\ id \in Ids
        /\ Put([type |-> "start", id |-> id])
        /\ said' = [i \in DOMAIN said \cup {id} |-> IF i = id THEN [fragments |-> 0, whole |-> FALSE] ELSE said[i]]

InputDelta(id, last) ==
    /\ ~said[id].whole
    /\ last \/ said[id].fragments + 1 < MaxFragments
    /\ Put([type |-> "input", id |-> id, n |-> said[id].fragments + 1, last |-> last])
    /\ said' = [said EXCEPT ![id] = [fragments |-> @.fragments + 1, whole |-> last]]

(* The stop reason comes with a chunk of usage; text and uses may follow.   *)
StopReason(reason) == Put([type |-> "stop", reason |-> reason]) /\ UNCHANGED said

(* The connection breaks, which gives a last chunk, ... *)
BreakStream ==
    /\ stream.open /\ Len(stream.buf) < StreamSize
    /\ stream' = [buf |-> Append(stream.buf, [type |-> "stop", reason |-> "error"]), open |-> FALSE]
    /\ UNCHANGED <<agentVars, taken, said, chunks, toolVars>>

(* ... or the response ends, or the deadline passes. *)
CloseStream ==
    /\ stream.open
    /\ stream' = [stream EXCEPT !.open = FALSE]
    /\ UNCHANGED <<agentVars, taken, said, chunks, toolVars>>

Provider ==
    \/ Text \/ ToolUseStart \/ CloseStream
    \/ \E id \in UsesSaid, last \in BOOLEAN : InputDelta(id, last)
    \/ BreakStream \/ \E reason \in Reasons : StopReason(reason)

(***************************************************************************)
(* The runner                                                              *)
(***************************************************************************)
Emit(type) ==
    /\ Len(emitted) - taken < ChannelSize
    /\ emitted' = Append(emitted, type)

EndTurn(type) == Emit(type) /\ pc' = "done"
Completed == EndTurn("turn_completed")
Failed    == EndTurn("turn_failed")

(* exceedsOutputCap *)
CapExceeded == turn.output + 1 > MaxOutput
Count       == [turn EXCEPT !.output = @ + 1]

OpenStream ==
    /\ pc = "open"
    /\ IF turn.depth = MaxDepth
       THEN Completed /\ UNCHANGED <<stream, chunks, collected, blocks>>
       ELSE /\ pc' = "collect"
            /\ stream' = [buf |-> <<>>, open |-> TRUE] /\ chunks' = 0
            /\ collected' = [stop |-> "end_turn", uses |-> <<>>] /\ blocks' = NoBlocks
            /\ UNCHANGED emitted
    /\ UNCHANGED <<turn, messages, expired, taken, said, toolVars>>

(* toolUseIdx: a fragment goes to the tool use that it names. *)
Accumulate(uses, e) ==
    [i \in DOMAIN uses |-> IF uses[i].id = e.id THEN [uses[i] EXCEPT !.input = Append(@, e)] ELSE uses[i]]

Collect ==
    /\ pc = "collect" /\ stream.buf # <<>>
    /\ stream' = [stream EXCEPT !.buf = Tail(@)]
    /\ LET e == Head(stream.buf)
       IN  \/ /\ e.type = "text" /\ turn' = Count
              /\ IF CapExceeded THEN Completed ELSE Emit("text_delta") /\ UNCHANGED pc
              /\ UNCHANGED collected
           \/ /\ e.type = "start" /\ Emit("tool_use_start")
              /\ collected' = [collected EXCEPT !.uses = Append(@, [id |-> e.id, input |-> <<>>])]
              /\ UNCHANGED <<pc, turn>>
           \/ /\ e.type = "input" /\ Emit("tool_input_delta")
              /\ collected' = [collected EXCEPT !.uses = Accumulate(@, e)]
              /\ UNCHANGED <<pc, turn>>
           \/ /\ e.type = "stop" /\ collected' = [collected EXCEPT !.stop = e.reason]
              /\ UNCHANGED <<pc, turn, emitted>>
    /\ UNCHANGED <<blocks, messages, expired, taken, said, chunks, toolVars>>

(* Fault: the timeout is reported and the loop goes on. *)
CollectTimeoutGoesOn ==
    /\ pc = "collect" /\ expired /\ Emit("turn_failed")
    /\ pc' = IF stream.open THEN "done" ELSE "tools"
    /\ UNCHANGED <<turn, collected, blocks, messages, expired, taken, modelVars, toolVars>>

(* Fault: only the stream is waited for. *)
CollectTimeoutUnseen ==
    /\ pc = "collect" /\ expired /\ stream.buf = <<>> /\ ~stream.open
    /\ Failed
    /\ UNCHANGED <<turn, collected, blocks, messages, expired, taken, modelVars, toolVars>>

(* The select's ctx.Done, chosen even when the stream has an event ready. *)
CollectTimeout ==
    /\ pc = "collect" /\ expired
    /\ Failed
    /\ UNCHANGED <<turn, collected, blocks, messages, expired, taken, modelVars, toolVars>>

CollectEnd ==
    /\ pc = "collect" /\ stream.buf = <<>> /\ ~stream.open
    /\ \/ expired /\ Failed
       \/ ~expired /\ (collected.uses = <<>> \/ collected.stop = "end_turn") /\ Completed
       \/ /\ ~expired /\ collected.uses # <<>> /\ collected.stop # "end_turn"
          /\ pc' = "tools" /\ UNCHANGED emitted
    /\ UNCHANGED <<turn, collected, blocks, messages, expired, taken, modelVars, toolVars>>

Current == collected.uses[blocks.next]
Parses(input) ==
    /\ input # <<>> /\ Last(input).last
    /\ \A k \in DOMAIN input : input[k].id = input[1].id /\ input[k].n = k

(* Fault: every call is made with the input of the response's last use. *)
CallOfLast == [id |-> Current.id, input |-> Last(collected.uses).input]

Call == [id |-> Current.id, input |-> Current.input]

TooMany == turn.calls + 1 > MaxToolCalls

UseTool ==
    /\ pc = "tools" /\ blocks.next <= Len(collected.uses)
    /\ turn' = [turn EXCEPT !.calls = @ + 1]
    /\ \/ TooMany /\ Completed /\ UNCHANGED toolVars
       \/ ~TooMany /\ ~Parses(Current.input) /\ Failed /\ UNCHANGED toolVars
       \/ /\ ~TooMany /\ Parses(Current.input)
          /\ \/ (* the gate fails, before or after it has proposed the approval *)
                /\ proposed' \in {proposed, proposed \cup {Current.id}}
                /\ Failed /\ UNCHANGED <<runs, allowed>>
             \/ /\ proposed' = proposed \cup {Current.id}
                /\ Emit("awaiting_approval") /\ pc' = "awaited" /\ UNCHANGED <<runs, allowed>>
             \/ /\ allowed' = allowed \cup {Current.id}
                /\ runs' = Append(runs, Call)
                /\ pc' = "running" /\ UNCHANGED <<emitted, proposed>>
    /\ UNCHANGED <<collected, blocks, messages, expired, taken, modelVars>>

(* Fault: the loop goes on to the next tool use. *)
AwaitedGoesOn ==
    /\ pc = "awaited"
    /\ IF blocks.next < Len(collected.uses) THEN pc' = "tools" /\ UNCHANGED emitted ELSE Completed
    /\ blocks' = [blocks EXCEPT !.next = @ + 1]
    /\ UNCHANGED <<turn, collected, messages, expired, taken, modelVars, toolVars>>

Awaited ==
    /\ pc = "awaited" /\ Completed
    /\ UNCHANGED <<turn, collected, blocks, messages, expired, taken, modelVars, toolVars>>

(* Fault: a tool that failed gets no result block. *)
ResultsWithoutErrors(failed) == IF failed THEN blocks.results ELSE Append(blocks.results, Current.id)

Results(failed) == Append(blocks.results, Current.id)

(* Execute returns: it waits no longer than the tool's own timeout. *)
ToolReturns(failed) ==
    /\ pc = "running" /\ turn' = Count
    /\ \/ CapExceeded /\ Completed /\ UNCHANGED blocks
       \/ /\ ~CapExceeded /\ pc' = "tools" /\ UNCHANGED emitted
          /\ blocks' = [next |-> blocks.next + 1, uses |-> Append(blocks.uses, Current.id),
                        results |-> Results(failed)]
    /\ UNCHANGED <<collected, messages, expired, taken, modelVars, toolVars>>

NextExchange ==
    /\ pc = "tools" /\ blocks.next > Len(collected.uses)
    /\ messages' = Append(messages, [uses |-> blocks.uses, results |-> blocks.results])
    /\ turn' = [turn EXCEPT !.depth = @ + 1]
    /\ pc' = "open"
    /\ UNCHANGED <<collected, blocks, emitted, expired, taken, modelVars, toolVars>>

Runner ==
    \/ OpenStream \/ Collect \/ CollectTimeout \/ CollectEnd \/ UseTool \/ Awaited \/ NextExchange
    \/ \E failed \in BOOLEAN : ToolReturns(failed)

(***************************************************************************)
(* runAgentTurn takes the events off the channel; the clock passes TurnTimeout *)
(***************************************************************************)
TakeEvent ==
    /\ taken < Len(emitted) /\ taken' = taken + 1
    /\ UNCHANGED <<agentVars, modelVars, toolVars>>

Deadline ==
    /\ pc # "done" /\ ~expired /\ expired' = TRUE
    /\ UNCHANGED <<pc, turn, collected, blocks, messages, emitted, taken, modelVars, toolVars>>

Next == Provider \/ Runner \/ TakeEvent \/ Deadline

(* Nothing is assumed of the provider or of the model. *)
Spec == Init /\ [][Next]_vars
FairSpec == Spec /\ WF_vars(Runner) /\ WF_vars(TakeEvent) /\ WF_vars(Deadline)

(***************************************************************************)
(* Properties                                                              *)
(***************************************************************************)
(* A turn has one end: turn_completed or turn_failed is emitted once, last, *)
(* and when the runner is done (emitTurnCompleted, emitTurnFailed).         *)
Ends == {"turn_completed", "turn_failed"}
EndsOnce ==
    /\ \A i \in DOMAIN emitted : emitted[i] \in Ends => i = Len(emitted)
    /\ pc = "done" <=> emitted # <<>> /\ Last(emitted) \in Ends

(* A tool runs only as the model asked for it: let through by the gate,    *)
(* with every fragment of its input in order and none of another use's,    *)
(* the uses run in the order they were started, each at most once, and no  *)
(* more of them than the turn's limit, over all its responses              *)
(* (collectStreamEvents, processToolUses).                                 *)
Before(a, b) == a[1] < b[1] \/ (a[1] = b[1] /\ a[2] < b[2])
RunsAsAsked ==
    /\ Len(runs) <= MaxToolCalls
    /\ \A i, j \in DOMAIN runs : i < j => Before(runs[i].id, runs[j].id)
    /\ \A i \in DOMAIN runs :
          LET r == runs[i]
          IN  /\ r.id \in allowed /\ said[r.id].whole
              /\ Len(r.input) = said[r.id].fragments
              /\ \A k \in DOMAIN r.input : r.input[k].id = r.id /\ r.input[k].n = k

(* The conversation sent back answers every tool use of the response, in   *)
(* order, failed tools included: the model's API refuses it otherwise.     *)
EveryUseAnswered ==
    \A d \in DOMAIN messages :
        LET asked == [k \in 1..Cardinality({id \in DOMAIN said : id[1] = d - 1}) |-> <<d - 1, k>>]
        IN  messages[d].uses = asked /\ messages[d].results = asked

(* Once an approval has been proposed the turn runs no further tool: the   *)
(* uses after it wait for a new turn (processToolUses).                    *)
StopsAtApproval == [][proposed # {} => runs' = runs]_vars

(* Every turn ends and its events are taken, whatever the model does.      *)
TurnFinishes == <>(pc = "done" /\ taken = Len(emitted))

(***************************************************************************)
(* The inductive invariant                                                 *)
(***************************************************************************)
(* What the runner's place in the loop says of the limits and the stream.  *)
InPlace ==
    /\ pc # "done" => turn.calls <= MaxToolCalls /\ turn.output <= MaxOutput
    /\ pc \in {"collect", "tools", "running"} => turn.depth < MaxDepth
    /\ pc = "collect" => blocks = NoBlocks
    /\ pc = "running" => blocks.next <= Len(collected.uses)
    /\ stream.open => pc \in {"collect", "done"}
    /\ pc \in {"tools", "running"} => stream.buf = <<>>
    /\ proposed # {} => pc \in {"awaited", "done"}

(* The model's tool uses of a response are numbered as they start. *)
Numbered(e, n) == {id \in DOMAIN said : id[1] = e} = {<<e, k>> : k \in 1..n}
SaidInOrder ==
    /\ \A id \in DOMAIN said : id[1] <= turn.depth /\ (pc = "open" => id[1] < turn.depth)
    /\ \E n \in 0..MaxUses : Numbered(turn.depth, n)

(* While a response is worked on, each of its uses was collected or is on  *)
(* its way, in order, and its fragments are those the model sent for it.   *)
OfResponse == pc \in {"collect", "tools", "running"}
Starts     == {p \in DOMAIN stream.buf : stream.buf[p].type = "start"}
Collected  == 1..Len(collected.uses)
UsesInOrder == OfResponse =>
    /\ \A i \in Collected : collected.uses[i].id = <<turn.depth, i>> /\ <<turn.depth, i>> \in DOMAIN said
    /\ \A id \in UsesSaid : id[2] \notin Collected => \E p \in Starts : stream.buf[p].id = id
    /\ \A p \in Starts : stream.buf[p].id \in UsesSaid /\ stream.buf[p].id[2] \notin Collected
    /\ \A p, q \in Starts : p < q => stream.buf[p].id[2] < stream.buf[q].id[2]

Sent(f) ==
    /\ f.id \in DOMAIN said
    /\ f.last => said[f.id].whole /\ said[f.id].fragments = f.n
InputsAsSent == OfResponse =>
    /\ \A p \in DOMAIN stream.buf : stream.buf[p].type = "input" => Sent(stream.buf[p])
    /\ \A i \in Collected : \A k \in DOMAIN collected.uses[i].input :
          Sent(collected.uses[i].input[k]) /\ collected.uses[i].input[k].id = <<turn.depth, i>>

(* No tool run so far is at or after the place of the next one. *)
RunsBehind ==
    /\ Len(runs) <= MaxToolCalls /\ (pc # "done" => Len(runs) <= turn.calls)
    /\ \A i \in DOMAIN runs :
          /\ runs[i].id \in DOMAIN said
          /\ pc \in {"open", "collect"} => runs[i].id[1] < turn.depth
          /\ pc = "tools"   => Before(runs[i].id, <<turn.depth, blocks.next>>)
          /\ pc = "running" => Before(runs[i].id, <<turn.depth, blocks.next + 1>>)

(* An exchange has the uses that its response had, and the next one those  *)
(* processed so far.                                                       *)
Asked(e, n) == [k \in 1..n |-> <<e, k>>]
Exchanged ==
    /\ Len(messages) = turn.depth
    /\ \A e \in DOMAIN messages : \E n \in 0..MaxUses :
          /\ Numbered(e - 1, n)
          /\ messages[e].uses = Asked(e - 1, n) /\ messages[e].results = Asked(e - 1, n)
    /\ pc \in {"collect", "tools", "running"} =>
          /\ blocks.uses = Asked(turn.depth, blocks.next - 1)
          /\ blocks.results = Asked(turn.depth, blocks.next - 1)

AgentInv ==
    /\ TypeOK /\ InPlace /\ EndsOnce
    /\ SaidInOrder /\ UsesInOrder /\ InputsAsSent
    /\ RunsAsAsked /\ RunsBehind /\ Exchanged
==============================================================================
