# TLA+ for SyndicateCode

SyndicateCode is a control plane for coding agents: a Go server that keeps
sessions and turns, lets an agent work on a turn, asks an operator to approve
the tool calls that have side effects, and records everything it does in an
event store (SQLite). The events are not only a record. Sessions, turns and,
after a restart, approvals have no state of their own: they are what reading
the events makes of them.

This directory holds TLA+ modules of that system, the TLC configurations that
check them on small instances, and proofs for TLAPS. `PROJECT.json` maps every
definition to the lines it models and lists runs, mutants, findings, hazards
and theorems.

    tlc -workers 2 -config approval_restart.cfg MCApprovalService
    tlapm ApprovalServiceProofs.tla

## The system

| Part | State it keeps | Operations |
|---|---|---|
| Approval manager (`controlplane/approval.go`) | `items`, a map under a mutex, from an id to an approval | Propose, ListPending, Get, Decide, MarkExecuted, Cancel, ReplaceAll |
| Approval handlers (`controlplane/server.go`) | none; one goroutine per request | proposeToolApproval, RequestApproval, handleApprovals, handleApprovalByID |
| Turn manager (`context/context.go`) | none; reads events | Create, Get, ListBySession, deriveTurnStatuses |
| Agent runner (`agent/runner.go`, `runAgentTurn`) | one loop and one channel of events per turn | stream the model, ask for approvals, run tools, end the turn |
| Event store (`audit/event_store.go`) | table of events, ordered by timestamp text, then rowid | Append, QueryBySession, QueryAll, DeleteBySession, CleanupExpired |
| Startup restore (`startup_restore.go`) | none | rebuilds approvals from events |
| Event stream, stream bus (`server.go`, `streambus.go`) | subscriber channels; a cursor per client | subscribe, publish, poll from a cursor |
| Session manager (`session/manager.go`) | none; reads events | Create, Get, List, Delete (soft, hard, tombstone) |
| Tool executor (`tools/executor.go`) | handlers | Execute with a timeout |
| Patch engine (`patch/`), patch safety (`tools/patch_safety.go`) | files of the repository | Apply, validate, propose |
| Sandbox (`sandbox/`) | a counter of active commands | run a command within limits |
| HTTP API (`server.go`, `schema_validation.go`, `validation/registry.go`) | none; a middleware buffers each answer | token, role, contract of the request, handler, contract of the answer |
| Context assembly (`context/`) | none | retrieve, rank, allocate a budget, write a manifest |
| Policy, routing, trust, secrets | rules | evaluate, route, redact |
| MCP loader, plugins | the tool registry, filled at startup | validate a manifest, register its tools one by one |
| Model providers | a goroutine and a channel per response | turn a stream of the wire into chunks |
| Git, LSP | processes, files, connections | translate, load, validate |
| Terminal client (`pkg/tui`) | view state | show approvals, send decisions |
| `tools/`, `internal/validation` | none | development and release checks |

How they interact. A client's POST creates a turn: the turn manager reads the
session's events, refuses when it finds a mutable turn, and appends
`turn_started`; a goroutine then runs the agent. The runner's loop emits events
to a channel, which `runAgentTurn` stores. When a tool needs approval, the
runner (or a client that calls the tool itself) makes a pending approval; an
operator lists and decides it in a request of its own, which also executes the
tool. Each of these paths records an outcome for *the active turn* of the
session, which it finds by reading the events once more.

What is hard here:

- Many goroutines read events, decide, and append later, without a transaction.
- The order of events is the order of the timestamps taken before the append,
  as text, not the order in which they become visible.
- Memory (approvals) and store (events) are changed in separate steps. Either
  step can fail, and the server can die between them.
- Approvals expire by time, checked lazily when somebody looks.
- Two readers derive the status of a turn from the same events by different rules.
- An approval's id is a reading of the nanosecond clock.
- A publisher walks an array of channels that others shift, fill and close.
- A tool that overruns its time goes on in its goroutine, on the same files,
  when its caller has been told that it failed.
- The agent's loop waits for the model, its own channel, a tool and a deadline,
  and counts three limits over several responses.
- The same rule is asked at several gates: a tool's tier, visibility and approval
  when it is proposed, when it is decided and when it is run.

What makes each part correct:

- approvals: a tool starts at most once, only after a stored decision; history
  in the store is causal; the turn is told the truth; an approved call settles;
- turns: one mutable turn at a time; nobody but a client takes a turn from the
  agent that works on it; every turn ends;
- event store and stream: what a client is sent is in order and nothing twice,
  across reconnections; it does not stall; all readers see the same sessions;
- stream bus: a subscriber gets its own session's messages, in order, until it
  leaves; nobody who does not read holds up the agent;
- agent runner: one end per turn, and an end; tools run as the model asked;
- executor: every call returns, its trail is ordered, its place is given back;
- patch engine: what is left when a file fails is a prefix of the patch;
- budget: no category, and no total, is exceeded; nothing that fits is cut;
- sessions: a deleted session does not come back;
- gates: what a tier, a role or a declaration forbids never runs, and what could
  be proposed can be decided;
- manifest: what it lists as included is what the model was sent;
- API: no effect without the role for it; after an error it is known what happened.

## Modules

| Module | What it is |
|---|---|
| `Lifecycle` | the approval table of `state/lifecycle.go` and its check |
| `ApprovalSpec` | what the system promises of an approval (abstract) |
| `ApprovalService` | manager, handlers, approval events, restart |
| `MCApprovalService` | symmetry for TLC |
| `ApprovalServiceProofs` | proofs about `ApprovalService`, also that it implements `ApprovalSpec` |
| `TurnLifecycle` | creators, agents and handlers around the events of a session's turns |
| `TurnStatus` | the two status loops of `context.go`, as folds |
| `MCTurnLifecycle` | symmetry, and the comparison of `TurnLifecycle` with `TurnStatus` |
| `TurnLifecycleProofs` | proofs about `TurnLifecycle` |
| `EventLog` | the events table as its readers see it: order, sessions, cursor (functions) |
| `EventStream` | writers, deletions and the clients of the event stream around `EventLog` |
| `EventStreamProofs` | proofs about `EventStream` |
| `StreamBus` | the broadcast of agent events in memory |
| `StreamBusProofs` | proofs about `StreamBus` |
| `AgentRunner` | one turn of an agent, with the provider's stream and `runAgentTurn` |
| `AgentRunnerProofs` | proofs about `AgentRunner` |
| `ToolExecution` | the executor, its recorder, and the handlers that change something |
| `MCToolExecution` | which tools run beside each other |
| `ToolExecutionProofs` | proofs about `ToolExecution` |
| `Redaction`, `ContextRules`, `ProviderRouting`, `ToolAccess`, `HttpApi` | rules without state, as functions |
| `MCRules` | inputs for these rules, built piece by piece, and what is claimed of them |
| `Ordering` | sorting and selecting, said by counting what comes before |
| `SequenceFacts` | what `FoldLeft` preserves, for one operator, and what `Ordering` returns (proved; instantiated where something is folded or sorted) |
| `RulesProofs` | proofs about the rules, for every input |

### ApprovalService

A member of `Requests` is a goroutine that serves a request or an agent. A
handler is cut at each call that takes the manager's lock, appends to the store
or runs the tool; its place is `req[r].pc`:

    Stamp -> Insert -> CopyApproval -> AppendProposed [-> TellTurn]
    Decide -> AppendDecided -> Refuse | RunTool -> MarkExecuted -> AppendExecuted -> TellTurn

- An id is a tick of the clock. `PerTick` says how many readings may give the
  same value. 1 makes ids distinct; 2 allows the collision of `approval.go:110`,
  where the second `Insert` replaces the first item. The code then copies its
  own object, the model the item that now has the id.
- An append is one step. Replay sorts by the timestamp taken when the event is
  built, so the step stands for that moment, and an insert that never follows
  is an append that failed. (`TurnLifecycle` keeps the two apart, because other
  goroutines read in between there.)
- `expired` abstracts the 15 minutes of `ExpiresAt`: time may pass for an
  approval once it is stamped. Nothing happens to the approval until `Decide`,
  `ListPending` or a restart looks at it.
- `CopyApproval` reads the state without the lock. When it is being changed at
  the time, the copy has the old value, the new one or neither (`"torn"`).
- `trail` is the last `approval.transition` event, appended by the recorder,
  whose failure is only printed. `told` collects the turn statuses that
  handlers ask `appendTurnLifecycleEvent` to record.
- The hash check, visibility and trust policy at execution all cancel in the
  same way and are one action, `Refuse`. That the hash cannot be computed
  (`server.go:1588`) cannot happen: the call was hashed when it was proposed, and
  its input came from JSON.
- `Insert` is the insertion into the map with the transition event appended after
  it: nothing else writes or reads the transitions of that approval in between.
- `Restart` is a crash followed by `restoreRuntimeState`: goroutines are gone,
  the items are what `Replay` of the stored events gives, approved and overdue
  ones are cancelled. `Replay` is written in closed form (the last
  `approval_proposed` and what follows it).
- `DecideAfterLogged` is an assumption on operators, not on the code: they
  decide on what a finished proposing call returned. With FALSE they take the id
  from a listing as soon as it shows, which the code allows.

`ApprovalSpec` has three variables per approval, its status, how often its tool
was started and the outcomes its turn was told. It says which restarts are
acceptable: forget, cancel, or offer again what was decided but not told and
not run. `ApprovalService` is shown to implement it (`KeepsPromise`).

### TurnLifecycle

One session. `log` is the set of its events that name a turn, each with its
timestamp. A goroutine that writes goes through

    reporting --Resolve--> chosen --Stamp--> stamped --AppendEvent / Create--> idle

so that it may read a turn as active, lose the processor, and append when
another turn is active or the turn has ended, and with a timestamp that is
earlier or later than the others'. `Creators` serve `POST /turns`, `Handlers`
serve tool and approval requests, and each turn names the goroutine
(`runAgentTurn`) that stores what its agent emits to `channel`.

- `Mutable` is `hasActiveMutableTurn`; `Status` is `deriveTurnStatuses` as
  `ListBySession` uses it; both are in closed form. `LoopsAgree` compares them
  with the loops, translated literally in `TurnStatus`, in every reachable
  state. The loops are kept out of the module that is proved about.
- `StoreMayFail` stands for an error of the store and for the client's
  disconnection, which ends the request's context and with it the append.
- `Create` is the append of `turn_started` and, if it succeeded, the start of the
  agent: in between the turn has started and has no agent, in which nobody else
  can tell it from a turn whose agent has not yet emitted anything.
- An agent is `EmitDelta` (stored as an event like any other), `Ask` (tool needs
  approval) or `Finish` (done, failed, timed out, out of limits).
- A client's own tool calls, and decisions on the approvals they made, differ
  only in the outcome they report: `CallTool`. Decisions on what an agent asked
  for are `DecideAsked`. What happens inside an approval is `ApprovalService`'s.
- Times that no event carries are not told apart (`Now`), which keeps the state
  space small. Text order of timestamps is taken to be their order in time.
- After a crash an approval whose `approval_proposed` was not stored is gone;
  the model lets it expire instead, which leaves a few behaviours too many.

### EventLog and EventStream

`EventLog` is a set of rows with rowids, and `Sorted` what a query makes of it
(`ORDER BY timestamp, rowid`): the row at each place is the one that so many
others come before. `TextKey` is a number that orders as the
stored RFC 3339 text does: Go cuts the zeros at the end of a fraction, so that a
whole second ends in `Z`, which sorts after `.5Z`, and two kinds of events are
written in local time. `Places` are the fractions of a second the clock reads,
also none, and `Zone` is the local time's offset. `Found` and `Get` derive a
session from its own events, `List` in one pass over all (`ListStep` is its
body). `SortsByTime` says of some rows that their text order is their order in
time. `NewEvents` is the loop of `streamNewEvents`, said of each event: it is
sent when the cursor names none, when it is later than the cursor, or when it
comes after the cursor's own event or after one that is later.

`EventStream` adds who writes: an event is stamped (`pending`) and becomes
visible later, or in another order; a handler looks the session up before, the
goroutine of an agent does not. `Delete` looks at the session, deletes and marks
in separate steps, each of which may fail. A connection asks for all events or
for those since a time (`Sinces`), polls, sends one event at a time, breaks, and
is resumed from the last event its client received, with the full timestamp or
its whole second.

### StreamBus

A Go slice is an array and a length. `subs[s]` is the slice of the map, and a
walking publisher keeps the length it read and either shares the array or has
kept an older one (`shared`, `cells`). `Add` doubles the array when it is full;
`Unsubscribe` shifts the rest in place, leaving the last cell; that is what
`append(chans[:i], chans[i+1:]...)` does. A send finds room, finds none and
drops, or finds a closed channel and panics, which takes the server down.

### AgentRunner

`pc` is the place of `Runner.loop`; a response of the model is a stream of
chunks which name the tool use they belong to and may interleave. A stop reason
is a chunk like the others, since one provider sends it with the usage and may go
on; an error is the last one; a response may end without either. `Collect` and
`CollectTimeout` are the two arms of the `select`; when the deadline has passed
Go may take either. Channels have their capacities, so that the loop may wait
for `runAgentTurn` and the provider for the loop. A unit of output is a text
delta or a tool's output. Opening a stream is one step: the repetitions of
`streamWithRetry` differ only in how long they take, and a failure of all of
them ends the turn as a failing stream does.

### ToolExecution

A call has a goroutine of `Execute` (`exec`) and one of its handler (`work`).
When the context ends, `TimesOut` returns to the caller and the handler goes on;
`ended` calls can no longer write to the store, and any other write may fail as
well: the recorders drop every error. The mutation recorder writes a row and an
event for each section (`noted`). A file is a sequence of `Blocks`
(any set; what calls and first contents the assumption of the module admits),
`Torn` while `os.WriteFile` rewrites it; the patch engine replaces files by
renaming. A patch reads a file in one step and replaces it in another. Rows refer
to ids in other tables (`ReferencedIds`), as the foreign keys of the schema do.

### The rules

`Redaction` (detector, policy, export with notices), `ContextRules` (budget,
ranking, prompt and manifest), `ProviderRouting`, `ToolAccess` (loading plugins;
`HandleToolExecute`, `RequestApproval` and `HandleApproval` are the three gates)
and `HttpApi` (the whole way of a request, with the gates of `ToolAccess` inside)
have no state. A turn's prompt and manifest are `AssembleTurnPrompt`, with the
number of events that can be stored (`room`) as an input. An answer of `HttpApi`
lists its effects, also those of requests that fail or only look: a decision, a
run, a proposal, a report to the session's turn, an approval that expires.
Each says beside the translation what it should come to, in terms of its own:
tables, sets and sums, not the code's steps. `MCRules` makes every input up to
a size a state, so that a counterexample is a short behaviour that builds the
input. Words are kinds (`"plain"`, `"key"`, `"assignment"`, ...): what a
pattern of the detector matches, not the pattern. JSON objects are functions
from field names to types.

## Runs

Each passing run explores its instance completely.

| Run | Shows | Bounds and why they are enough |
|---|---|---|
| `approval_restart` | the safety properties of approvals, and `ApprovalSpec`, under failing appends, expiry and a crash | two ids and two calls, so that approvals could be mixed up; two handlers, so that two operators meet on one approval, or a decision meets a proposal; every handler step can be the last before the crash, and the approval can be decided again after it |
| `approval_settles` | every start of the tool has a stored approval of its own even when ids collide and operators do not wait for the proposing call; an approved call is executed or cancelled in the end | one id read twice, a crash; the store answers |
| `turn_agent` | one mutable turn, with one creator at a time; the turn of a working agent is ended by nobody but a client's late report | two turns, so that a report may be meant for the one and end the other; a handler that decides what agents ask for; failures, a crash |
| `turn_ends` | a started turn ends; closed forms = loops of the code | one turn, because its end and its status depend on its own events alone; two handlers, two calls and an agent give every order of the event kinds |
| `stream` | delivery in order and once, `Get` and `List` agree, deleted sessions stay deleted, clients catch up | three rows give every order of stamping and storing around a cursor and a deletion; three instants of two seconds, one of them whole; local time one second east of UTC, so that text sorts otherwise than time |
| `bus` | the list of channels, whom messages reach and in which order, publishing never waits | three subscribers, because an array of two grows and shifts with a neighbour on each side; channels of one message are full at once |
| `agent` | one end, tools as asked, answers complete, nothing after an approval, and an end | two responses with two tool uses each, two fragments of input each, limits of two calls and three units of output, so that every limit can be hit first |
| `tools` | patches are prefixes, reads are whole, places are given back, the trail is ordered, calls return | nine pairs of calls on two files with two or three sections: every operation against every other that shares a file with it |
| `rules` | the ten properties of `MCRules` | three fragments, signals, words or providers; one manifest with any tool or two manifests with two tools each; every route with every role and body |
| `turn_race`, `bus_panics`, `api_turn` | see Findings | |

Bounds: `MaxTicks` (clock readings, hence ids), `MaxBoots` (restarts), `Turns`,
`MaxCalls` (tool calls by clients), `MaxDeltas` (deltas of an agent), `MaxClock`,
`MaxRows`, `MaxPending`, `MaxReceived` and `Deletions` (instants, rows, events in
hand, events a client is sent, deletions), `MaxMessages` (what an agent emits), `MaxChunks`, `MaxUses` and
`MaxFragments` (a response), `MaxPieces` and `MaxTotal` (an input of a rule).
Runs other than the approvals' do not check for deadlock: turns, rows, messages
or calls are used up and nothing is left to do.

`stream` runs with whole seconds and with a server that is not in UTC, where the
text that queries sort by is not always in the order of time. What is claimed of
the order, and of the last change of a session, is claimed of rows that do sort
by time (`SortsByTime`); which sessions there are, when they were created and
that they stay deleted is claimed of all. `MaxReceived` is needed because such
rows may be sent on every poll for ever (Findings).

Every property of a passing run has a mutant in `PROJECT.json`: a fault
operator in the module (marked `Fault:`) that replaces a definition in the way a
plausible bug would, and that TLC finds.

Some definitions are stated as properties that no run lists: the type
invariants of the modules other than `ApprovalService`; the inductive
invariants, which the proofs rest on and which TLC was given before each proof
(see Proofs); `FinalWithinALife` and `WalksAreSafe`, which are proved; and the
statements of documents discussed below.

### Fairness

`FairSpec` of `ApprovalService` assumes weak fairness of each handler once it
is started: goroutines are scheduled, the store answers, and the tool executor
returns by its timeout. Nobody is obliged to propose, to decide or to list.
`FairSpec` of `TurnLifecycle` assumes the same of creators, writers and
`runAgentTurn`, and of an agent that it stops, because `Runner.loop` has a turn
timeout. No decision on an approval is assumed.

`EventStream` assumes that a connection's goroutine polls and writes; nothing of
writers, deletions or clients. `StreamBus` assumes that a publisher's goroutine
goes on; no client reads. `AgentRunner` assumes that the loop and `runAgentTurn`
go on, that tools return (the executor's timeout) and that the deadline passes
while the turn is not over; the model may stop answering. `ToolExecution` assumes
that `Execute` goes on and its timer fires; no handler is assumed to end.

## Findings

Three runs show where documents or tests say something the code does not do.

- `turn_race`: two concurrent requests both create a turn, since the check and
  the append are not one step.
- `bus_panics`: `publish` sends to channels it has listed before; one that was
  closed meanwhile makes it panic, which ends the server.
- `api_turn`: the contract of the answer to a created turn requires
  `user_message`; turns are encoded with `message`. The turn is created, its
  agent runs, and the client is told 500. Tests call the handler without the
  middleware. A second try is answered 409.

Other disagreements, which the models show when a constant or a property of a
run is changed as described:

- `ApprovalService`, `DecideAfterLogged = FALSE`, `AtMostOneRun`: an approval can
  be decided before its own `approval_proposed` event is stored. Replay after a
  crash sees the proposal last and offers the executed call again
  (`docs/explanation/approval-lifecycle.md:45`: executed is terminal).
- `StoreMayFail = TRUE`, `ApprovedSettles`: `Decide` changes memory first. If
  `approval_decided` cannot be stored the approval stays `approved`: nobody
  executes it, and it cannot be decided again (`approval-lifecycle.md:106`).
- `TransitionsProduceEvents`: approvals that were approved, or are overdue, are
  cancelled at startup, and no transition event says so
  (`docs/ai_cli_event_schema.md:3`).
- `PerTick = 2`, `RunsWhatWasShown`: two proposals in one nanosecond share an id,
  and the call that runs need not be the one displayed.
- `AppendEvent` of a handler in `TurnLifecycle`: a decision is recorded for the
  turn that is active when it arrives. The decision on an earlier turn's approval
  ends the present turn while its agent works, and the next turn starts a second
  agent. `AgentKeepsItsTurn` says that nothing else can do this.
- `TerminalTurnIsFinal`: the API's status of a turn is its last event, so a late
  report reopens or changes a finished turn
  (`docs/explanation/architecture.md:168`). `hasActiveMutableTurn` keeps the end.
- `Ask` of `TurnLifecycle`: a turn is completed at once when its agent asks for an
  approval; the runner's tests expect this, the design
  (`docs/superpowers/specs/2026-03-11-gap-implementation-design.md`) describes a
  pause until the decision.
- `EventStream`, `NothingMissed`: an event that becomes visible late, with a
  timestamp before the cursor, is never sent (line 230 of that design: the stream
  is replayed from the last event).
- `EventStream` without `SortsByTime` in `DeliveredOnceInOrder`: the loop moves the
  cursor to the event it sent last, which by text may be an earlier one than
  those before it. With `0.5Z` sorted before `0Z`, or a row in local time, the
  next poll sends the later ones again, and so on every poll.
- `ToolExecution`, `ChangesAreRecorded`: rows of `tool_invocations` and
  `file_mutations` are refused by their foreign keys, because the recorders leave
  ids empty (line 357 of that design: file changes replayable). The
  `file_mutation` events carry no session, so `replay <session_id>` does not list
  them (`docs/how-to/review-session-history.md:93`).
- `ToolAccess`, `PolicyHoldsForAgents`: an agent's call of a tool that needs no
  approval meets no tier check, so `run_tests` runs in sessions of tier0 and tier3
  (the message at `server.go:775`: tier3 cannot execute).

What else the models make visible, tool by tool:

- Agent: a tool use whose input never arrives fails the turn; a provider that
  sends no usage leaves the stop reason `end_turn`, and tool uses are dropped; after
  the deadline further tools of the same response still start.
- Tools: of two updates of one file one may be lost; a failed or timed-out patch
  leaves its first sections applied and unrecorded; any record of a call may be
  lost while the others are kept, so that a result may stand without its invocation.
- Bus: the shift in place can serve one subscriber twice and pass another over.
- Context: an agent sends the turn's message as it is, `assembleTurnPrompt` has no
  caller in the server (`docs/explanation/security-model.md:138`); fragments that
  `BuildPrompt` withholds keep their content and would be recorded with it; its
  sort is not stable, so `MCRules` stays below the size where that shows.
- Secrets: a word of high entropy beside a matched one is left as it is when the
  text is masked; a restricted text that holds a secret is masked where one that
  holds none is withheld; lists of a Go type other than `[]interface{}` are not
  looked at.
- Tiers: `architecture.md:186` says more trust means fewer restrictions, while
  tier3 forbids more than tier2; a session's tier is not validated, and an unknown
  one meets no rule.
- Plugins: a plugin's tools have no handler and fail when run; `loaded` events
  remain when a later manifest keeps the server from starting.
- API: `GET /approvals` asks for no role and cancels what is overdue, whoever looks;
  a tool that a viewer runs ends the session's active turn, as anybody's does; a
  tool that ran and failed is answered 400; the request body that `docs/reference/api.md:100` shows lacks the
  `session_id` its contract requires; without a token nobody has a role, so
  sessions, turns and decisions are all refused while tools can be proposed, and
  `cmd/server` sets no token; `pkg/tui` sends none, and reads `id` where the
  server writes `session_id` and `turn_id`.

## Proofs

TLC explores the instances above; the theorems hold for every value of the
constants that the modules' named assumptions allow: any number of requests,
sessions, subscribers, calls, files, responses, any limits. Each proof has the
same shape. The property is not inductive, so an invariant is written beside the
model, in parts with names, that says why the property holds; TLC checks it on
the run's instance; and the proof shows, action by action and part by part, that
`Init` gives it and that no step breaks it.

| Invariant | of | proves | TLC, distinct states |
|---|---|---|---|
| `TypeOK`, `OneRunInv` | `ApprovalService` | `TypeCorrect`, `OneRun`, `Recordable` | 1.77 million, all |
| `BackedInv` | `ApprovalService` | `RunsBacked` | 4.3 million, all |
| `ShownInv` | `ApprovalService` | `ShownRuns`, `FinalState` | 16 million, stopped there |
| `PromiseInv` | `ApprovalService` | `CausalLog`, `ToldTruth`, `ServiceKeepsPromise` | 1.77 million, all |
| `OneTurnInv`, `AgentInv` | `TurnLifecycle` | `OneTurn`, `AgentKeepsTurn` | 5.4 million, all |
| `LogInv` | `TurnLifecycle` | `LoopsDoAgree` | 263,260, all |
| `EndInv` | `TurnLifecycle` | `EndsAreKept`, and `TurnsTyped` from its parts | 15.9 million, all |
| `StoreInv`, `StreamInv` | `EventStream` | `ReadersAgree`, `OnceInOrder` | 489,688, all |
| `LinkInv`, `TimeInv` | `EventStream` | `NothingPassedOver`, `StreamTypes` | 489,688, all |
| `BusInv` | `StreamBus` | `ChannelsListed`, `DeliveredInOrder`, `WalksStaySafe` | 434,860, all |
| `AgentInv` | `AgentRunner` | `TurnTypes`, `OneEnd`, `AskedRuns`, `UsesAnswered`, `ProposalStops` | 1.88 million, all |
| `ToolInv` | `ToolExecution` | `CommandsCounted`, `WholeReads`, `OrderedTrail`, `PatchPrefix` | 377,646, all |
| `IsInput(case)` | `MCRules` | the ten theorems on its properties | none: TLC cannot enumerate its sets |

### Approvals (`ApprovalServiceProofs`)

Two assumptions occur, where the theorem is false without them and the Findings
say so. `PerTick = 1`: two proposals do not read the same nanosecond, since
`approval.go:110` makes an id of the clock. `DecideAfterLogged`: operators decide
on what a finished proposing call returned. `TypeCorrect` and `RunsBacked` need
neither, `ShownRuns` and `FinalState` the first only.

- `TypeCorrect`. Not only types: replay of any history that failed appends and
  crashes leave yields a proper item.
- `RunsBacked`: each start of a tool has a stored approval of its own. `BackedInv`
  counts: the starts of an id and the handlers that may still start it are no
  more than the approvals in the store. A handler adds to the one side only in
  the step in which it adds to the other.
- `OneRun`, `Recordable`. `OneRunInv` says: nothing is known under a future id
  (`Unborn`); an approval has no history and no owner before its proposal is
  stored (`ProposalsFirst`); one handler proposes and one owns the decision
  (`OneOwner`); the owner finds the approval as it left it (`OwnersAgree`); once
  the tool was started, neither memory nor the last stored event offers the call
  again (`RunsAreSettled`), which carries the claim across a restart.
- `ShownRuns`: the call that runs is the one displayed. `ShownInv` says that an id
  has one proposer (`OneProposer`), that nothing is displayed before it is
  stamped (`NoneShownAhead`), and that memory, the store and the display hold the
  same call under an id (`ShownIsHeld`). `FinalState` follows from it, because
  what could take an end back is a second insert under the same id.
- `CausalLog`, `ToldTruth`, `ServiceKeepsPromise`. `PromiseInv` relates what an
  abstract approval does not have: item, stored events, handlers and what the
  turn was told. `MemoryMatchesStore` says which history each state of an item
  can have, `HandlerMatches` what a handler at each place has stored and still
  owes the turn, `OneConcludes` that one handler owes it, and `OutcomesStand`
  that what the turn was told cannot be contradicted by replay. `KeepsPromise` is
  then shown step by step: `Insert`, `Decide`, `RunTool`, `MarkExecuted`, `TellTurn`
  and `Restart` are steps of `ApprovalSpec`, appends and copies are stutters.

### Turns (`TurnLifecycleProofs`)

- `OneTurn`, with at most one creator at a time (two are the run `turn_race`).
  `OneTurnInv` says that only creators start turns, that a creator between check
  and append still finds no mutable turn, and that others write only for turns
  that have started. The key lemma, `OtherStored`, is that an event for a started
  turn can end a turn and cannot reopen one, because `hasActiveMutableTurn` keeps
  the end.
- `AgentKeepsTurn`, an action property without assumptions, for creators and
  handlers that race. `AgentInv` says who has which turn in hand: a creator a
  fresh one of its own (`WorkFits`, `CreatorsDiffer`), everybody else one that has
  started, and the outcome of an agent is emitted as it stops
  (`OutcomeAfterStop`), so that what is stored of it cannot be what ends the turn
  while it works. What remains is the report of a handler that found the turn
  active, and with it two agents in one session are possible (Findings).
- `LoopsDoAgree`: the two loops of `context.go` give what `Mutable` and `Status`
  say. No assumption. `LogInv` says that no two events carry one timestamp, also
  with those that are about to be appended, so that there is one order to read
  them in (`OwnTimes`; that is how the model's clock is made, `Now`). Each loop is
  then a fold, and `FoldKeeps` carries from prefix to prefix what the loop has
  found: for the one whether a turn's end lies behind it (`TestAgrees`), for the
  other which event that changes a status was last (`ListAgrees`).
- `EndsAreKept`, with a runner and a store that does not fail: until a restart,
  the outcome of a started turn is stored or with somebody, namely the agent that
  still works, the channel, or the goroutine that has stamped it. It is what
  `TurnsEnd` needs besides fairness. A start and its agent come in one step only
  because just creators hold starts (`OnlyCreatorsStart`), and an agent that stops
  has emitted an outcome (`Emitted`). `turn_ends` checks `TurnsEnd` for one turn;
  the theorem is for any number, with creators that race.
- `TurnsTyped`: the types, with `ChannelOK` and `CountsOK` beside `LogInv`.

### Events and their readers (`EventStreamProofs`)

No assumption but those on sizes: any clock, fractions and time zone. Whatever
they are, the text of the times is a strict order of the rows (`TextOrder`), which
is all that the proofs need of it: where time matters the statements say
`SortsByTime`.

- `StaysDeleted`, an action property: a step either leaves the table, or adds a
  row that somebody had in hand, or deletes the rows of one session
  (`LogChanges`), and none of them gives a deleted session a start without its
  deletion.
- `ReadersAgree`. `StoreInv` says that rows have one id each and times that the
  clock can read. `Manager.List` is a fold over all events (`ListFold`, by
  `FoldKeeps`): after each prefix it holds one entry for each session with a start
  in it, created at the first start and updated at the last event so far
  (`EntryIs`). `Get` picks the same start out of the session's own events, and the
  same last change if those sort by time; `List` takes the latest, `Get` the last.
- `OnceInOrder`. `StreamInv` says where a client can be: the cursor is at the last
  event received, or at the start of its second (`CursorOK`); what the connection
  has in hand comes after all that was received, in order (`BatchOK`), up to where
  that sorts by time (`UpTo`); and an id
  that was once read is never given to another row, also when its row was deleted
  (`HadOK`). `NewEventsAre` is the lemma on the loop of `streamNewEvents`: all that
  it returns lies after the cursor, for a coarse cursor too, because nothing of
  the cursor's second counts as later than it (`LaterIs`).
- `NothingPassedOver`, an action property: an event in
  a later second than the cursor of a waiting connection stays ahead of it or in
  hand until it is written, the connection ends or the row is deleted. It is what
  `CaughtUp` needs besides fairness. Where the text does not sort as the time does
  a client sees events in the wrong order, but a poll still reads all that is
  later than the cursor (`PollReads`), and there is no other poll before all of it
  is written. `LinkInv` says what cursors and batches a connection can hold.
- `StreamTypes`: the types, and by `TimeInv` that no time is still to come.

### Stream bus (`StreamBusProofs`)

No assumption but those on sizes. The difficulty is that `Unsubscribe` shifts
cells under a publisher that walks the same array with an old length. `BusInv`
says of every cell, also of those beyond the slice's end, that it is unused or
names a channel of the array's session (`CellsBelong`), and of every walk that
its cells are none of the unused (`WalksAreSafe`); growth copies, and a shift
keeps, exactly this. Then what is delivered is of the right session. That it is
in order is because a publisher walks for one message at a time and sends to
the end of a channel (`EmitsInOrder`, `DeliversEmitted`): a cell that is visited
twice gets the same message twice, never an older one after a newer.

### Agent runner (`AgentRunnerProofs`)

No assumption but those on limits. `AgentInv` ties the place of the loop to the
counters and the stream (`InPlace`); says that the uses collected are the first
of those the model started and the rest are in the channel, in order
(`UsesInOrder`), each fragment being one that was sent for its use
(`InputsAsSent`); that what has run lies before the loop's place (`RunsBehind`);
and that results are paired with uses (`Exchanged`). `StopsAtApproval` is an
action property and follows from `InPlace`: after a proposal the loop is at a
place with no way back to the tools.

### Tools (`ToolExecutionProofs`)

For any workload that consists of the calls the executor accepts. `Progress`
says where `Execute` and its handler can be at the same time; a handler that
outlives its caller is one whose context ended. `Slots` is an equation between
the counter and a cardinality. `TearsAreWrites` says that a torn file is one that
a `write_file` call names. `TrailFollows` says how far a call must be for what the
trail has of it, so that the next event may follow, whichever of those before it
were lost, without looking at other calls. `Undisturbed` says that files only this patch touches
are as its first sections leave them; the sections' effect is a recursive
function on their number.

### Rules (`RulesProofs`)

The rules are functions, so their theorems are about all arguments:
`TextsWithheld`, `ValuesNoticed`, `PolicyEnforced` (tools that can be registered,
which is what validation and trust let pass), `ProposalsAllowed`,
`ActsAuthorized` (GET and POST, the methods that `HttpApi` models),
`Unchanged`, `PluginsLoaded`, `BudgetKept`, `DefaultSharesFit`, `AllocatesAlike`
and `ManifestTold` (fragments that differ in their reference), `RanksAlike`,
`RoutesFollowPolicy`. That `handleToolExecute` runs no plugin's tool with an effect
at once is a lemma (`PluginsAsk`); an agent's own gate asks less (Findings). The
run's properties follow for all behaviours of
`MCRules`, once `IsInput` shows that what it builds are such arguments.

- `BudgetKept` follows the loop of `AllocateFragments` from prefix to prefix
  (`Chosen`): what has been used is within the shares, and each fragment passed
  was served as `ServedInOrder` asks. Fragments that come later never change
  what an earlier one got, since sums over those before it stay (`StaysServed`).
- `AllocatesAlike` and `RanksAlike`: both sort, and what a sort returns depends on
  the set alone (`OrderedOnce`). For the signals the scores are sums, which do not
  depend on the order either: both folds give the sum over the same places.
- `ManifestTold` and `RoutesFollowPolicy` read off what `SortStable` and `Where`
  return. For the manifest it matters that each fragment is recorded with what
  `BuildPrompt` decided of it, that a failing append stops the turn, and that a
  prompt made in place of a blank one is the policy's word for the message.
- `ActsAuthorized` and `Unchanged` follow a request gate by gate; `Allowed` and
  `Proper` are what each handler may do with a role.

### Folds, sorts and sums (`SequenceFacts`)

Induction over data is out of reach of the installed provers as the library
states it, with an operator as a parameter. `SequenceFacts` states one induction
for the operator that is a constant of the module, `FoldKeeps`: what holds of the
base, and is kept from each prefix to the next, holds of `FoldLeft`. Its proof
needs that the function by which the community modules define `FoldLeft`, a
recursion over sets of indices, exists; that is built from prefix to prefix with
the well-founded induction that takes sets. A module that instantiates
`SequenceFacts` with its own operator has the theorem for it: the loading of
plugins, both loops over a turn's events, `Manager.List`, the budget and the
ranking of files.

`OrderedIs` says what `Ordered` returns: each element once, and in order. What
stands at a place is chosen as the element that so many come before, so there
must be one for each number below the set's size; the counts grow along the
order, and are as many as the elements. `OrderedOnce` says that nothing else
lists the set in that order.

### What proving changed in the models

- `ActsAsAuthorized` said that a viewer can change nothing but run a tool that
  only looks. The proof failed for a plugin's reading tool whose manifest asks
  for approval: a viewer *proposes* it. The property now says so, and `MCRules`
  has such a tool, so that the run meets the case.
- `Redaction.Classify` was a `CASE` with overlapping guards, which TLC reads from
  the top and TLA+ does not. It is an `IF` chain now, as the code is.
- Type invariants of the modules above were too weak to reason from and say now
  what channels, arrays, files and messages hold.
- `ToolExecution` left open what calls and files are; `Blocks`, `Job` and
  `ToolAssumption` say it.
- The models sorted with the library's `SortSeq`, whose definition has a value
  only where the comparison leaves no ties; TLC's own version of it goes on.
  `Ordering` says which order the code's sorts give, `SortStable` also for ties.
  The events of a session's table are a set with rowids, not a sequence
  whose places play that part.
- `NewEvents` searched the list for the cursor as the loop does, with an index;
  it now says of each event whether the loop sends it.
- `ListAgreesWithGet` and `DeliveredOnceInOrder` were claimed of a clock that reads
  no whole second, in UTC. Proving them of every clock showed what of them holds
  anyway, and that they need the order of just the rows they speak of.
- `AgentKeepsItsTurn` is what the failed proof left of "one agent at a time": the
  one step that breaks it, said as an action property.

### Only model-checked

Every invariant and every action property that a passing run checks is a theorem,
with the assumptions named above. What TLC alone shows:

- Liveness (`ApprovedSettles`, `TurnsEnd`, `CaughtUp`, `PublishReturns`,
  `TurnFinishes`, `CallsReturn`): it needs fairness and `ENABLED`, which the
  provers do not reach. Of `TurnsEnd` and `CaughtUp` the part that is no matter of
  fairness is proved (`EndsAreKept`, `NothingPassedOver`).
- `AtMostOneRun`, `LogIsCausal`, `TurnToldTruth`, `RunsWhatWasShown` and
  `OneMutableTurn` are proved under assumptions that their runs make as well;
  without them they are false, which counterexamples of TLC show (Findings).
- The statements of documents that the code does not keep, which the runs
  `turn_race`, `bus_panics` and `api_turn` refute.

## Not modelled

- The Git package, `tools/patch_safety.go` (which does not
  compile at this commit), `StoreArtifact` with the retention of artifacts,
  `TokenBudget`, `DetailedContextManifest`: nothing in the server calls them. The
  tables of `lifecycle.go` other than the approvals' are called by tests only.
  `BudgetAllocator`, `BuildRetrievalCandidates` and `assembleTurnPrompt` have no
  caller either, but are the algorithms the documents describe, and are modelled.
- Errors that cannot occur: a call or a payload that the server encoded itself and
  cannot encode or decode again (`server.go:1145`, `server.go:1588`); a provider's
  retention class, which `Validate` checks and no rule reads.
- What a restart owes a turn whose agent died: it stays mutable and its session
  accepts no other. No source says otherwise, so nothing is claimed.
- LSP, metrics, subprocesses, reading and validating files, the wire formats of
  the providers, rendering in the client, development tooling: I/O and format
  translation without a protocol of their own.
