# A TLA+ model of LuckyClaw

LuckyClaw (`src/`, Go) runs AI agents: platform channels put messages on a bus,
a gateway removes duplicates and hands them to a task queue that keeps each
conversation in order, an agent calls a model and tools, and the turn is stored
in SQLite. This directory holds TLA+ modules of that program, the TLC runs that
check them on small instances, and TLAPS proofs.

    tlc -workers 2 -config MCTaskQueue.cfg MCTaskQueue
    tlapm TaskQueueProofs.tla

`PROJECT.json` lists components, runs, mutants, hazards, findings and theorems,
and maps every definition to the lines of code it stands for.

## 1. Inventory

| Component | State | Operations | Hard part |
|---|---|---|---|
| Task queue `taskqueue/queue.go` | registry address -> state, pending queues, semaphore, WaitGroup, `stopped`, context | `Submit`, worker goroutine, `Stop` | every interleaving of the three; a worker that retires while a message arrives |
| Gateway `gateway/gateway.go`, `dedup.go` | deduper's map with expiries | `Run`, `handleInbound`, `processInbound`, `cleanup` | retries, refusal, a reply against a deadline |
| Bus `bus/bus.go` | two channels of capacity 100 | send, receive | full channels |
| Channel manager, terminal `channels/` | registered channels | `routeOutbound`, `Start`, `SendMessage` | it may leave, or block, while workers still reply |
| Session manager `session/manager.go` | `Session` objects, maps key -> object and address -> key | `NewSession`, `CurrentSession`, `Get`, `Append`, `ApplyCompaction`, `SetModelRef` | memory and store must agree; two objects for one key |
| Session store `session/sqlite.go` | tables `sessions`, `active_sessions`, `memory_entries` | the same, transactional; search, listing, migration | restart, optimistic checks, index and history together |
| Agent loop `agent/agent.go`, `events.go`, `completion.go` | the turn under construction | model and tool rounds, synthesis, `/new`, `/model` | tool timeouts and late results, loop limits, whole turns |
| Compaction `agent/compaction.go`, `token_budget.go` | none of its own | cutoff, summary fold, budget | turn boundaries, the hard window |
| Providers `provider/` | lazily built providers | `Resolve`, chat, stream | conversion of a stream into one message |
| Tools `tools/` | none after startup | execute by name | arguments, I/O |
| Docker pool and executor `sandbox/` | entries: creating, ready, removed | `Get`, `Close`, `Exec` | merged creation, failure, cancellation, close during creation |
| MCP `mcp/` | pending requests, process, closed flags | `request`, reader, `Close` | timeouts, write mutex, exit |
| Web `webui/` | one lock per session | REST, SSE, OpenAI-compatible endpoint | disconnects in the middle of a turn |
| Skills, configuration, agent registry | read once at startup | | none after startup |

Interaction. A channel's goroutine sends to `bus.Inbound`; the gateway's single
goroutine receives, checks the deduper and calls `Submit`, which may start a
worker; the worker calls `processInbound`, which calls the agent and then sends
to `bus.Outbound`; the channel manager's goroutine receives and calls
`SendMessage`. The web server calls agents directly, under its own lock per
session, and runs the agent of a stream in a goroutine of its own that feeds the
handler through a channel. Each tool call runs in a goroutine of its own with a
timeout of its own; file and shell tools call `Get` of the Docker pool with that
context, so that one turn's context decides over a creation that another turn
waits for. Agents reach sessions through their manager, and all managers share
one SQLite connection. On a signal, or at the end of the terminal's input, the
root context is cancelled; `Run` returns through its deferred `Stop`, and only
then does `main` close the Docker pool, the MCP servers and the database. The
shutdown of the web server cancels no request, and `main` does not wait for it:
turns of browsers may end with the process.

What makes each part correct, in one line each:

- queue: FIFO and serial per conversation, bounded overall, nothing stranded,
  nothing left after `Stop`;
- gateway: a message is accepted once per window, a refused one may be retried,
  replies keep their order, shutdown never hangs;
- sessions: stored history only grows, memory is never ahead of it, summary and
  tail together show every message, a restart finds the same session;
- agent loop: saved turns are whole, the tool rounds end by their limits, a tool
  error reaches the model;
- Docker pool: one container and one executor per session, every `Get` returns,
  none left after `Close`;
- compaction: what is sent fits, each message is in the summary once or in the
  tail, turns are not cut;
- MCP client: each request gets one outcome, its channel is used once and its
  entry goes; `Close` ends whatever the child does, and startup does if the child
  reads what it is sent, or dies;
- web: one turn at a time per session, whose goroutine never outlives its request,
  also after a disconnect; what a browser was told is stored.

## 2. Modules

### FifoDispatch: what the queue promises

Four variables (`taken`, `waiting`, `active`, `closed`) and four actions. It
mentions no goroutine, and is the abstract specification for the queue.

### TaskQueue: `internal/taskqueue/queue.go`

| Model | Code |
|---|---|
| `SubmitRefused`, `SubmitJoin`, `SubmitSpawn` | the three outcomes of `Submit`; all of it is under `q.mu` |
| `AcquireSlot`, `GiveUp` | the two cases of the worker's `select` |
| `TakeNext`, `TakeNothing` | `nextMessage`, under `q.mu` |
| `Deadline`, `HandlerReturn`, `ReleaseSlot` | the task's context, the handler, the semaphore |
| `ReleaseIdle`, `RemoveConversation`, `WorkerDone` | the way out, with the deferred calls in their order |
| `StopMark`, `StopCancel`, `StopReturn` | `Stop`: under the lock, `cancel`, `Wait` |

A conversation state and the goroutine started for it are named by the message
that created them, so `conversations[a]` plays the role of the pointer and
`current == state` is an equality of names. The abstraction drops message
contents; addresses and messages are model values. A message may be submitted
again after a refusal but is accepted once.

### Gateway: `gateway.go`, `dedup.go`, `bus.go`, `channels/`, shutdown of `main.go`

`Gateway` extends `TaskQueue`: it reuses the queue's actions and adds the
clock, the deduper, both channels, the stage of a worker inside its handler, and
the router. A message of `TaskQueue` is here one *delivery*; a platform's retry
is another delivery with the same key. `handleInbound` is one step: only the
gateway's goroutine uses the deduper, and a worker that runs in the middle of it
could as well have run before. `AgentReplies` and `AgentSilent` stand for the
agent and for a failed match; which text comes back is left open. `acceptLog`
is a history variable of accepted deliveries and their times.

### Session: `session/manager.go` and the writes of `session/sqlite.go`

Callers (workers, web requests) hold `Session` objects of a `heap`; rows, active
pointers and the memory index are the database. Every operation that writes has
two steps, the transaction and the assignment to memory, with the code's mutex
held between them: `CreateAndActivate`/`Load` then `Publish` under the manager's
mutex, `AppendStored`/`SetModelStored`/`CompactionStored` then `Assign` under the
object's. `ContextSnapshot` starts a compaction without any mutex. `Restart`
drops memory and all callers at any point. A failed call changes nothing and is
a stuttering step. The abstraction:

- a message is a name of `Names` and one bit: whether its Go value differs from what its
  JSON decodes to;
- a summary is the set of positions it accounts for, so that a gap is visible;
- the cutoff of a compaction is any position between cursor and last message,
  a superset of what `compactSnapshot` picks (its choice is in `Compaction`);
- reads that change nothing (listing, search) are left out.

`Init` and `Restart` open the database: `Backfill` is the part of `migrate` that
indexes the messages of a version without long-term memory, for which `Init`
allows sessions that are already there.

`Get` is exported but only tests call it today; it is what makes two objects for
one key possible, the case the store's prefix check and cursor check are for.

### AgentTurn and AgentLoop: `agent/agent.go`, `events.go`

`AgentTurn` is the promise: one turn adds a whole turn to the history, once, and
then answers, or it adds nothing and the client gets an error or hears nothing.
What is whole is what the model's API takes back: a user message, assistant
messages each directly followed by one result per call, and an answer.

`AgentLoop` is `HandleMessage` and `HandleMessageStream` of a message that is not
a command, with a step from each wait (for the model, a tool, the store, the
client) to the next:

| Model | Code |
|---|---|
| `Prepared`, `PrepareFails` | session, prompt, compaction and model of the turn |
| `ModelAnswers`, `ModelSaysNothing`, `ModelCallsTools`, `ModelFails` | `callModel` and what `runConversation` does with it; `NormalIds` is `normalizeToolCalls` |
| `Execute`, `BlockRepeat` | the start of a tool call, or the refusal of a repeated one |
| `ToolReturns`, `ToolTimeout`, `TakeResult`, `Abandon`, `BreakOnCanceled` | `executeToolCall` and its callers' look at the contexts |
| `EndRound` | the messages of the round and the three limits |
| `Synthesize`, `SynthesisFails` | `synthesizeFinal` with its fixed text |
| `AppendTurn`, `AppendFails`, `Deliver` | `appendFinalMessage`, then the reply or the last event |

Contents are left out; a call is an id and a signature. Ids matter, so they are
tuples: `<<>>` is blank and `<<i, j>>` is the made-up name `call-i-j`, which a
model may use itself. The goroutine of a call that timed out keeps a channel of
its own and touches nothing of the turn. `/new` and `/model` are operations of
`Session`, the two sides of a stream are in `WebSession`; the choice of prompt and
model is left out.

### Compaction: `agent/compaction.go`, `token_budget.go`

The turns of one session, one after the other, as `prepareStatefulContext` sees
them. A message is its role and its number of tokens, which is all that the code
reads of it; positions count from 0 as in the code.

| Model | Code |
|---|---|
| `Usage`, `Fits`, `ShouldCompact`, `SummaryLimit`, `PromptFits` | `tokenBudget` and the estimates |
| `PreferredCutoff`, `NextUser`, `LastUser`, `FirstCutoff` | where a tail may begin |
| `Prepare` | up to the first model call, with every early return |
| `Summarise`, `Oversize`, `SummaryFails` | one portion of `foldConversationSummary` |
| `Apply`, `ApplyFails`, `CutFurther` | the candidate, which may need one turn more |
| `FallBack`, `TurnSaved`, `TurnFails` | a failed compaction that does no harm, and the end of the turn |

A summary carries, beside its size, the positions that were given to the model to
make it, in order (`covers`): a ghost that shows a message skipped or summarised
twice. Compactions that overlap, and one whose store is refused for its cursor,
are in `Session`.

### McpStdio: `mcp/stdio.go`, startup and shutdown in `mcp/manager.go`

One client and its child process, which is the environment: it answers what was
asked in any order, twice or never, writes garbage, stops reading, and exits.

| Model | Code |
|---|---|
| `Connect`, `SetupStep` | `newManager`: start, handshake, pages of tools |
| `Register`, `LockWriter`, `WriteBlocks`, `Write`, `WriteFails` | `request`, `notify`, `writeJSON` under the two mutexes |
| `Receive`, `TimeOut`, `ProcessStopped`, `RemovePending` | the `select` and what follows it, with the cancellation |
| `ReadLine`, `Deliver`, `ReadEnds`, `ReaderStops` | `readResponses` |
| `FailClosesDone`, `FailSwapsPending`, `FailSends`, `FailOver` | `fail` under `closeOnce` |
| `CloseBegin` ... `CloseReturns` | `Close` with its grace periods |
| `ChildExits`, `WaitReturns` | the process and `cmd.Wait` |

Of the pipe to the child only matters whether it is full. `Short` are the messages
that always fit, a few hundred bytes at the beginning. A later page is asked for
with the cursor that the child has sent (`stdio.go:157-159`), which
`MaxResultBytes` limits to 1 MiB by default, and a call has its arguments: such a
message may fill the pipe, and its writer then waits for the child, in a write
without a deadline (`stdio.go:260`) and with the write mutex held. The pipe from the
child is a sequence with room for a few lines. `reader` is where the reader is, or
the request whose answer it has taken out of the map and not yet delivered.

### WebSession: `webui/server.go`, `openai.go`, with `events.go`, `completion.go`

Requests to the sessions of one agent: a stream is a handler that holds the lock
of the session and a goroutine of the agent behind a bounded channel, a post or a
change of the model runs its turn in the handler, a chat completion is a stream
with neither lock nor session.

| Model | Code |
|---|---|
| `CreateSession`, `ArriveStream`, `ArriveMessage`, `ArriveModel`, `ArriveChat` | the routes up to the lock |
| `TakeLock`, `LeaveQueue` | `contextLock` |
| `ReadSession`, `PrepareChat`, `ModelCommand` | the start of a turn |
| `EmitDelta`, `ModelAnswers`, `Abort`, `StoreTurn`, `EmitLast`, `EmitNothing` | the turn and its events |
| `WriteEvent`, `WriteFails`, `LeaveLoop`, `Discard`, `Return` | the handler of a stream and its deferred calls |
| `Reply`, `BrowserLeaves` | the handlers without stream; the end of the request's context |

`history` is the list of requests whose turns are stored, and `basis` what a turn
under way has read: a ghost for the code's local variables, to which
`TurnSeesSession` compares the session.

### DockerPool: `sandbox/pool.go`, lifetime of a container in `docker.go`

An entry, its executor and its container are named by the call of `Get` that
makes them.

| Model | Code |
|---|---|
| `Refuse`, `Join`, `Reserve` | the three outcomes of `Get` under `p.mu` |
| `Wake`, `Leave` | the `select` of a call that waits for another's creation |
| `CreateContainer`, `CreateFails`, `CreateInterrupted` | `docker create` |
| `BecomesRunning`, `StartupFails`, `StartupInterrupted`, `CleanUp` | the keeper, `waitUntilRunning`, and the removal on failure |
| `Publish` | the rest of `Get`, under `p.mu` |
| `CloseBegin`, `CloseNext`, `SkipFailed`, `CloseExecutor`, `CloseGivesUp`, `CloseReturn` | `Close` and the executor's `Close` |

`box` is the container as the daemon has it, which is not always what the program
knows: `lost` is one whose id nobody has, `dead` one that stopped in use, `stuck`
one that could not be removed. Each docker command succeeds, fails or is
interrupted at will. The digest of the mounts is left out: an agent's mounts are
read once, so that it cannot change. So are `Exec` and the file operations.

### AgentSandbox: turns over the pool

Composes the pool's actions with turns: each turn makes one file-tool call,
whose goroutine goes through `Get` while the turn waits for it, times out, or is
left by its client. Turns of a session come one after the other, as the queue and
the web server's lock have it, but the goroutine of a turn that was left runs on.

## 3. Runs

| Run | Instance | Shows |
|---|---|---|
| `task_queue` | 3 messages of one conversation; 2 slots; 1 waiting; 7,823 states | accounting, serial conversation, nothing stranded, clean stop, refinement of `FifoDispatch`; accepted messages are served, idle conversations are forgotten |
| `gateway` | 2 deliveries of one message ID and 1 without, window of 2 ticks, clock to 3, buses of 1 and 2; 722,706 states | deduplication, refusal, order of replies |
| `gateway_live` | 2 conversations on one slot, full outbound bus of 1; 7,593 states | shutdown completes, accepted deliveries are handled |
| `session` | 2 callers, 1 address, 2 keys, 2 objects, histories to 4, from new databases and older ones; 2.2 million states up to symmetry | history, cursor, summary, index, restart |
| `session_append` | the same with 1 object | violation: see section 6 |
| `compaction` | 4 kinds of turn, summaries of 2 sizes, window 22, threshold 16, 3 recent messages, histories to 12; 10,664 states | what is sent fits and is whole, refusals are necessary, folds end |
| `docker_pool` | 2 calls for one session; 25,279 states | one container and one executor, `Close` leaves nothing; `Get` and `Close` return although docker hangs |
| `docker_pool_lost` | the same | violation: see section 6 |
| `agent_loop` | 4 rounds of up to 2 calls with 2 signatures; 251,718 states | limits, whole turns (refinement of `AgentTurn`), the turn ends |
| `agent_sandbox` | 2 turns of one session | violation: see section 6 |
| `mcp_stdio` | a handshake with up to 2 pages, 2 calls, 1 line in the pipe from the child; 156,643 states | channels and entries; `Close` ends, and startup does for a child that reads on or dies |
| `web_session` | 1 stream, 1 post, 1 change of the model, 1 chat completion; 1 event in the channel; 187,155 states | isolation of turns, no goroutine of a turn left behind, told is stored, a leaver frees the session |

Why the bounds are enough to be interesting. Three messages of one conversation
let a worker retire while a second one is spawned and a third message waits; two
slots leave it to the code, not to the semaphore, to keep that conversation
serial. `MaxPending = 1` makes full queues frequent. Two conversations compete
for one slot in `gateway_live`. The instances may be this small because the safety
properties are proved for every size (section 5). A
window of two ticks and a clock of three let an entry expire, be cleaned up and
be registered again, with a refusal in between. Histories of four messages are
two turns, which is what a stale second object needs to be wrong in, and leave
room for three cursor positions; a database of an older version has one such
turn, in either key. Two calls for one session, of which either may create,
wait, fail and leave, are the creator and the waiter. A window of 22 tokens
leaves 16 for summary, tail and question, where a short turn takes 4 and one
with tools 12; the longest question fits into no prompt of a summary, and a
threshold below the window makes compactions frequent. Two
calls let one block in the write while the other, or its own timeout, waits for the
mutex; the second page, and the cancellation after it, may block before there are
calls. One line in the other pipe lets a first and a second answer, and the end of
the process, meet. A channel of one event makes
the agent of a stream wait for its handler; a stream, a post and a change of the
model queue for one lock in every order. In the loop, the limits of three
repetitions and three failed rounds are the code's; four rounds let a
turn fail twice, succeed and fail again, and end by each limit without the others:
two signatures last for four rounds in which no call is repeated three times.
Only the first round has ids that collide, as ids are normalised per response.
`MaxClock`, `MaxLen` (of `Session` and of `Compaction`), `MaxObjects` and
`MaxCalls` bound the search only. One branch of the code cannot be reached: a
context that needs no compaction always fits, as the threshold is below the
window, so that the refusal for `"window"` in `Prepare` never happens. The
symmetry of `session` permutes callers and keys, which nothing tells apart; the
run checks safety only. No run switches the deadlock check off: `Stopped`,
`ProcessEnds`, `Restart`, `Quiet`, `Ended` and `Finished` are the steps of a
process that has nothing to do, and in `Compaction` the next turn may always
come.

Each property has a mutant in `PROJECT.json`: a definition of the model replaced
by a plausible mistake (marked `Fault:` in the modules), under which TLC finds
that property violated.

## 4. Fairness

`TaskQueue!Spec` assumes what Go gives. Runnable goroutines run: weak fairness
of each worker step. Blocked senders of a channel are served in order of
arrival: strong fairness of `AcquireSlot`, as other workers keep taking the slot.
Timers fire: weak fairness of `Deadline`. A handler is assumed to return *once
its context is done*, which is what `select`, `NewRequestWithContext` and the
tool timeout of the agent are for; a handler whose context is live owes nothing.
Nobody has to submit, and nobody has to call `Stop`. `Gateway` keeps these and
assumes nothing of platforms, signals or the router: the router may stop reading
at any time, which is the code's behaviour both when it leaves first at shutdown
and when `SendMessage` blocks.

`DockerPool!Spec` assumes that a tool's context ends (`executeToolCall` gives it
a timeout), that the context `main` gives to `Close` does, and that the commands
with a context of their own, `docker rm`, return. `docker create` and a starting
container may hang until their context is done. `AgentLoop!Spec` assumes that a
model call returns, as the provider takes the turn's context; a tool need never
return, its timer fires. `Compaction!Spec` assumes the same of the calls that
make a summary.

`McpStdio!Spec` assumes that its goroutines run, that a Go mutex does not starve
those who wait for it (strong fairness of `LockWriter` for tool calls, which
overlap), that a killed child exits and its exit is reported, that the timeouts
of the handshake fire, and that a message has an end (strong fairness of
`SetupRuns`: a child that makes room again and again has the message at last). It
assumes nothing of a living child, and nothing of the timeouts of tool calls:
`Close` releases those without them.

One property has a condition of its own. `StartupEnds` holds of a child that reads
its input on, or dies, whatever else it does (`ChildReadsOn`). Without the condition
TLC refutes it on the instance of `mcp_stdio`: the child answers the first
`tools/list` with a cursor that is longer than the pipe and stops reading; the
second `tools/list` waits in `stdin.Write`, which has no deadline, the request's
context is looked at only after the write (`stdio.go:220-235`), and before
`newManager` has returned nobody calls `Close`. `luckyclaw` then never starts, and
does not report an error. `src/README.md:196` lists timeouts among what a connection
to a server does, but says nothing of writes; `PROJECT.json` has this as a hazard.

`WebSession!Spec` assumes that a handler whose browser has left gets on, as its
waits have the request's context among their cases, and that a turn gets on except
where it waits for the model or for room in the channel. A model call ends with
its context, not by itself, and a browser may stop reading for ever: `LeaverEnds`
speaks of those that leave.

## 5. Proofs

`TaskQueueProofs` proves, for every finite set of messages, every set of
addresses and every capacity (`QueueAssumption`):

    SafeSpec => []TypeOK, []SlotAccounting, []OneHandlerPerConversation,
                []NoStrandedMessage, []StopLeavesNothing
    SafeSpec => Dispatch!Spec          (ImplementsFifoDispatch)

None of the safety properties is inductive by itself. The invariant `IInv` adds
*Ownership* (a state's worker, the registry entry, the pending queue and the
current task belong to one address, and a worker whose entry is gone is on its
way out with nothing pending), *StopStages* (what `Stop` has reached against
what the flags and queues say) and the two counts: `slots` and `workers` are the
cardinalities of the workers at the corresponding places. One lemma per conjunct
shows that a step preserves it; `MoveWorker` and `CountingStep` isolate the only
arithmetic, how a cardinality changes when one worker moves. The refinement maps
`waiting` to the queue of the registered state and `active` to the current tasks
of the workers in the handler: `InitRefines`, `StepRefines` and `StutterStep`
show that each step is a step of `FifoDispatch` or leaves its variables alone;
`RoomToStart` derives the abstract bound on active conversations from
`SlotAccounting`. `IInv` was itself checked with TLC before it was proved.

`DockerPoolProofs` proves, for every set of calls and of sessions, finite or not
(`PoolAssumption` only says that each call has a session):

    SafeSpec => []PoolTypeOK, []OneContainerPerSession,
                []SessionKeepsItsExecutor, []CloseReclaims

Its `IInv` adds *Registry* (whose entry is in the map: the creator's placeholder
until it is published, a working executor afterwards, and only a published
executor is ever an answer), *Containers* (a live container belongs to the entry
in the map, so two of one session are the same) and *Closing* (once closed,
what lives or is being made is on the list of `Close`, or `Close` has reported
that it gave up). `SessionKeepsItsExecutor` needs `Registry` to know that a
failed creation removes its own placeholder and nothing else.

The same module puts the pool to use:

    AgentSpec => SafeSpec                       (TurnsUseThePool)
    AgentSpec => []BrokenOnlyByALeftTurn

Each step of a turn is a step of the pool or leaves it alone (`PoolStep`), so the
theorems above hold of turns. The invariant `AgentInv` adds *Waits* (a call that
waits for the entry of another one follows a turn that is over, or finds a working
executor) and *Cancellations* (a cancellation that a call reports is its own or
that of the creation it waited for). Together they leave one way to break a turn,
the second finding of section 6. `BrokenOnlyByALeftTurn`, which says so, was also
checked with TLC on the instance of `agent_sandbox` (152,785 states).

`McpStdioProofs` proves, for every handshake, any number of calls and any room
for lines from the child (`McpAssumption` keeps names apart and asks for three
messages at least):

    SafeSpec => []TypeOK, []SendNeverBlocks, []PendingIsUnderWay

Its `IInv` adds *OneHand*: the answer to a request is in the map, with the reader,
with `fail`, or in the channel, and only the last has been written to. That is why
the code may write to channels of capacity one outside its mutex.

`CompactionProofs` proves, for any turns, any budget that `newTokenBudget` accepts
and any sizes of summaries (`CompactionAssumption`):

    SafeSpec => []TypeOK, []SentFits, []SentIsWhole, []RefusedOnlyWhenNothingFits

Its `IInv` says of the draft and of the stored summary what `SentIsWhole` says of
what is sent, and that a fold goes on to the beginning of a later turn.
`MinIsMember` and `MaxIsMember`, from the well-foundedness of `<`, make the chosen
cutoffs members of the sets they are chosen from; `Covering` puts a portion after
what the draft has; `UsersStay` is the growth of the history.

`RefusedOnlyWhenNothingFits` compares sums of tokens. `Usage` is a fold of the
community modules, that is a `CHOOSE` of a recursive function; `SumsExist` shows by
induction on the number of positions that such a function exists and `SumType` that
its values are naturals. The induction is made from a least counterexample
(`Induction`), as the library's theorem has an operator parameter. The rest is about
cutoffs: `LastUserIsLast`, `NextUserIsNext` and `FirstCutoffIsThere` say what they
are, `FoldAdvances` that a fold ends beyond what is stored, and `RefusalStep` adds up
the three places where a turn is refused. The proof also shows that the one in
`Prepare` for `"window"` cannot be reached.

`WebSessionProofs` proves, for any number of sessions and requests and a channel
of any capacity (`WebAssumption`):

    SafeSpec => []TypeOK, []TurnSeesSession, []NoTurnOutlivesItsRequest,
                []FinalMeansStored

`NoTurnOutlivesItsRequest` speaks of the goroutine of the turn. A tool that timed out
or was left may run on in the goroutine of its call, which has no hand in the turn
any more (`AgentLoop`).
Its `IInv` adds *Stages* (where a handler is says where its turn may be),
*OneHolder* (the token of a session is in its lock or with one handler) and
*Announced* (a success in the channel or at the browser is stored). A turn that
writes has a handler that holds the lock, so that two such turns of one session
are the same.

`GatewayProofs` builds on `TaskQueueProofs` and proves, for any deliveries,
conversations and keys, any capacities and any window (`GatewayAssumption`: the
deliveries of one key belong to one conversation, capacities and window are
positive):

    GatewaySafeSpec => SafeSpec                 (GatewayUsesQueue)
    GatewaySafeSpec => []GatewayTypeOK, []NoRepeatWithinWindow,
                       []DropsOnlyWhatWasAccepted, []RepliesInOrder
    GatewaySafeSpec => []OneHandlerPerConversation /\ ImplementsFifoDispatch

`QueueStep` shows that a step of the message path is a step of the queue or leaves
it alone, so the queue's invariant comes for free. `GatewayInv` adds
*WindowRemembered* (an accepted delivery of the current window is in the deduper's
map, with an expiry as late as its own), *EntriesLogged* (what is in the map was
accepted), *LoggedOnce* and *Pipeline*: the deliveries of a conversation respect the
order of acceptance in the queue of its worker, in the hand of the worker, on the
outbound bus and behind the router, and from each of these places to the one before
it. `RepliesInOrder` alone is not inductive, as it does not speak of what is not a
reply yet. `SoleWorker`, from the queue's *Ownership*, is why two workers never send
for one conversation.

`SessionProofs` proves, for any number of conversations, keys, callers and `Session`
objects and histories of any length (`SessionAssumption` types the names of messages
and keeps `None` apart from keys and rows):

    Spec => []TypeOK, []SummaryAccountsForPrefix, []MemoryNeverAhead,
            []SoleObjectIsCurrent, []IndexMatchesHistory,
            []ActiveSurvivesRestart, WritesNeverUndo

Here several objects may stand for one key, each of its own age. `IInv` says of every
object that it has seen its row or an earlier state of it (*ObjectsBehind*: a prefix
of the messages, a cursor no later, a summary up to that cursor). What is half done
needs as much: a write between transaction and assignment (*WritesHeld*: one per
object, never shorter than the object, and exactly the row if no other object stands
for the key), a load or creation before its publication (*LoadsHeld*), a fold
without any mutex (*FoldsSound*). *RowsSound* and *PointersSound* are the store's
part. With these the prefix check of an append and the cursor check of a compaction
are what keeps an old object from undoing a newer one, and the mutex of an object is
what keeps its own writes apart. `MaxLen` and `MaxObjects` are constants of the
model and may be any numbers.

`AgentLoopProofs` proves, for any limits, any number of calls in a response and any
ids, colliding or blank (`LoopAssumption`: the limits are positive, and a response
that calls tools has at least one call):

    SafeSpec => []LoopTypeOK, []NoEndlessRepeat, ToolsEndWhenFailing
    SafeSpec => Turn!Spec                       (ImplementsTurn)

`LoopInv` says that what the turn has gathered is whole rounds (*TurnSound*), that
the results so far answer the first calls of the round under way (*RoundSound*), that
no call is executed more often than it is counted (*CountsSound*), and that
`failedRounds` is the number of rounds after the last success (*FailuresCounted*),
which the messages themselves tell. A whole turn needs distinct ids.
`normalizeToolCalls` looks for a free one, and each id depends on those before it:
`FreshIdIsFresh` finds one by counting, `NormalIdsExist` shows by induction that the
recursive choice is one, and `NormalIdsDistinct` is the theorem. In the refinement
the step that stores is the one step of `AgentTurn` that adds to the history; all
others are steps of it that answer or end, or stutter.

Each of these modules proves its type invariant. The runs do not list type
invariants, which would only slow them.

So every invariant, every action property and every refinement of the passing runs
is proved. Only model-checked are the liveness properties, since TLAPS does not
reason about fairness with `ENABLED`: `AcceptedIsServed`, `IdleConversationIsForgotten`,
`ShutdownCompletes`, `AcceptedIsHandled`, `FoldEnds`, `GetReturns`, `CloseReturns`,
`TurnEnds`, `StartupEnds`, `CloseEndsProcess`, `CloseReleasesCalls` and `LeaverEnds`.
The three properties of section 6 are violated, which is TLC's to show.

## 6. Findings

**An append is refused after a streamed answer** (`session_append`). The store
compares its decoded history with the caller's by `reflect.DeepEqual`
(`session/sqlite.go:320`). The stream decoder builds `ToolCalls` with `make`
(`provider/openai.go:266`), which is empty and not nil; `omitempty`
(`provider/provider.go:38`) drops it, so the stored message decodes with a nil
slice. The `Session` object keeps the built value, and its next `Append` fails
although it only adds messages, against the comment at `session/sqlite.go:307`.
TLC's trace: create, publish, append a turn with such an answer, assign; now the
object holds the whole history and cannot extend it. A restart, which reloads
the decoded value, ends the state. A terminal line that is not valid UTF-8 has
the same effect.

**A tool's cancellation may break a turn that was not cancelled**
(`agent_sandbox`). A client leaves while its turn creates the session's
container. The next turn of the session waits in the pool for that creation and
gets its error, `context.Canceled` (`sandbox/docker.go:194`,
`sandbox/pool.go:73`). The loop takes any `context.Canceled` for the end of its
own context and returns a nil message with `ctx.Err()`, which is nil
(`agent/agent.go:427`); the caller then reads the message (`agent/agent.go:250`,
`agent/events.go:73`). The comment two lines on (`agent/agent.go:429`) says that
a tool error never ends the agent but becomes a result for the model.
No other behaviour breaks a turn, for any number of turns (`BreaksHaveOneCause`):
timeouts and failures of docker become results.
`AgentLoop` has the same step (`BreakOnCanceled`); its properties hold because
such a turn stores nothing.

**A failed creation may leave a container** (`docker_pool_lost`). `docker create`
is read with standard output and error as one (`sandbox/docker.go:411`): a warning
makes the id invalid and the creation fails at `sandbox/docker.go:74` without
removing what was made, as it does when the command is killed
(`sandbox/docker.go:70`). The pool does not know that container, so `Close` does
not find it. The comment at `sandbox/docker.go:99` says that the failure path
removes what is left.

## 7. Plan

Left to model: `Routing` (`matchAgent`, the agent registry, the resolution of a
provider) as operators, and several MCP servers in one manager, whose startup
closes those already started when a later one fails.

Theorems worth proving next: that the bounds of `Session` and `Compaction` on
histories only cut behaviours short, by stating both modules without them; and that
the turns of `AgentLoop` are the appends that `Session` sees.

## 8. Not modelled

- Docker and HTTP commands themselves, `Exec` and the file operations: I/O whose
  outcomes the models choose freely.
- JSON, SQL and text formatting beyond the one conversion above, the conversion of
  provider messages, search ranking and session lists: they read only, or convert
  one value into another.
- Tools, skills, configuration, the agent registry and the provider manager: no
  state of theirs changes after startup.
- The web front end's JavaScript, views, the soul editor, static files and
  headers; a completion that is not streamed, which has neither a session nor a
  second goroutine.
- A child of MCP that closes one pipe and lives on; more than one MCP server.
- The order of shutdown behind the gateway, and power failure, as opposed to
  process failure, under `synchronous=NORMAL`.
