# Verification of the agent platform

This directory holds TLA+ models of the parts of this repository that keep
durable state under concurrency, the TLC configurations that check them on small
instances, and TLAPS proofs of the services' main safety properties for every value
of the constants. `PROJECT.json` maps every definition to the lines it models and
lists the runs, their mutants, the findings, the hazards and the theorems.

    tlc -workers 2 -config EngineTicks.cfg MCEngine     # a run
    tlapm EngineProofs.tla                              # the proofs of a module

## Inventory

| Component | State it keeps | Operations | What is hard | What makes it correct |
|---|---|---|---|---|
| engine: executions (`services/engine`: lease, tick, store, wakeup, service) | `executions`, `checkpoints`; ticks in flight | start, claim, load, commit, expire | leases without heartbeat, late ticks, crash between claim and commit, two ticks on one row | a lease exactly while Running; a checkpoint history without gaps or rewrites; the row is a copy of the latest checkpoint; oldest-first claims |
| engine: control (`control.rs`) | the same tables | Interrupt, Resume, Cancel | two reads, then an unfenced write, racing ticks and each other | no step erased, no finished execution revived |
| engine: sweep (`sweep.rs`) | the same tables | delete terminal executions | three statements, no row locks | only what was finished when it was selected goes |
| engine: process (`main.rs`, `lease.rs`) | advisory lock, processes | boot, crash, dropped lock session | lock tied to a database session nobody watches | one engine at a time |
| engine-core (`step.rs`, `graph.rs`) | active nodes, barriers, state | `step`, `interrupt` | completion order, conditions read between two outputs, fan-out/fan-in barriers, rerun super-steps | order independence where nothing is read that another node writes, one fold per barrier, no panic |
| engine: event log and streams (`stream.rs`) | `execution_events`, subscriptions | append, poll, NOTIFY | ids drawn before they commit, lost notifications | no event skipped, the terminal event is found |
| engine: schedules (`scheduler.rs`, `cron_next.rs`) | `schedules` | claim due, start, record | crash between advance and start | at most one start per due time |
| engine: executors (`dispatch.rs`, `executors/`) | `tool_result`, `prior_material`, the node's usage | LLM node with its fast path, tool node, follow-ups | silent services, second answers, material that goes stale, ticks run again | no answer without a source, replies checked, failures bounded, spending accounted for |
| chat: topics (`topic_manager`, `topic_queue`, `topic_focus`) | `sessions`, `topics` | create, focus, promote, reset, recover | slot races, focus races, reset against everything | concurrency cap, no stranded queue, focus never lost |
| chat: watchers (`topic_watcher`) | one task per running topic | stream, reconnect, finish | cut streams, restarts, failing finishes | a topic follows its execution |
| chat: turns (`topic_turn`) | `messages`, the turn's advisory lock | send_turn | overlapping retries, split turns cut half way, stale views | effects once, but for what was cut |
| chat: intent (`intent`) | none | decide, split, judge, rewrite | five calls to a model, each of which may fail or answer badly | the message reaches topics whole, none that is not there |
| chat: event log and bus (`topic_events`, `event_log`, `events`) | `chat.events`, live subscribers | publish, replay, follow, drop old months | two writes in one of two orders, a subscriber that lags, replays of whole streams | nothing skipped, nothing twice within a month |
| tool: registry (`service.rs`, `main.rs`, seeds) | `tool.tools` | seed, create, review, activate, list, resolve | a start that dies half way, files that change, stale writes of a status | what is seeded is what is configured; only reviewed tools are listed |
| tool: execution (`race.rs`, `tools/`) | races in flight | race, fetch, follow redirects | quorum against reserve and timeout, chains of redirects, names that resolve anew | width and quorum kept, every start accounted for, no request unchecked |
| llm-router | tiers, budgets, audit tables | complete, decide, maintain | a deadline against an audit write, which failures go to the backup, months | audited once and in time; blame where it belongs |
| crawler (`jobs`, `crawl`, `graph`) | `crawl_jobs`, pages, edges, frontier | submit, crawl, store, hand off | idempotency races, calls lost between insert and spawn, slots, restart, hand-offs that fail | rows tell the truth, a later crawl heals |
| crawler: owner (`instance_guard`) | an advisory lock | acquire, check, stop | the lock dies with its session, the process does not; a start that nobody watches | one instance crawls once it has been checked |
| knowledge-base | documents, chunks | ingest, search, read | replace during a paged read | a document is old or new, never mixed |
| gateway | sessions with expiry | login, logout, check, sweep, forward | expiry against sweep, failing store, repeated calls | a session is honoured exactly while it lasts |
| frontend, common, golden, native inference | none of their own, or numeric | – | – | not modelled |

Interactions: chat calls the engine (start, interrupt, cancel, stream events); the
engine's ticks call the llm-router and the tool service; the tool service calls the
knowledge base and the web; the crawler feeds the knowledge base; the gateway
authenticates and forwards. Services share no memory: they meet in Postgres tables
(each service its own schema), in RPC calls and in event streams.

## Modules

- `Engine` – the engine's durable core.
- `ExecutionQueue` – what the executions table promises as a work queue. `Engine`
  implements it (`ImplementsQueue`, proved in `EngineProofs`).
- `GraphStep` – `engine_core::step` and the tick around it, over a set of graphs.
- `ChatTopics` – the chat service's topics, focus, queue, watchers and turns for one user.
- `ChatIntent` – how one message is routed.
- `EventRelay` – one execution's events on their way from `commit_step` through the
  stream, the watcher, chat's log and bus to a browser.
- `AgentTurn` – the turns of a conversation: the LLM and tool executors, the
  dispatcher and the built-in graphs.
- `ToolRegistry`, `ToolRace` – the tool service: what may be executed, and executing it.
- `LlmContract`, `LlmRouter` – what the router accepts and how it reads replies
  (operators only), and one call from the wire to its audit row.
- `KnowledgeBase`, `CrawlJobs` – the document store and its readers, and the crawls that
  feed it; `CrawlJobs` extends `KnowledgeBase`, so a hand-off is one action over both.
- `Schedules`, `CrawlerOwner`, `Gateway` – the cron daemon, the crawler's ownership,
  login sessions and forwarding.
- `Retrieval` – the pure algorithms behind a lookup, each beside its meaning.
- `SeqFilter` – `filter` and `retain` over a list, which several modules use.
- `EngineProofs` (engine and super-step), `EdgeProofs` (gateway, crawler ownership, schedules, event relay),
  `ToolProofs`, `LlmProofs`, `CrawlProofs`, `ChatProofs`, `AgentProofs`,
  `SeqFilterProofs` – the theorems.
- `MCEngine`, `MCGraphStep`, `MCSafety`, `MCChat`, `MCLlm`, `MCCrawl`, `MCUpkeep` – the
  instances for TLC. `MCSafety`, `MCChat` and `MCUpkeep` put modules that share no state
  side by side: `part` is chosen in the initial state, and only that part moves. In `MCCrawl`
  the parts are three instances of one module.

### Engine

`row` is `executions` (status, wait kind, whether there are current nodes, owner and
lease), `cps` is `checkpoints`, `older` is the order of `updated_at`. `worker`,
`client` and `sweep` are the ticks, control calls and the maintenance pass in
flight; `up`, `lock` and `boots` are processes and the sole-engine advisory lock.

A transaction is one action at its commit, with the guards it evaluates under its
row locks. Reads that happen before it are actions of their own: a tick is `Claim`,
`Load`, then `TickCommit` or one of its refusals; a control call is `ControlRow` and
`ControlState` (`load_idle` reads the row, then the latest checkpoint),
`ControlStep` (`next_checkpoint_step`) and `ControlCommit`; the sweep is
`SweepSelect`, `SweepCheckpoints`, `SweepCommit`. `commit_step` inserts the
checkpoint under its primary key and updates the row under the fence: the owner for a tick, "not
Running" for a control call. The sweep's deletion becomes visible when it commits;
`doomed` remembers which checkpoints it took, so one written in between survives it,
exactly as in the database. `Boot` takes the lock and expires the leases of its
predecessors; `Crash` ends a process with everything it had in flight;
`LockSessionDrops` releases the lock under a running process.

Abstractions: what a node computes is the set of outcomes `step` can return
(`StepOutcomes`); `updated_at` values are distinct and in commit order; the clock is
`LeaseExpires` and `TimerElapses`, which may happen at any time; the retention has
always passed when the sweep looks. `iteration` is kept because `tick.rs` reads it
from the row and nothing writes it back.

### ExecutionQueue

Status, wait kind, lease and age of every row; `Insert`, `Claim` of the oldest
claimable row, `Settle` by the holder, `Rewrite` by a control call, `Expire`,
`Elapse`, `Remove`. It names nobody: no ticks, processes or checkpoints.

### GraphStep

`exec` is an `Execution`: status, active nodes (with their branch), the one key that
FanOuts and edge conditions read (by the length of the array under it), the barrier slots and what was folded; `outs` are the
outputs that have come in, in completion order. `Complete` is a node finishing in the
tick's `JoinSet`, `StepCommit` is `step` and the commit, `StepPanics` the tick
that dies in `step`, `Lost` a tick whose work is thrown away and run again, `Wake` an
interrupt, resume or timer. An edge has the values of the key under which its condition
holds, and a graph says which of its nodes write the key (`writes`). `record_edges` asks the conditions of each
output on the state folded so far (`step.rs:36`), so an output that writes the key decides the
edges of those that come after it. `OrderIndependent` therefore speaks of super-steps in which
nothing that ran, and no FanIn it reports to, writes the key; the run `safety` has graphs of both sorts.

`validate` accepts more graphs than `step` handles, so the properties name what `step` relies on.
`Branched`: only FanOuts lead to their targets, and only the targets lead to FanIns; outside it
`record_fan_in_branch` panics at `step.rs:214` (see the differences below). `FanShaped` adds that every FanOut has a
target and a FanIn of its own and that one way leads to it: its target lies in a `Trunk`, a
set of nodes that only nodes of the set lead to, each by one edge at most. Outside it the code
misbehaves: two edges to one FanOut, or a FanIn that leads both to its FanOut and to a node before it,
start a fan again while its branches run, and the second start empties a barrier that
has results; two FanOuts that share a target or a FanIn write each other's
places; a FanIn behind a second edge is passed without folding because
`fan_in_consuming` looks at the first edge only. Graphs of every valid shape are run, and keep the
types (`GraphTypes`).

### ChatTopics

One user: `session`, `topics`, `messages`, one `watcher` per topic, the `send_turn`
calls in flight. Every transaction that changes topics locks the session row, so it is
one action. `run` is the first terminal event of the topic's execution in the engine's
log, which is all a watcher can learn, because every stream replays the log from its
start. `StreamEnds` cuts a stream at any time, `WatcherFails` and `TurnFails` are
failing calls, `Restart` loses every task and runs `recover`. A sender's `view`
is the session view that `deliver_turn` read under the turn's lock: the actions of a
turn are decided on it although topics move on. `landed` is history: how many
deliveries of a turn had an effect (a topic created or an execution interrupted); `torn`: how
many of those ended half way, with no message written, because a later action of the split was answered Busy or
met a reset. Splits are any mixture of new and continued topics. `TurnLandsOnce` allows a turn to land
again only after a delivery of it was torn; that this happens without any failure is
what `chat_busy` shows.
The classifier's answer is any plan it can return (`Plans`).

### ChatIntent

`intent` is the `route` call in flight. A text is what routing can tell of it: the
themes it asks for, whether it can be understood alone, whether it holds the whole
message. `Decide` is the typed decision (a topic among the `Offered`, a new one, or an
answer below the threshold), `AskSplit` the split with `parse_actions`, `Judge`
`judge_and_repair_split` with its one retry, `Rewrite` the rewrite against earlier turns;
each call has a failing twin. The judge is assumed to err only by silence: a wrong "yes"
of a model is outside what the code can promise.

### EventRelay

`writer` are the calls of `commit_step` in flight: `CommitInserts` draws the event ids,
`CommitEnds` makes the rows visible. `stream` is the `StreamEvents` task with its batch
and channel, `watch` the watcher with its memory of `Remembered` ids, `pub` the two
halves of `publish_all`, `log` is `chat.events`, `tab` a browser's subscription with its
place in the bus. `NextMonth` and `Maintain` move the partitions; `StreamCut`,
`Restart`, `StoreFails` and `FinishFails` are the disturbances, `MaxInAll` in a behaviour.
`Woken` is a wait that ends: by a NOTIFY, by the interval or by the timeout that finds a lost
one, so that a NOTIFY may be lost at any time.

### AgentTurn

`carried` is `prior_material` and `fetched` is `tool_result`, sequences of
`ToolRecord`s; `pc` is the node to run or the point inside the LLM executor; `job` are
that executor's locals, `out` its output, `spent` what the services really charged.
One action is one call to a service with everything the executor does with its answer:
`ScopeNone`, `ScopeTool` and `AnswerFromMaterial` are the scope decision of
`decide_fast_path`, `ComposedNoCall` and `ComposeToolCall` are `compose_tool_call`,
`PointDecided` is `not_pointed_at`, `FastLookup` is `dispatch_tool_fast`, `Completed`
is an answer in `complete_with_retries`, `CheckRan` is `checked_against` and the check
of a second reply. Every one has its failing twin. `LlmStep`, `ToolStep` and
`RetrieveStep` are the super-step with the merge, the budget and the edges of
the graph, `StartContinuing` is a follow-up with `carry_material_from`, and `TickLost`
runs the node again from its checkpoint.

Where a document describes these executors differently from what they do, the properties of
`agent_turns` say what the code keeps; the document's sentence about a decider that cannot be reached
is refuted by `agent_unchecked`, and the others are listed with the differences below.

Abstractions: a text is what the executors ask of it (a reply is nothing, text or
other JSON; a tool call is null, empty, unusable or a number of calls). A decider
answers or is silent in both of its attempts. Time is the order of the
lookups, of which the first `stale` are older than ten minutes. Every answer costs one
token. Records of older versions, without a timestamp, are left out; a follow-up
starts when its parent has ended; a tick lost in the tool node is not told apart from
one that took longer.

### ToolRegistry and ToolRace

`rows` is `tool.tools` by owner and slug, with the status, the risk, which text it
carries and whether it has sources. A start (`Start`) reads the operator's two files and
then seeds row by row (`SeedStored`, `SeedCreates`, `SeedDeclared`, `Withdraw`), any write
of which may fail, and `Crash` ends it anywhere. Reviews and activations are a read and a
later write of the status alone. `Execute` and `FindTool` are the resolution of a call.

`ToolRace` is one `Execute` behind it: `call` holds the race's width and quorum, `op` each operation
with its url, where it is and its hops. `checked` and `sent` are history: the checks that let a url
pass, and the requests that left with the names of their headers. A host is an address,
public or not, or a name for which the resolver answers anew each time it is asked. Off the origin
that was asked for, a hop drops the four headers of HEADERS_BOUND_TO_THEIR_ORIGIN (`web_fetch.rs:164`) and sends the
others again, whatever they hold. So `RequestsStayGuarded` says that each hop is checked before it is made and that
those four stay with their origin. It says nothing of the address the client then connects
to, because the client resolves the name again, nor of other headers, which a declarative source may
fill as it likes. Text extraction and ranking of what came back are left out; which answers are used is kept.

### LlmContract and LlmRouter

A string is its length, a probability its percentage, an optional field a set of at most
one value; every limit keeps its real number. `call` walks from validation to the vendor
and to the audit row; time runs in steps of 100 ms against the caller's deadline, and in months for the
tables. `MCLlm` gives requests on and just past each limit, one departure at a
time, and a reply of each kind the readers tell apart.

### KnowledgeBase and CrawlJobs

A version stands for a page's content and its hash. A call of `start_crawl` is `Lookup`
(`find_by_key`), `Insert` under the unique index, and then `Spawn`, or `Refind` after an insert that
was refused or answered with an error. `SpawnLost` is what can come between the committed row and the spawn: the
caller goes away with the handler, or the answer of the insert is lost and `find_by_key` finds
the call's own row. `CallFails` is any other error. Then there are the slots, the fetch loop (a page may be too large or out of
scope, and then counts without being stored; a url may be too long for the graph) and the two
stages it feeds through channels of one, the status writes that may fail, `Crash` and the
next process's `fail_unfinished`. `kept` marks the rows this process has hold of; `Edit` changes the site under a crawl. `reader` is an agent between two
pages of a document.

### Schedules, CrawlerOwner, Gateway, Retrieval

A cron expression is the set of instants it fires at; a claim holds its row's lock until
`Advance` commits, and a daemon may die anywhere (`Die`). `CrawlerOwner` counts
time in steps of 500 ms with the code's three delays, and assumes that timers are not
late: the delays have no slack for a runtime that stalls. Between the check that ends the wait and the first
check of `monitor` lies the start-up (`main.rs:347`), which takes any time and during which nobody asks the session;
an instance that serves is `new` until its first check and `old` after it. A heartbeat is executed
(`Executes`) and answered (`Answered`) in two steps, so an answer may arrive from a session that is gone. `Gateway` keeps
expiries in hours beside what each token was promised. `Retrieval` asks every
question of a bounded set once: walks over all graphs of four pages, fusions of all
rankings of a few documents, cuts of texts with short, long and overlong words, of which no character may be lost.

## Runs

A `part` of a run that is not listed with numbers is smaller than the rest.

| Run | Checks | Shows |
|---|---|---|
| `engine_ticks` | `TypeOK`, `SoleEngine`, `ImplementsQueue` | 2 executions, 2 tick slots, 2 processes, a failing tick, the sweep and a dropped lock session; ~420,000 states. |
| `engine_control` | `LeaseMatchesRunning`, `ContiguousCheckpoints`, `RowMirrorsLatest`, `CheckpointsImmutable`, `TicksNeverReopen`, `RunningSettles` | 2 callers of all three control calls, 2 ticks and the sweep on one execution, and a failing tick or a crash while nobody calls; ~587,000 states. |
| `upkeep` | `SchedulesKeepTime`, `CheckedOwnersAreAlone`, `SessionsHonoured`, `LookupsComputeTheirMeaning`, `NoStarvation`, `EveryCallAudited`, `RecordedBeforeTheDeadline`, `BlameIsTheCallers` | Two daemons with two deaths, three crawler instances, two sessions over four hours, every lookup question, three executions that may loop for ever, one call of the llm-router at every limit with every reply; ~270,000 states. |
| `safety` | `NeverPanics`, `OrderIndependent`, `JoinsFoldEveryBranch`, `SeededAsConfigured`, `ActiveWasReviewed`, `RaceAccounts`, `RequestsStayGuarded`, `FocusNeverLost`, `TurnLandsOnce` | One fan plus any further edge `validate` accepts, and pairs of fans, over arrays of none, one and two elements, in all completion orders; three starts of the tool service with a failing write and two overlapping calls; races of three operations; two deliveries of one turn racing finishes and a reset; ~980,000 states. |
| `chat` | `SlotsAreUsed`, `FocusNeverLost`, `TurnsReachTopicsWhole`, `TopicsSettle` | 3 topics for one slot with a fault, a reset and a restart; the routing of one message; ~59,000 states. |
| `agent_turns` | `AnswersHaveASource`, `PlainRepliesHoldUp`, `LatestStepSeen`, `UsageAccounted` | A turn and its follow-up through all three graphs, every answer and silence of the services; ~1,610,000 states. |
| `event_relay` | `StreamSkipsNothing`, `OnlyLoggedNeverMissed`, `EndReachesTheTopic` | Two writers, one stream, one watcher, one browser, two disturbances; ~442,000 states. |
| `crawl` | `JobRowsTellTheTruth`, `ReadsOneVersion`, `HandOffHeals` | Two crawls in turn of two pages with a reader, two crawls of one page at once, three submissions for two permits; one disturbance; ~1,710,000 states. |
| `engine_iteration_bound` | `CheckpointsBoundedByIterations` (violated) | `max_iterations` does not bound a loop: no tick writes the iteration back. |
| `engine_orphans` | `NoOrphanCheckpoints` (violated) | An Interrupt that commits between the two deletes of the sweep leaves a checkpoint without a row. |
| `chat_busy` | `TurnTakesEffectOnce` (violated) | A split turn answered Busy after its first action landed lands again on the retry, with nothing failing. |
| `agent_unchecked` | `UncheckedRepliesStay` (violated) | A reply the decider cannot be asked about is replaced and not left as it was. |

The type invariants of `GraphStep` (proved), `ChatTopics`, `AgentTurn` and `EventRelay` document
their variables; they hold on the same instances and are not part of a run. The proofs
have type invariants of their own, without the bounds.

### Bounds

Two ticks on one row are enough for every race of the fence, since a commit compares
one owner with one row; two executions are what ordering needs, three for
starvation. Two checkpoints after step 0 let a stale writer find its step taken by
another and let one more follow. Two processes give one restart. Two callers give
every pair of control calls; they make none once a tick has failed or the first process has died (`Calm`), since a call then meets the same tables. A fan of two branches has all the orders of branches that a
barrier tells apart; one further edge reaches every way of entering and leaving
the fan; two fans side by side, one after the other and looping give two open barriers, and
a barrier that is opened again. One slot and three topics make two topics wait for it; the real limit of three
only counts higher. Two senders are a turn and its retry,
and two topics a new one beside one to continue; a call fails while there is one topic.
`MaxTorn` lets two deliveries be cut half way.
In `AgentTurn` a window of one and two calls at once make a step wider than the window,
and three calls too many; three lookups reach the limit of three failed steps; a
token budget of seven is what the costliest path spends, so it is met and not
met; two attempts are a failure and a retry.

In `ChatIntent` two topics, two themes and splits of two actions give a new question
before and after a continued topic, which is what the judge's numbering can get wrong. In `EventRelay` a channel, a
memory and a batch of one or two are smaller than what is replayed, so that events are
forgotten, wait for room and are cut in the middle; two disturbances let a cut meet a restart
or the end of a month. In `ToolRace` three operations against a width and a
quorum of up to two leave one in reserve; one hop is the limit reached and the limit
passed. In `ToolRegistry` three starts are a seed, a change of files and a repair. Deadlines
of `LlmRouter` lie below, on and above the vendor's and the record's time. In `CrawlJobs` two
submissions are every pair of crawls; of two pages they come one after the other, of one page at once; the third
submission is one more than there are permits and lets a key return while another is taken. In the
part about the rows the crawls store nothing, which the rows do not depend on. One disturbance is each
failure alone, since a clean later crawl is what heals it. Three crawler instances are an owner, its successor and one more that tries.

Deadlock is not checked, because every model may stop: executions end, calls are answered,
and the bounds are reached.

### Fairness

- `Engine`: the supervisor restarts a dead process (`Boot`), the loop keeps spawning
  ticks and every call a tick makes has a timeout (`Tick`), time passes
  (`LeaseExpires`). Nothing is assumed of callers, timers or the sweep.
- `ExecutionQueue`: some slot claims when there is work – the loop wakes on NOTIFY and
  on its fallback interval – and nothing about which row.
- `ChatTopics`: the runtime polls every watcher (weak fairness), and a stream that is
  reopened again and again is not cut before the terminal event every time (strong
  fairness of `StreamTerminal`), which replaying from the start allows. Nothing is
  assumed of users or of the engine: `TopicsSettle` starts when the execution has ended.
- `EventRelay`: the stream's task and the watcher's are polled. Nothing is assumed of
  writers, of the browser or of notifications, and the bound on cuts stands for a network
  that does not cut every stream for ever.

## Proofs

Each theorem holds for every value of the constants that satisfies the assumptions of the
modules it is about, so for any number of executions, topics, crawls, tokens, writers and
so on. It has the shape `Spec => []Property`: an invariant is found that implies the
property and that every action keeps, with one lemma per action. The invariants were
checked with TLC on the runs' instances before they were proved. Safety needs no fairness:
the theorems are about the initial states and the steps alone (`Spec`, `RelaySpec` and the like), and
the runs that assume fairness check a specification that has these as a conjunct.

### Engine and super-step (`EngineProofs`)

From `EngineAssumption` (the bounds are naturals, `NoExec` is not an execution,
the control calls are the three there are).

- `TypeCorrect`: `TypeOK` is inductive.
- `LeaseCorrect`: with the types, `LeaseMatchesRunning` is inductive; `commit_step`
  clears the lease with the status, claim and expiry write both.
- `TicksLeaveTerminalAlone`: a tick's commit requires its owner on the row and the
  lease invariant says a finished row has none.
- `HistoryCorrect`: contiguity of the checkpoints is not inductive alone: a call in
  flight carries a step number it read earlier. `HistoryInv` adds `Anchored` – what
  each tick and each control call in flight read is still a written checkpoint while the row
  exists, an unstarted execution has no checkpoints, a sweep only takes checkpoints of rows it
  deletes – and `RowMirrorsLatest`. `CheckpointsContiguous` and `RowIsACopy` follow.
- `CheckpointsNeverRewritten`: an action property from the primary key and `HistoryInv`.
- `OneEngine`: with `LockHeld`, every live process holds the lock while its session lives.
- `EngineImplementsQueue`: every step of `Engine` is a step of `ExecutionQueue` or a
  stutter under the mapping that forgets owners, checkpoints and processes.

The super-step, from `GraphStepAssumption` (the graphs are what `validate` accepts, results are
lengths, null or an error), for every set of graphs and any number of branches, fans and results:

- `GraphStands`: `GraphInv` is inductive. The outputs so far belong to distinct active nodes
  (`OutsOK`); only targets carry a branch, and in a branched graph all of them do (`Marked`); in a
  fan-shaped graph at most one active node is on a trunk, unless they are the branches of one
  target with different numbers (`OneToken`), and the branches that are active have a place at
  their barrier, which has no result yet (`BarriersOpen`). `GraphTypes` follows.
- `BranchesCarryTheirIndex`: `NeverPanics`, from `Marked`.
- `JoinsAreWhole`: `JoinsFoldEveryBranch`. `AccumulatedIs` says, without an order, what a
  super-step has accumulated: each barrier holds what was reported to it at the
  reporting branch's place, it is folded if and only if nothing is missing, and the next
  nodes are those that an output sends or a folded barrier lets through. It is proved
  output by output (`PrefixIs`): no two outputs open and fill the same barrier because of `OneToken`.
- `AnyOrderTheSame`: `OrderIndependent`. Conditions are evaluated output by output, on the state
  folded so far (`PrefixIs` carries the conditions that held at each output). Where no node that ran, and no FanIn it reports to,
  writes the key, all outputs see the state the super-step began with; then the description is the same
  for every order of the same outputs, and the expansion of FanIns and `dedup_by` depend on it alone.

`Accumulated` and `ExpandCompletedFanIns` are recursive functions on prefixes. Their induction is
`PrefixInduction`, over the set of prefixes for which the claim holds, which needs no operator
parameter.

### Gateway, crawler ownership, schedules, event relay (`EdgeProofs`)

- `SessionsAreHonoured`: a request is admitted by looking at the table, and the property
  speaks of what the login promised. `RowsAreSessions` ties the two (a token's row is the
  one its login stored, and there as long as it lasts); `AttemptsLeft` bounds what is sent again.
- `CheckedOwnersStandAlone`: from the code's three delays. An instance that was checked while it
  serves is within a check interval and a check's timeout of the moment its session last answered, and a session
  that takes the lock waits longer than that before it starts up; the invariant relates the two clocks, and
  allows for an answer that is as old as the check's timeout. Nothing is claimed of an instance before its first check.
- `SchedulesKeepTheirTime`: a claim holds its row's lock until the next due time is
  committed, so what is started lies before what is still due, and a row that was left
  behind is the oldest by the next claim.
- `NothingIsSkipped`: from `RelayAssumption` (the capacities are at least one), for any set
  of writers. Two invariants. `EngineInv`: the checkpoint's primary key leaves one writer between
  drawing its ids and its commit (`OneCommits`), so all it holds is above all that is
  committed (`IdsGrow`). `RelayInv`: a batch has all rows from the last one
  sent on (`PipeInv`); and, while no write has failed and no month is past the retention,
  what is older than an event in the channel has been told or is before it
  there, what the watcher remembers has been told, and what is being published comes next
  in the log. The log's order alone is not inductive: it depends on what the stream, the
  watcher's memory and a publication in flight still hold. A cut, a reconnect and
  a restart throw such state away, and each throws away no more than the log or the next
  replay has.
- `ClarificationsArrive`: a clarification that the log has, and that a live subscription that
  keeps up has not, is one whose publication is still to be told (`TabInv`).

### Tool service (`ToolProofs`)

- `SeedingFollowsTheFiles`, `OnlyReviewedIsActive`: from `RegistryAssumption` (the system's
  principal is no user's, built-in slugs are reserved, there are finitely many). `RegistryInv` adds
  what each call in flight knows of its row, who owns which rows, and how far a start has
  come (`SeededSoFar`): rows before the cursor are as configured, the rest as some earlier start left them.
- `RequestsAreGuarded`, `RacesAccount`: from `RaceAssumption`. `RaceInv` says that operations start in
  order, that what was taken or failed is disjoint and was started, that
  the width is full while there is reserve (`WidthStaysFull`), and that what was let in had
  passed its check (`LetInWasChecked`).

### llm-router (`LlmProofs`)

- `CallsAreAudited`, `BlameIsRight`: from `TimesAssumption`. `LlmInv`: the tables are there while
  the process serves, rows come last, outcomes follow the asking, the status is the last
  outcome's, and the answer is what was recorded.
- `DecisionsAreRecordedInTime`: with the hypothesis `RecordTime < RoomToRecord`, an audit write that is
  quicker than the room kept for it (`adapters/system_one/mod.rs:54`: ROOM_TO_RECORD_THE_ATTEMPT is there "so
  that work lands inside" the deadline). `DueInTime` carries the deadline of the attempt through the call.

### Crawler and knowledge base (`CrawlProofs`)

From `VersionsAssumption` and `CrawlAssumption` (callers are finitely many: permits are counted).

- `RowsAreTrue`: `CrawlInv` adds that a row with a live status has a crawl, or a call that is about to spawn
  it (`AboutToSpawn`), or was let go of; that no two calls are about to spawn one job and none spawns
  a job that has been started (`SpawnsToCome`, which is what "one crawl for a job" rests on now that the insert and the
  spawn are two steps); that a key has one row; that a crawl holds the pages it will hand over.
- `HandOffsHeal`: an action property: with `CleanIsAlone`, what a clean crawl stored nobody else replaced.
- `ReadersSeeOneVersion`: `ReadsInOrder`, what was read is a prefix of one version's content.

### Chat (`ChatProofs`)

- `FocusIsKept`, `SlotsAreHandedOn`: from `ChatAssumption`. `TopicInv`: the focus is an unfinished topic of the session,
  watchers belong to topics in the table, and a queued topic beside a free slot has a
  promotion under way. The counts of running topics go through `FiniteSetTheorems`.
- `TurnsLandOnce`: for every split of the message. The invariant: a turn that has landed more often than deliveries of it
  were cut half way is in the messages, or in the hands of the one call that holds its lock.
- `TurnsReachTopics`: from `IntentAssumption`. `IntentInv` follows the message through decision, split,
  judge and rewrite: the actions carry all its themes, to topics that were offered, and what
  leans on the rest is whole, or could not be judged. The lemma `VerdictsFind` says that a verdict, numbered among
  the new questions only, reaches the action it is about.

### Executors (`AgentProofs`)

From `AgentAssumption` (a window, an attempt and two failed steps at least). `AgentInv` has nine parts beside
the types; the ones that carry most: an answer's origin follows the path that led to it,
material is in the order of its lookups, a reply has the view it was written from, and
what is charged and what was spent differ by at most the decision over a composed argument.
`SourcesAreHad`, `PlainRepliesAreChecked`, `LatestStepIsShown` and `SpendingIsAccounted` follow.

### Filters (`SeqFilterProofs`)

`OnlyIsAFilter`: what `Only` returns embeds in the list, in order, with all that is wanted.
The library's induction theorems cannot be instantiated by the provers here, so the
induction is by the shortest prefix that would fail, which exists because the naturals are well-founded.
The proofs about material, routed questions and the log's retention rest on it.

### Only model-checked

- Liveness under fairness (`RunningSettles`, `NoStarvation`, `TopicsSettle`, `EndReachesTheTopic`): out of the prover's reach.
- `LookupsComputeTheirMeaning` of `Retrieval`: its algorithms are folds and sorts whose step is an
  operator parameter, which no installed prover instantiates. All other invariants and action properties of the
  passing runs are proved.

## Where the code and the documents differ

Four runs refute a sentence of a document, with the lines quoted in `PROJECT.json`:

- `engine_iteration_bound`: `services/engine/README.md:80`, at most `max_iterations` checkpoints; no tick writes back
  the iteration it counted (`lease.rs:114`);
- `engine_orphans`: the same line, checkpoints are swept with their execution; an Interrupt of a finished
  execution that commits between the sweep's two deletes leaves its checkpoint for ever (`sweep.rs:24`);
- `chat_busy`: `services/chat/README.md:127`, a retry finds a turn fully delivered or not at all;
  a split turn whose later action is answered Busy has landed in part and left no message for the
  retry to find (`topic_turn.rs:248`, `ApplyBusy`);
- `agent_unchecked`: `docs/architecture.md:55`, an unreachable decider leaves the reply as it was; the
  executor refuses it (`llm.rs:680`, the action `CouldNotRun`).

The models show more of the kind, which have no run of their own:

- `services/crawler/README.md:16` says that the lock ensures one process that owns the queue; an instance whose session
  drops while it starts up (`main.rs:347`, between the wait and `monitor`'s first check) begins to serve beside
  its successor, for up to 1.5 s (hence "checked" in `CheckedOwnersAreAlone`);
- the same line has jobs move from QUEUED to RUNNING; a call that is dropped between the committed
  insert and the spawn (`main.rs:84`), or whose insert committed and answered with an error
  (`jobs.rs:104`), leaves a queued row that nothing starts until the next process, and that its key
  keeps returning (`SpawnLost`, named in `JobRowsTellTheTruth`);
- `step.rs:214` expects that a FanOut's target always carries a branch; `validate` lets an ordinary edge lead to a
  target, or the target be the entry, and `step` then panics (hence `Branched` in `NeverPanics`);
- `services/engine/README.md:134` says that only the last RENDERED_TOOL_RESULTS entries are rendered;
  a step of more calls than that is shown whole (`llm_output.rs:94` and its test), which is
  what `LatestStepSeen` states;
- an Interrupt is not atomic, as `docs/superpowers/specs/2026-09-15-engine-design.md:287` has
  it: a tick that commits between its two reads has its step overwritten (`control.rs:45`,
  `ControlState` then `ControlStep`);
- `docs/architecture.md:55` says that a reply is checked before the person sees it; one
  beside an empty tool call, or JSON that is no string, is not (`llm.rs:812`,
  `NeedsCheck`), which is why `PlainRepliesHoldUp` is about plain replies;
- `services/engine/README.md:161` says that every decision is charged; the one over a
  composed argument is not (`llm.rs:772`, hence the allowance in `UsageAccounted`);
- `services/chat/README.md:200` says that storing with ON CONFLICT makes a replay idempotent;
  the key holds the clamped time, so an event replayed after the month has ended is stored
  twice (`event_log.rs`, `Stored`, hence "within a month" in `StreamSkipsNothing`);
- `services/chat/README.md:211` promises a subscriber what happens between its replay and
  its live tail; an event that is told first and stored later is in neither for a
  subscription that opens in between (`topic_events.rs:27`), so only events that have no
  other record are promised (`OnlyLoggedNeverMissed`);
- a user's `StreamEvents` spans executions, whose ids commit in any order, and may pass over
  one that commits late; the primary key that protects an execution's own stream does not help there;
- the crawler's `jobs.rs:1` speaks of handing over changed pages; every stored page is
  handed over, which is what heals a failed hand-off (`HandsOff`);
- two crawls of one page at a time may leave the union of both outbound links, although
  `graph.rs:1` says that they are one crawl's;
- the knowledge base's README gives 1,200, 150 and 300 characters for chunks where the code
  has 300, 60 and 120 (`chunk.rs`);
- `rag_graph` stores what it retrieves under a key the LLM node does not read
  (`builder.rs:111`), so its answers are written without it;
- the charged budget is not written back to the row (`tick.rs:132`), so it bounds one
  super-step and not an execution;
- a FanOut over an empty array opens a barrier that nothing ever fills, and its
  execution stays Ready for ever (`step.rs:140`);
- an Interrupt revives an execution that the sweep has selected, and the sweep then
  deletes it live (`sweep.rs:24`).

Of the same family, and not stated by a document, are: a Resume that overwrites a Cancel which committed
after its check (`control.rs:65`); a tick superseded by a claim of the same process,
whose owner string is the same (`main.rs:340`); an Interrupt of a finished execution,
which makes it Ready with nothing to run (`control.rs:45`); a branch that returns
null, which a barrier takes for one that has not reported (`step.rs:235`); a finish
or promotion that fails once and leaves its slot or its queue stranded until another
finish or a restart (`topic_watcher.rs:133`); carried records that have gone stale and are shown
beside a fresh lookup (`llm.rs:338`); an execution started by a topic whose transaction
then fails (`topic_manager.rs:143`); a review that writes a status over a later one
(tool `service.rs:338`); declarative tools that stay active when their row leaves the
file (`declarative_seed.rs:92`); a completion whose caller goes away and takes the audit row
with it (llm-router `service.rs:61`); a job that stays running until the next start when its
last status write fails; a page that becomes empty and keeps its old document, and a change of
title alone that is skipped (`ingest.rs:35`); overlapping crawls that leave the older version in the
knowledge base until the next one; a logout whose delete fails and leaves the session
alive without its cookie (`web.rs:112`).

## Plan

1. Engine core, its queue, the super-step, chat topics and turns, the executors (done).
2. The event log and its relay, intent routing, schedules, the tool service, the llm-router,
   the crawler and the knowledge base, the gateway, the lookup algorithms (done).
3. Proofs of every safety property of the runs outside `Retrieval` (done).
4. Left: proofs about `Retrieval`, with its folds as recursive functions; the composition of
   `ChatTopics` with `Engine` (what chat's stale Interrupt does to a finished execution); a
   user's stream over several executions.

Questions that fit one instance are asked in one run, so each stays within minutes.

## Not modelled

- Building vendor requests (`body.rs`, `wire.rs`), protobuf and JSON formats beyond what the
  statuses and readers keep, prompts, wording, HTML parsing and text extraction, embeddings, enrichment
  and the scores computed in SQL: data that no property here tells apart.
- Graph registration and reads guarded by ownership in the engine: single statements.
- Schema set-up: DDL at start, without state of its own.
- `engine-core/src/replay.rs`: a pure fold for debugging that no service calls.
- The front end, the offline evaluation tool (`golden`) and the native inference servers:
  presentation, tooling and numeric code without concurrent state of this repository's own.
- Test fakes and fixtures.
