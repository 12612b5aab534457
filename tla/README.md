# Ex-Otogi: a TLA+ verification development

Ex-Otogi is a Go framework for chat bots: platform drivers (Telegram, Discord)
translate what their platform sends into neutral events, a kernel fans the events
out over an asynchronous bus, and modules (chat replies, memory, an event cache,
games, small commands) react to them.  This directory holds TLA+ models of the
parts whose correctness depends on interleavings, failures and timing, the TLC
configurations that check them on small instances, and TLAPS proofs that hold for
every instance.

Paths below are relative to the repository's root.  Line numbers are those of the
modelled commit; `PROJECT.json` names, for every definition, the lines it stands for.

## How to run

    tlc -workers 2 -config bus_shutdown.cfg MCEventBus   # any row of "Runs" below
    tlapm EventBusProofs.tla                             # any module named …Proofs

## 1. The system: an inventory

Sizes are non-test lines of Go.

### Core: the kernel (`internal/kernel`, 3113 lines)

**Event bus** (`event_bus.go`).
State: the subscription map under an `RWMutex`, a `closed` flag, and for each
subscription a bounded channel, an atomic `closed` flag, a context, its workers and
a `done` channel.
Operations: `Publish` (snapshot under the read lock, then enqueue to each match
according to `drop_newest`, `drop_oldest` or `block`), `Subscribe`,
`Subscription.Close`, `Close`, and the worker loop.
Hard: publishers work on a snapshot while subscriptions close; `select`s with several
ready cases; handlers that publish from inside a handler; shutdown that drains, times
out, or meets another shutdown.
Correct when: no copy of an event is lost, doubled or silently rejected; one
publisher's events stay in order; a closed subscription goes quiet and keeps
nothing it accepted in time; publishing and closing terminate.

**Kernel lifecycle** (`kernel.go`, `runtime.go`, `command_sink.go`,
`service_registry.go`, `options.go`).
State: modules and their registration order, command ownership, services, drivers,
the `running` flag, per-module records of subscriptions.
Operations: `RegisterModule` (claim, commands, services, hook, declared handlers,
rollback), `Run` (start modules, start drivers, wait, shut down).
Hard: a registration that fails half way, overlapping registrations, driver failure
against cancellation, waits that give up.
Correct when: a rollback takes back exactly what its registration did; handlers run
only between `OnStart` and `OnShutdown`; `Run`'s result tells the truth; `Run` ends.

**Capability negotiation and routing** (`pkg/otogi/core/capability.go`,
`runtime.go`, `options.go`).
State: a module's capabilities, its route, its subscriptions.
Operations: `InterestSet.Matches` and `Allows`, `ModuleRuntime.Subscribe`, binding
of declared handlers.
Hard: two different readings of an empty list and of a wildcard; a route that
replaces what a handler declared.
Correct when: a module hears what it declared, from where it was routed, and all
of that.

**Management store** (`internal/kernel/management`, 580 lines, `trace.go`).
State: SQLite tables of events, artifacts and snapshots.  One or two statements for
each call.

### Drivers

**Commands** (`internal/kernel/command_sink.go`, `pkg/otogi/platform/command.go`) stand
between the drivers and the bus: every published message passes the chat allowlist and
may yield a second, derived event.  Hard: spellings, aliases, mentions and options bound
from the same words; what passes outside the allowlist.

**Telegram** (`internal/driver/telegram`, 7203 lines).  A goroutine of the client
library pushes updates into a bounded channel; `Consume` maps and publishes them;
a poller compares reaction counts; `outbound.go` sends, edits and deletes.  Hard:
closing the channel while a producer holds the read lock, polls that race updates,
a publish error that ends the driver.
**Discord** (2164 lines): the same shape, but a full channel drops the event.
**Tag bridge and sink routing** (`internal/driver`, 1197 lines): remembers the tags of
sent articles until the platform relays them; chooses the driver that serves a sink.
**Management HTTP** (386 lines): a server with two shutdown paths around one
`sync.Once`.

### Modules

**Memory** (`modules/memory`, 4282 lines).
State: one window of articles for each scope, two workers, records in the semantic
store.
Operations: `Enqueue`, the triggers (size, runes, age, quiet), `flushReady`,
`drainAll`, `processWindow` (look up, ask the model, apply actions one by one),
`runConsolidationCycle`, `OnStart`, `OnShutdown`.
Hard: both workers and the handlers share windows and records; an extraction works
on a snapshot of the store; shutdown drains what two workers may hold.
Correct when: an article taken into a window is formed, or reported; a deleted
record stays deleted; a ready window is flushed.

**Event cache** (`modules/eventcache`, 1910 lines).
State: an LRU list with deadlines, a history and a projection for each article, one
ordered stream for each thread.
Operations: handling of the five event kinds, in two critical sections each;
`Get`, `GetReplied…`, `GetBatch`, `ListConversationContextBefore`, in a read and a
write section; eviction and expiry; `OnShutdown`.
Hard: two workers between the two sections, readers that reconcile late, articles
that arrive out of order or move to another thread.
Correct when: list, maps and streams describe one cache; context queries are
answered in creation order; the projection is what the history amounts to.

**Duel** (`modules/duel`, 1755 lines).
State: one game for each conversation, a reaper.
Operations: open a lobby or challenge a player, join, set the maximum, start, cancel,
hit, stand; expiry on the next event or by the reaper.
Hard: deadlines against moves, seats and capacity, who loses a tie, a bust, a
timeout.
Correct when: seats are respected, a running game waits for somebody, verdicts are
fair, late moves do not count.

**Chat replies** (`modules/llmchat`, 4919 lines).
State: nothing between requests; during one, the placeholder message, what was streamed,
what is shown, a request context inside a handler context.
Operations: find the agent a message is for; choose messages, quotes and images within a
budget; placeholder, stream, paced edits, tool rounds, retries, last edit.
Hard: what may be retried after part of an answer is visible, edits of unknown outcome,
two deadlines, budgets that depend on the counts they change.
Correct when: an answer that was seen stays, nobody is left with a placeholder, every
request ends, the model is told the truth about its context and its own calls.

**Sleep** (737): a user restricts themselves and gets a code that ends it.  Hard: each
of the three remote calls may fail, and the code is the only way back.
**Semantic store** (1065): records in SQLite with embeddings.
**help** (253), **nbnhhsh** (714), **quotehelper** (390), **whoami** (179), **pingpong**
(110): one answer to one command.  **llmruntime** (187): builds the providers.

### Libraries, assembly, tools

`pkg/otogi` (contracts, 4493 lines in four packages), `pkg/llm` (4935): the
configuration of agents and providers, validated in one place and used in five, and two
provider clients that turn a stream into chunks and turns into requests.  `cmd/bot`
(assembly, 829): from the configuration file to registered modules, routes and drivers, `internal/sqlc` (generated,
718), `cmd/memoryeval`, `scripts/quality`, and the Vue control panel `web/`.

### How the parts interact

* A driver's goroutine calls `Kernel`'s dispatcher, which calls `EventBus.Publish`;
  the bus calls module handlers on its own workers, each under a handler timeout.
* A handler may call back into the kernel: publish, subscribe, resolve a service
  (the event cache, the semantic store, the sink dispatcher, the model providers).
* Modules share state only through services; the event cache is written by its own
  subscription and read by other modules' handlers.
* `Run` gives each hook a context with a timeout that is cancelled when the hook
  returns (`kernel.go:300-304`).  A worker that is started with that context ends
  with it (see *Findings*).
* Shutdown goes drivers, then for each module in reverse order its subscriptions and
  its `OnShutdown`, then the bus; each step has a timeout and the next one goes on
  after it.

## 2. The modules

| Module | Stands for | A step is |
|---|---|---|
| `EventDelivery` | what the bus promises about one copy of an event | one change of a copy's state |
| `EventBus` | `event_bus.go`, all of it | what one goroutine does between two points where another can get in: a critical section, an atomic operation, a channel operation, a `select` |
| `Kernel` | `RegisterModule` with rollback, `Run`, shutdown | one step of a registration or of `Run`; a hook is one step |
| `Negotiation` | `Matches`, `Allows`, imperative and declared subscriptions, routes, event validity | one subscription, one published event |
| `MemoryFormation` | windows, triggers, both workers, the apply loop, hooks | one critical section, one store call or one provider call |
| `EventCache` | the whole cache | one critical section of the module's mutex |
| `Duel` | the whole game | one handler or one sweep (both hold the module's mutex) |
| `DriverIngest` | how a Telegram or Discord driver takes updates in, and how it ends | one channel operation, critical section, publish or callback |
| `UpdateMapping` | what one platform update becomes, to the validated event | none: a function of the update |
| `TelegramReactions` | what the Telegram mapper remembers of articles, and polls | the mapping of one update, one poll |
| `Outbound` | messages out through the tag bridge and back, and the cache's view of them | one remote call, one bridge call, one event handled |
| `Sleep` | both commands of the sleep module | one remote call of a handler |
| `ManagementHttp` | the life of the management server | one step of `Start`, `Shutdown` or `Serve` |
| `ChatReply` | one chat request from placeholder to answer | one chunk, call, edit or timer |
| `ChatContext` | trigger, budgeted context, quotes, images | none: functions of a conversation |
| `ProviderTurns` | streams to chunks to calls to the next request, for both providers | none: functions of the responses |
| `Retries` | errors, their classification, pacing and attempts | none: functions of the errors met |
| `Commands` | parsing, registering, binding of commands; the allowlist | none: functions of a text |
| `Assembly` | configuration file, drivers, services, routes, sinks | none: functions of a file |
| `LlmConfig` | `LoadFile` and everything that reads what it accepted | none: functions of a file |
| `Decisions` | the inputs the pure modules look at, and what is said of them | taking another input |
| `MC…` | the constants of the runs; `MCDriverIngest`, `MCPlatforms` and `MCTransformations` put several modules side by side | |
| `…Proofs` | what TLAPS proves: `EventBus`; `Kernel` (and `Negotiation`); `MemoryFormation`; `Conversation` (`EventCache`, `ChatReply`); `Platform` (`DriverIngest`, `TelegramReactions`, `Outbound`); `Moderation` (`Duel`, `Sleep`); `Decision` (`Decisions` and the pure modules below it) | |
| `FoldLaws` | what a fold over a sequence passes through; used by two of the proof modules | |

How state and actions correspond to the code:

* **EventBus.**  `queue`, `subClosed` and `cancelled` are the channel, the atomic flag
  and the context of a `busSubscription`; `phase` says where it stands with respect
  to `EventBus.subscriptions`.  A publisher's `ppc`, `ptodo`, `pcur`, `ptries` are the
  control point and locals of `Publish` and `enqueueDropOldest`; `cpc`, `ctodo`, `ccur`
  those of `Close`, `unsubscribe` and `shutdown`.  The bus iterates over Go maps, so
  the order of subscriptions is a choice.  `SendAccept` and `SendEvict` are the two
  cases of one `select` and may both be enabled, as in Go.  `offered`, `delivered`,
  `reported`, `evicted`, `late` and `stopped` are history variables.  A panic, an
  error and a normal return of a handler are one outcome because `runSafely` makes them
  one.
* **Kernel.**  `regPc` is how far each `RegisterModule` is: `Claim` is what happens under
  `Kernel.mu`, `RegisterCommands` the command map, `HookProvides`, `Subscribe` and `HookReturns`
  what `OnRegister` does, which fails where a service is taken; then the declared handlers.
  `rollbackModuleRegistration` takes the record's subscriptions first and closes them one by
  one (`left`, `closing`), then the commands, then the record.  `run[r]`
  holds the locals of `Run`: its control point, its own copy of the order of modules, the error
  channel's one slot, the error the `select` received, whether shutdown met an error.
  `RegisterModule` never looks at `running`, so a registration may overlap a `Run` anywhere, and its
  module be started by it or not; `ready` remembers which were registered when a `Run` began.  A rollback and a
  shutdown may want the same subscription: who takes the record's list closes it.  A
  subscription is reduced to one queued event and one worker; `EventBus` has the detail.
* **Negotiation.**  A module is a record of what it declares, asks for and is routed to;
  an interest set is a record of sets, the five `Require…` flags being one set.  An
  empty set restricts nothing in `Matches`; `Allows` compares element by element, as the
  code does.
* **MemoryFormation.**  `window` is `articleWindow` (its articles, first and last
  arrival), `taken` what `Ready` or `DrainAll` handed to the worker, `job` the
  extraction that each worker is in.  A record is the deadline of its `valid_until`.
  `straggler` says that a handler outlived the close of its subscription, which the kernel
  gives up waiting for: it may deliver during `OnShutdown` and after it.
* **EventCache.**  `cache` is what `mu` guards: the deadlines, the LRU list, the
  projections, the histories, the streams with their locations, the arrival counter.
  `worker` says between which two sections each worker is; `reader` what a reader has
  seen and will reconcile.
* **DriverIngest.**  `chan` and `closed` are `GotdUpdateChannel`; a producer's `ppc` says
  whether it waits for the read lock or holds it while it sends.  `cpc`, `item`, `todo`,
  `err` are `Consume`'s.  `kind` chooses between Telegram's blocking callback and
  Discord's, which drops.  `Yields` gives what each update becomes (`UpdateMapping` has the
  detail): events, nothing, or an error.  `Connect` is all that comes before the loop: a client
  that is connected, or refused by an error, a cancellation or a deadline of its own, as the
  sign-in's (`telegram/runtime.go:321`), which `Start` takes for a quiet end; `expired` remembers
  the latter.
* **UpdateMapping.**  the `Map…` operators and `Decodes` follow the mappers and decoders;
  identifiers are numbers, texts sequences of the UTF-16 lengths of their runes, because
  the conversion of entity offsets is the point.
* **TelegramReactions.**  `counts`, `snap`, `watches`, `peer` are the mapper's caches;
  `server` and `inbox` the platform; `seen` is what a reader of the events adds up.
* **Outbound.**  `entries` is the bridge's LRU of pending tags (newest last), `opc` where a
  sender's call is, `echoes`, `hand` and `busq` the way of an event from the platform to
  the cache, `cached` its projection and what the article's history ends with.  An event whose
  id is the last one's changes nothing there (`isDuplicateEventLocked`): `oneId` says that all
  echoes of a message have one id, as on Discord; otherwise two echoes of one kind may have the
  same.  `ended`: the bus refused an event, which ends the driver.
* **Sleep.**  `call[h]` holds the locals of a handler; a code is what its payload says.
  `RestrictedUntil` is what a platform makes of a date: Discord's dispatcher turns one that has
  passed into a second from now and clamps a far one; Telegram (external) takes one that is
  not half a minute ahead for none, so that the restriction has no end.
* **ManagementHttp.**  `once` is the `sync.Once`, free, used, or held by a caller; `stored`
  whether `Start` has stored the server; `wasted` that the once was used before.
* **ChatReply.**  `progress` are the counters of a stream and of the attempts, `shown` the
  text of the placeholder message, `payloads` what is being edited into it; `reqDone` and
  `ctxDone` are the two contexts.
* **ChatContext, ProviderTurns, Retries, Commands, Assembly, LlmConfig** have no state: an
  operator is a function of the code or a group of them, in the order of the code, and
  loops are folds or recursive functions.  Each ends with the statements about it.
  `Decisions` says what form an input has (`InputsAssumption`), takes one after another
  (`scene` says of which kind `input` is), and states what is to hold of whatever is taken.
* **Duel.**  `game` is `gameState`; `over` is the conclusion the last step reached, which
  the code turns into a board and mutes.  A deck is a sequence of ranks.

## 3. The runs

| Run | Question | Bounds, and why they are enough | States |
|---|---|---|---|
| `bus_fanout` | Is every copy in exactly one place, in order, and does the bus implement `EventDelivery`? | two publishers, three events, a `drop_oldest` queue of one and a `drop_newest` queue of two, one subscription made while publishing goes on: queues fill, evict, give up and refuse | 28 k |
| `bus_shutdown` | Do `Close`, `Unsubscribe`, `Subscribe` and publishers fit together? | two closing calls, a subscription with two workers, one with one, a nested publish, queues of one | 268 k |
| `bus_live` | Does every publish return and every queued event get taken? | two `block` subscriptions whose handlers publish into each other's full queue, one event whose handler never returns | 54 k |
| `kernel` | Is a registration all or nothing, do handlers run within their module's life, does `Run` end with a true result? | a behaviour registers three modules (two with one name, two wanting one command, one requiring a service another provides, failures at each step); or runs two `Run` calls with two modules, two drivers that may end, fail in either way or hang, and a handler that may not end; or registers the two modules of one name and one service, with failures at each step, from before one `Run` to after it (with one driver that can fail, no cancellation, one module's events, and a shutdown of which only closes fail) | 512 k |
| `memory_formation` | Is any article lost, any deleted record revived? | one scope, two articles (one fills a window by itself), one record, extractions of one action, three ticks: a window can become ready by each trigger and both workers can be in the middle of one at shutdown, with a handler that may still deliver | 5.4 M |
| `memory_hook_ends` | Is a ready window flushed? | two articles, no record | violated |
| `cache_workers` | Is the cache one cache under two workers and a reader? | three articles for two places, four feeds (late, moved, redelivered, retracted), three batches and five queries, a time to live of two in three ticks; pools of one and of two workers | 589 k |
| `duel_play` | Are seats, verdicts and deadlines right? | three players and a bot, limits two and three, two decks with aces, pairs, court cards and too few cards, one tick for a lobby and one for a game | 267 k |
| `driver_ingest` | Do updates arrive in order, does a driver end, does its end tell the truth, does the management server stop? | a client that connects or is refused; two producers with three batches of four items (one with two events, one with none, one that does not decode), a channel of two, one poll that is empty, yields an event or fails; or the server with a shutdown at any moment, a request and a failure | 96 k |
| `platforms` | Are tags kept and the cache up to date, is there always a way back from a restriction, do reaction events add up? | two senders, a message of two parts edited twice and one of one part, one pending entry, echoes with one id or with ids that may repeat; one user, one chat, two handlers, a clamp shorter than the longest restriction, six instants of half a minute, so that a restriction can be made after its code has expired; one article, two emojis up to two, four changes with two on the way | 3.7 M |
| `chat_reply` | Does what was answered stay, does the placeholder go, does every request end? | two attempts, two tries of the last edit, two tool rounds, three chunks of text, thinking or calls in an attempt, tools | 455 k |
| `transformations` | Is what is decided from one input right? | 183 modules (five lists of handlers, three own and three default routes, filters allowed and refused in each dimension) with seven events; 62 k inputs of the pure modules, below | 65 k |

The inputs of `transformations`: updates of every class, with two people, a group and a
channel, missing and repeated identifiers, entities over runes of one and two units;
invocations of up to four tokens over two specs; texts inside and outside an allowlist;
configuration files and agents' files that are accepted, with every optional part present,
missing or at its limit; threads of up to three messages of sizes around the budget, and
one of fourteen, where the counts change their number of digits; up to four stream events,
and every order of the six of a turn with two calls, followed by further turns; up to two
errors of an edit and one repeated eleven to thirteen times, with much, little and no time
left; every code and status of a provider, with and without a hint.

`driver_ingest`, `platforms` and `transformations` put modules that share no state side by
side: a behaviour chooses one of them at the start (`scene`).  `kernel` does so with its three
kinds of behaviour.

"States" are distinct states found by TLC.  Deadlock is not checked where the system
may really stop: after a shutdown, or when drivers have nothing left to publish, and
where an input has been looked at.  Symmetry is used only in runs without liveness.

What the properties say:

* **Bus.** `CopiesConserved`: an event matched with a subscription is with its publisher,
  queued once, taken, reported or evicted, and exactly one of these.  `PublisherOrder`:
  a later event of one publisher is not taken while an earlier one is still under way.
  `DeliverySpec`: refinement of `EventDelivery`, with
  the state of a copy computed from queues and histories (`CopyState`).
  `OneShutdown`, `StoppedIsQuiet`, `CleanStopLeavesOnlyLate`: one shutdown at most, no
  handler after a shutdown that returned nil, and nothing left in its queue but what
  overtook the close.  `PublishReturns` and `QueuedIsTaken` are the liveness of the bus.
* **Kernel.** `AllOrNothing` joins the two sides of a rollback, `RegisteredIsWired` and
  `FailedLeavesNothing`, while other registrations and a `Run` overlap it: a subscription that
  a shutdown took before the rollback could is the shutdown's to close.
  `HandlersWithinLife` and `NilMeansClean` relate `Run`'s calls, handlers and results, for
  modules that were registered before a `Run`: of one registered during it the code
  promises nothing, as it may hear events without having been started.  A cancellation is a cause
  of its own in `NilMeansClean`, since the `select` may prefer it to a driver's error.  `RunEnds`
  is the liveness of `Run`.
* **Negotiation.** `NamedIsCovered`: an event a module is given is declared by it, for
  filters that say something where the capability does.  `HandlersStayOnRoute`: a declared
  handler hears its route only.
* **Memory.** `NothingLost`, `ShutdownDrains` (with no `straggler`), `DeletedStaysDeleted`.
* **Cache.** `OneCache` (list, maps and streams), `ContextIsRight` (against a definition that
  chooses from all projections at once), `ReadersSpareLive`; `ProjectionFollows`, for one
  worker: reactions are what the history says; and, where the id of an event tells its kind
  (`IdsNameKinds`, see *Findings*), what was retracted stays gone and the text is the latest.
* **Duel.** `FairDuel` (seats, a running game waits for somebody, nobody is spared or loses
  against the rules, scores against all readings of the aces), `LateMovesDoNotCount`.
* **Drivers.** `UpdatesArriveInOrder` (of interest for Telegram: discordgo starts a goroutine
  for each update, `discord/runtime.go:76` leaves `SyncEvents` unset, so there a producer has one
  update only).  `QuietEndHasACause`: `Start` returns nil if it was cancelled, if a publish ran
  into the driver's deadline, or if a deadline of the client went by; any other end is told.
  `IngestEnds` for a driver that is connected, and `HttpEnds` for the management server.
  `TagsAreKept` and `CacheCatchesUp` follow a message from the module through bridge, platform
  and bus into the cache, with one worker.  The cache may keep an older version only of an
  edited message whose next edit would have the id its history ends with.  `ReactionsAddUp` and
  `EditsChain` are what a reader of a Telegram mapper's events may rely on.
  `AlwaysAWayBack`: a restricted user has a code that works, but for a restriction made so late
  that Discord's lasts one more second, or Telegram's for ever.
* **Chat.** `AnswerStays`, `PlaceholderIsReplaced`, `HandlerEnds`.
* **Inputs.** `UpdatesDecode` (every update decodes, entities keep their runes, who comes or
  goes is noticed), `ConfigHolds` (`Assembly`: services are there in the order of
  registration, answers go home, routes resolve; `LlmConfig`: what the file's reader
  accepts, the five other readers accept), `CommandsHold` (a command written again from what
  was understood is understood alike; the usage binds; the allowlist confines),
  `RequestsHold` (`ChatContext`: budget, status, order, quotes, images; `ProviderTurns`: calls
  keep ids, order, arguments and results through further turns), `RetriesHold` (attempts,
  pace, time, and that chat and memory agree on what passes).

Some statements hold in the same instances and have no run of their own: the type invariant
of each module with a state (`TypeOK`; `GateTypeOK`, `CacheTypeOK`, `IngestTypeOK`, `OutTypeOK`,
`SleepTypeOK`, `HttpTypeOK`), `OneRun`
(one of two `Run` calls is refused), `HandlersMissNothing` (a declared handler hears all it
declared on its route) and `IInv`, the bus's inductive invariant, which is also proved.

For each property `PROJECT.json` names a mutant: an operator beside the original that
changes it as a plausible bug would, with which TLC finds the property violated.

### Bounds by name

`MaxTime` and `Horizon` bound the clock (memory, cache, duel; sleep), `MaxActions` the actions of one
extraction, `Lag` the time a reader may wait between reading the clock and getting the
lock, `Asked` the numbers given to `--max`, `MaxEdits` the edits of a message, `MaxPolls` the ticks of the
reaction poll, `MaxCount`, `MaxChanges` and `MaxInbox` what happens at Telegram's server,
`MaxChunks` what a provider sends in one attempt.  `MaxAttempts`, `MaxEditAttempts` and
`MaxIterations` stand for constants of the code and are small in `chat_reply`; `Retries`
has the first two as they are.  Events are published at most once each and
a cache's feed is finite.  Nothing else is bounded but by the sets the configurations
give.

### Fairness

* **EventBus** (`FairSpec`): every goroutine that can run is scheduled (`WF` of the
  steps of publishers, closing calls and of `Take`); the exit of a worker whose context
  is done is strongly fair because a Go `select` picks at random among ready cases and
  so cannot choose the queue for ever.  Handlers return, since they run under a
  deadline, except for those of the events in `Endless`, who ignore it.  A timer that a
  `select` waits for may have fired whenever it looks, so waiting never lasts for ever.
  Nobody is obliged to publish, subscribe or close.
* **Kernel** (`FairSpec`): `Run`'s goroutine and the one that closes the channel of driver
  errors are scheduled, and hooks return: they are called inline, with a context that times
  out, so one that ignores it stops `Run` for good.  Drivers need not end, nor handlers.
* **MemoryFormation** (`FairSpec`): time passes, the kernel starts the module and cancels
  the hook's context, both workers are scheduled, the flush ticker fires.
* **DriverIngest** (`IngestFairSpec`): `Consume` and the producers are scheduled; its `select`
  notices a done context although updates keep coming (`SF`, as for the bus).  Nobody is
  obliged to send updates or to cancel, and connecting need not end: `telegramAuthCode`
  (`telegram/runtime.go:375`) reads the code from stdin, without a context.
* **ManagementHttp**: the two goroutines are scheduled.  A request may stay for ever.
* **ChatReply** (`FairSpec`): the handler goes on, calls that are given a context return, and
  the request's timer fires.  The provider may stay silent for ever.
* **Duel** (`FairSpec`, used by the statement about the reaper below): time passes, the
  ticker fires, the kernel starts the module and cancels the hook's context.

## 4. The proofs

All proofs hold for every value of the constants that satisfies the named assumption.

**EventBusProofs** (from `BusAssumption`).  `Inductive` proves `Spec => []IInv`, where
`IInv` is `TypeOK`, the safety properties of `bus_shutdown`, `LifecycleInv` (what the map
holds is open, and a closed bus holds nothing), and three parts that
make them inductive: `ControlInv` (what a goroutine holds at each control point: a
publisher that sends has a subscription, a worker is busy exactly when it has an event),
`ClosingInv` (what a closing call has still to shut down is off the map, and what it is
shutting down is marked closed) and `DrainedInv` (once the drain saw an empty queue, what
is in it was enqueued after the flag was set).  `OneShutdown` needs `ClosingInv`: a
subscription can be taken off the map once only, so two calls never have it both.
`CleanStopLeavesOnlyLate` needs `DrainedInv`, as the queue may be filled between the last
look and the end of the workers.  Each lemma `…Step` shows that one part is preserved,
action by action.  `TypeCorrect`, `LifecycleHolds`, `ShutdownIsExclusive`,
`StoppedStaysQuiet` and `CleanStop` follow.

Its second half is about copies, on top of `IInv`.  `CopyInductive` proves
`Spec => []CopyInv`.  `CopyInv` has three parts: `Divided` (what was offered is divided
among the publishers' hands, the queues, and the three ends), `NoRepeats` (no queue holds
an event twice) and `SentInv` (no event is published twice, and the event a publisher
works on is the last it sent; without this a copy could be in two hands, or be offered
anew after its end).  The proof has a middle layer: `StepEffect` shows that every
action has one of five effects on the places of copies, or none (`Offers`, `Rejects`,
`Accepts`, `Delivers`, `Evicts`).  From the effects alone follow `DividedStep` and
`EffectIsAllowed`, so the actions are looked at once for both
`CopiesAreConserved` (`CopiesConserved`) and `BusDelivers` (`DeliverySpec`, the refinement
of `EventDelivery`: each effect is an abstract step, no effect is a stutter).
`OrderIsKept` (`PublisherOrder`) has an inductive invariant of its own, `OrderInv`: of two
events of one publisher, the earlier is in front of the later in any queue that
holds both, and it is in no queue whose worker took the later.  What is enqueued is
the last its publisher sent (`InHandIsLast`) and what leaves a queue is its head, by a
worker or by an eviction; those are the only steps that could break it.

**KernelProofs** begins with `Negotiation` (no assumption).  `AllowsIsSound`: if a capability allows a filter
that names something wherever the capability does, then it matches every event that the
filter matches; it rests on `SourcesCompose` and `NamesCompose`, which show that wildcards
and spellings compose.  `GateHolds` is the inductive invariant (every subscription was
allowed, every delivery matched, each handler's subscription has the sources of its
route); `GivenIsDeclared` and `HandlersAreRouted` are `NamedIsCovered` and
`HandlersStayOnRoute` for every module, route and event.

Of `Kernel` (from `KernelAssumption`, for any number of modules, drivers and runs and
any overlap of registrations with one another and with runs).  `KernelIInv` is `TypeOK` and four
parts.  `RegInv`: what the maps hold has a claim behind it, under its own name; as a
rollback takes back by name, it could otherwise take what another module owns.  `SubInv` says
where a subscription is.  `Tracks`, `Held`: an open one is in its module's record or in the list
that a rollback or a shutdown took from there, and one that has left the bus is in the hands of
whoever closes it.  `OneCloser`: no two callers have it in hand, because each takes a list and
leaves an empty one.  `Wired`, `Complete`: until a shutdown begins what a module subscribed to
stays, and a registered module has all of it.  `RunInv` says what the locals of `Run` reveal of
its past, and that one `Run` at most is active.  `LifeInv` is about the modules that were
registered before a `Run` (`ready`): its copy of the order, made once, names them; they go up along it and down in
reverse (`UpOK`); while drivers may publish, one whose subscription is not closed is up
(`OpenIsUp`); an event that is queued or handled is of such a subscription, or its close timed
out (`EventsAreDue`), and then a `Run` tells or a rollback did (`LateIsTold`).  `AllOrNothing` follows
from the first two parts, `HandlersWithinLife` from `OpenIsUp` and `EventsAreDue`, `NilMeansClean` from
`RunInv`, `LateIsTold` and `NilLeavesNone`: a `Run` that returns nil has met no timeout, so every
subscription was drained before its module went down.

**MemoryFormationProofs** (from `MemoryAssumption`).  `MemIInv` is the types, `NothingLost`,
`Hands` (a worker without a job holds no article, and the flush worker holds windows only
between a scan and its end) and `Leaving` (a flush worker on its way out has emptied
every window, unless its context ended or a straggler delivers still).  The
articles of a window, of what was taken and of the jobs are three sets, and a step moves
articles from one to another: the lemmas after `MemIInv` say so, and `ArticlesAreKept`
follows.  `ShutdownLeavesNone` (`ShutdownDrains`) needs `Leaving`: the drain is the flush
worker's last look.  `DeletionIsFinal` is the action property `DeletedStaysDeleted`.

**FoldLaws.**  `FoldLeft` of the community modules is a recursive function on the sets of
indices still to be folded.  `FoldRuns` shows that it exists for sequences of any length, and
that the folds of a sequence pass through values each made of the one before and the next
element: an induction over sets of naturals that rests on the well-foundedness of their
order.  `FoldKeeps` carries a property along the fold, `FoldAppends` adds an element at the
end.  The step and the property are constants of the module, so that each use is an instance
with an operator of its own.

**ConversationProofs.**  Of `EventCache` (from `CacheAssumption`, so for any number of articles,
workers, readers and any feed): `CacheInv` says that the deadlines, the LRU list, the
projections, the histories and the streams are of the same articles, that each
stream is sorted strictly and that the locations point into the streams; and what
workers and readers hold between their sections is an event of the feed or a list of
articles.  Each section is a composition of a few operations on the cache, and a lemma for
each operation shows that it keeps this (`GetKeeps`, `ListConversationContextBeforeKeeps`, …);
evictions and reconciled reads are folds, and follow from `FoldLaws`.  `CacheTypes` and `OneCacheHolds`
(`OneCache`) follow.  `ReadersSpareLiveHolds` is the action property `ReadersSpareLive`: at the
second section of a reader only what has expired by then goes.  `ContextIsRightHolds`
(`ContextIsRight`) compares the walk back along one stream with a definition that chooses from
all projections at once: what the walk has collected is always the latest live part of the stream
it has passed (`NewestFirst`), and a sorted stream makes that the latest of all.
`ProjectionFollowsHolds` (`ProjectionFollows`) has the inductive invariant `FollowInv`: with a sole
worker, an article that nobody is handling shows what its history amounts to, and between
the worker's two sections the history is ahead of the projection by the event in
its hand.  Whatever an eviction or an expiry takes, no projection outlives its history
(`LostFollows`).

Of `ChatReply` (from `BoundsAssumption`, so for any number of attempts, rounds,
chunks and edits).  `ReplyIInv` has `PlaceholderIsReplaced` itself and `TextInv`: an answer among
the texts that the code compares (`base`, `delivered`, `shown`) belongs to an earlier round or is
not ahead of this attempt's output.  Without it `delivered = pending` could be true of a text
of a former attempt and an edit be skipped.  `SeenInv`: once an answer was seen, the
attempt is the one that showed it, and the request goes on with it, ends, or explains a
malformed tool call.  `SeenAnswerStays` and `PlaceholderGoes` follow.

**PlatformProofs.**  Of `DriverIngest` (from `IngestAssumption`: each delivery is an item of its own), for each
producer, `Ordered` says that what is published, the item in the consumer's hand, the channel
and the rest of the batch form one line in the order of `handed`, the history of what producers
handed over.  An item moves along this line by one place in each step, or leaves it; `Fresh`
(nothing is handed over twice) makes positions in `handed` unique.  `ReasonsKept` and `Causes` say why
the loop ended and that the channel turns nothing away before that.  `IngestKeepsOrder` and
`QuietEndsAreCaused` follow; the second names every way in which `Start` comes to return nil.

Of `TelegramReactions` (from `ReactionsAssumption`), `ReaderAgrees` says that
what was told of an article is what the caches have: its text always, its counts while
`exact`.  Every way to map an edit (by counts, by a guess, by the resolver, not at all) keeps
that, which is `ReactionsAreExact`; `EditsFollow` is the action property `EditsChain`.
Of `Outbound` (from `OutboundAssumption`), `Arrives` says with which version the cache will be
left: that of the last event of the message among echoes, the driver's hand and the
bus, or the cache's own.  `AllDue`: this is the version on the platform, for each part
with an echo, and for the first part of an accepted message on a platform that sends none; or
the message was edited and its echoes look alike, which stays so: what the cache
drops ends in the same id as what it keeps.  `Sending` is what makes a new echo the last
version.  `TagsInv`: once the call has remembered
the tags they stay in the bridge's list, or they are on their way with no bare creation behind
them that would take them away.  `CreatedFirst`: a message has one creation, and it is the first of
its echoes wherever these are; so when the tags overtook it, the bridge took them for
it or it has passed, and the creation that brings them is the first echo that the cache
hears, and so is not dropped.  `TagsSurvive` and `CacheFollows` are `OutIInv` when nothing is under way.

**ModerationProofs.**  Of `Duel` (from `DuelAssumption`), `DuelIInv` says that a conversation has
no game or a `ValidGame`, and that the last step's verdicts are fair.  A valid game is well-formed, has
its seats, no cards in a lobby, and, if it runs, somebody who may act.  Each operation is a
function from a game to a result; one lemma for each shows that it maps valid games to
sound results, and the steps follow from these.  That a lobby has no cards is needed where
it starts: an empty hand scores 0 (`NoCards`), so everybody may act.  A hand's score is
treated as a set of pips, so that its sum is a cardinality and needs no induction:
`RaisingAces` shows that reading the aces of a set as 11 adds ten for each, `RaisedFacts` that
the loop's exit raises one ace at most, `ScoreFacts` that no reading of the aces is better.
`DuelsAreFair` and `LateMovesAreVoid` (an action property: an expired game is ended before the
command sees it) follow.
Of `Sleep` (from `SleepAssumption`), `CodesComeFirst` (a handler that is about to
restrict has posted its code) and `CodesOutlast` (a code's minute is not before the
end of the restriction, where it has not been shifted past its date) give `WayBack`; the minutes are rounded up for the code
and down for the check (`MinutesAreOrdered`).

**DecisionProofs** (from `InputsAssumption`, the form of what platforms, providers and
the readers of files give; `CommandsAssumption`, what the registry accepts; `SpellingsAssumption`).
Nothing is remembered from one input to the next, so the invariant is that an input
is of its scene (`AlwaysLooked`) and the work is in the functions, for inputs of any length.
`ConfigIsRight` (`ConfigHolds`): whatever file is accepted, each module's services come before it,
routes and sinks resolve, and the readers of an agent's configuration accept what its file's reader
did.  `RetriesAreRight` (`RetriesHold`): the attempts at an edit are a fold over the errors
met, of which each step keeps to the number, the pace and the time left (`NextTry`); a provider's
failure that passes is tried again after the same delay in the chat and in the memory, and a final
one is not tried again for what the provider answered (`BothTryAgain`, `NobodyTriesAgain`).  `UpdatesAreDecoded` (`UpdatesDecode`): an
entity's offset in UTF-16 units is a sum over the runes before it, and converting it to runes
finds the same place again; ids made unique are unique.  `CommandsAreUnderstood` (`CommandsHold`): `ReadSo`
is the invariant of reading the words of a command one by one, that no word is lost, moved or
read twice; hence the command written again from what was bound is read alike, and the
usage in an error reply, which is such a writing, binds.

**Only model-checked:**

* liveness (`PublishReturns`, `QueuedIsTaken`, `RunEnds`, `IngestEnds`, `HttpEnds`, `HandlerEnds`),
  which needs `ENABLED`;
* `RequestsHold`: `ChatContext` has RECURSIVE operators, for which the prover has no arithmetic,
  and `ProviderTurns` compares flattened sequences of calls; both are explored over the
  inputs listed above.

## 5. Findings

The run that TLC ends with a counterexample:

* `memory_hook_ends`: the memory module starts its workers with the context of its
  `OnStart` hook (`modules/memory/module.go:203`), which the kernel cancels when the hook
  has returned (`internal/kernel/kernel.go:304`).  The flush worker ends at once, and no
  window is ever processed, periodically or at shutdown.

### Statements without a run

These are defined in the modules and TLC refutes each, as an `INVARIANT` or `PROPERTY` of
the configuration named, with the change that is given.

| Statement | Where the code differs | To reproduce |
|---|---|---|
| `EvictsOnlyWhenFull` (`event_bus.go:334`: "Queue was full; evict one oldest element") | `event_bus.go:330`: with room in a queue that is not empty both cases of the `select` are ready, and an event may be evicted although there is room | `bus_fanout.cfg` with `Policy <- AllOldest`, without symmetry, `PROPERTY EvictsOnlyWhenFull` |
| `RefusedWorkersExit` (`leak_test.go:12` asks for no goroutine left) | `event_bus.go:113`: a subscription refused by a closed bus has started its workers, and nothing cancels their context | `bus_fanout.cfg` with `SPECIFICATION FairSpec`, `Drivers = {d1}`, `DriverEvents = {e1, e2}`, `Closers = {c1}`, without symmetry |
| `MaintenanceKeepsValid` (`docs/memory-facility.md:18`: removed "only when its typed `valid_until` deadline has passed") | `consolidator.go:132`: deletes by ID what an earlier listing showed as expired, although the flush worker may have moved the deadline | `memory_formation.cfg` with `PROPERTY MaintenanceKeepsValid` |
| `StaleGameEnds` (`modules/duel/module_test.go:433`) | `modules/duel/module.go:317`: the reaper's context derives from the hook's, so it ends with `OnStart` | `duel_play.cfg` with `SPECIFICATION FairSpec`, `Decks <- OneDeck`, without symmetry |
| `ReactionsCountOnce` (`pkg/otogi/platform/event.go:165`: "the projected reaction summary derived from reaction events") | `handler.go:43`: with the default of two workers, a creation handled between the two sections of a reaction counts it from the history, and the reaction's own second section counts it again | `cache_workers.cfg` |
| `RouteConfines` (`internal/kernel/options.go:37`: "restricts inbound delivery to matching event sources") | `runtime.go:71`: a route is applied to declared handlers only; a module that subscribes in `OnRegister` (as `llmchat`, `memory` and `nbnhhsh` do) hears every source | `transformations.cfg` |
| `PartialAnswerKept` (`modules/llmchat/reliability_test.go:18`) | `streaming.go:247`: a malformed tool call returns an empty result, `answerDelivered` is lost, and `module.go:461` overwrites the partial answer | `chat_reply.cfg` |
| `FailureEnds` (`gotd_adapter.go:77`: Close "releases the update stream and unblocks stream consumers") | `gotd_adapter.go:79`: the deferred `Close` waits for the lock that a producer holds while it waits for room in the full channel | `driver_ingest.cfg` |
| `EditsReachCache` (`modules/eventcache/storage.go:34` keeps a history of all events of an article) | `storage.go:57`: an edit with the id of the echo before it is taken for a redelivery; on Discord that is any edit right after the creation, and the cache goes on to show a placeholder's text | `platforms.cfg` |
| `EveryoneHasACode` (`modules/sleep/handler.go:97`: the code is posted before the restriction) | `discord/outbound.go:374`: a date that has passed becomes a second from now, after the code's minute; Telegram keeps no date that is under half a minute ahead, and `minSleepDuration` (`handler.go:16`) is a second | `platforms.cfg` |
| `Covered` (`internal/kernel/runtime.go:95`: "covered by at least one declared capability") | `capability.go:90`: `Allows` accepts a filter whose list is empty, which `Matches` reads as "everything" | `transformations.cfg` with `Modules <- BlankModules` |

With two workers the cache also lets an edit that was taken before a retraction store its
projection after it (`modules/eventcache/handler.go:28`): the article is back until it
expires.  That is why `ProjectionFollows` is claimed for one worker.

### What the models had to be told

Places where a statement had to be weakened, because the code does otherwise.

* **Reactions.**  An edit of text and counts at once is taken for reactions and its text is
  not passed on.  A resolver that sees more than one difference, and an edit that cannot be
  read, overwrite the cached counts without an event; a guess may add a reaction although
  the counts agree (`gotd_mapper.go:599`).  `ReactionsAddUp` therefore follows what the mapper
  saw, and only while `exact`.
* **Mapping.**  A channel participant who was left or banned and is a member now yields a
  change of role, not a join.
* **Event ids.**  The cache drops an event whose id is that of the last event in the article's
  history (`modules/eventcache/storage.go:47`), as a redelivery.  An id is meant to be "a stable
  identifier for this event instance" (`pkg/otogi/platform/event.go:91`), but Discord's mapper gives
  a message's creation, its edits and its deletion the id of the message
  (`internal/driver/discord/discordgo_mapper.go:67`, `:98`, `:115`): an edit or a deletion that
  directly follows the creation is lost, and the cache goes on to show what was deleted.
  Telegram's ids name the kind and the second (`gotd_mapper.go:2568`), so the later of two edits in
  one second may be lost.  `RetractedStaysGone` and `TextIsLatest`, parts of `ProjectionFollows`, are
  claimed for ids that tell the kind (`IdsNameKinds`); in that run's feeds an id
  occurs twice only for a redelivery.  In `Outbound` ids repeat as those of the platforms do.
* **Memory.**  A panic in the flush worker is recovered and ends it for good
  (`flush_worker.go:37`); nothing it calls panics by design, and the model has no panic.
* **Outbound.**  A Discord edit changes the first part of a split message only; no event is
  made up for a deletion; an RPC that fails after it was applied leaves a visible message
  that nobody tracks.  Discord's calls do not get the context with the timeout.
* **Ends of drivers.**  A driver whose sign-in, dialling or publish runs into a deadline ends
  without an error (`driver.go:99-102`), as if it had been cancelled; one refused event ends it
  with one.
* **Registration.**  A module registered while a `Run` goes on may be left out of its copy of
  the order, and then hears events without having been started; what it subscribes to after
  the shutdown took its record's list stays open until the bus closes.
* **Commands.**  The registry takes an option name with `=` in it and the alias `-`, which no
  text can name; a token of the model has its name and its value apart, so such specs
  are outside of it.
* **Management server.**  If both shutdowns come before the server is stored, the once is used
  up and `Start` never returns: `HttpEnds` excludes `wasted`.
* **Chat context.**  Images and system prompts are outside the budget of runes; all images are
  downloaded, also those beyond the limit; a message dropped for the budget still counts as
  known, so an answer to it shows no quote.
* **Routes.**  A route's sink is validated by its id only, so one given by platform may
  resolve to no driver: `RoutesResolve` says no more than holds.
* **LLM configuration.**  Zero means the default, so an explicit
  `leading_context_messages: 0` is four; the check of budget against level reads exact keys,
  while `mergeRequestMetadata` (`context_builder.go:868`) trims them, so a key with spaces
  passes and every request of that agent fails; OpenAI's reasoning metadata and budgets above
  32 bits are refused after `LoadFile` accepted them.
* **Providers.**  A Gemini call without arguments becomes `null`, which
  `LLMToolCall.Validate` refuses, so the whole reply fails; a Gemini turn with text and calls
  delivers the text and drops the calls; an OpenAI stream that ends without
  `response.completed` is taken as complete.
* **Retries.**  A hint above ten seconds is cut to ten; an error of the platform marked
  permanent (`pkg/otogi/platform/outbound_error.go:34`, "non-retryable") is tried again up to
  twelve times (`edit_retry.go:47`); transport errors of Gemini are not retried by the chat,
  those of OpenAI are; the memory also retries what a typed failure calls final if its text
  speaks of limits (`modules/memory/llm_retry.go:103`).

## 6. What is not modelled, and why

* Inside the modelled components: the wording of boards, prompts and logs; markdown and its
  rendering into entities; management records and debug output; reply quoting in the memory
  module; tags, media and entities in the cache; a deck of 52 cards (short decks have every
  case of the rules but a long hand); media attachments, access hashes and the media locator
  of Telegram; tool schemas and sampling options of the providers; the parsing of JSON.
  Services that `OnRegister` registered survive a rollback in the code; the registry has no
  removal, so no property is stated.
* Memory retrieval and the search of the semantic store rank floating-point similarities.
* The management store is one SQL statement or transaction for each call, read only by the
  control panel; small command modules answer one command with one message;
  `internal/sqlc` is generated; `web/` is a separate application.

## 7. Plan

Done: the bus, the kernel's life, negotiation, memory formation, the event cache, the
duel; the drivers' way in and out, the tag bridge with the cache, reactions, sleep, the
management server; chat replies with their context, turns and retries; commands, assembly
and configuration.  Next, in this order:

1. Proofs about the rest: `ManagementHttp`, `ProviderTurns`, and `ChatContext` without RECURSIVE
   operators.
2. `DriverIngest` as a refinement of a bounded pipe; `ChatReply` as a refinement of a message
   that is a placeholder, then an answer or a failure.
3. Retrieval: merging and fitting of matches with an abstract similarity.
