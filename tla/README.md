# go-devkit: specifications and proofs

TLA+ modules for the parts of go-devkit whose correctness depends on the order in
which things happen: the Kafka consumer and dispatcher, database transactions,
the HTTP server and the shutdown sequence.  Each module is translated from the
Go source; `PROJECT.json` maps its definitions to lines, lists the runs, the
mutants that show each property can fail, the findings and the theorems.

    tlc -workers 2 -config Consumer.cfg MCConsumer           # one run
    tlapm ConsumerProofs.tla                                 # the proofs

## 1. Inventory

| Component | State | Operations | Hard behaviour | What makes it correct |
|---|---|---|---|---|
| `pkg/stream/consumer` | Kafka client (assigned partitions, position, open or closed), three channels of capacity 1, the loop's goroutine | `NewConfigRetry`, `Run`, the loop (select, `readMessage`, `processMessage`, retry, dead letter, commit), `ListenShutdown`, `Shutdown` | crash between processing and commit; ambiguous commit or dispatch; a partition that goes to another member of the group with a message in hand; failure of the loop racing `Shutdown`; retry time; `Shutdown` or `Run` called again | no message is lost or overtaken; the client is closed only after the loop; shutdown ends; dead letters can be read |
| `pkg/stream` messages | none | type detection, `Deserialize`, `Serialize`, `NewWithData` | re-encoding of dead letters, first recognised header wins | a dead letter decodes if its source did |
| `pkg/stream/dispatcher` | queue of the producer, one delivery channel per call | `Dispatch`, `Shutdown` | no answer from the broker, retries, a timeout for a stored message, a request that is stored after its timeout, `Shutdown` beside `Dispatch`, flush time | nil means stored; every call returns unless `Close` drops its message, which happens to late ones only; no reordering |
| `pkg/database/sql` | pool, transactions in contexts | `TransactionContext`, `Begin`, `Get`/`Select`/`Exec`, `Commit`, `Rollback` | nested calls on a full pool, panic, cancelled context, ambiguous commit, swallowed statement errors, foreign transactions | all or nothing; no return forgets a connection; calls do not wait for each other |
| `pkg/database/sql/upsert` | settings | the options, `Build` | order of placeholders and arguments, combinations of options | the statement means what the options say; built exactly when valid and with a table |
| `pkg/httpserver` lifecycle | `http.Server`, listener channel, tracer | `New`, `Run`, `Shutdown`, `ShutdownListener` | failure to bind or to accept in a goroutine, drain past the deadline, shutdown before the bind | drained before what it uses is closed; failure reaches main |
| `pkg/httpserver` request path | `responseWriter`, buffer of `http.TimeoutHandler` | `NewLogRequest`, `newErrorHandler`, `Route.Timeout` | late statuses, timeout racing the handler, panic | recorded status is the one sent; one answer |
| `pkg/httpserver` options and middlewares, with `log` and `metrics` | settings; logger and metrics client in the context of a request | `WithRoutes`, `WithMiddlewares`, `WithErrorHandler`, `Logger`, `RequestID`, `TraceID`, `Metrics` | the order of options and layers, routes added before the error handler | the last error handler answers; the request log has the fields no `Logger` discards |
| `examples/stream/consumer` | main, the watcher of `ListenShutdown`, the signal channel, the dispatcher | main from `Run` to the deferred `d.Shutdown` | failure of the consumer racing a signal, order of the two shutdowns | the dispatcher outlives the loop; the process ends |
| `pkg/shutdown` | index, errors, deadline | `Graceful` | steps that fail, hang, ignore the context | every step runs; returns if they honour the context |
| `pkg/cache`, `encoding`, `gen`, `httpclient`, `mapper`, `validator`, `httpservertest`, output of `log` and `metrics`, database errors | none, or one map or counter | thin functions | see section 8 | |

How they interact.  The consumer calls `Dispatch` for dead letters and relies on
its contract only: an error leaves open whether the record was stored.  It puts no
context in the way, so a retry or a dispatch that does not end holds `Shutdown`.
The process around both shuts the consumer down first and the dispatcher,
deferred, behind it, which is what the dispatcher needs: no call of `Dispatch`
beside its `Shutdown`.  The loop, the goroutine that reports the loop's failure
and the callers of `Shutdown` meet on three channels.  `httpserver.Server.Run`
hands out `Shutdown`, which is a step of `shutdown.Graceful`; the close of a
database connection, which does not look at its context, is meant to be the step
after it.  The server's goroutine reports on `ShutdownListener`, and the
application turns that into an interrupt.  Transactions travel in contexts under
one key of the package.

## 2. Plan

In order of importance; all but the last item are done.

1. `Message`, `Consumer`, `AtLeastOnce`, `ConsumerProofs`: the consumer, one member
   of a group, and what the group promises.
2. `Dispatcher`, `Publisher`, `DispatcherProofs`: the dispatcher and the contract
   the consumer relies on.
3. `Transaction`, `TransactionProofs`: transactions over a bounded pool.
4. `Graceful`, `GracefulProofs`: the shutdown sequence.
5. `Service`, `ServiceProofs`, composing `Graceful` with the server's lifecycle and
   main; `Middleware`, `Request`, `RequestProofs`: the options of a server and one
   request through its layers.
6. `Upsert`, `UpsertProofs`: options, validation, statement.
7. `Worker`, `WorkerProofs`: `Consumer` beside the dispatcher's life in one process,
   in the order in which the consumer example stops them.
8. Left: two connections under the one transaction key, and a `Transaction`
   managed by hand with `Begin`; the item `cache.Repository.Get` returns beside a
   decoding error.

## 3. Modules

### Message
The content type of a message is the first header with the key
`ContentTypeHeaderKey` and a value the package recognises.  `Deserializes`,
`NewWithData`, `NewTextMessage` and `Produced` say what the conversions do to
classes of payloads: `JSONPayloads` are those that fit the handler's type,
`Remarshal` what marshalling them again yields (unknown fields are lost), and
`ContentIsString` whether the handler's type is a string, the only type a text
message decodes into.

### Consumer
`committed` and `dlt` are on the broker and survive `Restart`; `handled` and
`skipped` are history.  `loop[r]` is the program counter of the r-th call of
`Run`, with `inHand`, `lastErr` and `elapsed` for its message; `started`,
`finished` and `listener` are the fill of the three channels; `reporter[r]` is
`startingShutdownInternally` and `caller[c]` a call of the returned `Shutdown`.
The select prefers `shutdownStarted`, as its `default` does.  `ConfigRetry` is
folded from the options of `NewConfigRetry`; an error is the set of sentinels
`errors.Is` finds in it.  Every call of the client, handler or dispatcher has its
outcomes as actions: `ReadTimesOut` and `ReadFails`, `HandleFails` with any error,
`RetryFails` with time passing, `DispatchFails` that may have stored the record,
`CommitFails` that may have stored the offset.  `LoopFails` is the shared error
path: the loop ends and the reporter starts.

The process is one member of a group.  `Subscribe` is given no rebalance
callback, so `Assign` and `Revoke` happen between any two steps, also with a
message in hand: `assigned` and `position` are what the client then has.  The
others run the same program and are there by its guarantee: `PeerResolves` takes
a message up after the ones before it, `PeerCommits` puts the offset behind
resolved messages, perhaps late, so that it can go back.

`AtLeastOnce` is the promise of a group: a message is resolved after the ones
before it, any number of times, and an offset is put only where everything below
is resolved.  `Consumer` implements it with `offset <- committed` and
`resolved <- Resolved`, that is handled, skipped or dead-lettered.

### Worker
`Worker` extends `Consumer` with the process of `examples/stream/consumer/main.go`:
where `main` and the watcher of `ListenShutdown` stand, the signal channel of
capacity 1, and whether the dispatcher is open, flushing or closed.  Each action
that moves the consumer is a conjunction with the action of that name.
`RunsConsumer` says that the process behaves as `Consumer` does, fairness included:
main does not exit under a goroutine that still has work.

### Dispatcher
`call[c]` is a call of `Dispatch`, `report[c]` its delivery channel; `held`,
`age`, `order` and `messageTimeoutMs`, any of `MessageTimeouts`, are the producer;
`topic` is the partition's log; `shutdown` and `flushed` are `Shutdown`, from the
flush through the close to the return, and `beside` the messages accepted in that
time.  `DispatchRefused` is a failing `Serialize` or `Produce`.  `request[c]` is on
the wire: `Send` puts it there, at most `defaultMaxInFlight` of them and for the
oldest messages, `Store` takes it to the log, `Lose` breaks the connection, and
`Acknowledge` and `Reject` are the answers.  `Expire` and `Close` take a message
from the producer and leave its request where it is, so it may be stored after its
timeout was reported, and after `Shutdown`.  `DeliveryError` is the switch of
dispatcher.go:79-104.  `Dropped(c)` is a call that waits for a report `Close` has
discarded.  `Publisher` is the contract without producer, broker or clock.

### Transaction
`depth[w]` is the number of calls of `TransactionContext` on a worker's stack; a
call is known by worker and depth.  `tx` is the transaction of a call on the
server, `done` the statements that took effect in it, `refused` the calls of which
the server refused one, `visible` what other sessions see.  A statement that only
fails on the client (`sql.ErrNoRows`, a scan) is no refusal: the transaction goes
on and can be committed.  Ways for a call to end: `BeginFails`, `FnSucceeds`
(committed, unknown, or failed), `FnFails`, `Panic` (which unwinds all calls and
rolls back nothing).  Under a context that is done, `Commit` returns its error and
leaves transaction and connection to the goroutine database/sql starts for
`BeginTxx(ctx)`: `RollbackOnCancel` takes the transaction ("ending"), from then on
`Rollback` finds nothing to do, and `RolledBack` gives the connection back.
`Leaked(c)` is one nobody will give back: its call is over and its context is not
done.
`StatementInside` and `StatementOnPool` are the two branches of `Get`, `Select`
and `Exec`.  The second takes a connection of its own, and waits for one
(`AskPool`, `asking`) as `Begin` does when the pool is full.  `MaxDepth`,
`MaxStatements`, `MayPanic` and `MayCancel` are given for each worker.
`HeldWhileWaiting` are the calls that can hold a connection while their worker
waits for another one, and `PoolSuffices` says that the pool is larger than that.

### Graceful
One call, step by step, with a clock.  `Honours` are the steps that return once
the context is done.

### Service
`Service` extends `Graceful` with two steps, `server.Shutdown` and `conn.Close`,
beside the goroutine of `Run` (`serve`), the watcher of main, the signal channel,
the requests and the database.  Only the first step honours the context: `Close`
takes none (connection.go:154-156), and the documentation wraps it in a function
that drops the one it is given (shutdown/doc.go:11).  `ListenAndServe` fails at
the bind (`BindFails`) or later (`AcceptFails`).  Each step of main that belongs
to `Graceful` is a conjunction with the action of that name, so the composition
cannot drift from it.  main passes `context.Background`, so `Cancel` is the one
action of `Graceful` that never happens here; the proofs about `Graceful` include
it.

### Request
First `options`: `WithMiddlewares`, `WithErrorHandler` and `WithRoutes` are given to
`New` in any order, each changing `settings` as server_options.go does; `Arrive` is
a request the router takes to one of the routes.  Then the layers of that route:
the response of net/http (`rw.sent`, `rw.body`), the `responseWriter` around it
(`rw.status`, `rw.wroteHeader`), the buffer of `http.TimeoutHandler`, the error
handler and the handler.  `responseWriter` has only `WriteHeader`; `Write` reaches
the layer below without it.  `Informational` are the statuses net/http sends ahead of
the final one, all below 200 but 101.

### Middleware
The layers in front of `NewLogRequest`, as a sequence, outermost first, folded from
the lists of the server and of the route the way `Middlewares` wraps them, and
what each does to the logger and to the metrics client in the context.  `Logger`
puts its own in the place of the one before, fields included.  `Request` extends
the module.

### Upsert
Options change `settings`; `Build` fixes the outcome, the error of `validate` or else
that of `ToSql`, which refuses a statement without a table.  `Inserted` and `Updated`
read a statement back as PostgreSQL would, placeholder by placeholder, and are
compared with the maps the options were given.

MC modules only extend these; `MCConsumer` also gives messages, headers and retry
options, `MCRequest` routes and lists of middlewares.

## 4. Runs

| Run | Instance | Shows |
|---|---|---|
| Consumer | two partitions, three messages that are handled or dead-lettered, undecodable, or skipped, two callers, 1 crash, other members | `TypeOK`, `NoMessageLost`, `InOrder`, `DrainedBeforeClose`, `ShutdownProceeds`, `DeadLettersDecode`, `ImplementsAtLeastOnce`, `ShutdownCloses`, `MessageSettles` |
| Worker | one partition of JSON, text and bare messages, content type string, signals, 1 crash | `DispatcherOutlivesLoop`, `WorkerEnds`, `RunsConsumer` |
| Dispatcher | two calls, also beside `Shutdown`, each stored up to twice, a message timeout below, at and above that of the flush, a broker that need not answer | `TypeOK`, `DroppedOnlyLate`, `NeverReordered`, `DispatchReturns`, `KeepsContract` |
| Transaction | three workers: one nests two levels, may panic and be cancelled, one runs nothing, one has a foreign transaction; three connections | `TypeOK`, `AllOrNothing`, `ConnectionReturned`, `PoolServes`, `ConnectionsComeBack`, `CallsReturn` |
| Service | two requests, a deadline of two ticks, `Graceful` with two steps of which the second may overrun it | `EveryStepRuns`, `GracefulReturns` of `Graceful`; `ServiceTypeOK`, `DrainedOrLate`, `CleanExit`, `ShutdownEnds`, `ServeFailureEnds` |
| Request | up to three options, routes with and without `Timeout`, any handler, up to two middlewares of the route | `TypeOK`, `RecordedUnlessLate`, `ErrorsReachClient`, `EntryCorrelated`, `LateHandlerIsSilent`, `TimeoutAnswers` |
| UpsertBuilds | two columns, two values, a table, an empty name or none, five options | `MeansTheOptions`, `BuildsWhatIsValid` |

Runs that end in a violation: what the repository says and the code does not do.

| Run | What it shows |
|---|---|
| ConsumerRetryDoc | after a retryable error every later error is retried (handler.go:27-28) |
| DispatcherFlush | with equal timeouts of message and flush, as shipped, `Shutdown` drops what it was to flush, and its `Dispatch` waits for ever (doc.go:32-33) |
| GracefulStuck | a step that ignores its context hangs `Graceful` (shutdown.go:13-15) |
| RequestBodyThenError | 500 is recorded for a response sent as 200 (server.go:280-281) |
| RequestTraceLost | a `Logger` behind `TraceID` takes the trace-id from every entry (middlewares.go:43-45, logrus.go:171-173) |

Other places where code and words differ, each seen by changing one constant of
a run or by reading one action:

- doc.go:21-22 of the consumer says a message is committed only after the handler
  returns without error.  `ProcessMessage` and `DispatchSucceeds` lead to a
  commit for skipped and dead-lettered messages too; `NoMessageLost` states what
  is kept instead.
- `Runs = {r1, r2}` in Consumer.cfg breaks `InOrder` and `NoMessageLost`, as
  two loops read one client and the one that is ahead commits past the message
  the other has in hand, and `DrainedBeforeClose`: the client is closed under one
  of them (consumer.go:25-26).
- The second of two calls of `Shutdown` never gets past `waiting`: there is one
  token in `shutdownFinished`, and the first took it (doc.go:15-16).
- handler.go:29-30 says that a retry sequence that exceeds `MaxElapsedTime` is
  abandoned to the dead letter topic; a `MaxElapsedTime` of zero is no limit to the
  backoff library.  With 0 in the `Timed` options of `MCConsumer`, `MessageSettles`
  is violated: the handler is called again for ever.
- A `Dispatch` whose message is accepted beside `Shutdown` may wait for ever,
  with no context to end it (dispatcher.go:77), where doc.go:18-19 of the
  dispatcher has it wait until the broker acknowledges or the timeout is over.
  `DispatchReturns` excepts such a call (`Dropped`), and `DroppedOnlyLate` says
  when there is one: `LateDispatch = TRUE` in DispatcherFlush.cfg with a message
  timeout below that of the flush still breaks `NothingLeftBehind`.
- With a message timeout below that of the flush and no late `Dispatch`,
  `NothingLeftBehind` does hold; nothing in the code sees to either.
- A `Transaction` of another type in the context is passed over
  (connection.go:89 against transaction.go:55-56).  `AllOrNothing` is about the
  calls whose transaction `txFromContext` finds; for the worker in `Foreign`,
  statements of a call that fails stay visible.

## 5. Bounds

- Consumer: `MaxCrashes` 1 (a crash leaves `committed`, `dlt`, `handled` and
  `skipped`, and the other members bring those to every value a second crash
  could), `MaxTick` and `MaxElapsedTime` 2, so that a sequence can end below, at and
  above its limit; `Log` holds two messages of one partition that can fail in a
  row, and a partition that interleaves.  Two callers of `Shutdown` race each
  other and the reporter.  Loops, reporters and callers keep no other counter:
  the state space is finite without further bounds.
- Worker: the consumer's bounds on one partition; main calls `Run` and `Shutdown`
  once each, so one run and one caller are all there is.  What is added, main,
  the watcher and a channel of capacity 1, is finite by itself.
- Dispatcher: `MaxStores` 2 is the smallest at which a retry stores a copy;
  two calls are what a retry can reorder.  The timeouts are small numbers of
  ticks: only their order matters, and a message timeout of 1, 2 or 3 is below, at
  and above the flush's 2.  A message timeout of 0, no limit to librdkafka, is left
  out: `Dispatch` then waits as long as the broker does not answer.
- Transaction: `MaxDepth` 2 is the smallest nesting, and `MaxStatements` 1
  lets a statement be visible without the commit of its call, or a commit without
  it.  Each worker has the one difficulty the others have not, so that two of them
  wait holding a connection while the third takes one and gives it back; a call
  after a refused statement is enough to see what it leads to.  Three connections
  are one more than `HeldWhileWaiting` has calls, the least that `PoolSuffices`
  allows: with two, TLC finds `PoolServes` violated, the nested call and the
  foreign statement both waiting for what the other holds.  The code neither
  checks nor documents this.
- Graceful and Service: time only passes inside a step, `MaxOverrun` counts it
  past the deadline for steps that ignore it, in Service for the close of the
  database.
- Request: `MaxWrites` 3 allows a status, a body and a superfluous status in any
  order; `MaxOptions` 3 a route before, between and behind two options that
  change what it is served with; the lists hold every order of a field and a
  logger, within a list and across them.
- Upsert: `MaxOptions` 5 covers every option once in every order, and repeats.

`CHECK_DEADLOCK FALSE` is set where processes end: after `Shutdown`, after
`Graceful` or after the bounded number of calls there is nothing left to do.

## 6. Fairness

Weak fairness stands for the Go scheduler: a goroutine that can go on does.  It
is given to the loop, the reporter and callers of `Shutdown`, to a waiting
`Dispatch`, to main and the watcher, and to the clock where the code sets a
deadline.  It is never given to what the code cannot force: signals, calls of
`Shutdown` or `Run`, readers of `ListenShutdown`, answers of the broker,
handlers of requests, clients.  In `Worker` it holds while the
process runs, and `Flush` is assumed to end.  In the consumer, `Handle`, `Dispatch`
and the Kafka client are assumed to return from each call, which `Dispatch` does
by the run Dispatcher as long as `Close` is not called beside it, and the run Worker
shows that it is not; a handler that hangs holds the consumer, and nothing in
the code prevents that.  In `Transaction` a worker that is in a call goes on
when it can, and the goroutine of database/sql rolls back once a context is done;
weak fairness is enough for those who wait for a connection, because there is no
end to the calls a worker could make but one to those it does make, and what is
taken comes back (`PoolServes`).

No fairness makes a context done: nothing in the code does.  A panic in `fn` under
`context.Background` keeps its connection for good, and the pool is one smaller.
`ConnectionsComeBack` and `CallsReturn` therefore say `LeaksEnd =>`: they are about
the behaviours in which no connection stays leaked, because nothing panics or the
context of what did is done some time, as net/http does with that of a request.  In
the others they promise nothing.

In `Service` the deadline ends the first step.  That `conn.Close` returns, by its
own doing, is an assumption (part of the fairness of `Main`), and `GracefulReturns`
and `ShutdownEnds` rest on it; without it the run GracefulStuck is what happens.
`AcceptFails` has no fairness, a listener need not fail.

## 7. What is proved

TLAPS proves these for every value of the constants under the named assumptions
of the modules (`ConsumerAssumption`, ...), which state types only, and where the
theorem says so under one more.

- `ConsumerProofs`: `TypeCorrect`, and under `SingleRun` (one loop per process,
  section 4 shows why it is necessary) `NothingLost`, `ProcessedInOrder`,
  `ClosedAfterDrain` and `Refines`; `DeadLettersReadable` without it.  None of
  the properties is inductive.  `IInv` adds `Cursor`: between messages everything
  below a position of the client is resolved, and with a message in hand
  everything but that message.  Positions are compared with what is resolved and
  not with `committed`, because other members move the offset at any time and a
  revoked partition starts again below the message in hand.  It also adds
  `Handshake`: a token in `shutdownFinished`, and anything a caller does after it,
  comes after the end of the loop; and `Tokens`, which accounts for the tokens of
  the three channels: there is an answer exactly when the loop has ended and no
  reporter owes one, and a caller that waits has its token on the way.  From it
  follows `ShutdownNeverLocks`: however failures and callers meet, the goroutine
  that owes the answer can go on.  This is the safety half of `ShutdownCloses`,
  which TLC checks under fairness.  One lemma per group of actions shows that a
  step preserves each part.
- `WorkerProofs`: `WorkerRunsConsumer`, initial states and every step, so that
  `WorkerLosesNothing`, `WorkerNeverLocks` and `WorkerDeadLettersReadable` follow
  from the theorems about `Consumer`; `SingleRun` is no assumption here, main
  calls `Run` once.  `WorkerTypeCorrect` is the type invariant of the module;
  `DispatcherClosedLast` needs in addition that the loop is over when main is
  behind `StopConsumer`, which is `Handshake`.
- `DispatcherProofs`: `TypeCorrect`; `ContractKept`, a refinement, from the
  invariant that a report "stored" is of a message in the log; `OrderKept` from
  the invariant that everything in the log is at most as old as what is held,
  which is where one request in flight is used; `OnlyLateDropped`, for any timeouts
  and any calls beside `Shutdown`: by `Flushing` what is held during the flush, and
  was held when it began, is at least as old as the flush, so with a shorter timeout
  it is settled before the flush is over.
- `TransactionProofs`: `TypeCorrect`, `AllOrNothingHolds` and
  `ConnectionGivenBack` for any workers, nesting, pool, panics and cancellations.
  `Stack` says that the calls up to the depth of a worker run without a result and
  that the others have one if they began; `RefusedEnds` that a transaction in
  which the server refused a statement can only end, and `EndsWithContext` that
  database/sql takes one back only under a context that is done.
  `PoolAlwaysServes` assumes `PoolSuffices`: if all connections in use were held
  by workers that wait, those would be among `HeldWhileWaiting`, fewer than the
  pool has, so one were free.
- `GracefulProofs`: `TypeCorrect` and `NoStepSkipped`, for any number of steps, from
  the invariant that the calls so far are `1..step`.
- `ServiceProofs`: `ServiceRunsGraceful`, initial states and every step, and by it
  `ServiceStepsRun`; `ServiceTypeCorrect`, where the capacity of
  both channels is a fact and no guard; `DrainedBeforeClosed` and
  `CleanExitDrained`, from `Stopped`, `Drained`, `ClosedBehind`, `ErrorLeft` and
  `NilKnown`: behind the first step no request is active, or time is up and an
  error says so.
- `UpsertProofs`: `StatementMeansTheOptions` and `BuiltWhenValid`, for any
  columns, values, names of tables and options.  `SettingsFinal` says that `Build`
  judges the settings the statement is made from; the rest is about lists.
  `SortedIsOnto`, that a finite set of columns has a sorted list and that it
  leaves none out, is shown by counting: the rank of a column is an injection into
  as many numbers.
- `RequestProofs`: `TypeCorrect`; `StatusRecorded`, from the invariant that
  recorded and sent agree and that only a body can have been sent unrecorded;
  `ErrorsAnswered`, from the invariant that `settings.errorHandler` is that of the
  last `WithErrorHandler` and that nothing is sent before the handler writes;
  `LateHandlersSilenced`, from the invariant that with a `TimeoutHandler` the
  handler has no way to the server's response, and without one it has returned;
  `EntriesCorrelated`, which leaves open what becomes of a field with a `Logger`
  behind it (RequestTraceLost shows that it is lost), from the invariant
  `Collected` that the server's middlewares are the lists of the options one
  behind the other.  That one needs what the folds of `Middleware` compute for a
  list of any length: `OrderKept` for the loop that wraps, `FieldsReached` for the
  context behind all layers.  The prover cannot instantiate the library's
  induction, so `SetInduction` states it for a set of numbers, proved by the
  pigeonhole principle; `FoldDefined` shows that the recursive function of a fold
  exists, and each fold is then followed index by index.  `StatusRecorded` excepts
  a handler that sets a status, or fails, after a body it wrote without one on a
  route without `Timeout`; RequestBodyThenError shows why.  It also assumes final
  statuses: an informational status is recorded in place of the final one.

Only model-checked: everything under liveness and fairness (`ShutdownCloses`,
`MessageSettles`, `WorkerEnds`, `DispatchReturns`, `ConnectionsComeBack`,
`CallsReturn`, `GracefulReturns`, `TimeoutAnswers`, `ShutdownEnds`,
`ServeFailureEnds`, and the fairness in `RunsConsumer`), which is beyond TLAPS.
Every invariant and action property of a run is a theorem.

## 8. Assumed or left out

External, modelled from how the code uses it: the Kafka client and broker (a
producer refuses messages when closed and drops without a report what it holds; a
message expires at its timeout, and a request for it that is on the wire may be
stored all the same; the broker handles nothing of a connection that is gone; to
the consumer a dispatch that fails may have stored the record), the backoff library
(time compared with `MaxElapsedTime`, 0 for no limit), PostgreSQL (nothing runs
after a statement the server refused; committing such a transaction fails),
database/sql (pool; a goroutine that rolls back what was begun with a context that
is done, while `Commit` and `Rollback` wait for nothing; `Close` comes back),
net/http (`Shutdown` makes `ListenAndServe` return at once and waits for requests;
the first status that is not informational wins; `TimeoutHandler` buffers; a panic
closes the connection), squirrel (columns sorted, placeholders numbered along the
text, an error without a table name).

Not modelled: what makes a group rebalance (session timeouts, heartbeats: it may
at any step); a poison message that stops the consumer at each restart, which
the code intends and nothing promises to survive; `Flush` and the other calls a
handler can make through `Unwrap` (server.go:291-296), which send a status past
`responseWriter` as `Write` does; two connections under the one
transaction key and transactions managed by hand with `Begin` (in the plan); the
DSN and `Ping`; texts of logs, errors, metrics and SQL; routing, headers and the
options of the server that set one value (`WithName`, `WithPort`,
`WithHTTPServerReadTimeout`); thin or pure packages (`cache`, `encoding`, `gen`,
`httpclient`, `mapper`, `validator`, database errors, test helpers, the output of
`log` and `metrics`): they keep no state of their own, delegate to a library in a
straight line, and have table tests.  The tracer is stopped when `ListenAndServe`
returns, so before the last request is drained; the model has that (`tracing` in
`Service`), and no text says otherwise.
