# ussd-wrapper: TLA+ models, checks and proofs

This directory models the logic of the USSD wrapper that is kept in this
repository: the USSD dialogue and its sessions in Redis, the RabbitMQ client and
queue consumers, and the start of the service with its migration. Line numbers refer
to the files under `src/`. A file name without a directory is in `controller/`
(`ussd.go`, `wallet.go`), `connections/` (`rabbitmq.go`), `queue/`
(`rabbitmq_pub_sub.go`) or `router/` (`routes.go`).

- [The system](#the-system)
- [Modules](#modules)
- [What is checked](#what-is-checked)
- [Fairness](#fairness)
- [What is proved](#what-is-proved)
- [What the code does otherwise than it says](#what-the-code-does-otherwise-than-it-says)
- [Not modelled](#not-modelled)
- [Plan](#plan)

## The system

The service is one Go process: an echo HTTP server and one goroutine per queue.
`router.Init` (router/routes.go:26-177) connects MySQL, runs the migrations,
connects Redis, makes the RabbitMQ client, starts the consumers in a goroutine,
and starts the server.

| Component | State | Operations | Talks to | Status |
|---|---|---|---|---|
| USSD session service (`ussd.go`, `models/ussd.go`) | nothing of its own; a session per dialogue in Redis, 30 minutes to live | `HandleUSSD3`, `getOrCreateSession`, `saveSession`, `processUSSDInput` | session store, menus | modelled but for two handlers, see below |
| USSD menus and wallet (`ussd.go:180-241`, `wallet.go`) | `current_menu`, and a step, an amount and a recipient in `Data` | `handleMainMenu`, `handleBalanceMenu`, `handleTransferMenu`, `handleDepositMenu`, `handleWithdrawMenu` | payment and account back ends (placeholders in the code) | modelled |
| Session store (`library/redis.go`) | keys in Redis | `GetRedisKey`, `SetRedisKeyWithExpiry`, other helpers | Redis | the two the service uses |
| RabbitMQ client (`rabbitmq.go:119-473`) | `conn`, `connected`, `reconnects`, `err`, monitor goroutines | `Publish`, `Consume`, `Reconnect`, `Connect` | broker | modelled but for the named channels |
| Queue manager (`rabbitmq_pub_sub.go`) | a worker per queue, its deliveries and the message in its hand | `InitializeQueues`, `SetupQueue`, `processDeliveries`, `RouteMessage` | RabbitMQ client, broker, handlers | modelled |
| RabbitMQ client registry (`rabbitmq.go:72-117`, `163-189`) | two globals and a mutex | `InitializeClient`, `GetClient`, `CloseClient` | startup | the calls of `Init`; nothing calls `CloseClient` |
| Startup and migrations (`routes.go:26-177`, `main.go`, `migrations/`, and golang-migrate under `vendor/`) | the schema, its version, an advisory lock | `Init`, `m.Up` | all of them | modelled |
| Database and Redis connections (`connections/database.go`, `redis.go`) | pools | `DbInstance`, `InitRedis` | startup | opening them |
| Phone numbers and formatting (`library/util.go`) | none | `ParsePhoneNumber`, ... | nobody calls them | not modelled |
| HTTP routing and middleware, tracing, logging | none | | | not modelled |
| Admin, reporting, webhook controllers | empty files | | | not modelled |

How they interact. A request reads its session from Redis, decides from it and
the last segment of the text, makes its payment, writes the session back and
replies; nothing is locked from the read to the write. Every publisher and every
worker shares one client. The client's monitor goroutines tell callers about a
lost connection through a Boolean and an unbuffered channel, neither of which
says which connection is meant. The broker gives a worker one message at a time
and takes back what it has not acknowledged. Services that start on one database
meet in MySQL: in the lock that golang-migrate takes, and in the version it records.

Which behaviours are hard, and the properties they call for:

- *Sessions.* Two requests of one dialogue interleave between the GET and the SET;
  a SET fails, or times out after it took effect; the process dies after the
  payment and before the SET; one handler calls another, with a save before and a
  save after; type assertions rely on what an earlier request stored. So: a stored
  session is always one a handler can go on with; money moves only as checked; a
  prompt pays once; only a failure leaves a dialogue in a menu it cannot leave; each
  request is answered.
- *The client.* Fields are read outside the lock they are written under; stale
  errors arrive about connections long replaced; a monitor may watch the wrong
  connection. So: a lost connection is noticed; a caller is served again;
  reconnections stop; only failures exhaust the retries.
- *The consumers.* A connection or channel is lost, a handler fails, a worker
  panics, the process dies, at any point between delivery and acknowledgement. So:
  at least once, and removed only when that has succeeded; again only for a cause;
  never by two workers at a time; the consumers come back; each message goes to its own handler.
- *The start.* MySQL commits each statement of the migration by itself; the process
  may die, and its session break, between any two of them, or go on with them when
  the process is dead; a second service starts meanwhile, and may not be given the
  lock in time, which is only logged. So: what is recorded as migrated is whole; it
  is made once; no statement fails on what it finds; a service on half a schema has
  another beside it that completes it; every start ends in a server or an exit.

`PROJECT.json` lists the hazards one by one, each at its line.

## Modules

| Module | What it is |
|---|---|
| `UssdMenu` | The menu handlers as functions of a session and an input. |
| `UssdSession` | Requests executing what the handlers decide, over Redis. Extends `UssdMenu`. |
| `RabbitClient` | The client: callers, monitors, connections. |
| `QueueManager` | The workers, which are the callers of `RabbitClient`, and the broker. Extends it. |
| `UssdDialogue` | What the sessions promise about money: asked, confirmed, paid, in this order. |
| `AtLeastOnce` | What the queue manager promises: messages are handled, perhaps often, and removed only when a handler has succeeded. |
| `Startup` | Processes that start on one database, with the MySQL sessions of their migrations. |
| `SchemaMigration` | The statements of `000001_initial_schema.up.sql`. |
| `MigratesOnce` | What the migrations promise: the schema is made once, and whole or never. |
| `MCUssdSession`, `MCRabbitClient`, `MCQueueManager`, `MCStartup` | Values of constants for TLC. |
| `UssdSessionProofs`, `UssdDialogueProofs`, `UssdMandateProofs`, `UssdBalanceProofs` | The theorems about the sessions, each module on top of the one before. |
| `RabbitClientProofs`, `QueueManagerProofs` | Those about the client and the consumers. |
| `StartupProofs`, `SchemaMigrationProofs` | Those about the start with any migration, and with that of the service. |

**UssdMenu.** A handler returns a *plan*: an optional payment, then an optional
`saveSession`, then a reply or the one further handler that is called. A session is
a record of the struct's fields and of the keys of its `Data` map; an absent key is
`None`. A typed text is abstracted to what the handlers make of it: the option it
equals, the number `ParseFloat` makes of it, its length. Numbers keep NaN and the
infinities apart, since `amount <= 0` and `amount > balance` are both false of NaN
and `json.Marshal` refuses all three. Amounts are integers, of a hundredth of a cent,
so that there are amounts below the cent, which the handlers take, and amounts that
exceed the balance by less than one. A failed type assertion, and the slice in
`getAccountInfo` (wallet.go:24) of a number that is too short, are the reply
`"panic"`. The account balance is the constant of the placeholder.

**UssdSession.** One action per access to shared state: `GetSession` (the GET),
`Process` (decide and pay), `SaveSession`/`SaveFails` (the SET), `Reply`; and
`Receive`, `Expire` and `Crash` around them. A SET that fails may have taken effect.
What json.Unmarshal does is undo json.Marshal: the branch for a session that cannot be
read (ussd.go:121-124) needs another writer of the keys, and there is none. Two of the
definitions are only for `BalanceIsTransient`: `Stranded`, that a session is in the
balance menu and no open request will move it on, and `Breaks`, that a request dies,
panics or fails to save. The property is of steps: one that strands a session is one
that breaks a request of it.
`mandate` is a history variable: how many payments the prompts of a session still
justify. Two defects would hide everything behind them (see below), so `Repaired`
may take each as repaired; the code is `Repaired = {}`, and the theorems hold for
every value.

`UssdDialogue` abstracts from all of it: `asked` is what sessions in Redis, or read by
a request that has not decided yet, ask the subscriber to authorise; `confirmed`
what those requests are about to pay; `paid` the ledger. What is asked may be
forgotten at any time (an expiry, an overwriting request), and is always something
whose amount and recipient were checked (`Acceptable`).

**RabbitClient.** A call is a sequence of small steps (`Select`, `CheckConnected`,
`Reconnect`, `ReadReconnects`, `WriteReconnects`, `Connect` or `Refuse`,
`OpenChannel`, `Declare`), one for each access to a shared field, because nothing
but `Connect` and the opening of a channel holds the lock; `c.reconnects++` is a
read and a write. `Watch` is the monitor evaluating `c.conn`, `Notice` its receipt
of the notification, which clears `c.connected`, and `Report` its arrival at the send on
`c.err`. The monitors are counted, by what they wait for. `Declare` fails on a lost
connection, and on one that is well when the broker rejects a declaration
(`Rejections`): the two look alike to a caller, who reconnects for neither. `Constructor`
says which function made the client: `NewClient` starts a monitor, and
`NewRabbitMQClient`, which the service uses, starts none and leaves `maxRetries` at
zero. The identity of a connection that nothing refers to any more is reused.

**QueueManager.** A worker's place is `at`; while it is in a call of `Consume` its
place there is `pc`. `hand` is the message it works on and `buffer` what its
deliveries channel holds, one message at the most since the prefetch count is one
(rabbitmq.go:431). Closing the deliveries may lose or keep that message: `Receive`
and `Reconsume` are both enabled then. For the broker a message is ready, unacked,
acked (the acknowledgement is on its way, and is lost if the channel is) or gone.
The handlers are placeholders that return nil; `RouteMessage` may also fail, as the
code provides for. `Panic` is the one of `SetupQueue` (line 103), which ends the
process; `Restart` starts it again, with the messages as the broker has them. A
queue is the sequence of its name's parts, and `Handler` is the chain of
comparisons, in the code's order; `BetSettlements` are the names that the comparison
of a prefix (line 220) takes, whatever they are. `succeeded` is a history variable, of
the messages a handler has returned no error for.

**Startup.** A process is at a place of `Init` (`pc`), and its MySQL session, the one
the migrations use, is there or not. The two are apart: a session breaks under a live
process (`LoseSession`, which `SessionLost` notices at its next query), and outlives
a dead one until MySQL notices (`Crash`, `SessionEnds`). A dead process's session may
still be given the lock it waited for, and go on with the migration, since the file
is sent as one query; it does not write the version, which takes a query of its own.
`version` is the table `schema_migrations`: absent, empty, or version 1 dirty or
clean. `Version` skips a dirty version as it skips a clean one: `ErrDirty` and
`ErrNoChange` are both only logged (routes.go:56-59). `WithInstance` panics where
`m.Up` logs, so `LockTimeout` and `SessionLost` have both outcomes, by their place.
`QueryFails` is the refusal of a query; a statement that cannot be applied is refused
whether or not `Failures` allows others. `fault` is a history variable.
`ensureVersionTable` looks for its table, makes it and gives back the lock in one step:
it has the lock until the end, and no process reads the version without it.

**SchemaMigration.** A statement is what it drops, makes, needs and forbids; a schema is
a set of tables, indexes and seed rows. Columns are left out.

A definition whose name ends in `Mutant` is the one after it with a plausible
mistake. No specification uses any; they show that the property they belong to
would notice that mistake in the code.

## What is checked

Runs that pass:

| Run | Instance | States | Shows |
|---|---|---|---|
| `ussd_serial` | 1 session, 1 request at a time, 16 inputs: every option, and a text on each side of every check (nothing, zero, a negative amount, the least and the largest amount and one beyond, NaN, both infinities, a number); a normal and a short number, Redis errors, crashes | 425 856 | `StoredSessionsWellFormed`, `PanicOnlyOnShortPhone`, `LedgerSound`, `NoUnmandatedPayment` (each prompt pays once, and again only after its session could not be saved), `PaysAsAskedAndConfirmed` (the sessions implement `UssdDialogue`), `BalanceIsTransient` (a session is left in the menu that shows only the main menu by nothing but a death, a panic or a failed save), `EveryRequestAnswered` |
| `ussd_race` | 1 session, 2 requests in flight, 6 inputs, Redis errors, crashes | 1 403 144 | `NoUnmandatedPayment` for two requests that read the same prompt: one payment each and no more; `StoredSessionsWellFormed`, `PaysAsAskedAndConfirmed` and `BalanceIsTransient` when reads are stale |
| `client_shared` | 2 callers, 2 losses, `NewClient` | 943 000, up to the names of connections and callers | `LossIsNoticed`: with every interleaving of the unlocked fields, a lost connection that is taken for a live one has a monitor |
| `client_served` | 2 callers, a loss, a refused dial and a rejected declaration | 35 862 | `AlwaysServedAgain`, `ReconnectionsEnd` |
| `queue_safe` | 2 workers, a message each, a loss, and a handler error, closed channel or crash | 965 336 | `HeldMessagesAreOutstanding`, `RedeliveryHasACause`, and that the queue manager implements `AtLeastOnce` (`ConsumesAtLeastOnce`) |
| `queue_back` | 2 workers, one message, a loss, a refused dial and a rejected declaration | 447 489 | unless the process dies, `ConsumersComeBack` and `EveryMessageIsConsumed`, and `ConsumesAtLeastOnce` through refused dials and declarations |
| `startup` | 2 processes, the migration of the repository, three databases to begin with, deaths, broken sessions, refused queries, missing files | 45 691 | `CleanMeansComplete`, `StatementsApply`, `HalfSchemaIsBeingMade`, that the starts implement `MigratesOnce` (`MigratesAtMostOnce`), `StartsOrExits` |

Runs that end in a counterexample, each of a sentence the repository says of itself:
`ussd_asis`, `ussd_key`, `client_counter`, `queue_gone`, `queue_rollback`. They are described below.

The bounds. All sessions have the same handlers and no handler touches two, so one
session suffices for what is said of each; two requests are the least that race,
and what a third adds to a race on one key is a further reader, which `mandate`
counts. The inputs hold one text for each outcome of each test of the handlers. Two
callers are the least that interfere through the client's fields, and two losses the
least for which a monitor can be late for a connection and early for the next. In
`queue_safe` a single fault of each class already meets every place of a worker,
and both workers go through the shared client after it; what makes a call fail, which
the messages do not see, is for `queue_back`, where one message is enough for what is
said of each. `Conns` is large enough
that some connection is free whenever one is dialled: no run reaches a state in
which `Connect` waits for an identity. `client_shared` takes two states for one that
differ only in the names of connections (the view `UpToNames`): `Connect` takes any that
is free, and nothing else looks at a name. Two processes are the least of which one waits
for the lock of another, dead or alive; each may die and start again without limit,
so that the third start on a schema is a second start of one of them. `Schemas`
holds an empty database, one with all the tables and one with some, which are what
the DROPs are for. The theorems below have none of these bounds.

`AlwaysServedAgain` and `ConsumersComeBack` are checked with one loss, which is not
only for size: the race of `client_counter` exhausts the retries of a client after
too few failures, and further losses would find it so.

Deadlock is checked in the runs of the client, of the sessions and of the starts. The queue
manager's runs do without: when everything is consumed and nothing may fail any
more (the bounds are used up), nothing is left to do.

## Fairness

- `UssdSession`: weak fairness of each request's handler. A handler waits for no lock
  and no other request, and the Redis client bounds each call with a timeout.
- `RabbitClient`: weak fairness of each caller, and of the monitors: they are
  goroutines. A caller calls again, as `processDeliveries` does every five seconds
  (rabbitmq_pub_sub.go:154). No fairness of `Lose`; a dial is refused `Refusals`
  times at the most, which is the assumption that the broker comes back.
- `QueueManager`: weak fairness of each worker, of the broker's sending to each live
  consumer and of its receipt of acknowledgements. No fairness of `Restart`:
  docker-compose.app.yml gives the service no restart policy, so the liveness
  properties say "unless the process dies".
- `Startup`: weak fairness of each running process: its queries return, and GET_LOCK
  waits for ten seconds at the most. None of the start of a process, nor of
  `SessionEnds`: a dead process's session may hold the lock for ever, and a start
  gets past it all the same.

## What is proved

TLAPS checks these for every value of the constants that satisfies the named
assumptions of the modules (`UssdMenuAssumption`, `UssdSessionAssumption`,
`RabbitClientAssumption`, `QueueAssumption`, `StartupAssumption`), which TLC evaluates in the runs.

`UssdSessionProofs`: `TypeCorrect`, `StoreIsSound`, `AssertionsNeverPanic`,
`PaymentsAreSound`, all from the inductive invariant `IInv`. None of the properties
is inductive alone: what is stored depends on what a request has read and is about
to save, so `IInv` says that a session is well formed wherever it is, in Redis,
read, or in a plan. The lemmas go menu by menu: a handler that is given a
well-formed session makes a sound plan (`HandlersSound`). A session with NaN in it
is *not* well formed and may be in a plan; that the encoder refuses it is what keeps
it out of Redis, and so from being paid.

`UssdDialogueProofs`: `ImplementsDialogue`, from the same `IInv`. Its core is
`PaysWhatIsAsked`, that a handler which pays, pays what its session asks and is given
an input that confirms it, and `AskedIsAcceptable`, that a well-formed session asks
only for what was checked. The steps other than `Process` and the two of the SET
only forget.

`UssdMandateProofs`: `PaymentsAreMandated`, that no payment goes without a mandate,
from the invariant `MInv`. `mandate[sid] >= 0` says nothing of the payments still to
come, so `Mandated` counts them: the mandate of a session is at least the number of
its open requests that have read a prompt and not paid (`CanPay`), and as long as the
prompt stands in Redis, it and the payments whose session is not saved yet (`Unsaved`)
make up `InFlight`, so that each further request that can be open may read it. Both
need that a session is stored, read and saved under the ID of its own request
(`Identified`): a save under another's key would leave that one's prompt without a
mandate. The proof is per action, and arithmetic on the cardinalities of `Open`,
`CanPay` and `Unsaved`, which a step changes by one request at the most
(`CountOne`, `ApartCount`, `OthersCount`).

`UssdBalanceProofs`: `BalanceIsLeftAgain`, that `BalanceIsTransient` holds whatever
fails and whatever the numbers. It is an action property: from the invariant `BInv`
(`IInv` and `Identified`), each step is looked at for what it does to a session in the
balance menu. One that puts the session there leaves the request that did it on its
way to move it on (`MovesOn`); one that takes such a request off its way without
having moved the session is its death, its panic or its failed save (`Breaks`); and no
other step takes a request of another off its way (`OthersMoveOn`).

`RabbitClientProofs`: `ClientTypeCorrect`, and `LossesAreNoticed` for a client made
by `NewClient`. The invariant behind the second, `Monitored`, no longer asks whether
the connection is open: while `connected` is true, some monitor watches the current
connection or has yet to read which one that is. `OneCallerCountsRightly`, the other
side of what `client_counter` finds: with a single caller, `reconnects` is the number
of dials refused since the last success, and one more during an attempt (`Counted`),
so that `GivesUpAfterFailures` holds; it takes a second caller to break it.

`QueueManagerProofs`, from the invariant `Inv`, which adds to the types that a
worker has a message in its hand or in its buffer, not in both, and no buffer while
it has no channel:

- `QueueTypeCorrect` and `HeldMessagesAreSafe`.
- `RoutedMessagesAreHandled`: for the messages of the queues that have a handler
  (`Routed`), whatever other queues there are, every step of the queue manager is a
  step of `AtLeastOnce` or a stutter, where the pending messages are those that are not
  gone. The strengthening, `SucceededFirst`, is that a handler has succeeded with such a
  message before it may be acknowledged. `ImplementsAtLeastOnce` is the refinement that the run
  checks, of all messages, if every queue has a handler (`Routed = Messages`).
- `RedeliveriesHaveCauses`: a message is handled once, and once more for each loss,
  closed channel, handler error or death of the process. The count needs what is
  still to come: a message that a worker is about to handle, or that is ready or
  going back to the queue, has a handling ahead (`ToCome`), and the handlings done
  and to come are accounted for by the faults so far.

`StartupProofs`, for any number of processes and any migration:

- `TypeCorrect`; it includes that the lock is the session's which is where it is held.
- `CleanIsComplete` and `ImplementsMigratesOnce`, from `IInv`: a session that is about
  to record the version as dirty finds none; one that runs the migration has recorded
  it, and all that its statements so far have made and not dropped is there; one that
  has run it has a whole schema. All steps but five are `Quiet`, which leaves this
  to be true; the five are of the holder of the lock (`OnlyTheHolder`). That a further
  statement keeps what was made is `MadeByOneMore`.
- `HalfSchemasAreBeingMade`, from `HInv` as well, and from `StatementsApply`: unless
  something has failed, every process past its first query has its session and every
  session its process, a dirty version has a session that makes the schema, a process
  that gives the lock back leaves a whole schema, and whoever has gone on without the
  lock leaves a process behind that had it.
- `StatementsOfAnOrderedScriptApply`: `StatementsApply`, if the script is `Ordered`, that
  is if a statement needs only what those before it have made and not dropped since
  (`Made`), and forbids only what they have dropped and not made since (`Gone`).
  The invariant `AInv` adds to `IInv` that a session which runs the migration finds
  nothing of what its statements so far have left gone (`Cleared`): nobody else
  writes the schema while it holds the lock.

`SchemaMigrationProofs`: `MigrationIsOrdered`, that the statements of the service's
migration are in such an order. The first six drop every object a schema can have
(`AllIsDropped`) and `users` after the tables that refer to it; the other fifteen drop
nothing, and each makes an object that no other makes (`MakesApart`) and needs only
what an earlier one has made (`NeedsAreMade`). `TheMigrationApplies` puts this into the two
theorems above, which leaves no hypothesis but that the script is this one, as in the
run `startup`; the databases and the processes are any.

Model-checked only: the liveness properties and `ReconnectionsEnd`, since fairness and
`ENABLED` are beyond the prover. Every invariant, action property and refinement that a
passing run checks is also proved.

## What the code does otherwise than it says

1. `ussd_asis`. `GetRedisKey` wraps `redis.Nil` into a new error
   (library/redis.go:17), so the comparison with `redis.Nil` in
   `getOrCreateSession` (ussd.go:113) fails on every miss: the first request of every
   dialogue is told that the service is unavailable.
2. `ussd_key`. A session is saved under its int64 ID formatted with `%s`
   (ussd.go:151) and looked up under its session ID (ussd.go:110).
3. `client_counter`. `c.reconnects++` (rabbitmq.go:254) without the lock: two callers
   read the same value or overtake a reset, and the client gives up before
   `maxRetries` failures.
4. `queue_gone`. The client the service makes has no monitor and `connected` is true
   for good (rabbitmq.go:119-146): after one loss `Consume` opens channels on the
   dead connection for ever.
5. `queue_rollback`. `strings.HasPrefix(queue, "bet_settlement")`
   (rabbitmq_pub_sub.go:220) is tested before the longer name: rollbacks are settled.

Related, and seen in the models without a run of its own:

- "END Insufficient funds" (wallet.go:94, 265) leaves the session in the amount step,
  where constants/response.go:16 says that END "Ends the session".
- A dirty version is refused for good, and the refusal only logged (routes.go:58): after
  a death between two statements every later start serves on half a schema. The
  stage "broken" of `MigratesOnce` has no way out. The "safe rollback" of the SQL file
  (line 2), its DROPs, is never reached by the case it would be for; run again by
  `VersionMutant`, it would drop what the first run made.
- A service that is not given the lock in ten seconds serves before the schema is there.
- routes.go:67 logs `err`, the error of the migration, where `rmqErr` is meant.
- With the queues of `.env` a closure or an approval matches no branch of
  `RouteMessage` and is acknowledged unhandled, which is why `ImplementsAtLeastOnce`
  assumes that all messages are `Routed`.
- A connection replaced because of a stale error is never closed (rabbitmq.go:226), so
  that open connections exceed the one in use. Closing it in `Connect` would not do:
  its monitor would then report a loss, and the reconnections would never end
  (`ConnectClosingMutant`, against `ReconnectionsEnd`).

## Not modelled

- `HandleUSSD` (ussd.go:34-42), the handler that is routed: it writes a trace under a
  key of its own and touches no session. `HandleUSSD1` is a stub. The models are of
  `HandleUSSD3`, the service the other two stand in for.
- Database, accounts and payments: placeholders in the code. The models keep that a
  payment is made, and when.
- The contents of messages, and what the handlers of queues do: placeholders.
- `AddChannel` and the named channels of the client, which nothing uses afterwards,
  and `PublishMessage`, which nothing calls. `Publish` is modelled: it differs from
  `Consume` in nothing the properties tell apart.
- Cancelling of contexts: the consumers' context is never cancelled.
- The broker's `basic.cancel`, which closes the deliveries of a consumer and leaves its
  channel open: it is sent when somebody deletes a queue, and nothing here does.
- `Close` and `CloseClient`, which nothing calls; a connection ends by itself (`Lose`).
- A session in Redis that json.Unmarshal refuses (ussd.go:121-124): nobody but
  `saveSession` writes these keys.
- golang-migrate's own limit of fifteen seconds for the lock (migrate.go:906-934), which
  is reached only if MySQL answers GET_LOCK five seconds late. It returns an error like the other
  to the same line of the log; but a GET_LOCK that succeeds after it holds the lock for
  as long as the session lives, with nobody to give it back.
- `NewClient`, which nothing calls (`RabbitClient` takes it
  for the client that was meant, see `Constructor`); the pools' sizes, since nothing
  but the migrations makes a query; the failure of RELEASE_LOCK on a session that is
  well.
- `ParsePhoneNumber` and the other helpers of `library/util.go`, which nothing calls.
- HTTP, tracing, logging, generated documentation, vendored libraries but for the
  paths of golang-migrate that `Init` takes.

## Plan

Done, in this order: `UssdMenu` and `UssdSession` with their theorems;
`RabbitClient` with its; `AtLeastOnce` and `QueueManager` with theirs; `UssdDialogue`
and its refinement; `SchemaMigration`, `MigratesOnce` and `Startup` with theirs. What
is left of the code keeps no state, or is called by nothing.

The theorems came in the same order, and then those of `UssdMandateProofs`,
`UssdBalanceProofs` and `SchemaMigrationProofs`.

What could still be proved: what two callers of the client keep of `Counted`, that is
how far one increment that overtakes a reset can take the counter from the refusals
since.
