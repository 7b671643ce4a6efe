# A formal model of the order API

TLA+ specifications of the multi-tenant order API in `src/`, checked with TLC on
small instances. Every safety property that TLC checks is also proved with TLAPS,
for instances of any size. Paths below are relative to the repository, `src/src/...` being its
TypeScript sources.

## 1. The system

### Parts, their state and their operations

| Part | State | Operations that change it |
|---|---|---|
| Order service, `order/order.service.ts`, and controller | `orders`, `order_items` of a tenant database | `createOrder`, `addItemToOrder`, `recalculateOrderTotal`, `enqueueOrderProcessing` (all called by `OrderController.create`), `paymentReceived`, `enqueueOrderCompleted` |
| Order consumers, `rabbitmq/order-*.consumer.ts` | the same tables | `handleOrderProcessing`, `handleOrderCompleted` |
| RabbitMQ service, `rabbitmq/rabbitmq.service.ts` | the fields `connection` and `channel` of each process, three durable queues | `onModuleInit`, `waitForConnection`, `attemptConnection`; publish, consume, ack and nack for each queue |
| Product service, `product/product.service.ts` | `products` of a tenant database | `create`, `update`, `remove` |
| User service, `user/user.service.ts` | `users` of the default database | `create`, `update`, `remove`; `checkDatabaseStatus` reports |
| Provisioning consumer, `rabbitmq/database-creation.consumer.ts` | the tenant databases, their `_prisma_migrations`, `users.isDatabaseCreated` | `createAndMigrateTenantDatabase`, `updateUserDatabaseStatus` |
| Response cache, `common/interceptors/cache.interceptor.ts`, `common/services/cache.service.ts` | Redis | lookup, fill and invalidation around the controllers |
| Rate limiter, `common/interceptors/rate-limit.interceptor.ts` | counters in the memory of the process | counting and refusing |
| Database manager, Prisma service, tenant context, `prisma/` | client objects by tenant code, the tenant of a request | choosing a client |
| Tenant migration service, `prisma/tenant-migration.service.ts` | the same `_prisma_migrations` tables | `migrateAllTenants`, on `GET /migrate-tenants` |
| Lists, `findAll` of `OrderService` and `ProductService` with their controllers | none of their own; read the tables above | none; reads that span several queries and several requests |
| Authentication, formatting, logging, bootstrap, seeds | none, or tokens held by clients | |

### How they interact

The API process answers requests and publishes messages; a second process runs
the three consumers. They share nothing but the databases and the broker. Orders
live in a tenant database, users in the default one, and a tenant exists because
an ADMIN user with a `tenantCode` was created: `UserService.create` publishes to
`database-creation`, and the consumer creates and migrates the database and then
sets `isDatabaseCreated`. `OrderController.create` inserts an order, adds its
items one at a time, and publishes to `order-processing`, whose consumer gives
the order a `paymentId` and sets it `WAITING_FOR_PAYMENT`. `payment-received`
decrements the stock of each item and sets `PAID`; `complete` publishes to
`order-completed`, whose consumer sets `COMPLETE`. The cache and the rate limiter
are wrapped around the controllers.

### What is hard about it

- No service opens a database transaction. A handler is a sequence of single
  calls, and other requests, the consumers and the administrator run between any
  two of them; it may also stop between any two of them.
- The broker delivers at least once, in no order between queues, to consumers
  without prefetch, so that handlers of one queue run at the same time too. A
  publish is not confirmed.
- Handlers are written as if they ran once: a redelivery meets an order that is
  paid, or a database that exists and is half migrated.
- The cache is filled and invalidated after the response, in steps that
  interleave with other requests, under keys that have to match.
- The broker connection is opened by whoever needs it first, by several at once if
  need be, and its objects are never replaced or cleared.
- Migrations run statement by statement without a transaction, on request and by
  several requests at once.
- Lists are put together from several queries, and read page by page while they grow.
- The limiter's windows are measured on a clock and forgotten on restart.

`PROJECT.json` lists each of these at its line (`hazards`), with the properties
below that are about it.

### What correct means, part by part

- Orders: what is stored is what was asked for, at the price it was offered; only
  a complete order can be paid; a payment takes exactly the items of the order;
  stock is never lost or taken without account; every published order is
  processed.
- Provisioning: identities are unique; one handler at a time works on a database;
  migrations are applied in order; a tenant that is reported ready is ready;
  every stored message is worked off.
- Broker connection: a process opens no more connections than it has callers; only
  handled messages are acknowledged; waiting ends, and messages are worked off.
- Tenant migrations: one request at a time works on a migration; "applied" is true;
  a request that meets no obstacle leaves every tenant up to date.
- Cache: no answer is made from another tenant's database, nor from somebody else's
  data unless a query names that; a write is not followed by the old value of what it
  says it invalidates; a stale entry goes away.
- Lists: a page is what its own numbers say, and paging to the end misses nothing.
  Nothing is listed twice, except under two spellings of a tenant's code.
- Limiter: the number of requests let through is bounded; a client that waits as
  told is served.

## 2. The modules

| Module | Models |
|---|---|
| `WorkQueue` | one RabbitMQ queue as `RabbitMQService` uses it: publish without confirms, store or lose, deliver, handle, ack, nack with requeue, put back when a consumer dies |
| `AtLeastOnce` | the abstract promise of a queue with its consumer |
| `OrderLifecycle` | orders, catalogue, create and payment requests, two instances of `WorkQueue` with the order consumers |
| `TenantProvisioning` | users, sign-up requests, an instance of `WorkQueue`, the provisioning handlers, the tenant databases |
| `ResponseCache` | the cached endpoints, the writes that invalidate, Redis |
| `RateLimiter` | `RateLimitInterceptor` and its clock |
| `BrokerConnection` | the connection and channel of one process, its callers, its consume callbacks, the broker going away and coming back |
| `TenantMigrations` | `TenantMigrationService` on the databases `TenantProvisioning` leaves |
| `Listing` | the two `findAll` methods, and a client that reads page after page |
| `OrderLifecycleProofs`, `TenantProvisioningProofs`, `BrokerConnectionProofs`, `TenantMigrationsProofs`, `ListingProofs`, `ResponseCacheProofs`, `RateLimiterProofs` | the theorems about the module each is named after |
| `SumLemmas` | what a sum over a finite set is, for the sums of `OrderLifecycle`, and that a set of numbers has a least element |
| `MC...` | the constants of the instances below, one module for each of the others that is run |

`PROJECT.json` (`map`) gives the source lines of every definition. Definitions
whose comment begins with "Mutant" are deliberately wrong versions of the definition
that follows them. They are not used by any specification; they exist to show
that a property notices the mistake.

### OrderLifecycle

`orders[o]` is a row with its items: `qty[p]` and `price[p]` of the item for
product `p`, 0 when there is none. The column `total` is a variable of its own.
`create[o]` is the request that creates `o`: which call it makes next, its place
in the body and the values it has read. `payments[r]` is an accepted call of
`paymentReceived` with the items it has read and those still to be deducted. Each
Prisma call is an action:

| Code | Actions |
|---|---|
| `OrderController.create`, `OrderService.createOrder` | `CreateOrder` |
| `addItemToOrder` | `CheckOrder`, `CheckProduct`, `FindItem`, `WriteItem`, then `ReadItems`, `WriteTotal` for `recalculateOrderTotal` |
| `enqueueOrderProcessing` | `EnqueueOrderProcessing` |
| `paymentReceived` | `PaymentReceived`, `DeductStock` per item, `MarkPaid` |
| `enqueueOrderCompleted` | `CompleteOrder` |
| the consume callbacks and handlers | `HandleOrderProcessing`, `HandleOrderCompleted`, `ProcessingMoves`, `CompletedMoves` |
| an exception, a dead process or connection | `AbortCreate`, `AbortPayment`, `ProcessingFails`, `CompletedFails`, `ConsumerCrash` |
| `ProductService` | `CreateProduct`, `UpdateProduct`, `RemoveProduct` |

Abstractions. Prices are integers (cents) rather than `Decimal(10,2)`. `paymentId`
counts the UUIDs made for an order. A request that is refused before it writes
anything is not an action. The read and the publish of
`enqueueOrderCompleted` are one action: what the read looks at (that the row
exists and whose it is) never changes afterwards. `checkoutOrder` and
`completeOrder` of the service are called by no controller and left out. The
foreign key from `order_items` to `products` (`ON DELETE RESTRICT`, from
`prisma/tenant_migrations`) is a guard of `RemoveProduct` and a way for
`WriteItem` to be refused. `opening` and `restocked` are no columns; they record
what the stock was when the product was created and whether an administrator has
replaced it since, for `StockLedger`.

### TenantProvisioning

`users[u]` is a row, `signup[u]` the request that creates it, `creation` the
queue, `handler[u]` the handler of its message with the migration it is at,
`databases[d]` a database with the record of each migration and the set of those
whose statements were executed. The checks of e-mail and code, the insert (decided by the unique
indexes), the publish, `CREATE DATABASE`, the connection, the check, the start
record, the statements and the end record of each migration, the disconnection,
the drop, the update of the user and the ack are one action each; any of the
calls may fail, and the consumer process may die between them.

Abstractions. E-mail and username are one identity. The statements of one
migration are executed in one step, and an error "already exists" from such a
statement on a new database is not considered. `DropDatabase` may be refused:
the tenant client is not disconnected on that path, and PostgreSQL refuses to
drop a database with sessions. The users of the model are created once; a user
may be edited and deleted.

### ResponseCache

A row is known by the number of the write that produced it, an answer by the rows
it was made from, so that staleness is the difference of two functions.

| Code | Actions |
|---|---|
| `intercept` of a cacheable method, `CacheService.get` | `StartRead`, `Lookup` or `LookupFails` |
| the handler of a read, `CacheService.set` | `Load`, `Fill` or `FillFails` |
| the handler of a write | `StartWrite`, `Write` for each row it changes, `Return` or `Throw` |
| the targets of `@CacheInvalidate` | `Invalidate` or `InvalidateFails` for each |
| the order consumers; Redis (external) | `ConsumerWrites`; `Expire` |

`tap(async …)` is not awaited, so `Fill` and `Invalidate` come after the answer.
`Plans` is what a handler changes, in its order: `createOrder` an order and its items,
`paymentReceived` the stock of the products in an order and then its status. A handler
that throws half way (`Throw`) leaves what it has changed and invalidates nothing.

A key is built as `generateCacheKey` does. Parameters are functions from their names,
and a query may have any: `Assign` puts the query over the parameters of the path
and over `__userId`, as `getMethodArguments` and `generateCacheKey` do, so that a query that
names `id` or `__userId` displaces them in the key (`Displaces`), and two requests
that read different rows may have one key. A customer's list without query
has the bare user id as its argument. The tenant in a key (`TenantOf`) is that of the path, else
that of the query, else `default`. `Source` is what a read really looks at; a
customer's list shows the products in the orders as well.

Abstractions. The order of parameters, which `JSON.stringify` keeps, is left out:
the model gives some requests a key in common that they do not have, and never the
reverse. `KEYS` and `DEL` of `delMethodUserKeys` are one step. The lists of
administrators are left out; their keys have the same form. `lapped` records whether two
requests ever overlapped, `stamp` the last change of a request that did not throw.

### RateLimiter

A request is one action, since the interceptor awaits nothing. `admitted` and
`header` are observations: `admitted` logs each request let through with its time, the
counter that let it through and the number of restarts before it, `header` is the last
response to a client. Options are merged method over class over defaults; the option
`keyByUser` is left out, since no decorator sets it.
`Second` stands for 1000 ms in units of the model's clock, so that rounding up to
seconds is not the identity.

### BrokerConnection

One process, with the role of the API (only publishers) or of the consumer (only
consumers): `AppModule` has no consumer and `ConsumerModule` no controller. `links`
is the sequence of the connections that the process has opened, each with its
channel and the deliveries that channel has not settled, by tag; `connection` and
`channel` are the fields of the service, positions in `links`. `actors[a]` is
`onModuleInit` (`Boot`) or a caller of `waitForConnection` with its turn of the loop.

| Code | Actions |
|---|---|
| `onModuleInit`, `attemptConnection` | `Connect`, `CreateChannel`, or `ConnectFails`, `CreateChannelFails` |
| `waitForConnection` | `Turn` for each turn of its loop |
| the timers of the consumers' `onModuleInit`, a request that publishes | `Start` |
| `channel.consume`, `sendToQueue` | `UseChannel` |
| the consume callback | `Deliver`, then `Complete` (`this.channel.ack`) or `Reject` (`this.channel.nack`) |
| `onModuleDestroy`, a crash; PM2 | `Stop`, `Restart` |
| the broker (external) | `Break`, `ShutDown`, `BrokerStarts` |

Nest awaits `onModuleInit` of `RabbitMQService` before those of the consumers,
which import its module, and before requests are served: callers start after
`Boot`. `this.channel` is read when the callback ends, not when the message came,
and a delivery tag means something on its own channel only; `Complete` and
`Reject` settle whatever delivery has that tag on the channel in the field. amqplib
throws on a closed channel, and nothing catches it in the `catch` clause, so the
process ends; nobody listens to `'error'`, so a broken connection ends it too. An
orderly shutdown of the broker closes connections without that event.
`WorkQueue` abstracts from all this: there a message in progress is settled or put back.

Abstractions. `assertQueue` belongs to the call before it. Publishing
is the use of the channel; what becomes of the message is `WorkQueue`'s subject.
The ten attempts are `MaxRetries`.

### TenantMigrations

`objects[t]` is what the database of a tenant contains, `records[t][m]` the number
of rows that migration `m` has in `_prisma_migrations`, `jobs[j]` a request with its
tenant, migration and statement, `results[j]` the array it will return. A statement
is named by what it adds to the schema, and PostgreSQL refuses it when that exists
or when something it needs does not (`Accepted`); `MCTenantMigrations` has the
statements of `prisma/tenant_migrations` in their order. Connecting, the test for a
record, each statement and the insert of the record are one action each. A failing
statement is reported and the next migration tried, as the `catch` clause does; a
failure outside it ends the request.

Every database starts in a state in which provisioning can have left it, by this
or an older release: `n` migrations finished, and perhaps the next one begun under
a record that was never finished. `shouldSkipStatement` of the provisioning
consumer leaves out statements about `users`; `migrateAllTenants` has no such test.

`OrderAssumption` says of the scripts that a migration which does not refer to `users`
needs nothing but what its own earlier statements add and what earlier migrations add,
and that it needs all of the latter from its first statement on. TLC evaluates it on the
repository's scripts. `UpgradeComplete` rests on it: with a statement further down that
needs what another migration adds, a request could begin a migration while an
overlapping one is still adding that, get stuck in the middle, and leave it
half executed without any failure.

### Listing

The client is one process: it asks for a page, the service answers in as many steps
as it makes queries, and the client goes on to the page after the one reported until
that is the last. `FindTenants`, `ReadTenant` for each tenant (or `ReadTenantFails`)
and `AnswerOrders` are `OrderService.findAll`; `CountProducts` and `FindProducts`, in
either order, and `AnswerProducts` are `ProductService.findAll`. Between them orders
and products are created, products and tenants removed, and tenants become ready.
`Page` and `Size` are what the controllers make of the query parameters. Orders are kept by
database, and `getClient` lower-cases a code (`DbName`): two ready tenants whose codes
differ in case are two turns of the loop over one database, each adding its own code to
every order. Rows have
a creation time, several of them perhaps the same one, and the database returns those in any
order. `base`, `seen`, `undisturbed` and `steady` are observations. The cache in front of both
endpoints is `ResponseCache`'s subject.

## 3. The runs

| Run | Asks |
|---|---|
| `order_lifecycle` | One order of one or two products, two payments, an edit or removal of products, a completion, a redelivery or failure: does a create request store what was asked (`ItemsMatchBody`), at a total that agrees with the items (`TotalMatchesItems`), of products that exist (`ItemsRefer`)? Is only a complete order payable (`PayableOnlyWhenCreated`), are the items a payment read still current (`PaymentLinesCurrent`), is PAID preceded by all decrements (`PaidMeansDeducted`), is every decrement accounted for (`StockLedger`), and does an order return from PAID only after a failure (`NoUnpayWithoutFault`)? |
| `order_progress` | Two orders on one product: does `order-processing` implement `AtLeastOnce` (`ProcessedAtLeastOnce`), and do messages and requests settle (`ProcessingSettles`, `RequestsSettle`)? |
| `provisioning` | Two users, two codes of one database and one of another, a failure anywhere, redeliveries and an edit: `UniqueIdentities`, `SingleMigrator`, `MigrationsInOrder`, `ReadyDatabaseExists`, `CleanProvisioning`; and is a stored message worked off in spite of the failure (`ProvisioningSettles`)? |
| `broker` | With callers that connect at once and a broker that breaks, shuts down and returns: does each caller open one connection at most (`OneConnectionEach`), is only a handled message acknowledged (`AckedWasHandled`), does every publish end (`PublishesSettle`), is every message acknowledged in the end (`MessagesSettle`)? |
| `tenant_migrations` | Two overlapping requests, two tenants in any state provisioning leaves, one failure: does one request at a time work on a migration (`SingleRunner`), is "applied" said once and truly (`AppliedOnce`), does an undisturbed request finish what can be finished (`UpgradeComplete`), and is a migration that was given up ever taken up again (`NothingResumes`: no)? |
| `listing` | For every page, size and list within the bounds, of tenants of which two may share a database: is an answer in order, without repetition but for the second spelling of a code, and as long as its page and total say (`PageFitsTotal`), and does a client that reads to the end see every row that was there when it began (`NothingSkipped`)? |
| `cache` | Two tenants, two products each, two customers, requests with and without a query that names another product and customer: does an answer about products stay within the tenant's database, and is it made from the request's own rows unless such a query has used its key (`AnswerIsOwn`)? When requests do not overlap, is what a write's decorator names as new as the write (`NamedEntryFresh`)? Does every stale entry go away (`StalenessEnds`)? |
| `rate_limits` | Is a burst bounded (`BoundedBurst`), and is waiting for `X-RateLimit-Reset` enough (`ResetHonoured`)? |

These hold. Four runs show where the code does something else than the repository
says; TLC's counterexample is the shortest way there:

| Run | Shows |
|---|---|
| `double_payment` | Two overlapping `payment-received` calls of one order both pass the status test and both deduct (`order.service.ts:246`). |
| `completion_undone` | A completion handled before the order-processing message is overwritten by it (`order-processing.consumer.ts:39`). |
| `half_migrated` | After a failure between `CREATE DATABASE` and the last migration, the redelivery takes "already exists" for success and the tenant is reported ready (`database-creation.consumer.ts:266`). |
| `stale_list` | A list of products is cached, one of them is updated, both targets of the decorator are deleted, and the list is still there: for `findAll` too the key is built with the id from the path of the update (`cache.interceptor.ts:76`). |

### Bounds, and why they are enough

- `MaxFaults` bounds failures and `MaxUpdates` edits. One failure reaches every place
  where a handler can stop; `broker` allows two, since there the interesting case is
  a failure while another one is being repaired. In `provisioning` a drop that is refused
  after a failure counts as none; the theorems are for any number of failures.
- Two payments and two orders on one product are the least with which a decrement
  can be lost, two products the least for a payment that stops half way. Bodies
  are one product twice, two products, and two units of one product.
- Two users, with codes that are equal, that name one database, that name different ones
  or are missing: handlers meet at one database, and handlers of two tenants run side by
  side, which is what `CleanProvisioning` speaks of.
  Two or three migrations give one before and one after a failure.
- Two consumers with a message each and two publishers: two callers are the least
  that connect at once, two channels the least for a tag that means two things. Two
  attempts stand for ten: the loop is left with a channel, without one, and with one
  opened by the last attempt.
- The scripts of `tenant_migrations` are the repository's own. Two requests and two
  tenants are interchangeable, which `SYMMETRY` uses, in this run only: it checks no
  liveness.
- Three rows, a default size of one and a largest of two give empty, full,
  partly filled and missing pages; the sizes asked for are missing, zero, negative, one and too
  large, the pages missing, negative, and one that need not exist. Two tenants are ready
  at a time, with one database or two; the constraint `Bound` also has rows in one of the
  two lists only, and one pair of rows with a common time. The two spellings are
  interchangeable (`SYMMETRY`; no liveness is checked there).
- Two requests, since an overlap needs two; two tenants, two products and two customers,
  and a query that names the second of each of the latter, so that there is a key to be
  displaced and one that is not. One product and orders of both customers exist from
  the start, so that few writes are spent on making rows. `InOrder` calls the request that is
  made first `r1`; the requests are otherwise alike.
- Six ticks are two windows of three; `MaxCount` of 3 is two refusals above the limit of one.
- `CHECK_DEADLOCK FALSE` everywhere: identities of requests and orders, faults and
  edits are finite, and the model stops when they are used up.

### Fairness

`FairSpec` assumes weak fairness of the next call of each request in progress, of
the broker's and the consumer's steps for each message, of the consumers' start
timers, of the broker's return, and of expiry: as long as the cache holds entries with
a TTL, one of them expires at some time. A Node process
goes on with a handler whose awaited call was answered; RabbitMQ delivers what it
holds to a connected consumer, and PM2 keeps the consumer process up; `onModuleInit`
of a consumer sets a new timer after every failure to start; `SETEX` makes Redis
drop the entry. That a broker that is away comes back is an assumption about
operations, without which no message is delivered. Nothing is assumed of users or of
failures: no request has to be sent, and failures are bounded in number, not in
place. Without the bound a handler that fails for ever is redelivered for ever, as
the code intends.

## 4. The proofs

The theorems hold for every value of the constants that satisfies the assumptions of
the modules: any sets of orders, users, tenants, requests, messages and so on, any
scripts, options and bounds. Each inductive invariant was first checked with TLC on
the instances of section 3.

### What is proved

| Module | Theorem | States |
|---|---|---|
| `OrderLifecycleProofs` | `Invariance` | `OrderInv` holds in every reachable state |
| | `TypeCorrect`, `PayableCorrect`, `LinesCorrect`, `TotalCorrect`, `ItemsReferCorrect`, `PaidCorrect` | `TypeOK`, `PayableOnlyWhenCreated`, `PaymentLinesCurrent`, `TotalMatchesItems`, `ItemsRefer`, `PaidMeansDeducted` |
| | `ItemsCorrect`, `LedgerCorrect` | `ItemsMatchBody`, `StockLedger` |
| | `UnpayCorrect` | the action property `NoUnpayWithoutFault` |
| | `ProcessingImplements` | the refinement `ProcessedAtLeastOnce` |
| `TenantProvisioningProofs` | `ProvisioningInvariant` | `ProvisioningInv` |
| | `ProvisioningTyped`, `IdentitiesUnique`, `ProvisioningSingleMigrator`, `ProvisioningInOrder`, `ReadyKeepsDatabase`, `ProvisioningClean` | `TypeOK`, `UniqueIdentities`, `SingleMigrator`, `MigrationsInOrder`, `ReadyDatabaseExists`, `CleanProvisioning` |
| `TenantMigrationsProofs` | `MigrationsInvariant` | `MigrationInv` |
| | `MigrationsTyped`, `MigrationsSingleRunner`, `MigrationsAppliedOnce`, `MigrationsUpgradeComplete` | `TypeOK`, `SingleRunner`, `AppliedOnce`, `UpgradeComplete` |
| | `MigrationsNothingResumes` | the action property `NothingResumes` |
| `BrokerConnectionProofs` | `BrokerInvariant` | `BrokerInv` |
| | `BrokerTyped`, `BrokerOneConnectionEach` | `TypeOK`, `OneConnectionEach` |
| | `BrokerAckedWasHandled` | the action property `AckedWasHandled` |
| `ListingProofs` | `ListingInvariant` | `ListingInv` |
| | `ListingTyped`, `PagesFit`, `NoneSkipped` | `TypeOK`, `PageFitsTotal`, `NothingSkipped` |
| `ResponseCacheProofs` | `CacheInvariant` | `CacheInv` |
| | `CacheTyped`, `AnswersOwn`, `NamedFresh` | `TypeOK`, `AnswerIsOwn`, `NamedEntryFresh` |
| `RateLimiterProofs` | `RateInvariant` | `RateInv` |
| | `RateTyped`, `BurstsBounded` | `TypeOK`, `BoundedBurst` |
| | `ResetsHonoured` | the action property `ResetHonoured` |

### The assumptions

They are stated in the modules and evaluated by TLC in every run.

| Module | Assumptions |
|---|---|
| `OrderLifecycle` | `DtoAssumption`: what the `ValidationPipe` enforces on bodies, prices and stock. `BoundAssumption`: bounds are numbers, products and payments finitely many. `NullAssumption` |
| `TenantProvisioning` | `NameAssumption`: a code names a database. `SizeAssumption`, `NullUserAssumption` |
| `TenantMigrations` | `ScriptAssumption`: scripts are sequences of statements, none of them twice. `OrderAssumption`: see section 2. `FaultAssumption` |
| `BrokerConnection` | `ActorAssumption`: consumers, publishers and `onModuleInit` are different callers, a message belongs to one queue. `RetryAssumption`: at least one attempt |
| `Listing` | `ParameterAssumption`: a parameter is an integer or no number, the default size is within 1 and the largest, tenants are finitely many, a code names a database |
| `ResponseCache` | `CacheAssumption`: a code names a database, the rows there at the start are rows, bounds are numbers, `Null` is none of the values and no call. Of queries nothing is assumed |
| `RateLimiter` | `RateAssumption`: windows, limits and a second are positive, whichever fields the decorators give. `NoCounter` |

### The arguments

Hardly any property is inductive as it stands; each module proves a stronger
invariant, with one step of the proof per action and under it one for each part that
the action can disturb.

**Orders.** That the items of a payable order do not change rests on who may still
write them. `OrderInv` adds to `TypeOK`, for every order, payment and completion:

- `WithinBody`: a request that is at an item is within its body, so that the item
  exists and quantities stay natural numbers;
- `RowWithRequest`: an order without a row has an idle request, and the reverse;
- `LocalsCurrent`: what a request has read of its own order (the item found, the
  items to sum) is still what is stored, because nobody else writes items;
- `TotalCurrent`: after the last item the total is the sum over the items; this is
  the part that `TotalCorrect` is read off;
- `MessageMatches`: a message exists only for an order whose request is done; a
  payable status needs a `paymentId`, and that a message handled once; a message
  that waits for delivery although its order has a `paymentId` means that
  something has failed;
- `PaymentMatches`: an accepted payment names a processed order and holds its items;
- `CompletionMatches`: a completion message names an order that has a row;
- `ItemsRefer` and `PaidMeansDeducted` themselves.

`UnpayCorrect` and `ProcessingImplements` use the invariant and the lemma
`OnlyHandlerWrites`: a `paymentId` changes only in the handler. The refinement mapping
sends the place of a message to a phase and `paymentId` to the number of runs.

`ItemsMatchBody` and `StockLedger` compare with sums. `SumLemmas` shows, from the
recursive definition in the community module, that the sum of integers over a finite set exists, and
that a change at one index changes it by the difference (`SumChange`). Its
induction is over a set of subsets (`SubsetInduction`), reduced to the library's theorem
that a well-founded relation has minimal elements (`WFMin`). On top of that `ItemsWritten`
says that a request has stored the quantities of the items it has written so far, and
`Ledger` that stock and deductions of one product balance; that a product that is not yet
listed has no deductions follows from `ItemsRefer`.

**Provisioning.** `SignupMatches` ties the row of a user and its message to the request
that made them, `HandlerMatches` a handler to a delivered message. `Working` says that
the database a handler migrates or drops is the one it created and that its records and
executed statements are exactly those before the migration it is at; with it two
handlers cannot be at work on one database, since a database has one owner. `Owned` and
`NoDropYet` say what becomes of a database while nothing has failed; `MarkSound` what
`isDatabaseCreated` rests on while codes name different databases.

**Migrations.** Nobody locks anything; what keeps requests apart is that a statement is refused
when what it adds exists. `Executed` says that what a request has executed is there,
`BegunAtFirst` that a migration of which anything is there has its first statement there
(or that one refers to `users`), `FoundNoRecord` and `UnrecordedUnderway` that the
test for a record, made long before, is outdated only when the first statement is going
to be refused. So nobody else gets past a first statement. `UpgradeComplete` needs
`UpgradeInv` besides: without a failure, a pending migration that was begun is being
worked on, and one that some request has passed will be reached by another (`Carried`);
past its first statement a request meets no obstacle (`WayClear`).

**Broker.** `BootFirst` and `BootOnly`: callers start after `onModuleInit`, and when that
has connected nobody connects again. `Opening`: an actor that is connecting has opened
nothing, and one that is past that has its channel to open. `TagsMatch`: on a single
channel the tag of a callback is that of its own message, so that its ack removes
that message and no other.

**Lists.** Of `DbName` no more is assumed than that it gives each code a database.
`Reading`: the tenants to be read differ from those already read, so that a row is read again only under another code of its database, and rows of different
databases differ in their id. `Fetched`: what the two queries about products returned is current while no
product comes or goes. `Ahead` carries `NothingSkipped`: a row not yet shown is behind
at least (page - 1) × size newer rows, so it is on the next page or after it. New
rows only add to those before it. Pages are positions and the invariant speaks of
cardinalities; lemmas about sorted sequences translate one into the other.

**Cache.** `Placed`: what a request is about to fill was made from the rows of its own
call. `EntriesOwn`: an entry is made from the tenant's rows, and from the rows of every
call with its key that displaces nothing, unless the key is in `Displaced`. Calls with
one key have one tenant (`KeyTenant`), and those that displace nothing have the same rows
when they have the same key (`KeySource`, from `AssignOwn`: a query that displaces
nothing leaves what the route and the token say); a request that displaces
puts its key into `Displaced` for good. `RowsKeep`: the number of a row never falls. While
requests have not overlapped (`Sequential`), one is in flight (`OneAtATime`), what it
loaded is current (`LoadedFresh`), and an entry that a write names and that is older than it is among
the keys still to be deleted, once the writing is over (`OldIsDropped`), because what a
decorator names is among its targets (`NamedIsTarget`).

**Limiter.** `LogInv`: in the log of one key each request was within its window and limit, and follows
the ones before it: counted later in the same window, in a window that begins after
the earlier one has ended, or after a restart. In an interval as long as a window,
each process therefore begins at most one window, and one more may have been open before; the
requests let through inject into these windows times the limit. `CounterInv`: the last
response told its client to wait at least until the window is over.

### Only model-checked

Liveness: `ProcessingSettles`, `RequestsSettle`, `ProvisioningSettles`, `StalenessEnds`,
`MessagesSettle` and `PublishesSettle`. They need fairness, and fairness needs `ENABLED`,
which the prover does not handle. The four runs that end in a counterexample have
nothing to prove.

## 5. What the model shows besides

Behaviours met while modelling, about which the repository says little or nothing,
so that no run is devoted to them:

- Stock is checked when an item is added and taken when the order is paid. Orders
  that were both accepted can drive the stock below zero.
- `complete` does not look at the status, so an order can be completed without
  having been paid, or while it is still being put together.
- A create request that is refused at a later item leaves a `PENDING` order with
  the earlier ones; it never becomes payable.
- A message lost before the broker has it is lost for good, as is a
  `database-creation` message whose publish fails (`user.service.ts:85`).
- `update` can make an ADMIN of a customer: without a `tenantCode`, and with
  `isDatabaseCreated` true.
- A read that loaded before a write may fill after its invalidation; the entry
  stays until the TTL.
- Other entries that stay until the TTL: products after a payment has taken from their stock
  and orders whose status it or a consumer has changed (`payment-received` and the consumers
  invalidate nothing), the customer's list after a create request that failed half way,
  and products and lists that were read with other query parameters than the write was made with.
- Query parameters are put over the id of the path and the id of the user in a cache key
  (`cache.interceptor.ts:107` and `:148`), so a request that carries one of these names shares
  its key with requests for another product or customer, and an entry made for one is
  the answer to the other until it expires. The tenant in front of a key is that of the path
  and is not displaced: an answer about products is always from the tenant's database.
- Tenant codes that differ in case are both accepted (the test of uniqueness is on
  the code as typed) and name one database (`database-creation.consumer.ts:82`), while
  the README says that each tenant has its own. Without a failure the second handler
  meets "already exists", so the database is migrated once and shared. When both are
  ready, `OrderService.findAll` reads it once for each, returns every order in it twice and
  counts it twice in `total`.
- After an orderly shutdown of the broker the fields keep closed objects:
  `waitForConnection` returns at once, every publish throws, and the consumers wait on
  closed channels until the process is restarted. The README's "service retries
  connection" is true of the first connection only. The same goes for a connection
  whose channel could not be created (`rabbitmq.service.ts:187`).
- When `onModuleInit` found no broker, consumers that connect at the same time leave
  deliveries on one channel and acks on another: an ack may remove a message that is
  still being handled, or end the process.
- `migrateAllTenants` does not skip the foreign key to `users`, so `add_orders`
  fails there after having created its tables; its record is never inserted, and
  every later request fails at its first statement. The columns of the third
  migration are still added.
- A record that provisioning began and did not finish is reported as
  `already_applied`.
- A page of products beyond the end is answered without rows and with the number of
  the last page; a page of orders with the rows of the last page. A product that is
  removed, or a tie in `createdAt`, can make a client that pages miss a row.
- Fixed windows allow up to twice the limit in an interval of `windowMs` laid across
  two of them.
- `OrderController` has a `@RateLimit` decorator (`order.controller.ts:33`) and no
  `RateLimitInterceptor` that would read it.

## 6. Not modelled

- A Redis that does not answer: errors of Redis are modelled, commands that wait for it
  without limit (`maxRetriesPerRequest: null`) are not. `CacheService` is made for each
  request, with a Redis client of its own; the number of clients is not represented.
- The pooling of Prisma clients (by code as typed, so two spellings have two clients of one
  database), the tenant context and the URL of a database: the
  tenant is part of a call, and `DbName` gives the database a code names. The context is
  request-scoped and set before a handler first uses it. The defaults of `DATABASE_PREFIX` in
  the manager and in the consumer differ; the model has the prefix configured, as the
  README asks.
- The splitting of SQL files into statements: a script is its sequence of statements.
- `checkoutOrder` and `completeOrder` of `OrderService`, `clearTenantCache` of
  `CacheService`, `disconnectTenant` of the manager: nothing calls them. `delPattern` is
  reached by the target `*` only, which no decorator names.
- Password hashing, tokens, guards: libraries, or decisions before the modelled
  handlers start.
- Response formatting, logging, Swagger, bootstrap and seeds: no state.

## 7. Plan

All parts that keep state are modelled, and every safety property of the passing runs
is proved. What is left:

1. The promise of a queue for `database-creation` and `order-completed` too:
   `AtLeastOnce` as an abstraction of `TenantProvisioning` and of the second queue of
   `OrderLifecycle`, as it is of the first.
2. What the listed hazards without a property could say once the code answers the
   question behind them, such as the stock that is checked and not reserved.
