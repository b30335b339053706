# Nexxus: specifications

TLA+ models of the parts of Nexxus whose correctness depends on the order in which things happen, the TLC
configurations that check them, and TLAPS proofs of their main invariants. Paths are relative to the packages under
`src/` of the repository.

## 1. The system

Nexxus pushes changes of application data to subscribed devices. A request enters the **API**, which publishes it to
the **writer** queue; the **writer worker** stores it and publishes what changed to the **transport manager** queue;
the **transport manager** finds the subscribed devices in Redis and publishes one message per transport node; the
**transport worker** of that node sends it over the device's connection. Every service process shares three upstream
services: a database (Elasticsearch), a message queue (RabbitMQ) and Redis.

| Component | Code | State it keeps | Operations | Hard part | What makes it correct |
|---|---|---|---|---|---|
| Message delivery | `message_queue`: `MessageQueueAdapter.ts`, `RabbitMq.ts` | connection, consumers and tags, `consumingPaused`, `stopping`, in-flight deliveries and their retries | connect, disconnect, consume, pause, resume, stop, publish | reconnects under running handlers; retries against outages; draining; late confirmations | no message lost, acked unhandled or given up on without cause; a clean stop |
| Worker base | `worker`: `BaseWorker.ts` | `serviceState`, `closing`, loaded apps | mark up / down, init, close, publish, register with the Hub | the order services come and go in | consumes exactly while every service is up |
| Writer | `WriterWorker.ts`; `redis`: `models/FieldCache.ts` | none of its own; a hash of fields per object | create, update, delete | redelivery, one step of several failing | what is accepted is queued, what is stored is told, the cache follows the database |
| Transport manager | `TransportManagerWorker.ts` | none of its own | fan-out of a change | reads an index that changes meanwhile; one publish of several fails | every subscriber gets every matching change, once per attempt |
| Transport workers | `transport/*.ts`, `ws/Client.ts` | the connections of a node, device by device | register, refresh token, send, close, logout | sockets that close while Redis is asked | the map, Redis and the sockets agree |
| Device sessions | `redis`: `models/Device.ts`; `api`: `Session.ts` | one refresh session per device | issue, refresh, revoke | requests racing on one record | a session ends for good, a secret is used once |
| Subscription index | `redis`: `models/Subscription.ts`, `models/Device.ts` | list per device; partitions, partition index, scope counters, filters per channel | subscribe, unsubscribe, clean-up | many Redis commands per operation, none of them atomic together | index and lists mirror each other |
| Accounts and devices | `api`: `auth/*`, `DeviceRegistration.ts`, `routes/User.ts`, `routes/Device.ts`; `redis`: `UsernameLock.ts`, `AuthNonce.ts` | username locks, nonces, a user's device list | sign-up, sign-in, register, list and unlink | check-then-create under an expiring lock, against an index that is searched before it is refreshed | one account per username, one use per nonce, no half sign-in |
| API service | `api`: `Api.ts`, `middlewares/Availability.ts` | `serviceState`, in-flight requests | start, serve, close | shutdown under requests, pings and retries | the gate follows the services |
| Access control | `core`: `Acl.ts`, `AclConditionResolver.ts`, `AclStatement.ts`; `api`: `Acl.ts`, `ModelParams.ts`, `routes/Model.ts` | compiled roles | authorize, constrain, check a row | one condition evaluated by three engines | what succeeds is what the roles grant |
| Pure algorithms | `core`: `FilterQuery.ts`, `JsonPatch.ts`, `SchemaValidator.ts` | none | evaluate, apply, validate | many cases | agree with their definitions |
| Hub and management | `core`: `HubClient.ts`, `ManagementServer.ts` | registration retry loop | register, dispose | dispose during a retry; a Hub that restarts | listed while it runs, unlisted when closed |
| Database adapter | `database`: `ElasticsearchDb.ts` | ping loop | connect, ping, queries | answers that overtake each other | its view follows the database |

Components interact through the queues (at-least-once messages), Redis (shared records, single commands atomic), the
database, and events inside a process (`connect` and `disconnect` of the three services drive the availability gate).
`PROJECT.json` lists every component with its status and every hazard with its line.

## 2. Modules

| Module | Models | Composes / used by |
|---|---|---|
| `StageQueue` | the contract of one pipeline stage's queue: ready, taken, done, dead | implemented by `MessageDelivery` |
| `MessageDelivery` | one queue, one worker: deliveries, settlement, retries, connections, availability, shutdown | `MCMessageDelivery`, `MessageDeliveryProofs` |
| `MqConsumers` | the consumer of one worker's queue: consume, cancel, pause, resume, restore, with their round trips | `MCMqConsumers`, `MqConsumersProofs` |
| `AtomicSession` | the contract of a device's refresh session: a refresh is one step | implemented by `DeviceSession` |
| `DeviceSession` | one device's refresh session under concurrent requests | `MCDeviceSession`, `DeviceSessionProofs` |
| `SubscriptionIndex` | one scope's index under concurrent subscribes, unsubscribes and clean-ups | `MCSubscriptionIndex`, `SubscriptionIndexProofs` |
| `WsTransport` | the connections of the transport nodes, the device records they keep in Redis, logouts | `MCWsTransport`, `WsTransportProofs` |
| `Accounts` | registrations, sign-ins and device lists of one username, over Redis and the database | `MCAccounts`, `ApiProofs` |
| `Writer` | one object from the requests of its owner over the writer queue to the database, the field cache and the event | `MCWriter`, `WriterProofs`; composes API, queue, writer |
| `FanOut` | one change from the database to the devices, beside subscribe requests | `MCFanOut`, `FanOutProofs`; composes writer, index, transport manager |
| `ApiService` | an API process: start-up, gate, requests, pings, Hub, shutdown | `MCApiService`, `ApiProofs`; composes `Api`, `ElasticsearchDb`, `HubClient` |
| `StoredObject` | one object: its schema, what the routes accept, what the queue's writes make of it | extended by `Access`, `WriterProofs` |
| `Access` | decisions on that object: roles, filters, queries | `MCAccess`; composes routes, writer, matching |

### MessageDelivery

A *delivery* is a pair of message and channel, since after a reconnect the same message arrives again while the
handler of its old delivery may still run. `pc[d]` says where the delivery is: on the wire (`arriving`), in
`deserializePayload` (`decoding`), in the worker's handler (`handling`), in `whenReady` (`awaitReady`) or in `delay`.
The handler is arbitrary: it resolves or rejects, terminally or not. `Settle` is the tail of `handleDelivery`: the
outcome reaches the broker only if the delivery is live (`isLive`, the closure of `doConsume`) and the broker still
has it on that channel. The broker and the client notice a broken connection separately (`BrokerDropsChannel`,
`ConnectionLost`), in either order.

`tryOnce` is two steps when it has consumers to restore, because it awaits them between opening the channel
(`Reconnect`) and emitting `connect` (`ConnectEvent`), and the connection may be lost in between. `svc` stands for the
database and Redis together: `markServiceUp` and `markServiceDown` treat them alike, and two flags of which each may
be down give no order of edges that one and `mq` do not. The broker's consumer follows `paused` in steps of its own
(`BrokerConsume`, `BrokerCancel`), which also lets a stop return while a consumer is still open; how many consumers
there are, and that they may outlive a pause, is the subject of `MqConsumers`.

`close()` is `Close` (sets `closing`), `StopConsuming`, `StopReturns` or `StopTimesOut`, and `Disconnect`.

### MqConsumers

The calls of `doConsume` and `doCancelAll` that wait for the broker are a sequence, `calls`, answered in order; a lost
connection rejects them all. What the client does between two awaits is one step, so `ConsumeOk` and `CancelOk` are
what follows an answer, and `Reconnect` is `tryOnce` up to the first consumer it restores. `tag` is the one entry of
`consumerTags`. `doCancelAll` loops over that map while it awaits: `again` says of a waiting cancel that its entry has
been cleared since, so that the loop goes on to an entry stored later. A consume on a queue that is gone breaks the
connection (`ConsumeRefused`), as the comment of `queueExists` explains. `crowded` is history: a pause began while the
cancels of two others were waiting, and since then no resume has found all of them answered, nor has the connection
gone. Nothing in the code keeps pauses from overlapping so; the properties except what follows it (finding 6).

### DeviceSession

Secrets are numbers, every generated one is new, and any request may present any secret generated so far: a client
that retries, that lost a response, or that holds a copy. One Redis command is one step: `RefreshRead` is
`readSession` with the decision of `rotateSession` on it, `Swap` is the compare-and-set script, `Clear` is
`clearSession`. The `now` of a refresh is taken once, before its first read, as in the code; that of a logout after
its read. `origin`, `replacedBy`, `replacedAt` and `ended` only record what happened.

`ImplementsAtomicSession` maps a request to a phase by its `pc` (`Phase`): whatever it does between its first read and
its decision is `asked`, so the reads, the lost races and the retries are steps the contract does not see. A secret is
`spent` once the request that generated it has decided, by storing it or by throwing it away (`Spent`). Ending a
session is two steps in the contract as well: it is not atomic in the code (finding 1).

### SubscriptionIndex

The channels of one scope (same model, `modelId` and `userId`; different filters), so that they share one scope
counter. `PartitionOf` is the hash of the device id. Each Redis command of `addDevice` and `removeDevice` is a step; a
clean-up runs `removeDevice` for all channels of the device at once, as `Promise.all` does. The second look of
`hasSubscription` never finds anything, since a JSONPath read returns an array of matches. `overlapped` counts the
requests that started while another was in flight.

### WsTransport

The state of a node is its three collections (`unregistered`, `registered`, `clients`), the state of a client its
`deviceId` (`bound`) and its registration in flight (`pc`, `claim`); `cleanup` is where `handleDisconnect` stands.
Each handler stops at every call to Redis: `RegisterFrame`, `ReadSession`, `WriteDevice` and `Confirm` are the
registration, `SocketCloses`, `RemoveSubscriptions`, `GoOffline` and `Forget` the end of a connection, and either may
fail at each call (`RegisterFails`, `CleanupFails`). `NodeStops` is a shutdown or a crash: the process goes, and with
it its sockets, without a word to Redis; a node that starts again has the same slot and queue. The API's side is
`Subscribe`, `LogoutLoads`, `LogoutEnds` and `SignIn`; the set `revoking[d]` holds the transport a logout has read and
not yet used.

`raced[d]` is history. It is set when two handlers have been at work on a device at once, or a step of one has failed,
and says of a property that it is about undisturbed devices only. What happens to the others is in the findings. The
lifetime of tokens is abstracted: at any message a token may have expired, which closes the socket (`sendToDevice`),
so a `refresh_access_token` frame changes nothing here. The commands that change a subscription are one step, since
`SubscriptionIndex` takes them apart.

### Accounts

One username of one application. A request is a sequence of calls to Redis and the database, one step each; its kind
(`Register`, `OAuth`, `Login`) decides which calls it makes. An account and a device have the name of the request that
creates them. An account is `stored` before searches find it (`visible`): Elasticsearch answers searches from the last
refresh of its index, and `createUser` waits for one (`refresh: wait_for`), which is `Refresh` and `Inserted`. The
lock is what `UsernameLock` keeps under one key: `Acquire` is `SET NX`, `Release` the script that compares the token,
`Expire` its time to live. `Leave` is the way out through `finally`.

`unlinkMissingDevices` reads the account, then the devices, then which of the missing ones exist, and only then
removes them; `listing` keeps what it has read. `age` and `pending` measure the minute of `UNLINK_AFTER_SECONDS`.
Faults, at most `MaxFaults` of them: a call that fails with or without its effect (`Fails`), a process that dies
(`Dies`), a lock that expires, an account removed by an operator. `exposed` (a request that lost the lock before its
account was visible) and `late` (a device saved a minute or more after it was linked) are history; the properties name
them as the only exceptions.

### Writer

One object and the messages about it. `Request` and `LoadFromDatabase` are the check of the owner, made against the
cached fields and, on a miss, against the document; `Enqueue`, `Accept` and `PublishTimesOut` are `publishMessage`,
whose confirmation may come after the API has given up. `Take` to `Breaks` are the worker; several workers may be at
work at once, a message with one of them at a time, and it comes again when its handler breaks off: this is what
`MessageDelivery` promises. Two fields tell apart what the code treats differently: the one a patch touches, and the
owner, which only the creation mirrors. `applied`, `broken` and `tainted` are history.

### FanOut

`Subscribe` to `SearchPage` are a subscribe request, in the order of its commands. Its first page is a search that
shows what is `visible`, which is what was stored when the search index was last refreshed. `searchItems` has its
process refresh the index first (`RefreshIndex`), unless that process did so less than 500 ms ago (`SkipRefresh`);
`ThrottleEnds` is the passing of those 500 ms, `BackgroundRefresh` a refresh by Elasticsearch or another process.
Changes are stored without one. Refreshing and noting the time of it are one step. `recent` has the changes stored
since a process refreshed, `blind` (history) those that the search of a subscription may lack because it did without.
`ReadScopes` to `ScopeRead` are the reads of `getDevicesFromGeneratedChannels`, `Group` is `groupDevicesForFanOut`,
and `Confirmed`, `PublishFails` and `Settle` are `publishFanOut` with the retry of the queue. `scopes` has the
patterns a reader has yet to try, by their position in the order in which they are tried. Removals are one step that
overlaps no subscribe: what they do to each other is in `SubscriptionIndex`.

Left out: the pattern of one object of one user, which no subscription can have, since the API rejects an id together
with a user; pages after the first; the difference between created, changed and deleted objects, which is one of
payload; transient models, which reach the transport manager without a writer and have no stored state a first page
could show. The client-side cache of `Redis` is taken to be up to date.

### ApiService

`phase` is where `init` and `close` stand. A slot is a call to the database, from sending to acting on its answer, so
that answers can overtake each other: pings of the loop and of one that has been replaced, `loadApps`, and requests,
which all drive `markConnected` and `markDisconnected`. The Hub's part: `Post`, `HubHandles`, `PostFails`,
`Registered` and `Retry` are one attempt to register, `Reregister` a tick of the loop, `HubRestarts` an empty
registry. A POST that its client has given up after the time-out may still be on its way: it is `stray`, and the Hub
handles it at any later time (`HubHandlesLate`) or never. `Close` to `Closed` are `close()`, called once `init` has
resolved. A worker process has the same link to the Hub. `leaky` is history: the ways in which an entry may stay. Its
names differ from those of `Accounts` (`ProcessInit`, `processVars`, `PingTick`), so that `ApiProofs` can extend both.

### StoredObject and Access

`StoredObject` is the object itself: `ValidBody` and `ValidPatch` are the checks of the routes, `Applied` is what the
script of `updateItems` does with a patch, and a write that is accepted is applied later, in the order of the queue,
to whatever is stored by then. `userId` is a required field of the schema, but not one that creation asks for
(`Asked`): the route fills it in, and where a device without a user creates an object it stays out. A field that may
be null and is (`Null`) is, to the script, one that is not there. There a request is simply granted or refused.
`Access` extends it and conjoins to each of its requests the decision of the roles, so a behaviour of `Access` is one
of `ObjectSpec`, and what is proved of the stored object needs none of the recursive operators that evaluate filters.
`Without` places each item it keeps at its rank instead of recursively, for the same reason.

The value of `roles` is what the applications' role documents say; `Authorize`, `Evaluate`, `Resolved` and
`FieldFilter` are the ACL manager, `Parse`, `Test` and `Traverse` are `FilterQuery`, and `Parents` with `EsMatches`
the stack of `buildFilterQuery` and what Elasticsearch makes of the result. A query is a sequence of entries, one per
key. `Granted` and `Means` are the reference: what statements and queries mean, said without filters. An open
subscription is matched against what each write leaves. A count is decided by the roles (`Allowed`) and narrowed by
the client's filter only, as `countModel` has it. Operators `gte`, `lt`, `lte` are as `gt`; nested fields, dates and
floats are left out.

## 3. Runs

A type invariant that is proved is not repeated in a run.

| Run | Properties | Bounds, and why they are enough |
|---|---|---|
| `message_delivery` | `Conservation`, `AckedWasHandled`, `DeadLetterJustified`, `CleanStop`, `WaitsOnlyInOutage`, `NoRetryAfterStop`, `ImplementsStageQueue`, `EventuallySettled` | a good and an undecodable message, prefetch 2, one retry, two channels (one connection lost and restored), one outage. One retry tells "retry" from "exhausted"; the safety properties are proved for any number of channels |
| `mq_consumers` | `AvailableConsumes`, `ConnectIsNeverLate`, `ConsumesAgain` | durable and slot queue, four outages, so that more pauses overlap than the two that do no harm, two lost connections; five tags, so that a fresh one is always there. `AvailableConsumes` is proved for any number of outages, losses and tags |
| `device_session` | `EndedStaysEnded`, `ChainIsLinear`, `NeverGivesUp`, `NoUseAfterGrace`, `ImplementsAtomicSession` | two requests, four secrets (a sign-in and three rotations, or two sign-ins and two rotations), time 0..3, lifetime 3, reuse interval 1: inside, at and past the grace and the deadline. Proved for any number of each |
| `subscription_index` | `IndexMatchesDocuments`, `CountedOnce` | three devices in two partitions, a filtered and an unfiltered channel; any number of requests one after the other, two of which may overlap once |
| `subscription_partition` | `MembersAreIndexed` (violated) | finding 2: two devices in one partition, two requests at once |
| `ws_transport` | `RecordFollowsConnection`, `LogoutDisconnects`, `ClosedIsForgotten` | one device, two connections made to two nodes, one node stopped: reconnecting to another node, a logout sent to the node of either, a clean-up beside a registration. Devices share no state but the maps, which are keyed by device |
| `accounts` | `OneAccount`, `SavedIsListed`, `SignInIsComplete`, `OneSignInPerState` | a registration, two callbacks with one state, a local sign-in and a listing: every pair of kinds meets, on one username. One fault at any point; the minute is one tick, so that it may pass or not between any two calls. Proved for any number of each |
| `writer` | `RepeatsOnlyAfterBreak`, `ChangesAreTold`, `AcceptedIsQueued`, `CacheMirrors` | a create, an update and a delete in any order and overlap, one handler that breaks off; publishes and cache operations fail without bound. Proved for any number of messages and breaks |
| `writer_partial_cache` | `OwnerIsRecognised` (violated) | finding 15: the same |
| `fan_out` | `FanOutIsExact`, `OneMessagePerAttempt` | two devices in two partitions of one transport, so that they may share a message or not; two scopes, one with a filter that the change passes, three subscriptions that come and go without bound, two of them of one device; one process that serves them, so that one request meets the throttle of another; one change (changes share nothing but the index), two tries. Proved for any number of each, and for filters that no longer compile, of which the instance has none |
| `api_service` | `PingLoopLives`, `NodeIsKept`, `IsUnlisted`, `StopsPinging`, `GateFollowsDatabase`, `StaysListed` | two calls to the database in flight (one can overtake the other), one other service (the message queue and Redis are treated alike), two outages, one POST that is lost or late, one restart of the Hub. The first four are proved for any number of each |
| `access` | `StoredConforms`, `RequestsAreGranted`, `FoundIsGranted` | an owner, another user and nobody; six sets of roles with conditions of every shape, several statements and several roles; three bodies, one with a null, nine patches of every operation, five filters that nest, mix and follow logical operators; three writes |

Deadlock is not checked where the system stops: a worker or an API that has closed (`message_delivery`,
`mq_consumers`, `api_service`), a bounded set of connections (`ws_transport`), requests (`accounts`, `writer`,
`writer_partial_cache`), changes (`fan_out`) or writes (`access`) that is used up. `fan_out` and `access` have a VIEW.
The first leaves out what the reader of the index has read and is through with, and whether a change is in a first
page or excused from it, which only the property asks and does not tell apart; the second the last answer, which no
guard reads and the properties look at in each step that gives one.

### Findings

1. *A logout may end another sign-in's session.* `revokeSession` reads, decides, and then deletes whatever is stored;
   a sign-in between the read and the delete loses its session. The comment says "End the session the presented secret
   belongs to".
2. *A member's partition may be missing from the index.* `SCARD` = 0 and the `SREM` from the partition index straddle
   another device's `SADD`: fan-out does not see the device.
3. *A scope with members may be dropped.* `HINCRBY` to zero and `HDEL` straddle another subscriber's `HINCRBY`: the
   same pattern as finding 2, in the scope registry.
4. *A device's list may name a channel it is not a member of.* `removeSubscription` pops by a position found earlier;
   another unsubscribe of the device may have shortened the list since.
5. *A closed device may stay a member.* A subscribe in flight when the connection closes adds its member after the
   clean-up has read the list.
6. *An old pause may cancel a new consumer.* The loop of `doCancelAll` runs over the map it shares with `doConsume`.
   With three pauses under way, the last resume's consumer is cancelled by the loop of an earlier pause, and the
   worker, with every service up, consumes nothing until the next outage (`AlwaysConsumes`, which makes no exception
   for it).
7. *A consumer may survive a pause.* `pauseConsuming` cancels the tags it finds; a resume that waits for its tag has
   none yet.
8. *A consumer may survive `stopConsuming`,* in the same way as in finding 7.
9. *A slot queue is not declared again.* It goes when a pause cancels its only consumer, or with the connection. The
   resume gets a 404, which takes the connection down; the worker reconnects for ever.
10. *A device that reconnects may be recorded as offline.* `handleDisconnect` of the old connection waits for Redis
    while the new connection registers; its `unregisterDevice` then clears the transport the new one has written, and
    takes the subscriptions with it. The device is connected and gets nothing. (On the same node, it also deletes the
    new client from `registeredClients`.)
11. *A socket may close while its registration waits for Redis.* `handleDisconnect` finds no device and does nothing
    in Redis; the registration goes on, records the device as online and keeps the closed client in
    `registeredClients` until the device connects again.
12. *A connection may outlive a logout.* A registration that has read the session before the logout ends it, and
    writes the transport after the logout has read it, is not dropped.
13. *Subscriptions under an old transport may stay.* `removeAllSubscriptions` looks for members under the device's
    current transport. After a node went away and the device connected to another, the members under the old node's
    transport are not found.
14. The comment of `unregisterDevice` says that "`transport` is intentionally not cleared"; the code clears it, and
    `RecordFollowsConnection` depends on that (its mutant does what the comment says).
15. *The owner of an object may be refused.* An update that finds its cache entry expired writes its own field back,
    and `loadObjectAttributes` takes an entry that is not empty for all of the fields: the next request of the owner
    is checked without `userId`. The comment of the write-through says that the read path fills it up.
16. *A deletion may go untold.* A delete that breaks off after the database operation comes again, finds nothing and
    takes it that "the delete that got there first has told the subscribers" (`DeletionIsTold`).
17. *An update may be applied again.* A message that comes again is applied again: an `incr` counts twice, a create
    brings back an object deleted meanwhile. `RepeatsOnlyAfterBreak` bounds this to handlers that broke off; retries
    inside the Elasticsearch client are not counted. An update with several patches that finds the object gone at a
    later one tells nothing of those before it.
18. *A cache entry may never expire.* A process that dies between `HSET` and `EXPIRE` leaves one without a time to
    live. Two writers at once may leave an entry with an older value, or one for a deleted object (what `tainted`
    excludes).
19. *An entry may stay in the Hub.* A POST in flight when `close()` begins, one given up before that the Hub handles
    after the DELETE, or a first registration whose answer was lost, lists the node after it has unregistered. The
    comment of `close()` says that `dispose` has no effect if the registration already succeeded; it is what stops the
    re-registration.
20. The comment of the ping loop says "every 1s" while disconnected; the constant is 5 s. `connect()`'s says that
    failures other than of the connection are swallowed; the tick rethrows them from a promise nobody awaits. (Not
    modelled.)
21. *Queries and tests differ on fields that are not there.* Elasticsearch's `ne` finds an object without the field
    (one that is null has no term either, but `test()` agrees on it), `test()` does not accept it; the comment of
    `AclConditionResolver` says of the filter that it "serves both uses". `FoundIsGranted` excludes the case. (Dates
    differ too: equal ones are not equal to `test()`.)
22. *A `$or` of sub-queries with several fields* is a disjunction of all of the fields, since `parseQuery` lays
    sub-queries end to end. The README of `core` speaks of "an array of sub-queries"; the filters of `access` have one
    entry in each.
23. *Two accounts for one username* come about when the lock expires, or an insert is cut short, before searches find
    the first (`exposed`). Two callbacks for one account may append the provider twice, which is harmless. The comment
    that the patch of a new provider "is applied asynchronously by the writer" is stale.
24. *A first page may lack a change that nobody is told of.* A process that refreshed the search index less than 500
    ms ago answers the next subscribe without a refresh. A change stored in between, and fanned out before the new
    member is in the index, is neither in its first page nor told. The comment of the subscribe route
    (`Subscription.ts:120-145`) wants "the initial page to be consistent with any in-flight writes"
    (`PageIsConsistent`). `FanOutIsExact` says that this is the only way to miss one.

Only findings 2 and 15 have a run of their own. `EndsOnlyItsOwnSession` (1), `ClosedHasNone` (5), `AlwaysConsumes`
(6), `PausedStops` (7), `SlotConsumesAgain` (9), `ConnectedIsOnline` (10), `DeletionIsTold` (16) and
`PageIsConsistent` (24) are defined in the modules, and TLC finds a counterexample when one is put alone into a
configuration of its module. Findings 11 to 13 are what `raced` excludes in `ws_transport`. What holds in spite of the
races of findings 2 to 5 is `CountedOnce`: apart from what `HDEL` threw away, the counter is exact.

Choices of the code that the model takes as they are: the total of a search, and a count, have objects the roles do
not grant; an update is checked against the object as it was read, not as the patch leaves it; the condition of a Deny
is dropped.

### Fairness

Liveness properties of `MessageDelivery`, `MqConsumers`, `WsTransport` (`FairSpec`) and `ApiService` (`ProcessSpec`)
use fairness. In `MqConsumers`: weak fairness of `init` going on, of the broker's answers, of the client finding a
broken connection, of `Reconnect` and of `ServiceUp`. In `MessageDelivery`: weak fairness of the delivery steps: a
handler ends, a timer fires, the event loop runs promises that are resolved. Of `ServiceUp` and `Reconnect`: the
adapters retry for ever, and an outage ends. Of `ConnectionLost` for a channel the broker has dropped, and of
`BrokerDropsChannel` for one the client has left: heartbeats (10 s) find both. Strong fairness of `BrokerSend`: a
broker with a consumer and a free prefetch slot sends, though outages disable it again and again. `Close` is never
forced. Connections may always be lost again within the bound on channels; the guard `opened < MaxChannels` of the
loss leaves the last channel alive, so that a reconnect is always possible. In `WsTransport`: weak fairness of each
handler's next step (Redis answers, or the call fails, which needs no fairness), of the consumption of a logout
message, of `LogoutEnds`, and of a closing socket: the peer answers the close frame or `ws` destroys the socket after
30 s. Nothing makes a socket close by itself. In `ApiService`: weak fairness of the ping timer, of every call being
answered or timing out and being acted upon, and of the steps of an attempt to register and of the re-register timer.
Outages and lost POSTs are bounded, which stands for "they end"; the process never has to start, serve or close.

## 4. Proofs

TLC checks the instances above; the theorems hold for every set of messages and requests, every number of retries,
channels, tags, outages and losses, from the named assumptions of the modules (`DeliveryAssumption`,
`ConsumerAssumption`, `SessionAssumption`, `AccountsAssumption`, `WriterAssumption`, `IndexAssumption`,
`WsAssumption`, `FanOutAssumption`, `ServiceAssumption`, `ObjectAssumption`). They say that the bounds are numbers,
that the values that stand for "none" are not ordinary ones, and that a partition, a node or a scope is given for each
device, connection or filter; one names an extra condition of its own: `ThreeAttemptsSuffice`, that there are three
attempts.

`MessageDeliveryProofs`: `TypeCorrect` needs more than the types: a counter stays below its limit because it is reset
on arrival and compared before it is incremented (`Counted`). The other safety properties rest on `DeliveryInvariant`:
the counter of a delivery is the number of its failures with every service up, what is on the wire is on the live
channel, and a channel the broker gave up holds nothing. `Conservation` follows from it because a settlement acts on
exactly one channel. `RefinesStageQueue` maps the messages held on all channels to the abstract queue's `taken`;
losing a channel, a requeue and a shutdown are all `GiveBack`, and the handler of a delivery that was given back is
`LateSuccess`. `NoRetryOnceStopped` proves the action property `NoRetryAfterStop`: once `stopConsuming()` is called no
delivery waits (`NoWaiters`), since it cuts every wait short and a failure after it is handed back at once.
`NoMissedWakeUp` proves `WaitsOnlyInOutage`, the safety core of `EventuallySettled`: a delivery waits for the services
only while one is down, because whatever brings the last one back, an event or a restored connection, resolves every
wait in the same step (`NoneAwaits`).

`DeviceSessionProofs`: the inductive invariant relates every secret to the stored session: a stored secret has not
been replaced, its predecessor was replaced by it, what a request has read and is still stored has not changed
(`SeenMatches`), and a secret a request has generated is stored nowhere (`FreshUnused`). From it `ChainNeverForks` and
`NoResurrection`. `ThreeAttemptsSuffice` adds that every lost race moves the presented secret one place down: stored,
previous, forgotten; with `MaxAttempts >= 3` the third attempt cannot be lost. It needs that assumption: with two
attempts the proof, and the property, fail. `GraceEnds` proves `NoUseAfterGrace`: a rotation is dated when its request
began, which was before the secret it presents was replaced (`Dated`), and a request that decided to rotate a replaced
secret was within its grace (`Graced`). `RefreshesAreAtomic` proves the refinement of `AtomicSession`. The swap
compares a hash alone, so the proof has to show that a hash still stored means the whole record is the one the request
decided on (`Decisive`: the predecessor, the date of the rotation, the deadline), and that a secret in the making
belongs to one request, so that it is spent once.

`SubscriptionIndexProofs`: `MembersCountedOnce` proves `CountedOnce`. Apart from what `HDEL` threw away, the counter
is the number of members, less those a subscribe has yet to count (`Adding`), plus those a removal has yet to discount
(`Removing`). The proof needs that only an unsubscribe or a clean-up under way has removals (`Shape`), so that a new
one forgets none, and that the sets are finite. `TypeCorrect` needs that the places a list has left are not promised
twice (`Room`). `IndexMirrors` proves `IndexMatchesDocuments` from `OneAtATime`: as long as none has overlapped, there
is one request in flight at most, and for each of its steps the invariant says by how much the lists, the members, the
partitions, the filters and the counter differ from one another (`DocumentAt` to `ScopeAt`). The number of members
comes from `MembersCountedOnce`; the lemmas about removing a position from a list are proved once, for any sequence.

`MqConsumersProofs`: the inductive invariant, `NothingToRestore`, says of a worker that has not begun to close that it
has paused whenever a service is down, takes the queue for disconnected when it is, and waits for no restore: the loss
that would make one necessary has paused consumption, and a paused adapter restores nothing. So in a worker `tryOnce`
never has consumers to restore, the resume brings them back, and the `connect` that would follow an awaited restore
cannot come late (`ConnectNeverLate`). Once the worker closes, none of this holds. `ConsumerComes` proves
`AvailableConsumes` for any number of outages and losses, and of pauses that overlap; what it excepts is history, a
worker that is still `crowded`, of which it is false (finding 6). Its invariant, `ConsumerToCome`, looks at the calls
as a promise: either some consumer is forgotten by the client, so that no call will ever cancel it (`Spare`), or the
calls themselves leave one (`LeavesOne`): there is a consume after the last cancel, or the first cancel clears the
tags while the consumer that counts is not the one it cancels. What makes a pause keep the promise is that the resume
between two pauses puts a consume between their cancels (`Apart`), and that with two cancels the second has not seen
the tags cleared (`TwoCancels`). The lemmas on answers (`ConsumeAnswered`, `CancelClears`, `CancelGoesOn`) speak of
any sequence of calls and any tags.

`ApiProofs`, on `Accounts`: `AccountInv` says that a request between its search and its account's visibility has the
lock, or has lost it (`LockHeld`), and that what a request did not find has not come up since (`NoneFound`);
`OneAccountPerName` follows. `NonceInv` gives `StateSignsInOnce`. `SoFar` is what each step of a sign-in has got
together by then, `SavedIsThrough` that a saved device's request is through with it: together `SignInsAreComplete`.
`SavedDevicesAreListed` needs `LinkedInv`, that an unsaved device is on its account, which was written no longer ago
than the device has waited, or it has waited for the minute, and `ListingInv`, that what is about to be unlinked has
waited as long or will never be saved. So the age of the document bounds the age of every device on it, which is why
looking at `updatedAt` is enough.

`ApiProofs`, on `ApiService`: `CallsInPhase` says that the ping loop's timer is set from the start to `disconnect()`,
that the gate shows the adapter's view, and that `loadApps` is one call in its phase; `PingsStop` (`StopsPinging`) and
`PingLoopStaysAlive` (`PingLoopLives`) follow. `HubLink` says at each point of a process' life what it has to do with
the Hub: a running one that is not registered is making an attempt, a registered one has its loop, and one that closes
without a leak has no POST astray and is at no point from which an attempt still reaches the Hub. It gives
`ClosedIsUnlisted` (`IsUnlisted`) and `RunningNodeIsKept` (`NodeIsKept`). `PingLoopLives` and `NodeIsKept` are the
safety cores of `GateFollowsDatabase` and `StaysListed`: what is left to fairness is that a timer fires and a call is
answered.

`WsTransportProofs`: the invariant is one for connections (`ConnsOK`: what a client claims or is bound to at each
point of its registration and of its clean-up) and one for devices (`Calm`: a device whose handlers have met or
failed; or one that is away; or one with one connection that joins; or one with one that has joined). In the last two
it says of every step which of the record, the route and the subscriptions have been written already. `RecordFollows`
reads it at the points where nothing is under way. That another device's steps, and the stop of a node without the
device, leave `Calm` alone is most of the work.

`FanOutProofs`: `FanOutExact` has three parts. A subscription that is on is in the index, and one that is being
entered is as far as its step says; what a reader of the index has gathered was there to be gathered and matches
(`Sound`); and a change is still owed to a subscriber as long as the reader has not passed the place where it finds it
(`Complete`): a scope it has yet to read, a partition, a member list or a filter still before it, a message not
published, or a first page that is yet to be searched. What that search shows is `Fresh`: a change that is stored and
not visible has been stored since every process last refreshed that skips the refresh now, so it is in `blind` of
whoever does without. `OneMessage` bounds how often a device hears an event by the attempts at it: in each, its
channels are grouped into one set, which is published or not.

`WriterProofs`: `WriteCount` relates how often a message was written to the handlers that broke off
(`RepeatsAreBreaks`), `ToldByNow` says which messages past their publish have been told (`EveryChangeIsTold`), and
`MirrorsOne` that between undisturbed writers the one change on its way to the cache is the document's last
(`CacheIsMirror`).

Its second section is about `StoredObject`. `ObjectConforms` proves `StoredConforms` for every set of letters, bodies
and patches, any number of writes, and whatever is granted: the queue holds only validated writes (`QueueStaysValid`),
and each operation, on a field that is there or not, leaves a value of the field's type, or what was there
(`PatchKeepsType`, `AppliedIsValid`), whatever the object has become since the request was accepted. That what
`remove` leaves is an array of strings (`WithoutIsSeq`) would be an induction on its length; here ranks are counted:
no two kept positions have the same, so every rank up to their number is taken.

Only model-checked: the liveness properties (`EventuallySettled`, `ConsumesAgain`, `LogoutDisconnects`,
`ClosedIsForgotten`, `GateFollowsDatabase`, `StaysListed`), since fairness is out of the prover's reach; and
`RequestsAreGranted` and `FoundIsGranted` of `Access`, which compare recursive operators over statements and queries
with their reference, an induction over data that the prover cannot make.

## 5. What is left

Worth adding next: two changes of one object in `FanOut`, with the queues that keep or lose their order; the choice of
a transport slot.

### Not modelled

Sequential code or conversion without shared state: tokens, configuration and service resolution, bootstrappers,
logging and compression, `BaseService` and the abstract `DatabaseAdapter` are left out. Of the modelled components:
the branch of `tryOnce` that ends the process, reloading of applications and roles, the slot a transport worker
chooses, middlewares that only read a request, the content of the management server, and the route that registers a
device without an account. The status and note of each component in `PROJECT.json` say more.
