# A TLA+ verification of Maidtrix

Maidtrix is a Matrix homeserver (a fork of Dendrite). It is one Go process made of
components that call each other directly, talk through NATS JetStream streams, and keep
their state in SQL databases. This directory models parts of it in TLA+, model-checks
them with TLC and proves theorems about them with TLAPS.

Contents: [inventory](#inventory), [plan](#plan), [modules](#modules),
[runs](#runs), [fairness and timing](#fairness-and-timing), [proofs](#proofs),
[findings](#findings), [known behaviours](#known-behaviours), [what is not modelled](#what-is-not-modelled).

## Inventory

| Component | State | Operations | Interacts with | What is hard | What makes it correct |
|---|---|---|---|---|---|
| **Server statistics** `federationapi/statistics` | per server: atomics `blacklisted`, `assumedOffline`, `backoffStarted`, `backoffUntil`, `backoffCount`; the map `backoffTimers`; rows in two tables | `Success`, `Failure`, `MarkServerAlive`, `ClearBackoff`, `backoffFinished`, `ForServer`, `AddRelayServers` | called by every user of the federation client; calls the queue's backoff notifier | no lock covers an operation; timers race callers; memory and database change in separate steps | a backoff always ends; memory and database agree; operations return |
| **Outgoing queues** `federationapi/queue` | `queues` map; per object `running`, `backingOff`, `overflowed`, `notify`, pending PDUs and EDUs, transaction ID | `SendEvent`, `SendEDU`, `RetryServer`, `NewOutgoingQueues`, `backgroundSend` and its helpers | consumers call it; statistics wake it; storage; remote servers | lost wake-ups, half-finished transactions, overflow of memory to the database, blacklisting while in use, crashes | an accepted event is kept until delivered, and is delivered in the end |
| **Queue storage** `federationapi/storage/shared` | rows (destination, NID), JSON rows shared by destinations, a cache | store, associate, get pending, clean, delete expired | queue, caches | reference counting under concurrent cleaning, errors inside loops | no row is lost, no JSON is leaked |
| **Federation consumers** `federationapi/consumers` | joined hosts per room, inbound peeks | one handler per stream | JetStream, queues, roomserver | redelivery, order, peeks starting between events | each server in the room gets each event |
| **Federation endpoints** `federationapi/routing`, `internal/transactionrequest.go` | transactions in flight per origin | `/send`, joins, leaves, keys | roomserver input | duplicate and concurrent transactions | a transaction has one handler at a time, and every request is answered |
| **Federation internal API** `federationapi/internal` | none of its own | perform join/leave/peek, queries, keys | statistics, client, roomserver | requests racing the queue | respects blacklist and backoff |
| **Room input** `roomserver/internal/input` | one worker per room with a subscription | `startWorkerForRoom`, `_next`, `processRoomEvent`, latest events | JetStream, storage, federation for missing events | worker going idle while a message arrives, retries, rollback | each event processed in order, exactly once in effect |
| **Room state and storage** `roomserver/state`, `roomserver/storage` | events, snapshots, forward extremities | updater transactions, queries | input, perform | two updaters of a room | extremities and state stay consistent |
| **Event auth and state resolution** `internal/matrixserver` | none (pure) | auth checks, state resolution v1/v2 | roomserver | orderings, ties | deterministic, independent of input order |
| **Sync** `syncapi` | stream positions, user/device streams, listeners | consumers advance positions, `/sync` waits | JetStream, storage | wake-up between reading a position and waiting | no update is missed by a poll |
| **Device lists and users** `userapi` | device keys, stale marks, workers per server | updates, fetches, retries, key queries | federation, sync | update during a fetch, missing predecessors | a stale list is fetched in the end |
| **Client API** `clientapi` | registration and UIA sessions, transaction cache, rate limits | HTTP handlers | all others | session timers, concurrent retries | one effect per client transaction |
| **Media** `mediaapi` | active remote requests | download, upload, thumbnails | federation, file system | concurrent downloads of a file | one fetch, every waiter answered |
| **Application services** `appservice` | backoff per service | batches to a service | JetStream | redelivery with other batch boundaries | each event delivered at least once |
| **Relay** `relayapi` | stored transactions per user | store, forward, fetch | queue, federation | retries of the forwarding | at least once |
| **Utilities** `internal/...` | transaction cache, typing cache, rate limits, exclusive writer, per-room mutex | small concurrent objects | all | check-then-act | see `PROJECT.json` |
| **Setup** `setup`, `cmd` | process context, configuration | start, shut down | all | cancellation at any point | components stop |

`PROJECT.json` lists the components with their sources and status, and the hazards at the
line where each one bites.

## Plan

Done:

1. `ServerStatistics`: the statistics of one server, at the grain of its atomic effects.
2. `ReliableDelivery`: what the outgoing queue promises (abstract).
3. `DestinationQueue`: the queue of one destination, shown to implement it.
4. `EventAuth`, `RoomAuth`: the authorisation rules, and a room that obeys them.
5. `StateResolution`, `RoomForks`: state resolution v2, and a room that forks and merges.
6. `RoomInput`: the input queue of a room, from the stream to the output log.
7. `DeviceListUpdater`: the device lists of remote users.
8. `SyncNotifier`: positions, long polls and the ranges a response covers.
9. `FederationTransactions`: transaction IDs of the sender (kept over a failure) composed with
   the receiver's de-duplication in `routing/send.go`.

Left, in this order:

10. `FederationQueueDB`: several destinations that share JSON rows; reference counts under
    concurrent cleaning, errors inside the association loop; refines the set `stored` of
    `DestinationQueue`.
11. `StatisticsRegistry`: `ForServer` racing itself, the relay list.
12. `MediaDownload`, `TypingCache`, `RateLimits`, `TransactionCache`, registration sessions,
    application service batches: one small module each.

## Modules

### ServerStatistics

One server's `ServerStatistics` object. The Go struct's atomics are variables of the same
name; `backoffUntil` is `"nil"` (never stored), `"zero"` (`time.Time{}`) or `"until"`.
`tracked` is the server's entry in `backoffTimers`, and `timer[t]` follows each
`time.AfterFunc` from `"armed"` over `"fired"` (the goroutine exists) to `"notifying"`
(between `ClearBackoff` and the notifier). `dbBlacklist` and `dbOffline` are the two rows.

A caller is a program counter; each action is one atomic operation, one critical section
(`ClearBackoff` under `backoffMutex`) or one database call, named after the method and the
step: `FailureCAS`, `FailureArm`, `CancelClear`, `OnlineDB`, ... `Call` starts an operation;
`Restart` is a crash followed by the `ForServer` that reloads the rows. `DBOutcomes` says
whether a database call may fail.

Bounds: two callers (every race in this object is between two goroutines and a timer), two
timers (one tracked and one overwritten; a third would need a third failure during the
same window), thresholds 1 and 2. Counters need no bound: they are reset or stop at the
blacklist threshold.

### ReliableDelivery

The promise, with three sets: an event is accepted once, remembered until it was delivered
or expired, and delivered any number of times. No queue, no worker, no failure.

### DestinationQueue

The queue of one destination, with every goroutine that touches it.

| Model | Code |
|---|---|
| `running`, `backingOff`, `overflowed`, `notify`, `pending` per member of `Queues` | the fields of a `destinationQueue` object |
| `spawned[q]` | `go oq.backgroundSend()` not yet running |
| `wpc[q]`, `batch[q]`, `method[q]` | the worker past its CompareAndSwap: program point, contents of the transaction, how it was sent |
| `pc[e]`, `at[e]` | the goroutine that sends event `e`, and the queue object it holds |
| `pc[q]` | the tail of a stopped worker (`checkNotificationsOnClose`), which may run beside the next worker |
| `pc["timer"]`, `pc["api"]`, `pc["hydrate"]` | the backoff timer, other users of the statistics, the wake-up after a start |
| `current`, `created`, `notifier` | `OutgoingQueues.queues[destination]`, the objects made so far, the installed backoff notifier |
| `stored` | the rows of the destination in the queue tables |
| `accepted`, `delivered` | history: rows ever written, events that reached the destination or a relay |

The statistics appear here as the atomic operations `StatsSuccess`, `StatsFailure` and
`StatsAlive`; their inner interleavings are the subject of `ServerStatistics`.

An action is one step between two points at which another goroutine can interfere: an
atomic operation, a critical section of `pendingMutex` or `queuesMutex`, a channel operation,
a database call, a request. `getPendingFromDatabase` is one action because it holds
`pendingMutex` from its first to its last line. The worker's request ends as `"direct"`,
`"relay"`, `"error"` or `"lost"` (it arrived and the answer did not).

Abstractions:

* An event stands for its row (receipt). A message that a stream delivers again after its row
  was written gets another row, that is, another event. The acknowledgement of a stream is
  modelled by `AfterRestart` (an event without a row comes again) and by `SendBegin` (an EDU
  whose row could not be written is delivered again; a PDU's handler ends the process then,
  which is a `Restart`).
* `DeleteExpiredEDUs` removes all expired rows at once; `Expire` removes one, in any order,
  which allows every result of the former.
* The pages of `GetPending...` come in any order: the rows go through a Go map.
* `NewOutgoingQueues` makes two queries for server names; the model makes one choice of
  whether they succeed. With one of two failing the destination is hydrated or not, which
  are the outcomes the choice has.
* A queue has one stopping worker at a time (`pc[q]`): `Stop` waits until the tail of the previous
  worker has ended, so two `checkNotificationsOnClose` of one object never run side by side. The second would
  do what the first does: take a notification that is there and start a worker.
* The request runs in the process context, and a shutdown cancels it (`destinationqueue.go:413`).
  `Send` has that outcome as `"error"` or `"lost"`, so only the runs with failing requests have it.
* `HasRelays` is a constant: the relay list of a server changes rarely. `Restart` forgets
  `assumedOffline` without relays, since it is loaded only when relays are enabled.

Bounds: `Queues` has one or two objects (a third needs a second blacklisting and alive mark);
two events of one or both kinds (three for overflow), because every property relates one event that is
stranded or lost to at most one that wakes the worker, and a memory limit of 2 is
reached by two events and exceeded by three; `MaxFailures`, `MaxSpawned`, `MaxApiCalls` and `MaxRestarts` cap what can
repeat. A limit of 9 means memory never fills up in that run.

### EventAuth and RoomAuth

`EventAuth` is `internal/matrixserver/eventauth.go` as operators: an event is a record with the
fields the rules read, a provider of auth events a record with an event (or `NoEvent`) under
each key, and the allower context a record with what `update` loads from a provider. Each
`...Allowed` function of the source is an operator of that name; its early returns are the
conjuncts. Power levels are records with the defaults of `eventcontent.go`. `StateNeeded` is
`accumulateStateNeeded`, `AuthEventsOf` what `AuthEventReferences` makes of it. Room versions
differ in the record `Version`; the signature of a third-party invite is a Boolean.

`RoomAuth` is a room in which every user sends any membership, power level, join rule or
third-party invite event, with the auth events the code would pick. An event that `Allowed`
accepts replaces the state event under its key, as `PerformCreateRoom` and the room input do;
a stored event keeps only the fields later checks read, which keeps states few. Other event
types cannot change the auth state; `NeededSuffices` still checks them in every state.

Bounds: three users (one acts, one is acted upon, one authorises), two servers, one invite
token, two levels and one further field of the power levels that are changed, the default join
rule and `knock_restricted`, the rule with the most branches. The theorems have no bounds.

### StateResolution and RoomForks

`StateResolution` is `stateresolutionv2.go` over a graph of events: the auth difference, the
control events with what their auth events pull in, the reverse topological order by power
(Kahn's algorithm with the code's heap), the mainline and its ordering, and the iterative
check, with the allower context that all events share. What the code iterates over from a map
or list is a sequence parameter. `RoomForks` sends events on two branches of a room with a
common history and merges them the way `state.go` does (`calculateStateAfterManyEvents`,
`resolveConflictsV2`). Event numbers serve as timestamps and IDs and are given out in every
order, so that ties are broken in every way.

Bounds: four users on one server; the history creates a room with the restricted join rule, an
administrator a and a moderator b, and c and d who have joined and left. After the fork up to
three events of six kinds follow: a bans b, b bans c, a takes b's level away, b makes the room
public, c joins through a, d joins through b. So each conflict of power levels, bans and joins
with an authorisation that the other branch withdraws occurs, one branch may be ahead, and the
merge sees control events whose auth events conflict too. The branches are symmetric. The
control list may name an event twice, as in the code. Go's maps return a list in any order; tried
are the rotations of its ascending and of its descending order, both lists turned together (`Orders`): every event comes
first and last, and of any two either comes before the other. All orders of lists of five
and more events are out of TLC's reach here.

### RoomInput

The input of one room (`roomserver/internal/input`), in steps that end where the process can
be interrupted: publishing, the ephemeral consumer's notice, `Fetch`, the database
transactions of `processRoomEvent`, the write to the output log inside the last of them,
its commit, the acknowledgement.

| Model | Code |
|---|---|
| `stream`, `status`, `unseen` | the JetStream stream, what the room's consumers know of each message, the ephemeral consumer |
| `durable` | whether the room's durable consumer exists |
| `sub`, `inbox`, `pc`, `cur` | `worker.subscription`, calls of `_next` in the actor's inbox, the running call |
| `work`, `verdict`, `result` | the calls of `processRoomEvent`, a gap's events first; what the checks and the call return |
| `stored`, `refs`, `snap`, `sent`, `latest` | events with their rejected flag, previous events, state snapshots, `sent_to_output`, forward extremities |
| `produced`, `declined` | history: the output log; messages whose last processing rejected, soft-failed or gave up the event |

The verdict of the checks is chosen freely among those the code can reach at that point, so
that the properties hold whatever `EventAuth` decides.

A gap is the missing previous events of a new event (`MissingPrev`). It is filled, in part or in
whole, by calls of `processRoomEvent` for the missing events in order, of which the first may come with the
state before it; or nobody answers and the event is rejected. If the previous events have no
state after that, the state before the event itself is looked up, and the event goes on with it
(`hasState`) or is rejected. The branch of `input_events.go:263-278` that takes a snapshot
together with an error is not in the model: every error return of
`processEventWithMissingState` has a nil snapshot. The outliers that come with a snapshot
(`sendOutliers`) are left out: they touch neither extremities nor output.

The stream keeps a message only while a consumer is interested in it (`InterestPolicy`). If
the durable consumer cannot be looked up or made, the acknowledgement of the notice is the last interest and the
message is `"lost"`; if it exists already, the message stays. A `Shutdown` makes the worker keep
back the acknowledgement for any error, a rejection included (`input.go:360`).
`Faults` names the steps that may fail while the process runs: in `room_input` making the consumer,
the subscription and the commit. `MaxAge` of the stream and `InactiveThreshold` of a consumer (24 hours
each) are not modelled, nor is a message that is published while neither consumer exists.

Bounds: two messages, one restart, a graph of four events: the root, a and b on two branches, c
after both, so that c alone is a gap and a fork. Two messages are enough for one to be in
flight, redelivered or waiting while the other runs.

### DeviceListUpdater

One worker and its servers, the consumer of updates, `ManualUpdate`, the timers of `Start`, and
the two tables. A remote list is a sequence of changes (the stream ID is the position);
a change may be sent or lost. `cons` is the consumer inside `Update`, `worker` the worker
inside `processServer`, `retries` and `restarting` the map and the goroutine that empties it.
`raced` and `abandoned` are history variables that name the users left behind by two known
behaviours below; every property that excepts them says so: `GapsAreNoticed` catches updates
that were lost, not the race between a fetch and an update. The updates of one user arrive in the order
in which they were sent; they may be lost or come again. `Answer` leaves out
`PerformUploadDeviceKeys` (`device_list_update.go:582-598`), which hands the cross-signing
keys of the answer to another component and ignores its result.

Bounds: two users of one server (a worker that serves two users is what makes a failure of
one leave the other), two devices, a channel of three slots (the restarter keeps two free),
two changes, one event among failures, crashes, blacklisting and manual updates. The safety
properties also hold with three changes or two events (4.2 million states).

### SyncNotifier

Streams of items, each item the set of clients it is for; a consumer writes an item, advances
the provider and tells the notifier, in three steps. A `/sync` request is one record that
walks through `OnIncomingSyncRequest`: read the position, get a listener, get its channel,
wait, read every stream in any order, respond or go round again. `Complete` and `Incremental`
are the two ways a provider reads; receipts are read without an upper end, as in the code.
`GiveUp` answers with the token of the request; `GoAway` loses a response; `Crash` restarts
the server and delivers unacknowledged messages again.

`GetListener` sets a finalizer on the listener and returns a copy (`userstream.go:77-86`), so the
original is garbage at once: `Finalize` is the collector closing it, at any moment after that, and the request
closes its copy as well. `numWaiting` is therefore modelled as the `uint` it is, and `_removeEmptyUserStreams`
(`Kept`) removes a stream whenever that counter is 0, a request waiting or not.

Bounds: one client (requests share only the notifier, which treats each client separately),
a stream read up to a position and one read to its end, two items, two faults. At most one listener
per stream waits for the collector (`MaxGarbage`; further ones are never collected, which the
collector may also do), and a `uint` has three values (`UintSize`), so that the counter wraps:
204 thousand states.

### FederationTransactions

Two servers that both run this code. The sender is its worker: it takes the front of the
queue, an ID unless one was kept, and waits for the answer (`call`). The receiver is `Send`: a
request becomes the handler of its transaction or waits on the channel of the request in
flight. A request is a record that outlives the sender's interest in it.

| Model | Code |
|---|---|
| `pdus`, `edus`, `txnID` | the queue of `DestinationQueue` without its storage, `oq.transactionID` |
| `reqs[r].pc` | `sent` (on its way), `wait` (on the channel), `process` (in `ProcessTransaction`), `delete` and `close` (the two deferred calls), `answer`, `done` |
| `reqs[r].pdus`, `.edus`, `.batch` | what is left to process, in the handler and in its goroutine for EDUs; what the request held |
| `inFlight`, `chan` | `inFlightTxnsPerOrigin`, the channels with their one result |
| `handled`, `removed`, `joined` | history: what the receiver passed on or refused; what the sender cleaned; what was acknowledged with the result of another request that had not handled it |
| `cancelled` | history: the items that a request gave up because a call for them failed |

A PDU is passed on, refused in the response or dropped silently, which all count as handled; a
member of `Bad` may also make the handler refuse the transaction. `Disconnect` is a lost
connection or the sender's time limit. The handler works in the context of its request
(`send.go:135`), so from then on every call it makes may fail (`PassOn`); the failure is logged or put into the
response, and the item is not handled. `GiveUp` is the receiver's.

Bounds: a PDU and an EDU (one in a request, the other added before the retry), three requests
(two can wait on the channel of a third), one fault: a restart of either server or a failing
call. The safety properties were also checked with two faults (1.55 million states).

## Runs

| Run | Checks | Shows |
|---|---|---|
| `stats_core` | `TypeOK`, `TrackedIsLive`, `BackoffHasOwner` | with all operations, database errors and restarts: a set `backoffStarted` always has somebody to reset it |
| `stats_live` | `BlacklistDurable`, `OfflineDurable`, `BlacklistSurvivesRestart`, `BackoffEnds` | failures and alive marks with a working database: a flag has its row or somebody about to write it (a row without its flag is possible, see known behaviours), a blacklisting survives a crash, and every backoff ends |
| `queue_faults` | `TypeOK`, `NoLoss` | every outcome of a request, relays, database errors, blacklisting, alive marks and failures outside the queue, with two queue objects: no row is lost |
| `queue_healthy` | `NothingStranded` | no failing transaction, unbounded delays, a PDU and an expiring EDU, requests outside the queue, a restart: no lost wake-up |
| `queue_backoff` | `MemoryBounded`, `BatchIsPrefix`, `BackingOffHasTimer`, `Reliable`, `Delivery` | two events, failing requests and lost answers, a restart: the queue implements `ReliableDelivery`; what is cut from memory is what was sent; a backed-off queue is woken, and every accepted event is delivered |
| `transactions` | `TypeOK`, `OneHandler`, `NothingDropped`, `Answered` | retries with a kept ID, lost answers, refusals, a restart or a call that fails after the client has gone: one handler per transaction; what leaves the queue was handled or is a known exception; nobody is left waiting |
| `room_auth` | `TypeOK`, `NeededSuffices`, `PowerHandedDown`, `BanHolds` | in every state of the room the selected auth events decide as the whole state would; levels are only handed down; bans hold |
| `room_forks` | `OrderIrrelevant`, `BanWins` | the merged state does not depend on map order, for the orders tried; a ban beats what the banned user did on the other branch |
| `room_input` | `TypeOK`, `OneChain`, `RoomConsistent`, `AckedIsHandled`, `ActiveRoomDrains` | consumers that cannot be made, failing subscriptions and commits, gaps, a restart: one chain of `_next` calls; extremities and output log agree over crashes; the worker acknowledges a message only when it was handled; a subscribed worker empties the queue |
| `room_restart` | `Reprocessed`, violated | see [findings](#findings) |
| `devices` | `TypeOK`, `StaleIsTended`, `GapsAreNoticed`, `StaleRefreshed` | a stale list has a poke, timer, retry or worker on its way; a list that is not marked is the remote list of one moment, not before the last update handled, unless the race of the known behaviours hit it; a stale list is fetched in the end |
| `sync` | `TypeOK`, `NothingSkipped`, `NoLostWakeUp`, `Delivered` | a token is never past something that was not sent; nobody whose stream is in the map waits for what was announced; everything arrives |

The runs of the queue, the transactions, the room and the device lists do not check deadlock: once everything
is delivered, sent or fetched and the workers are idle nothing needs to happen. The
statistics and the sync requests have no final state and are checked for deadlock.

Every property of a passing run has a mutant, a plausible bug in a mapped definition (a guard
or a reset left out, a wrong prefix), that makes TLC find it violated.

## Fairness and timing

`ServerStatistics!FairSpec`: a goroutine inside a call is scheduled, an armed timer fires and
its function runs. The Go runtime gives both. Nothing forces a caller to start an operation.

`DestinationQueue!FairSpec`: the same for senders, workers, the stopping worker, the timer and
the other goroutines, and a process that is shutting down ends. There is no fairness on new
events, on the outcome of a request, on requests outside the queue, or on crashes; that a
request succeeds after at most `MaxFailures` failures in a row is the bound, and `Delivery`
cannot hold without it.

`FederationTransactions!FairSpec`: the receiver's handlers are scheduled. A request need not
arrive, the sender need not retry, and no time limit is assumed to end a wait.

`RoomInput!FairSpec`: the callback and the worker are scheduled, a `Fetch` that finds nothing
ends, and JetStream redelivers what was not acknowledged. There is no fairness on publishing,
on stopping or on failures; `FetchFails` is enabled for a running process only when nothing
is available, since `Fetch` waits a minute for a message that is there.

`DeviceListUpdater!FairSpec`: consumer, worker, restarter and callers are scheduled, and a
request is answered or fails. Failures are bounded by `MaxEvents`; without that bound a server
that always fails is never fetched from.

`SyncNotifier!FairSpec`: consumers and requests are scheduled, a waiting request ends within its
timeout, and the client asks again after every response, which is what `/sync` is for.

`Prompt` is a timing assumption, used in `queue_backoff`:
a goroutine between two instructions (a waker between its notification and its
CompareAndSwap, a worker between its failure and its last instruction) is faster than an HTTP
request, a backoff of at least 1.6 seconds (`duration()`) or an idle timeout of 30 seconds.
Every other run works without it. It is needed: with `Prompt = FALSE` in
`queue_backoff.cfg` a waker delayed between its notification and its CompareAndSwap
(`destinationqueue.go:184`) clears the `backingOff` that the worker it woke has set after a
failed request, the end of the backoff then wakes nobody, and TLC finds an event that waits
for the next one. Of the theorems only `BackedOffIsWoken`, `FailuresStrandNobody` and
`FailuresStrandNoneOfFew` assume it; `MemoryBounded`, `BatchIsPrefix` and `Reliable`, which are checked in that run too, are proved for every interleaving.

## Proofs

The theorems hold for all constants that meet the
named `ASSUME`s (finite sets of events, limits that are positive naturals, disjoint
identities), so for any number of goroutines, events, queue objects, failures and restarts.

* `ServerStatisticsProofs!TypeCorrect`: types, by one step per action.
* `BackoffOwned`: `Spec => []BackoffHasOwner`. Inductive with the type invariant: the
  CompareAndSwap makes its caller the owner, `AfterFunc` hands over to the map, and whatever
  empties the map resets the flag in the same critical section.
* `TrackedTimerLives`: `Spec => []TrackedIsLive`, with the invariant `Owner`: a tracked timer was
  not stopped and has not yet run, because the goroutine of a timer takes it out of the map
  in the section in which it ends the backoff.
* `OfflineIsDurable`, `BlacklistIsDurable`: for `DBOutcomes = {TRUE}` (and no direct
  `Success` for the second). The order of flag and row in each operation leaves a caller at
  the point that repairs the difference, and the invariant names that point.
* `BlacklistOutlivesRestart`: `Spec => BlacklistSurvivesRestart`, from `BlacklistIsDurable`: while no call is in
  progress the row is there for the restarted process to read.

* `DestinationQueueProofs!TypeCorrect`, `MemoryIsBounded`: the inductive invariant is
  `Fit == TypeOK /\ MemoryBounded`; the bound is needed to type what a reload adds to memory.
* `BatchStaysPrefix`: inductive relative to `Fit`. Senders only append, the worker
  reloads only between transactions, and nobody else changes the memory of an object whose
  worker is in a transaction.
* `QueueIsReliable`: `Spec => RD!Spec`, the refinement. Its invariant
  `Known == RowsKnown /\ SendersKnown /\ QueuesKnown` says that rows, events of senders past
  the association, and everything in memory or in a transaction are accepted, and that a
  transaction being cleaned was delivered; without it neither `Deliver` nor `Forget` could
  be matched. Each step is then an abstract step or a stutter.
* `NothingIsLost`: `Spec => []NoLoss`, from the refinement's step by induction.

* `DestinationQueueWakeupProofs!NobodyIsStranded`: `Spec /\ []Roomy => []NothingStranded`, for a destination
  that answers (`Healthy`: no failing transaction, a working database, failures of outside requests
  below the blacklist threshold; any delays, shutdowns and crashes). The invariant
  `Awake` says that a row is in memory, or a worker is going to load it, or its sender to append it
  (`Covered`); that a queue with something in memory has a worker in a transaction, a notification
  that a worker will receive, or a goroutine that will start one (`Attended`); and that what was
  answered has lost its rows before it is cut from memory (`Cleaned`), without which the cut could
  uncover a row. A queue that backs off counts as attended to (`Resting`); here there is none. It
  needs that goroutines hold the queue they wake (`Holders`) and that nothing fails
  (`Unblemished`). `Roomy` (in memory, and with the rows of the kind added, below the
  limit) is needed because of the overflow described under known behaviours.
* `FewAreNotStranded`: `Spec => []NothingStranded` without a condition on the behaviour, if memory has
  room for three times the events (`Few`), as in `queue_healthy`. The invariant `Doubled` says that
  an event is in memory at most twice, because the sender appends without looking whether the
  worker has already loaded the row; a counting lemma then bounds memory and gives `Roomy`.
* `BackedOffIsWoken`: `Spec => []BackingOffHasTimer`, for `Prompt`, failures below the blacklist threshold
  (`Tolerated`) and no outside success (`ApiOps \subseteq {"failure"}`): conditions that
  `queue_backoff` meets. Without `Prompt` or with an outside success the property fails (see the fairness
  section and known behaviours); below the threshold there is one queue object at a time, which
  the argument uses. Database errors, lost answers, outside failures and crashes are allowed. The invariants: one queue object is in use at a time (`OneQueue`),
  the server is never blacklisted (`NotListed`), and `BackingOff`: a worker about to back off has
  an armed timer; a queue that backs off has no worker and nobody about to start one, and
  the timer, or its goroutine, is there.
* `FailuresStrandNobody`: `Spec /\ []Roomy => []NothingStranded` at a destination that fails and recovers:
  any outcome of a transaction, lost answers included. The step of `Awake` is proved once, from
  `Calm` (nothing is blacklisted; `Roused`), which both a destination that answers and one that fails
  below the threshold provide. `Roused` is what a backoff adds: a waker that is about to clear
  `backingOff` has left a notification, or another is about to, so that the queue is attended to when
  it no longer rests. `BackingOff` then shows that a system at rest has no queue that backs off.
  The hypotheses are those of `BackedOffIsWoken` and a working database
  (`Dependable`). Each is needed: the sender to a blacklisted server writes the row and appends
  nothing (`Tolerated`); a delayed waker ends the wrong backoff (`Prompt`); a clean that fails leaves rows
  that are no longer in memory (`Dependable`); an outside success or alive mark stops the timer (`ApiOps`).
* `FailuresStrandNoneOfFew`: the same without a condition on the behaviour, for `Few`.

* `RoomAuthProofs!TypeCorrect`: the state stays well-formed under every accepted event.
* `SelectionIsEnough`: `Spec => []NeededSuffices`, one lemma per kind of event: the context
  built from the selected auth events agrees with the one built from the whole state on every
  field the checks of that kind read.
* `PowerIsHandedDown`: `Spec => PowerHandedDown`, if `users_default` is not changed (see known
  behaviours). The comparison in `checkUserLevels` covers every user with an entry in the old
  or the new levels; the others have the default in both.
* `BansHold`: `Spec => BanHolds`, from `SelectionIsEnough` and the cases of `membershipAllowed`.

* `RoomInputProofs!OneChainAlways`: `Spec => []OneChain`, inductive with the types of
  subscription, inbox and program counter. A call is put in the inbox only by whoever sets the
  subscription or by the call that is ending; neither can happen while another call is there.
* `RoomStaysConsistent`: `Spec => []RoomConsistent`. The invariant `RoomInv` adds that the
  previous events of an extremity, and of an event past its store, are on record as referenced
  (or the next `calculateLatest` could keep an event together with its successor), and that an
  event is in the output log before the transaction that marks it as sent commits.
* `TypeCorrect`: the invariant `Typed` adds that there is a job while one is processed and
  a message until it is acknowledged.
* `AckedAlwaysHandled`: `Spec => []AckedIsHandled`. The invariant `Handled` follows the message
  through the jobs: the last one is the message's event, those before it only fill its gap, and
  what waits for its acknowledgement was handled or declined, or ended with an error while the process stops.
  It speaks of what the worker acknowledges; a message that the stream drops because no
  durable consumer could be made is `"lost"`, not `"acked"` (see known behaviours).
  Assumed of the graph: finitely many events, and nothing before the root.

* `SyncNotifierProofs!TypeCorrect`: the invariant `Typed` adds to the types that a notifier between
  two items has announced everything and otherwise lags by the last item only, and bounds the
  positions inside a request; `Counts` keeps the counters of the streams in the range of a `uint`.
* `NothingIsSkipped`: `Spec => []NothingSkipped`, if reads of the database do not fail
  (`~ReadErrors`; see known behaviours). The invariant `AllKnown` says the same of the token of the
  request, of the position of every stream that was read, and of the position the request
  would start again with, counting what is about to be sent. The last of these is where a read
  up to the notifier's present position, not the one of the start, is needed.
* `NoWakeUpIsLost`: `Spec => []NoLostWakeUp`, if there is no account data (see known
  behaviours). The invariant `Fresh` says that nothing was announced to a client whose stream is in the map after the
  position the stream holds, which is what makes the comparison in `GetNotifyChannel` enough.
  Property and theorem say nothing of a request whose stream was removed while it waited.

* `FederationTransactionsProofs!TypeCorrect`: the invariant `Typed` adds that the events of a queue are
  distinct and that the request the worker waits for holds its front, so that the cut
  removes what was sent.
* `OneHandlerAlways`: `Spec => []OneHandler`. The invariant `Phases` ties each program point to the
  request's result and to its channel; without it a request could be stored in the map with a
  channel that is already closed.
* `NothingIsDropped`: `Spec => []NothingDropped`. The invariant `InProgress` says that what is left of a
  request and what was handled or given up (`Seen`) make up its batch, and what a success stands for; for a
  request that waited it needs `Phases` of the request it waited for. `Gone` says that only a
  handler whose client has gone gives anything up, so that its own answer removes nothing.

* `DeviceListUpdaterProofs!TypeCorrect`: the invariant `Typed` adds that the stream keeps the updates of a
  user in order and holds none older than the last one handled (`Ordered`), so that a row is
  never newer than the list it was taken from.
* `StaleListsAreTended`: `Spec => []StaleIsTended`, for any number of users and servers and any size of
  the channel, with the exceptions the property names (blacklisted servers, ignored answers).
* `MissedChangesAreNoticed`: `Spec => []GapsAreNoticed`. The invariant is `Gaps == Lists /\ Stored /\ Found`.
  `Lists` is the property with the stream number of every row; `Stored` says that what the worker wrote
  is still there when it declares the list fresh, unless an update came between (which `raced`
  records); `Found` says that the row on which the consumer based its decision is still there
  when it applies the update.

Only model-checked: the liveness properties (`BackoffEnds`, `Delivery`, `ActiveRoomDrains`,
`StaleRefreshed`, `Delivered`, `Answered`), which need fairness and are outside the prover's reach, and
the properties of `RoomForks`, whose module has recursive operators. Every other invariant and
action property that a run checks is stated by a theorem.

## Findings

* `room_restart`: a message in flight at a restart. The comment at `input.go:361` says it is
  reprocessed after restarting. The restarted worker's `Fetch` ends after a minute, the
  redelivery is due after `AckWait` (more than five minutes), and by then nobody is subscribed:
  the event waits for the next message of the room.

## Known behaviours

Behaviours of the code met while modelling that the checked environments leave out, or that a
property excepts by name. Each is reproduced by changing the configuration as said, or was read off the source.

Federation sender:

* Two first failures at once: the loser of the CompareAndSwap dereferences a nil
  `backoffUntil` (`statistics.go:231`). In the model the outcome of that read is a choice.
* `Success` clears the flag in `cancel()` before it tests it (`statistics.go:173`), so the
  blacklist row stays and a restart blacklists the server again.
* With memory full nothing is fetched and the overflow mark is cleared while rows are left
  (`destinationqueue.go:264`): they wait for the next event (`MaxPDUsInMemory = 2` with three events).
* A success outside the queue stops the timer the queue waits for (`api.go:172`): add
  `"success"` to `ApiOps` in `queue_backoff.cfg`.
* A stale notification restarts the worker during its backoff (`destinationqueue.go:285`).
* The comment on `destinationQueue` (`destinationqueue.go:46-49`) says that it "ensures that only
  one request is in flight to a given destination at a time". After a blacklisting and an alive mark
  two queue objects can send to one destination at once (`queue.go:179`):
  `\A q, r \in Queues : wpc[q] = "send" /\ wpc[r] = "send" => q = r` is violated in `queue_backoff.cfg` with two queues,
  both thresholds 1 and `ApiOps = {"alive"}` with one call.
* In all of these no event is lost: `NothingIsLost` covers them.

Transactions:

* A retry keeps its ID and takes what is queued by then. If the first request is still being worked
  on, the retry is answered with that one's result, and the sender removes events the receiver
  has never seen (`destinationqueue.go:511`, `send.go:73`). `NothingDropped` excepts them by name
  (`joined`); `removed \subseteq handled` is violated.
* A request that waits for one that is refused finds the channel closed and is answered 202
  (`send.go:88`): the sender counts a refused transaction as delivered (also `joined`).
* The handler works in the context of the request (`send.go:135`). When the client has gone its
  calls fail, which is only logged (`transactionrequest.go:234-297`) or put into the results
  (`:183-201`); a retry that waited for this handler is answered 200 and its events leave the queue unhandled.
  `NothingDropped` excepts them by name (`joined`).
* The receiver remembers a transaction only while it is in flight: after a lost answer the EDUs of
  the retry are processed again. The sender ignores the errors of single PDUs in the response.

Rooms:

* A change of `users_default` is compared for nobody without an entry of their own
  (`eventauth.go:567`, `:650`): with it in `LevelFields`, `PowerHandedDown` is violated.
* When power level events conflict, an event of the auth chain that is checked against a state
  without its needed events is given itself as auth event (`stateresolutionv2.go:462`), and a
  state key that both branches have may be missing after the merge, against the comment at
  lines 52-54.
* `calculateAuthDifference` compares the auth chains of conflicted events with those of their
  auth events, which are empty unless the auth events conflict too: not the difference of the chains of the
  branches its comment describes. The control list may hold an event twice, which raises
  Kahn's in-degrees; the event is then ordered with the leftovers. Both are in the model, and
  `OrderIrrelevant` holds with them.
* The check of a restricted join rewrites the join rule of the allower context that all events
  of a resolution share; `update` restores it only when the join rule event changes.
* A failure to look up or create a room's consumer is logged, the first with "we will retry anyway"
  (`input.go:148`); the notice is acknowledged (`input.go:238`). If the room has no durable consumer, nothing keeps the
  message in the stream (`InterestPolicy`, `streams.go:49-53`): it is deleted and nobody
  retries (status `"lost"`). If it has one, the next message of the room starts the worker.
* A message that arrives between the end of a `Fetch` and `subscription = nil` (`input.go:294`)
  starts nobody and waits for the next one. So does a message after a fetch that failed
  (`"fetch"` in `Faults`).
* An event that fails with an error while the process runs is acknowledged and dropped
  (`input.go:364`): `declined` in `AckedIsHandled`.
* Rejected and soft-failed events count as references, so that their previous events stop being
  extremities; `SetLatestEvents` refuses an empty set. A synchronous caller whose event
  soft-fails is told that all went well.

Device lists:

* `updateDeviceList` stores the list and clears the stale mark without the per-user lock that
  the comment on `DeviceListUpdater` promises (`device_list_update.go:643`): an update
  handled meanwhile is lost until the next gap. `GapsAreNoticed` excepts the users hit (`raced`), and
  those with a deletion whose predecessor is missing, which is stored all the same.
* `PrevIDsExists` compares a number of rows with a number of IDs. A fetched list gives all its rows the
  same ID, so that with two devices or more the next update always looks like a gap.
* Answers that are not JSON, name another user or fail without a retry time count as
  success (`:549`), and pokes for a blacklisted server are dropped: the list stays stale until
  the user's next update or a restart (`abandoned`).
* The announcement of changed keys is sent after the store; a crash in between loses it, since
  a redelivered update finds its keys unchanged. `go updater.Start()` races the consumer
  (`userapi.go:113`): a poke before the channels exist waits for ever.

Sync:

* `OnNewAccountData` broadcasts the position of the account data alone
  (`notifier.go:159`). With a kind `"account"` in `sync.cfg`, `NoLostWakeUp` is violated: a
  request may wait until its timeout for an event that was announced before it listened, against the comment on
  `GetNotifyChannel`. Nothing is skipped.
* The finalizer of `userstream.go:77-84` closes the original of a listener of which the request has a
  copy: `numWaiting` no longer counts the request, and a cleanup more than five minutes after that
  close removes the stream while the request waits on it. The next `OnNewEvent` finds no stream
  and wakes nobody; the request ends with its time-out, which `request.go:107` does not cap, and the data comes with the next one. The copy's `Close` wraps the counter, and such a
  stream is never removed. `\A c \in Clients : req[c].pc = "waiting" => c \in mapped` is violated in `sync.cfg`.
* A read that fails counts as "nothing new" (`requestpool.go:369`), and a request without
  updates goes on with `Since = currentPos`. With `ReadErrors = TRUE`, `NothingSkipped` is
  violated: what could not be read is never sent.

## What is not modelled

* In the modelled components: JSON rows and the cache of the queue storage,
  `ForServer` racing itself, the relay list, the length of a backoff, several destinations;
  how missing events and state are fetched from other servers (`input_missing.go` beyond its
  outcome), the membership tables, redactions; state resolution v1; presence and the content of sync
  responses; metrics and logging.
* Components with status `not_modelled` in `PROJECT.json`: those marked planned follow the
  order above. HTTP handlers that only translate a request into queries, SQL text, image
  processing, cryptography, configuration and command-line tools stay outside: they have
  no protocol state for a model checker to explore.
* Most of the repository's 120 thousand lines are such code: SQL tables in two dialects, HTTP
  handlers, JSON types, clients and configuration. The modules cover the parts whose
  correctness depends on order, concurrency and failure, not a large share of the lines.
