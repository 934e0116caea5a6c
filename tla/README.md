# A verification of Yarkool.RedisMQ

Yarkool.RedisMQ is a message queue on top of Redis Streams. Publishers, consumer tasks,
a service that publishes unacknowledged messages anew, movers for delayed messages, a
cleanup service, a registry of servers and a dashboard all work on the same Redis keys,
from any number of processes, with nothing longer than one `MULTI` to order them. This
directory holds TLA+ models of that protocol and of the dashboard's front end, TLC
configurations that check them on small instances, and theorems that TLAPS proves for
every instance.

Paths below are relative to `src/Yarkool.RedisMQ/`; `wwwroot/src/` stands for
`Dashboard/wwwroot/src/`. `PROJECT.json` maps every definition to its lines.

## 1. The system

| Component | Code | State | Operations |
|---|---|---|---|
| Redis state of a queue | `Common/CacheKeyManager.cs`, `Message/*.cs` | the stream, its consumer group with the pending entries list (PEL), a metadata hash per message, five status index sets, `PublishMessageIdSet` | the Redis commands |
| Publisher | `Publisher/Impl/RedisMQPublisher.cs` | none in the process, except `_delaySecondsList` (static) | publish now (`MULTI`, `XADD`, `MULTI`, catch block), publish with a delay |
| Consumer workers | `Service/SubscriberBackgroundService.cs` | the batch it read, the entry in hand | `XREADGROUP`, record the execution, run the handler, settle, or retry / give up |
| `ConsumerMessageHandler` | `Descriptor/ConsumerMessageHandler.cs` | the entry ids it has looked up | `AckAsync` for the own message and for others |
| Pending-timeout service | `Service/HandleNonAckTimeOutMessageBackgroundService.cs` | a Redis lock, the scan position, the claimed page, the id of the new entry | lock, `XPENDING`, `XCLAIM`, decide, `XADD` + `XACK`/`XDEL`, or give up, unlock |
| Delay movers | `ExecuteDelayQueuePollingAsync` in `SubscriberBackgroundService.cs` | the delays to look at, what was due, the message in hand | poll, lock a delay, `ZRANGEBYSCORE`, `ZREM`, `XADD`, `HSET`, restore |
| Cleanup service | `Service/MessageCleanupBackgroundService.cs` | the ids it listed, the hash it read | trim Completed and Failed, repair or fail old Pending messages |
| Server registry | `ExecuteAsync`, `RunLiveServerAsync` | `ServerNodes`, `ConsumerList`, what a round has read | register, heartbeat, remove the expired |
| Dashboard API | `Dashboard/RouteActionProvider.cs` | none | `Stats`, `MessageList`, `MessageDelete`, three lists |
| Front end, store and index page | `wwwroot/src/stores/app.ts`, `App.vue`, `pages/Index.vue`, `hooks/useECharts.ts` | statistics, chart values, chart instances, timers, listeners | poll, draw, theme, mount and unmount |
| Front end, message page | `wwwroot/src/pages/Message.vue` | status in the route, page, size and status of the query, list, selection, details dialog | list, filter, paginate, select, delete, view |
| Front end, server and queue page | `wwwroot/src/pages/Server.vue`, `pages/Queue.vue`, `apis/index.ts` | the lists, their loading flags, an interval | load, refresh, judge heartbeats |
| Front end, toasts | `wwwroot/src/plugins/toast.ts` | the current toast, the timer of 300 ms | create, time out, close, destroy |

**How they interact.** Nobody calls anybody: publisher, workers, timeout service, movers,
cleanup and dashboard meet only in Redis. A publisher's `XADD` feeds `XREADGROUP`; a
worker that does not acknowledge leaves the entry in the PEL, which is the only way to
ask for a retry; the timeout service finds it there once it is idle for `PendingTimeOut`
and publishes the message as a *new* entry; a mover is one more source of `XADD`. The
cleanup and the dashboard rewrite index sets and hashes that all of the others write.
Inside a process, the handler gets a callback object (`ConsumerMessageHandler`); in the
browser, watchers and timers react to a store that a `setInterval` fills.

**What is hard.** (1) Tasks of many processes interleave between any two Redis calls.
(2) A call may throw although Redis executed it, and the catch blocks undo or repeat
things. (3) Processes die between an `XADD` and the pipeline that belongs to it. (4) A
batch or a 30 s lock may be held past its time, so that two tasks work on one message.
(5) Values are read, and acted on a call later (`ExecutionTimes`, `Id`, heartbeats, the
cleanup's hash). (6) Two states of a message, its entry and its hash, are written
by different calls. (7) Polls and list requests overlap in the browser. The list with
lines is `hazards` in `PROJECT.json`.

**What makes each part correct.** Publisher and consumers: a message in the stream stays
there until its outcome is recorded; what was delivered and not deleted is pending; an
acknowledgement never hits another message's entry; the index sets partition the messages
and agree with the hashes; retries end. Delays: a due message is found, one mover moves it,
only a death loses one. Cleanup: it removes nothing unsettled from the stream, finds
messages whose entry is gone, trims. Registry: nobody is removed without a reason, the
dead are forgotten. Front end: no growth is missing on a chart, a list answers the query
it is shown under, what is deleted was selected under the filter in force, a live server
is not called offline nor a dead one online, a notice stays until its time is over,
nothing is left behind by a page.

## 2. The modules

| Module | Models | State and actions |
|---|---|---|
| `RedisStore` | the Redis keys of one queue | `log` is every entry ever added, `live` those not deleted, `lastDelivered` the group's position, `pel`, `idle` the pending ids past `PendingTimeOut`, `hash`, `index`, `published`; `XAdd`, `XAckDel`, `Reindex`, `SetStatus`, `NextBatch` are the commands |
| `Publisher` | `PublishMessageAsync(queue, message)` | `pub` is where each call stands; `PublishMeta`, `PublishXAdd`, `PublishFinish`, each with its error, and `PublishCleanup` for the catch block |
| `Consumer` | the worker loop and `AckAsync` | `wpc`, `batch`, `ack`; `Read` … `Begin`, `Return`/`Throw`, `ReadAttempts`, `GiveUp`/`Retry`; `AckResolve` (looks ids up) and `AckCommit` (the `MULTI`) are separate |
| `PendingTimeout` | the timeout service of each server | `lock`, `tpc`, `cursor`, `claimed`, `tnew`; `ScanPage`, `Claim`, `Inspect`, `FailCommit`, `Republish`, `RepublishCommit`, `Unlock` |
| `Delivery` | one queue: the three above and time | `Elapse` (an entry becomes idle), `LockExpires`; all properties of delivery |
| `AtLeastOnceQueue` | what the application is promised | `accepted`, `queued`, `settled`; `Accept`, `Settle`, `Retire`, `Redeliver` |
| `DelayQueue` | delayed messages end to end | `known` (the static list), `types` (`DelayTimeType`), `waiting`, `due`, `hand`, …; one mover per server and queue |
| `Cleanup` | one round of cleanup, call by call | `cpc`, `ids`, `orphan`, `snap`; `Count`, `List`, `Erase`, `ReadOrphan`, `DropOrphan`, `MoveOrphan`, `CheckEntry`, `FailOrphan` |
| `Operations` | `Delivery` + `Cleanup` + `MessageDelete` | `aged` is the score of a Pending message passing the orphan timeout |
| `ServerRegistry` | registration and heartbeats | `nodes` with `age`, `consumers`; per server what its round has read and how old that is by now |
| `StatsPolling` | `stores/app.ts` and the poll timer | `polls` (sent, served, done), `stats`; `charted` is the sum of what the chart shows |
| `MessagePage` | `pages/Message.vue` | `query` (page, size, status), `seen` (what the two watchers saw last; they run as actions before anything else), `listing` (requests under way), `messages` (the query the list answers), `selected`, `dialog`, `deleting` |
| `Toasts` | `plugins/toast.ts` | `toast`, `timer`; `CreateToast`, `LapseToast`, `CloseToast`, `DestroyToast` |
| `Charts` | `useECharts`, `useEventListener`, `useTimeoutFn` | instance, timers, late timers, listeners |
| `Frontend` | the four above behind the router | the index page or the message page is mounted; a poll's answer draws the one and is counted by the other |
| `ListPages` | `pages/Server.vue`, `pages/Queue.vue` | `requests` with their ages, `loading`, `servers` (the age of each heartbeat in the list), `chips` (what the last rendering showed); the heartbeats they list are `Beat`, `Fall` and `Forget` |
| `BatchContent` | `messageContent` and `messageErrorInfo` of the worker's loop | variables that watch `Delivery`: `Track` says what each of its steps does to them |
| `Executions` | how often `ExecuteAsync` is really called | watches `Operations`: `runs` counts the calls, `forgotten` the times `ExecutionTimes` was lost with the hash |
| `Scanning` | how far a round of the timeout service gets | watches `Delivery`: `overdue` is what was idle when the round of a service began and is since |
| `MC…` | the instances for TLC | symmetry and nothing else |
| `…Proofs` | theorems | see section 5 |

Conventions. `pc`-like variables hold the place in the handler; an action is a step
between two awaits or Redis calls and models everything up to the next one. A definition
commented `Mistake:` is a plausible bug of the code; no specification uses it. It is
there so that each property can be shown to notice such a bug (`mutants`).

Abstractions. A pipeline (`StartPipe` … `EndPipe`) and a `MULTI` are one step; for a
`MULTI` that is what Redis does, for a pipeline it assumes that no other client's command
falls between its commands (see section 7). Entry ids are positions in the log.
Contents, timestamps, scores and statistics counters are left out, except the one
counter that stands for the charted five. `CreateTimestamp`, the error text and
serialisation only matter where they can fail (`Poison`). A call that throws after Redis
executed it has an action of its own only where the result differs from the call
followed by an error of the next one.

## 3. What the runs check

Passing runs:

| Run | Instance | What it shows |
|---|---|---|
| `Hostile` | 1 message, 2 workers, 2 services, any 1 of 8 faults, batches and locks may be held past their time, no retries, at most 3 entries, pages of one entry | types; a round of a service that ends by itself has reached whatever was idle since it began (`RoundsComplete`); what was delivered is pending (`DeliveredIsPending`); index sets agree with the hash (`IndexMatchesHash`); refinement of `AtLeastOnceQueue` with duplicates |
| `Manual` | 2 messages (one cannot be deserialised), handlers that acknowledge their own and other messages, `IsAutoAck = false`, 1 failing call | `NoLoss`; no acknowledgement names another message's entry (`EntryIdsAreOwn`); an error is reported with the content of its own message (`GoodReportsOwn`) |
| `Prompt` | 2 messages, 1 retry, batches finish in time, 1 of 3 faults | no concurrent runs, a Retrying message has an entry, and refinement of the queue *without* duplicates (`EffectivelyOnce`) |
| `Live` | 1 message, 1 retry, 2 of 7 faults, fairness | every sent message is settled; Failed only when the attempts are spent; `ExecuteAsync` is called `AutomaticRetryAttempts + 1` times at most, once more for each fault, and as often again each time a failing publish call erased `ExecutionTimes` (`ExecutionsBounded`) |
| `Delayed` | 2 messages, 2 delays, 2 processes, 2 servers, 1 of 5 faults, fairness | one mover has a message in hand; a loss per death at most; one copy more per failure at most; the stored id is the newest entry's; every accepted message is moved, if no mover died and no two queues share a delay |
| `Operations` | 1 message, 1 worker, cleanup with maximum 0, 1 deletion, 1 of 4 faults, fairness | the invariant of the proofs (`IInv`) and the partition of the index sets (`IndexExclusive`) survive cleanup and deletion; orphans are found; finished messages are trimmed |
| `Registry` | 2 servers (one may pause), expiry after 2 periods, 2 faults, fairness | consumers are removed only for a reason; no node of a punctual server is deleted, except after a pause; what the dead leave is removed; a server that beats is listed again and again |
| `Polling` | 5 polls that may overlap, fail and be answered in any order, a counter up to 3 | nothing is missing on the chart (`NothingMissed`), and it is exact as long as no two polls were under way at once (`ExactOneByOne`) |
| `Frontend` | 2 statuses, 2 polls, page sizes 1 and 2, 3 user events | page index in range; the list answers the current query; the selection is of the filter's status; charts current, listeners removed; toasts stay |
| `Pages` | 2 servers, ticks of 5 s, heartbeats every 20 s, offline after 30 s, timeout 10 s | no list loads for ever; a punctual server is shown offline only on an old list; a dead one is not shown online for longer than the threshold and the timeout |

Runs that end in a violation, each a disagreement between the code and what it says:

| Run | Property | What happens |
|---|---|---|
| `RepublishRace` | `PendingHasEntry` | The service adds the new entry and then writes `Pending`; a worker settles the new entry in between. The message is "to be processed" for ever, with nothing left to process (until the cleanup marks a message that succeeded as Failed). |
| `DeleteRunning` | `IndexedHasMetadata` | A message deleted while it runs comes back into an index set with a hash that lacks `Message`, and `MessageList` throws on the page that holds it. |

**Bounds and why they are enough.** The races between tasks are about one message: two
workers and two services are the least for every pair of tasks to meet, and what a task does
to a message does not depend on how many others there are, except through the batch, the
page and `AckAsync` for others, for which `Manual` and `Prompt` have two messages in one
batch. `MaxLen` bounds republishing: time stands still when the log could not take the next
entry, so no publish in progress is ever blocked. In `Hostile` three entries allow the
original, a republish and a republish of that (or of the original a second time, by the
other service). `PageSize = 1` is to three entries what a page of 100 is to a longer list: a
page may hold nothing idle, or what others claim first, with more to come behind it. In
`Live`, `MaxLen` is one more than the entries that TLC finds a message to have, so the bound
never cuts a behaviour, and the count is lost often enough for the factor in
`ExecutionsBounded` to be needed: TLC finds executions beyond a single budget. One fault at
any place is the single-failure assumption; `Live` and `Registry` have two. In `Polling`
there are five polls, because the first answer is never charted: it takes three for two
overlapping ones with a common base, and more for bases that differ; with three units the
counter can grow before, between and after their answers. In `Frontend` two polls are
enough, since all that the message page sees of them are the counts; with `MaxCount = 2` and
page size 1 there is more than one page, and an empty status. `Expire = 2` instead of 6
keeps the order of beat, read, expiry and removal; a longer expiry only adds periods in
which nothing happens. In `Pages` a time is rounded to ticks of 5 s, the period of the
page's interval, and the clocks of browser and server agree; nodes are removed after 50 s
instead of 120, which is still more than threshold and timeout together (`ListAssumption`).
The theorems need none of these bounds.

Deadlock is checked in `Pages` only: elsewhere publish calls end, bounds are reached and
handlers may stop.

## 4. Fairness

Fairness is stated per task, as the scheduler gives it. *Workers, services, movers,
heartbeats*: each is a loop in a task of the thread pool whose calls return or throw;
`WF` of the task's own steps. A handler is assumed to return eventually (otherwise nothing
can be promised), but not to throw. *Clock*: pending entries become idle, locks expire, delays pass,
a period of the heartbeat ends. *Publish calls* under way go on. There is no fairness for
faults, for handlers that throw or acknowledge, for the user, or for the start of
a server, and none for new publishes. Only weak fairness is used: a lock that is free
while a service sleeps could in the code be taken by the others again and again, which
does not matter, since any one of them does the work.

`EventuallySettled` is stated for a bounded number of faults. It is not claimed for
handlers that never acknowledge, for poison messages (section 6) or for a
consumer class that can never be resolved.

## 5. What is proved

All theorems hold for every number of messages, workers, servers, retries, faults, entries,
polls and user events, under the assumptions on the constants that the modules name
(`StoreAssumption`, `ConsumerAssumption`, `TimeoutAssumption`, `DeliveryAssumption`,
`CleanupAssumption`, `OperationsAssumption`, `DelayAssumption`, `RegistryAssumption`,
`PollingAssumption`, `PageAssumption`, `FrontendAssumption`, `ListAssumption`,
`ContentAssumption`). `BeatersStay` and the theorems about batches that finish in time have
hypotheses besides, which each of them states and which are explained below.

**Delivery** (`DeliveryProofs`, `IndexProofs`).

* `TypeCorrect == Spec => []TypeOK`. `TypeOK` is inductive as it stands, because it also
  says that a task past its first step has an entry in hand (`wpc[w] # "loop" =>
  batch[w] # {}` and the like), which makes `Current(w)` and `Entry(s)` defined: the
  lemmas `CurrentInBatch` and `EntryInClaimed`.
* `NothingLost == Spec => []NoLoss`. A message whose `XADD` was executed keeps an entry
  until Completed or Failed is recorded. `NoLoss` is not inductive: the service deletes
  the old entry long after it added the new one, and by then another service may have
  claimed and replaced that. `IInv` (`Inductive`) adds that every id a task keeps belongs to its
  message (`OwnHash`, `OwnPub`, `OwnAck`, `OwnNew`) and `Replaced`: while a service is
  about to delete the old entry of an unsettled message, the message has an entry *at least
  as young* as the one it added. "At least as young" is the point: the entry it added may
  be gone, but only because a younger one was added first. Two services about to delete
  each other's entries would need each to be younger than the other. `Carried` (no
  unsettled message loses an entry) handles all actions but `RepublishCommit`, which has a
  lemma of its own.
* `OwnIds == Spec => []EntryIdsAreOwn` from the same invariant: the field `Id` may be
  stale, when the publisher writes it late, but never another message's.
* `Implements == Spec => AtLeastOnce`: `Delivery` implements the abstract queue. Every step
  is first reduced to what it does to the stream and to `settled` (`StreamStep`: nothing,
  a delivery, an `XADD`, a deletion, a settlement of several entries), which one lemma per
  kind then maps to `Accept`, `Settle`, `Retire`, `Redeliver` or a stutter. A deletion maps
  to `Retire` only because `IInv` says that another entry is left.
* `DeliveredStaysPending`: the PEL holds exactly what was delivered and not deleted. It is
  inductive given the types; the lemma `NoGap` shows that a batch of at most
  `PrefetchCount` entries passes over none of the undelivered.
* `StatusesExclude` and `StatusesAgree`: no message is in two status index sets, and sets
  and hash agree. `IndexIInv` adds that a publish call that has not begun has left no
  trace (`NewIsUnseen`), without which its first `ZADD` could be a second one.
* `FailedIsSpent`: Failed only after more than `AutomaticRetryAttempts` executions. The
  decision is made on a count that was read a step before; `WorkersSpent` and
  `ServicesSpent` say that a task about to give up read a sufficient count, and
  `ExecutionTimes` never falls while the hash exists (`Counted`).
* `OperationsKeep`, `OperationsExclude`, `OperationsImplement`: `IInv`, `IndexExclusive` and the
  refinement hold under cleanup and deletion as well. All steps of these leave the stream
  and the variables of the other tasks alone, and drop the `Id` of a hash or keep it
  (`HousekeepingStep`). What the cleanup has listed are messages whose publish call has begun
  (`ReadOK`), so that filing one of them anew cannot collide with its first `ZADD`.
  `OperationsPending` is `DeliveredIsPending` for the same steps.

**Batches that finish in time** (`TimelyProofs`). Nothing above depends on how long a task
holds an entry. What follows does, and has the hypothesis `~Slow`: a batch is finished, and a
claim handled, within `PendingTimeOut`, and nobody outlives its lock. Each theorem also names the
faults and options it excludes; for each of them TLC finds a violation of the property on a small
instance. All but the last two are stated of
`Spec \/ SpecOps`, that is with and without cleanup and deletion (`Operating`). Every step is
first reduced to what it does to stream, batches, claims and counts (`TimelyStep`).

* `Custody` is common to all: no entry is in two batches, or in a batch and idle or
  claimed (`HeldOnce`, `Apart`), and only the owner of the lock has claimed anything
  (`LockHeld`, `Idling`). Its induction is where `~Slow` is used.
* `RunsAreApart` (`NoConcurrentRuns`), without `TimeoutError` and `TimeoutCrash`. `OneEntry`: of
  all entries of a message only the last is of any use to anybody (in the stream, pending,
  in a batch, claimed), or it is about to be deleted. A service that stops between its `XADD`
  and its `XDEL` leaves two.
* `ImplementsOnce` (`EffectivelyOnce`), without these faults and without handlers that acknowledge
  messages of others: the refinement without duplicates. A step that deletes an entry settles
  its message or deletes a `Retiring` one, and a service republishes only what is live
  (`ClaimedLive`), so that no settled message is redelivered. A handler that acknowledges a
  message which a service is about to republish brings it back.
* `RetriesHaveEntries` (`RetryingHasEntry`), without `CommitError` and `AckAsync`: all that is in
  a batch is live (`AllLive`). A handler that acknowledges and then throws breaks it (section 6);
  so does a settling `MULTI` that throws after Redis executed it.
* `BudgetHolds` (`ExecutionsBounded`), with cleanup and deletion, under *all* faults and whatever
  handlers acknowledge, with `IsAutoAck`. `BudgetIInv` counts two things. The entries of a message that are at
  work and to stay (`Entries`) are at most one more than the faults that have struck; the executions so
  far, and the entries which can still be executed (`Pending`), together at most `Attempts + 1` more.
  Entries at work are counted, not those in the stream, because an entry that another
  handler acknowledged is still executed by the worker that has it.
  `Spends` lists the six ways in which a step can change either number, and `BudgetKept` shows
  each to stay within the bound: a fault may bring an entry back, an entry is exchanged for
  another, an execution begins, a retry is decided within the attempts, and so on.
  So far this is about the field `ExecutionTimes`, which a failed publish, the cleanup and a
  deletion erase with the hash. The theorem is about the calls of `ExecuteAsync`, under
  `SpecRuns`, that is `Operations` with the two counters of `Executions`: every call is counted
  in the field (`ExecutesCounted`), and what the field no longer says is at most one budget for
  each time it was lost (`RunsIInv`). That the limit starts anew then is what the code does,
  and the reason for the factor `forgotten + 1`. `Live` checks it where only failing publish
  calls erase the count (`FairRuns`); with cleanup and deletion it is proved.
* `EntriesHold` (`EntriesBounded`), if every message deserialises; one that does not is published
  anew for ever (section 6). It is proved of all other messages whatever else there is
  (`AddsIInv`): a message has been added at most once more than
  it was executed and faults have struck, and not even that (`Owed`, `Left`) while it
  waits to be published anew. It needs `IsAutoAck`, and that neither publishes nor services
  fail: a failing publish erases the hash of a message that may already be in
  its retries, and with it the count; two entries left by a service can cost two more
  with one further fault. For the first reason it is stated without deletion.

**Batch contents** (`ContentProofs`). `ReportsAreOwn` (`GoodReportsOwn`), from `ContentIInv`: past
`Deserialize`, the variable that outlives an entry holds the content of the entry in hand
(`ContentOwn`), and what is about to be written is a message's own (`ErrorInfoOwn`), except for
messages that do not deserialise.

**Pages of the timeout service** (`ContentProofs`). `RoundsReachAll` (`RoundsComplete`), from
`ScanIInv`: what was idle when a round began, is idle still and was not claimed by anybody is
in front of the cursor (`Reached`). `PageFacts` says of a page that no pending entry lies
between the cursor and its end but those on it. Locks may expire and batches may be late.

**Delays** (`DelayProofs`), from one invariant, `DelayIInv`.

* `DelayTypes`, `OneMoverAtATime` (`OneHand`): only the `ZREM` that removed the message hands it
  out, and it is in the sorted set and in a hand at no time.
* `CopiesLimited` (`CopiesBounded`): `Budget` says that a message has at most one entry more
  than there were faults, and at most as many as there were while it waits or is about to
  be added or restored.
* `WaitingIsFound` (`RegisteredIfUnshared`): a delay that a process knows is one that its
  queue has registered (`Found`), if no two queues use it.
* `LossLimited` (`LossBounded`): the set of lost messages grows by one only with a death; a
  message in hand is not lost yet, and each mover that dies has one.
* `IdsAreLast` (`StoredIdIsLast`), by the same counting: the set of messages at rest whose field
  `Id` names another entry than their last (`Misnamed`) grows by one only with a death. An
  `XADD` or `HSET` that throws after Redis executed it leads back to the sorted set.

**Registry** (`RegistryProofs`).

* `RemovalsJustified` (`OnlyLapsedRemoved`), from `RemovalIInv`: before a round reads the nodes,
  all that would look lapsed have lapsed since it began (`AboutToRead`); what it read as
  missing or too old has (`ReadIsTrue`).
* `BeatersStay` (`StaysListed`), from `BeatsInTime`: the heartbeat of a punctual server is at most
  one period old, in Redis and in what an unpaused round read. The hypothesis `Expire > 1`
  says that the threshold is longer than the period, as 2 minutes and 20 s are.

**Front end** (`FrontendProofs`, `ListPagesProofs`).

* `ChartMissesNothing`: the chart shows at least what the counter has grown by since the
  first answer, for any number of polls that overlap, fail and are answered in any order.
  The strengthening is that the base of every poll under way is covered by the chart
  already (`BasesCovered`), so that an answer adds what is missing from its base on.
  `ChartExactOneByOne`: it shows exactly that, if no two polls were under way at once.
* `StoreUndisturbed` and `ToastsUndisturbed`: the composed front end implements
  `StatsPolling` and `Toasts`, so that the theorems of the parts hold in it; `ToastsStay`.
* `ChartsKept` (`ChartCurrent`) and `ListenersLeave` (`ListenersRemoved`), from what is still to
  come of the timers (`ChartIInv`).
* `PagesInRange`, `ListsCurrent`, `SelectionsOfFilter`, `TabsExist` from `PageIInv`. The
  first needs that the page index is within the number of pages that `watch(pageCount)`
  saw last (`WithinSeen`); `PagesCover` is the arithmetic of the rounded-up division. The
  second needs that the youngest request under way asks for the current query
  (`YoungestIsCurrent`).
* `DelayAddsUp`: the parts into which `formatDelayTime` splits a delay add up to it.
* `SpinnersEnd`, `AlarmsJustified`, `DeathNoticed` from `ListsIInv`, which relates the age of
  each heartbeat in a list, on the page or under way, to the silence of the server and the
  age of the list (`Plausible`), and says how long a chip may stay as the last rendering left it
  (`OnlineSince`).

Only model-checked is liveness (`EventuallySettled`, `EventuallyMoved`, `OrphansFound`,
`Trimmed`, `DeadForgotten`, `BeatingIsListed`), which under fairness is out of the prover's
reach. Every invariant, action property and refinement that a passing run checks is also proved.
`TabsExist` and `EntriesHold` are about properties that no run checks.

## 6. What is known to be wrong and has no run

Seen while modelling, and kept out of the properties by their hypotheses. For the first three,
for the gap in the registration and for shared delays, TLC finds the behaviour when the
hypothesis is dropped.

* `Deserialize` throws before `ExecutionTimes` is incremented (`SubscriberBackgroundService.cs:84`), so
  that a message which does not deserialise is published anew for ever, and the retry limit never
  applies. `EntriesHold` is about all others.
* A handler that acknowledges and then throws leaves its message Retrying with no entry
  (`SubscriberBackgroundService.cs:199`). `RetryingHasEntry` is checked without such handlers.
* The cleanup acts on hashes it read before: a message that completes in between is put
  back into the set of its old status (`MessageCleanupBackgroundService.cs:133`), or, its entry
  being gone, marked Failed (line 169). Index and hash then disagree for good, so
  `IndexMatchesHash` is not checked in `Operations`. After `RepublishRace` the cleanup may fail a
  message that succeeded. It also erases the hash of a message that was Completed when it was
  listed and runs again by now (line 91), with the consequence of `DeleteRunning`.
* A hash recreated by a worker after its deletion has no `Message`; the cleanup passes over
  such a hash for ever (`MessageCleanupBackgroundService.cs:158`). `OrphansFound` says so.
  The same hash arises when the publisher's `XADD` throws but was executed
  (`RedisMQPublisher.cs:56`): the catch block erases the metadata of a live entry.
* Consumers are registered once. What takes them off the list although they work: another
  server's round that read the nodes before their first heartbeat and the consumers after their
  registration (`SubscriberBackgroundService.cs:317`), a pause, or a heartbeat task that has
  ended with an exception (it has no try block, line 309). `OnlyLapsedRemoved` counts a
  missing heartbeat as a reason.
* `_delaySecondsList` is one static list for all queues (`RedisMQPublisher.cs:115`): the
  second queue of a process to use a delay never registers it, and its messages are
  never moved. `RegisteredIfUnshared` and `EventuallyMoved` exclude shared delays.
* `messageContent` of the worker's loop survives from one entry of a batch to the next
  (`SubscriberBackgroundService.cs:84`), so that a message which does not deserialise is
  reported with another message's content. `GoodReportsOwn` is about all others.
* The message page does not check that a list answers its latest request; a slow
  older answer stays on the page. `ListIsCurrent` excludes that case.
* What is selected on the message page stays selected when the page, the page size or the
  list changes, so that a deletion may hit messages that are no longer shown; and when a
  deletion has been answered, `selected = []` (`Message.vue:350`) also drops what was
  selected while it ran. `SelectionOfFilter` is about the filter only, and excludes a
  selection made before the list of a new filter arrived.
* Overlapping polls count growth twice on the chart; `ackSpeed` is not clamped at zero
  (`stores/app.ts:72`). A theme change leaks a resize listener (`useECharts.ts:91`);
  `ListenersRemoved` allows one for each.
* The 300 ms timer of a toast that has timed out removes a toast shown since
  (`plugins/toast.ts:40`); `ToastStays` excludes such a toast. A toast closed by its
  button leaves its container in the document until the next one.
* The server page calls a live server offline when its lists arrive more than 10 s late, or
  when the clocks of browser and server are that far apart (the model has one clock). The
  end of any request ends `loading` for all that overlap (`Server.vue:73`).
* `QueueList` finds the consumers of a queue by `Contains(":" + queue)`
  (`RouteActionProvider.cs:196`), so that those of a queue whose name begins with another's
  are listed for both.

## 7. What is not modelled, and the plan

Not modelled: dependency injection, options, selection of consumer classes, serialisers
and time helpers (no state of their own); samples and the test project; routing and
authorisation of the dashboard; `QueueList` and `ConsumerList`, which only read, and what
the queue page shows of them; `useBreakpoint.ts`, which nothing calls; the hourly statistics
counters (nothing reads them back but the dashboard). The entries whose fields do not map
to a `BaseMessage` (`HandleNonAckTimeOut…cs:125`) are left out because `MapToClass` never
returns null.

A pipeline is one step, although Redis may serve another client between the commands of
a large one. What that would cost can be seen from the commands: two pipelines about the
same message, such as a worker's that makes it Processing and a service's that makes it
Pending, each remove it from the other sets and add it to their own, so that interleaved
they leave it in two index sets, or in none, until its next transition, and the hash with a
status that the sets do not have. The stream is concerned for the moment between two
commands only: the pipeline that gives a message up deletes the entry before it writes Failed.

The order in which the modules were written follows their importance: store, publisher,
worker, timeout service and their composition first; then the abstract queue, the proof
of its central invariant, delays, cleanup, registry and front end; then the local variables of
the batch loop, toasts, dialog and lists; then the proofs of the refinement, the index
sets, cleanup, delays, registry and pages; then what holds while batches finish in time and
the batch contents; last, the counters of real executions and the pages of the timeout service,
which watch what was there. What is left, in order:

1. Pipelines split into their commands, to check what is argued above.
2. Theorems about single faults: how far `NoConcurrentRuns` and `EntriesBounded` degrade when a
   service stops between `XADD` and `XDEL`, instead of excluding it.

## 8. Running it

    tlc -workers 2 -config Hostile.cfg MCScanning
    tlapm TimelyProofs.tla

`PROJECT.json` names the module of each configuration. The longest runs are `Frontend` and
`Hostile`, with a few million states each. Each proof module checks in a few minutes at most.
`TimelyProofs` extends `IndexProofs`, and that `DeliveryProofs`: their lemmas on the stream and the hands
of workers and services are cited throughout.
