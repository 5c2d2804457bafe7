# A TLA+ model of the OpenTelemetry Collector

This directory models the collector under `src/upstream/`: the disk-backed and in-memory
sending queues, the batcher behind them, the exporter as a whole with its retries and its
shutdown, the batch processor, the way of data through pipelines and fan-outs, and the life
of the collector itself with its full and partial reloads. The modules are model-checked
with TLC on small instances. The safety properties of the queues and their condition
variable, of the batcher, of the exporter around them, of the batch processor and of the
collector's life are proved with TLAPS for every size.
All paths below are relative to `src/upstream/`.

`PROJECT.json` lists the components, the runs with their properties, the source lines of
every definition, the hazards, the findings and the theorems.

## 1. The system

A collector receives telemetry (traces, metrics, logs, profiles), passes it through
processors and exports it. Four parts hold the state that is hard to get right:

* **The exporter** (`exporter/exporterhelper/internal`). A call goes through a chain of
  senders: queue, batcher, observability, retry, timeout, and the function that pushes the
  data. Offer puts a request in the queue; consumer goroutines read it and call the batcher,
  or the rest of the chain; the completion callback (OnDone) goes the way back.
* **The service** (`otelcol`, `service`). Run builds a service from a configuration, starts
  extensions and the nodes of the pipeline graph in order, waits in a select for a signal,
  a reload, a fatal error or Shutdown, and stops everything in the reverse order.
* **The batch processor** (`processor/batchprocessor`). Calls put their data into the
  channel of a shard; the goroutine of the shard collects it and sends it by size or time.
* **The data** (`pdata/internal/state.go`, `internal/fanoutconsumer`,
  `service/internal/refconsumer`). A fan-out gives each consumer the data itself, marked
  read-only, or a copy, as the capabilities of the pipelines behind it demand; those who
  keep data after their call returned count references to it.

### Inventory

| Part | State | Operations | What is hard |
|---|---|---|---|
| Persistent queue (`queue/persistent_queue.go`) | read and write index, list of dispatched items, sizes, client reference count; the same in storage | Start with recovery and migration, Offer, Read, OnDone, Shutdown | kills between storage transactions, failing transactions, closing the client while items are in flight |
| Condition variable (`queue/cond.go`) | number of waiters, one-slot channel | Signal, Broadcast, Wait with a context | cancellation racing a signal; a send that blocks with the lock held |
| Memory queue (`queue/memory_queue.go`, `async_queue.go`) | linked list, size, stopped, pool of completion objects, references on data | Offer (blocking, waiting for the result), Read, OnDone, Shutdown | reuse of pooled objects, lost wake-ups, draining |
| Batcher (`queuebatch/partition_batcher.go`) | current batch, timer, worker pool, reference count of completions | Consume, timer, flush, Shutdown | a request spread over several batches, partial errors, Shutdown or eviction during Consume |
| Multi batcher (`queuebatch/multi_batcher.go`) | partitions in an LRU cache, lock | Consume, eviction, removal when idle, Shutdown | locks held while waiting for goroutines that need them |
| Retry, timeout, observability senders | stop channel; per call: backoff and deadline | Send, Start, Shutdown | deadline against shutdown; shutdown order along the chain |
| Collector (`otelcol/collector.go`) | state, service, fingerprint of the configuration | Run, reload, Shutdown | Shutdown during setup or reload, failing reloads |
| Service (`service/service.go`, `extensions`) | extensions, graph, telemetry | New, Start, Shutdown, UpdateReceivers, notifications | partial starts, errors that must not stop the cleanup |
| Graph (`service/internal/graph`) | nodes, edges, pipelines, instance ids | Build, StartAll, ShutdownAll, UpdateReceivers | order, half-done updates |
| Status (`service/internal/status`, `graph/host.go`) | one state machine per instance, a mutex, the channel of fatal errors | ReportStatus, ReportOKIfStarting | reports from other goroutines; a blocking send with the mutex held |
| Shared component (`internal/sharedcomponent`) | one component behind several nodes, recorded events | LoadOrStore, Start, Shutdown, Report | the first Shutdown stops it for everybody |
| Batch processor (`processor/batchprocessor`) | shards with channel, batch, timer | consume, loop, Shutdown | draining, cardinality limit |
| Memory limiter (`internal/memorylimiter`) | refuse flag, GC intervals, number of users | check, Start, Shutdown | several users, effect of forced collections |
| Configuration (`confmap`, `otelcol/configprovider.go`) | providers, closers, watcher | Resolve, expansion, Watch, Shutdown | nested references, events during a reload |
| Fan-out, references (`internal/fanoutconsumer`, `pdata/internal/state.go`) | read-only and ownership bits, reference count | Consume, Ref, Unref | who may change or free the data |
| Scraper controller, feature gates | small | | start that fails half-way; stages |
| Everything else | | | I/O, generated code, adapters to libraries, build tools |

## 2. Modules

| Module | Models | Promise |
|---|---|---|
| `PersistentQueue` | `persistent_queue.go`, consumer loop of `async_queue.go` | implements `DurableQueue`, an at-least-once queue |
| `Cond` | `cond.go` | implements `CondVar`, a condition variable with cancellable waits |
| `MemoryQueue` | `memory_queue.go`, `async_queue.go`; has `Cond` as its `hasMoreSpace` | |
| `PartitionBatcher` | `partition_batcher.go`, `multiDone` and `refCountDone`, MergeSplit of `traces_batch.go` | |
| `BaseExporter` | `base_exporter.go`, `queue_batch.go`, `multi_batcher.go`, `disabled_batcher.go`, timer, stop and worker pool of `partition_batcher.go`, `retry_sender.go`; of queue and batch, what their own modules show | uses that of the queue |
| `BatchProcessor` | `batch_processor.go`, `splittraces.go` and its siblings, `config.go` | |
| `DataFlow` | `fanoutconsumer`, capabilities in `graph.go`, `receiver.go`, `processor.go` and `connector.go`, `refconsumer`, `state.go`, and who keeps data: batch processor, queue, batcher | |
| `Collector` | `collector.go`, `config_diff.go`, `service.go`, start, stop and update in `graph.go`, `status.go`, `host.go`, `extensions.go`, sharing of `sharedcomponent.go` | |
| `...Proofs` | theorems about the module they are named after (section 5) | |
| `PersistentQueueDelivery` | goes on from the invariants of `PersistentQueueProofs`: refinement of `DurableQueue`, capacity, producers | |
| `MC...` | instances for TLC | |

Definitions whose comment starts with "mutant" are plausible bugs. Each is the variant of
one definition that breaks one property: they show that the property can fail.

### PersistentQueue

A step is one storage transaction and the memory updates made around it under `pq.mu`, so a
kill (`ProcessEnds`) can come between any two transactions. `life` says where Start, running
and Shutdown stand; the phases of the recovery are steps of their own (`retrieveBatch`,
`cleanupBatch`, `putBack`, `skipUndecodable`, `recovered`), and so are those of the migration
from the legacy keys (`migrate`, `purgeLegacy`). `mu` is the lock, which Read and
itemDispatchingFinish keep over several transactions. A transaction succeeds, fails, or is
applied although an error is reported (`Batch`, external: the storage extension). Item and
byte sizes follow one rule and are one field; the dispatched list is a set.

### Cond and MemoryQueue

In `Cond` a step is what a thread does between taking and releasing the lock; `mu` is only
held in a state if its holder is blocked on the channel. `MemoryQueue` instantiates it on its
own variables with the callers of Offer and the goroutines of OnDone as threads. `cfg`, chosen
once at the start, has the settings: the sizes of the requests, `wait_for_result`,
`block_on_overflow` and the number of consumers.
`hasMoreElements` is a `sync.Cond` (external). A completion object (`blockingDone`) is a slot
with an element size and a channel of one result; the pool gives out any free slot.

### PartitionBatcher

An item is a request and a number, so each one can be followed through merging and
splitting. Both branches of `consumeInternal` are one definition, which returns the flushes
to start and the batch to keep. Each thread (consumers, timer, Shutdown) works through its
flushes, each of which needs a worker. Shutdown may come during Consume, since eviction of a
partition does that. An item in `Oversize` fits in no request, which gives a split error.

### BaseExporter

This module composes what the others show in detail. From the queue it takes that every
request is read once, and that after Shutdown a queue in memory is read to its end and a
persistent one is left alone; a batch is a set of requests that is flushed when it has
`MinSize` of them. It adds what only the composition has: the cache of partitions, whose lock
`mb.lock` is held while a victim is given to a worker (`getPartition`, `evict`), the timer
goroutine of each partition (`tick`), which removes an idle partition through `onEmpty`,
`shutdownInternal` as several steps (`stop`), the workers as a shared pool (`Busy`), the
retry sender's select between delay, deadline and stop (`jobs`), and Shutdown of the exporter
(`down`): retry sender, queue, batcher, wrapped exporter. A partition is named by the
request it was made for, so that an old and a new partition of one key differ. `crashed` is
the call of a nil `onEmpty`.

### BatchProcessor

An element is an item and a number. A call is in one of three places: before `Load`,
between `Load` and `LoadOrStore`, or before the send on the channel. The goroutine of a shard
is in a select, or in `processItem` called from the first or from the draining select. The
timer is none, armed, fired or read, since `stopTimer` waits for a value that must still be
in the channel. The configuration is any that `Validate` accepts.

### DataFlow

One piece of data comes from a receiver. `heap` has each copy with its `State` (reference
count, read-only, owned, and whether it was freed) and, as contents, those who wrote to it.
`stack` has the calls that run, one frame for each fan-out and each reference-counting
consumer; everything a queue, a batcher or the channel of a batch processor keeps is a hold
on data with the contents it relied on. The topology is chosen at the start: which
pipelines the receiver feeds, the processor of each, its exporters and connectors. The
capabilities are computed from it as the graph does (`PipelineCap`).

### Collector

Run is one goroutine: `pc` is its place, `todo` what the loop at that place has left, `cur`
the component whose Start or Shutdown is running. Components report at any time. `after`
remembers why a service is being stopped: the first setup failed, a reload, a failed reload,
or the end. A configuration is the pipelines of each receiver node, a version of each
receiver's settings, and a version of everything else. A receiver that is used for several
signals is several nodes; nodes with one `Key`, built from one configuration object, share a
component, and `dead` are those whose component was stopped through another node. `holder`
is the component that reports a fatal error and waits, with the reporter's mutex, for Run.

## 3. Runs

| Run | Instance | Shows |
|---|---|---|
| `pq_crash` | 3 requests of 1, 2 and 1 items, capacity 3 items, 2 consumers, blocking callers, 2 kills, no errors | the at-least-once queue is implemented, so nothing accepted is lost (`Implements`), nothing is handed out twice by one process (`DispatchedOnce`), no producer sleeps on beside an empty queue (`NoStrandedProducer`), and everything accepted is finished (`AcceptedFinishes`) |
| `pq_errors` | 3 requests, 2 of them left under the legacy keys, capacity 2 requests, 2 errors, 1 kill | types, reference count of the client (`ClientClosedLast`), durability and capacity until the first error (`AcceptedSurvives`, `WithinCapacity`); no consumer sleeps beside more unread items than there were errors (`NoIdleConsumer`) |
| `pq_recovery_crash` | 2 requests, kills also during recovery | finding 1 |
| `cond` | 4 threads | `CondBalance`, `CancelNeverBlocks`, refinement of `CondVar` |
| `cond_stuck` | 4 threads | finding 2 |
| `mq` | 4 callers around a queue of 2, 1 or 2 consumers, 4 configurations (waiting for results or not, blocking or not, a request of size 0, 1, 2 or 3) | results reach their own caller (`ResultMatches`), references and size balance (`RefsHeld`, `SizeExact`), Shutdown drains (`DrainsBeforeStop`), no Offer is left behind unless `Cond` is stuck (`OfferReturns`) |
| `batcher` | requests of 1, 3 and 5 items, sizes 2 to 3, 2 consumers, 2 workers | every item is exported once or reported, every request is answered once, at the right time and in the end |
| `base_exporter` | 2 requests of one key and 1 of another, a cache of 1 partition, 1 or 2 consumers and as many workers, memory or persistent queue, with and without batching | no request is lost or held twice while partitions come and go (`OneHolder`, `NothingStranded`); after Shutdown nothing is left but in storage or in evicted partitions (`NothingBehind`); Shutdown ends, or is wedged in one of three ways (`ShutdownTerminates`) |
| `batch_processor` | calls with 5, 1, 1 and 0 elements, keys a, a, b, c, channels of 1, 5 configurations | `EachElementOnce`, `SentBeforeShutdownReturns`, `BatchesWellFormed`, `LimitHolds`, `EverythingFinishes` |
| `dataflow` | all 1344 topologies of 2 pipelines with 1 or 2 exporters each | `DeliveredAsConfigured`, `SharedIsNeverWritten`, `RefsBalanced`, `FreedOnlyIfShared` |
| `collector` | 2 extensions, processor, exporter, 3 receiver nodes (2 share a component), 3 pipelines, 4 configurations, 2 reloads, 2 failures, 1 report | start and stop order (`ConsumersReady`), agreement with the configuration (`RunningIsConfigured`), cleanup on every path and finality of Shutdown (`NothingLeftRunning`), a panic only in the fallback of a reload (`PanicsOnlyInFallback`), `Untouched`, and `ShutdownCompletes` |
| `collector_shared` | 1 reload, no failure | finding 3 |

**Exceptions in properties.** Where the code has a known weakness, a passing property names
the exact condition under which it may fail, and shows that there is no other:
`errs` in `NoIdleConsumer` and `WithinCapacity`, `AllFit` in `NoStrandedProducer`, `StuckInSignal` in `OfferReturns`, `Wedged` in
`ShutdownTerminates`, `evicted` in `NothingBehind`, late calls in `EverythingFinishes`, shared
or batched data in `FreedOnlyIfShared`, `reload` in `PanicsOnlyInFallback`. Section 4 explains
each of them.

**Bounds.** `MaxIndex` bounds the write index: every request takes one index, and one more
each time a kill makes the recovery move it, so 9 covers three requests and two kills; Offer
and putBack are not enabled beyond it. `MaxErrs` and `MaxCrashes` bound what storage and the
machine do; two kills are needed to reach a kill after a recovery, two errors to fail in
itemDispatchingFinish and again in its repair. Four threads are the smallest number that
fills the channel of `Cond` in two ways, and four callers reach it through the memory queue.
Three requests in the batcher merge, split and leave a rest. In `BaseExporter`, three requests
and a cache of one partition give an eviction, an old and a new partition of one key, and a
full pool; a larger instance, with all three requests before two consumers and two
workers (5.4 million states, 24 minutes), was checked once and showed nothing else. In
`BatchProcessor` five elements need three batches, a channel of one is full at once, and the
configurations are by size and time, split with a limit of one, unsplit with a limit of two,
without timer, and without a size. In `DataFlow` two pipelines are enough for a connector, an
exporter shared by both, and a fan-out of every mixture; the 5040 topologies with any set of
exporters (20.8 million states, 22 minutes) were checked once. In `Collector`, two failures
reach a failed update whose cleanup fails too, two reloads a second difference to an updated
graph, and one report suffices to block the reporter. `mq` uses symmetry of callers and slots
(safety only).

**Deadlock** is not checked where the system may stop: all callers have returned, the
process is down, Run has ended, all data is exported. In `Cond` every thread may wait.

**Fairness.** Weak fairness for each goroutine of the program: recovery, consumers and
completion (`PersistentQueue`); workers, timer, consumers and Shutdown (`PartitionBatcher`,
`BaseExporter`); calls, shards and timers (`BatchProcessor`); the goroutine of Run
(`Collector`). It stands for the Go scheduler, for exports and component calls that return
(the timeout sender ends an attempt), and for timers that fire. Strong fairness is only used
for a case of a Go select that is ready again and again while other cases are ready too: the
stop channel of the retry sender, and the channel and the shutdown signal of a shard. The Go
runtime chooses between ready cases at random. Nothing that comes from outside is fair: new
calls, cancellations, kills, errors, signals, reloads, reports and the call of Shutdown.
`MemoryQueue` and `DataFlow` need no fairness: `OfferReturns` says that somebody can go on as
long as a call is open, and a call takes a bounded number of steps.

## 4. Findings

1. `pq_recovery_crash`: recovery deletes the dispatched items from storage before it puts
   them back; a kill in between loses them. The README of exporterhelper promises that items
   are picked up after a kill.
2. `cond_stuck`: two waiters give up and two signals come before either of them gets the
   lock: the second Signal blocks on the full channel with the lock held. The same happens in
   the memory queue, when the contexts of two blocked callers end (`StuckInSignal`).
3. `collector_shared`: a partial reload that concerns one signal of a shared receiver stops
   the component for all its signals; the other nodes count as unchanged and stay dead.

Seen while modelling, and stated as the exception of a passing property:

* A put that storage refuses advances the write index without waking a consumer
  (`persistent_queue.go:310`). If all consumers sleep and such holes fill the queue, it stays
  full (`NoIdleConsumer`).
* A dispatched item that storage could not delete in the recovery is put back and stays listed;
  after another restart it is put back again, and the queue may hold more than its capacity
  (`WithinCapacity`). The same goes for a queue of an older release that was larger. Both were
  found by the attempt to prove the property without these conditions.
* The persistent queue, unlike the one in memory, does not refuse a request that is larger than
  the capacity. With `block_on_overflow` its caller takes every wake-up, does not fit, and goes
  back to sleep without passing the wake-up on: other callers sleep beside an empty queue, where
  `exporter/exporterhelper/README.md:25` says "blocks the request until the queue has space"
  (`AllFit`, also found by the proof).
* A receiver that cannot be built in a partial reload stays in the graph without component,
  and the fallback to a full reload calls Shutdown on it (`PanicsOnlyInFallback`).
* `onEmpty` of a partition is called after the lock was released (`partition_batcher.go:267`),
  while `shutdownInternal` sets it to nil: a nil call, or, with Shutdown of the multi batcher
  holding `mb.lock`, a cycle of two goroutines (`crashed` and `LockCycle` in `Wedged`).
* An evicted partition is stopped inside a worker and waits there for its last flush, which
  needs a worker too. With `num_consumers` 1, every eviction of a partition with data stops the
  pool (`PoolCycle`).
* Shutdown of the multi batcher does not wait for partitions that were evicted before. They may
  export after the wrapped exporter was shut down, which `component/component.go:52-58`
  excludes (`NothingBehind`).
* A call that is under way when the batch processor shuts down may put its data into a channel
  nobody reads any more, or wait for room in it (`EverythingFinishes`). The components in front
  of the processor are stopped before it, so this needs a component whose Shutdown does not
  wait for its calls.
* With the gate `pdata.useProtoPooling` (alpha, off by default) data that an unowned fan-out
  shares between read-only consumers is freed when the first of them is done, and the current
  batch of a batcher when Consume returns (`async_queue.go:49`). `state.go:59`
  takes a count of zero for "no more active references" (`FreedOnlyIfShared`).
* A fatal error that is reported while Run is not in its select holds the reporter's mutex, so
  the next status report of Run never returns (`ShutdownCompletes`).

Seen and not part of a property: requests let into a memory queue after Shutdown are not read;
`onEmpty` of an old partition may remove a newer one of the same key, which then goes on
outside the cache; a call of the batch processor that missed in Load is refused by the limit
although its shard was stored meanwhile, and keeps its reference on the data; a component that
reports an error while stopping never shows as Stopped.

## 5. Proofs

All theorems are for any set of requests, threads, consumers or components and any value of
the bounds, under the named assumptions of the modules. They say what the code relies on:

* `ConstantsOK`, `ThreadsOK`, `QueueOK`: the markers for "nobody" are not requests or threads,
  a caller is not a completion goroutine, requests and consumers are finitely many, capacities
  and sizes are natural numbers, there is a consumer, and the pool has a completion object for
  each request that fits in the queue.
* `BatchConfigOK` of the batcher and of the batch processor: the configuration passes
  `Validate`; the timer and Shutdown are not consumers.
* `ExporterConfigOK`: a request is queued once; there is a consumer; `MaxPartitions` and
  `MinSize` are positive.
* `ConfigsOK`: the nodes of one shared component have the same settings; edges lead between
  processors, connectors and exporters, and pipelines begin there; the ids of extensions,
  receivers and other nodes differ. No proof needs that the edges are
  acyclic.

### Persistent queue

* `TypesAlwaysOK`, `ClientClosedLastAlways`, with storage errors and kills anywhere. The
  inductive invariant `QInv` adds to both: the read index does not pass the write index
  (`Order`), the set in flight is finite, so that it can be counted, and nothing is in flight,
  and the client open, before the queue is up (`Quiet`). The count is only right because
  OnDone keeps the lock from the removal of an item until the client is released.
* `AcceptedSurvivesAlways`, assuming that no kill hits the recovery window (finding 1 shows
  that the assumption is needed). `AcceptedSurvives` is not inductive: an item is deleted when
  its index is finished, so the proof must know that the index still holds the request that
  was handed out. `SInv` says how memory and storage agree in each phase: in the recovery,
  items are held before they are deleted (`Recovering`); while running, storage has the indexes
  of memory and holds what is in flight (`Running`). It only claims this while no storage error
  has happened.
* `NoIdleConsumerAlways`, with storage errors and kills anywhere. `AInv` adds that the holder of
  the lock in Read is awake and that nobody waits once the queue was stopped (`ReadersAwake`): a
  consumer that waits gave the lock back beside an empty queue, and each item stored since then
  has woken one.
* `DispatchedOnceAlways`. That indexes are in flight once follows from the lock (`Dispatched`).
  That a request is in flight once must hold through the recovery, which moves items to new
  indexes: `Once` says that storage has a request at one index, that the recovery holds it only
  while storage does not, and that there are no holes between the read and the write index.
* `ImplementsDurableQueue`, assuming no storage errors and no kill in the recovery window. The
  mapping is that of `Implements`: kept is what storage lists or the recovery holds, out what is
  in flight. From `QInv`, `SInv` and `UInv` each action is the step of `DurableQueue` it stands
  for, or changes nothing there; the moves of recovery and migration are of the second kind, since
  a request is listed at its new index in the transaction in which the recovery lets it go.
* `WithinCapacityAlways`. A recovery puts items back without looking at the capacity, so the
  proof must know that what storage has never is more than what fits. With a size in
  requests this is a count of indexes: `CountFits` bounds what is pending and what is listed and
  still there, in memory, in storage and in the hands of the recovery. With a size in
  items the stored size is itself what Offer compared (`SizeFits`).
* `NoStrandedProducerAlways`, assuming no kill in the recovery window: a kill there may leave a
  stored size above zero for an empty queue, and then Offer waits for an OnDone that never comes.
  `EmptyIsZero` excludes this otherwise; it needs that every dispatched index still has its item
  (`ListedLive`). `Woken` follows the wake-up from the OnDone that made room to the caller.

### Condition variable and memory queue

* `CondBalanceAlways`, `CancelNeverBlocksAlways`, `CondImplements`. `CInv` adds to the balance
  of waiters and signals that a blocked thread is the one that holds the lock (`LockHeld`).
  From the balance, a waiter that finds the count at zero finds its signal; and each step is a
  step of `CondVar` or changes nothing in it.
* `SizeExactAlways`. The total in `SizeExact` is a fold over a set. Lemmas `SumsExist` to
  `TotalWithout` show, for any finite set, that the fold is what it says: the recursive function
  exists, is unique, and any element may be taken out first. `Sizing` adds that the completion
  object of an element that is queued or in flight is not in the pool, is no other element's,
  and has the size that add has counted.
* `ResultMatchesAlways`, `RefsHeldAlways`, `DrainsBeforeStopAlways`. `MInv` follows the
  completion object of a request: while a caller waits, or has given up waiting, the object is
  its own, is not in the pool, and is empty or has its own result (`Owned`); the element that
  carries it is queued or in flight once (`Apart`), and each request is in one consumer at most
  (`Held`). An object is only put back by the caller that took the result out, so a pooled one
  is empty: that is why a caller which gives up must not return it. `Drained` says what a
  consumer that left may leave behind.

### Batcher

* `EachItemOnceAlways`, `NoSilentLossAlways`, `DoneWhenFinishedAlways`, from `PAlways`. `PInv`
  follows each item: it is in one batch, which then answers for its request, or exported, or
  lost, and then the request has an error (`Whole`, `Traced`). The references of a request
  are the batches that answer for it (`Counted`); as these are counted as a set, no batch may be
  in two places (`Places`). The hard step is Consume. The lemmas on `split` show that its pieces
  have the items of the whole, each once and in order, and that only the first piece has items
  of the current batch, because that batch alone is not too large (`Fits`). So the completions of
  the current batch go with the first piece, as `consumeInternal` does it, and the new request has
  one reference for each piece. Splitting that fails half-way keeps the pieces before the item
  that is too large (`Kept`), and reports the rest (`Dropped`).

### Exporter

* `OneHolderAlways`, `NothingStrandedAlways`, `NothingBehindAlways`, from `EInvAlways`. `Home`
  gives, for each request, the one place that has it: queue, consumer, batch, flush, export, or
  answered. Two facts about partitions are needed beside it. A partition that is used is in the
  cache, is the victim that is on its way out, or was evicted (`Tracked`): this makes Shutdown,
  which only sees the cache, reach everything but the evicted ones. And data that is still in a
  stopped partition has a consumer that will flush it (`Stopped`), since `consumeInternal`
  looks at `active` under the lock of the partition. `Closing` and `Finishing` say what has
  come to rest at each stage of Shutdown. The number of workers and the retries do not matter.

### Batch processor

* `LimitHoldsAlways`, `BatchesWellFormedAlways`, `SentBeforeShutdownReturnsAlways`. `BInv`
  follows an accepted element: in the channel of its shard, in its batch, or sent (`Kept`). The
  argument for Shutdown is that the goroutine sends only once when it leaves, and that this is
  enough: whenever it is in a select, its batch is empty or below `send_batch_size` (`Small`),
  which by `Validate` is not above `send_batch_max_size`, so that the last send is not split
  (lemma `Flushing`). That batches do not mix metadata needs `InShard`; the limit needs that
  check and store are under one lock (`Limited`).
* `EachElementOnceAlways`. `Kept` says that nothing is lost; `OInv` adds that nothing is there
  twice. Channels and batches have no repetitions, an item in a channel has no element in the
  batch or outside (`Once`), and two batches that were sent have nothing in common
  (`SentOnce`). Splitting keeps this because the two parts of a sequence without repetitions
  are disjoint (lemmas `InjCut`, `SplitApart`); `InShard` excludes that two shards have the
  same element.

### Collector

* `ConsumersReadyAlways`, `RunningIsConfiguredAlways`, `NothingLeftRunningAlways`,
  `PanicsOnlyInFallbackAlways`, and the action property `UntouchedAlways`, from `LInvAlways`.
  `LInv` gives for each place of Run what its loop has done: whom it has visited, whom it
  calls, and whom it has left (`Phase`, `Visited`, `Calling`). The invariant of the select
  (`InLoop`) is that of a full start and of a partial update, so that it does not matter how
  many of either came before. `Planned` ties the sets of an update to both configurations:
  without it the update would not lead to the configuration that is stored. `Shared` accounts
  for the nodes that finding 3 is about, and `Nils` for the nodes without component.

Each proof has one lemma per action, named after the action and the invariant (`...Q`, `...S`,
`...M`, `...E`, `...B`, `...O`, `...L`, ...), and a step lemma that combines them. The inductive
invariants also hold in TLC on the instances of the runs. What needs induction over data (the
batcher's pieces, the memory queue's total) is proved from a least counterexample: a set of natural
numbers has a least one (`NatMin`, `LeastNat`), from the well-founded order of the library.
Most leaves are first-order reasoning and name Zenon, which is faster on them; the leaves without
a pragma need arithmetic, sequences or set algebra and go to the SMT solver.

### Only model-checked

* What holds under fairness (`AcceptedFinishes`, `EveryoneAnswered`, `ShutdownTerminates`,
  `EverythingFinishes`, `ShutdownCompletes`), and `OfferReturns`, which uses ENABLED: the prover
  has neither.
* The properties of `DataFlow`. The capabilities on which they rest are a recursive function over
  the pipelines, and `DeliveredAsConfigured` and `RefsBalanced` compare bags and counts over a
  stack of calls. The run goes through all topologies of two pipelines; a proof would need the
  same least-counterexample arguments for each of these, and is in the plan.

## 6. Not modelled

Section 1 and the components in `PROJECT.json` list every part. Left out for good are parts
without state of their own: I/O, adapters to libraries, generated code, rendering, build
tools. In the modelled parts: the bytes of keys and values, contexts and span links, logging
and metrics, telemetry providers other than their failing shutdown, dry runs, and what is
inside a component.

The model is deep in a few places and covers little of the whole: the definitions stand for
about 3,300 of the roughly 114,000 lines of Go in `src/` that are not tests. The parts
modelled are where goroutines, storage and reloads meet; most of the rest is pdata, generated
code, configuration and adapters. The four signals have the same code with other types: the
definitions name the lines for traces and stand for the others. What has state of its own and
is not modelled yet is in the plan.

## 7. Plan

Each step is a module with its runs; a small question joins an existing run of the component.

1. Status replay and lock of `SharedComponent` inside `Collector`; the memory limiter, with
   several users of one checker and collections that do not help.
2. Graph construction, extension order and pipeline order as operators against reference
   definitions; then `DataFlow` over the graphs they build.
3. The configuration resolver and its watcher, composed with the reloads of `Collector`.
4. Scraper controller and feature gates.
5. Proofs about `DataFlow`: the capabilities first, then who may write.
