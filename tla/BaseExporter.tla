---------------------------- MODULE BaseExporter ----------------------------
(***************************************************************************)
(* The exporter around its wrapped exporter                                *)
(* (exporterhelper/internal/base_exporter.go): the consumers of the        *)
(* sending queue, the batcher with one partition for each key              *)
(* (queuebatch/multi_batcher.go), the pool of workers, the retry sender,   *)
(* and the order in which Shutdown stops them.                             *)
(*                                                                         *)
(* A partition is named by the request for which it was made.  Merging     *)
(* and splitting are in PartitionBatcher, so a batch is a set of requests  *)
(* here, flushed when it has MinSize of them.  Of the queue, which has     *)
(* modules of its own, there is what it promises: every accepted request   *)
(* is read once; after Shutdown a queue in memory is read to its end, and  *)
(* a persistent one is left as it is.                                      *)
(***************************************************************************)
EXTENDS Integers, FiniteSets, Sequences, Functions

CONSTANTS
  Reqs,
  Configs,         \* what is configured, and what is queued: see ExporterConfigOK
  KeyOf,           \* [Reqs -> keys], what the partitioner returns
  MaxPartitions,   \* of the LRU cache, 10000 in the code
  MinSize,
  Consumers, NoReq, NoOne

ASSUME ExporterConfigOK ==
  /\ \A f \in Configs :
       /\ f.batching \in BOOLEAN /\ f.persistent \in BOOLEAN
       /\ f.consumers \subseteq Consumers /\ f.consumers # {}   \* num_consumers
       /\ f.queue \in Seq(Reqs) /\ IsInjective(f.queue)
  /\ NoReq \notin Reqs /\ NoOne \notin Consumers \cup {"shutdown"} /\ DOMAIN KeyOf = Reqs
  /\ {MaxPartitions, MinSize} \subseteq Nat \ {0}

VARIABLES
  cfg,      \* the configuration, which never changes
  queue,    \* the requests in the sending queue
  cons,     \* the consumers of the queue: where they are, with what
  lru,      \* mb.partitions, the most recently used first
  mbLock,   \* who holds mb.lock, and the partition it has to give to a worker
  batch,    \* currentBatch of each partition
  active,   \* its field active; onEmpty # nil exactly when it is set
  tick,     \* its timer goroutine
  armed,    \* its timer
  stop,     \* where its shutdownInternal stands
  evicting, \* partitions whose shutdownInternal runs in a worker
  evicted,  \* all that were ever given to a worker
  pending,  \* flushes that wait for a worker
  jobs,     \* calls of the retry sender
  answered, \* requests whose OnDone was called
  down,     \* where Shutdown stands
  crashed   \* a nil function was called

vars == <<cfg, queue, cons, lru, mbLock, batch, active, tick, armed, stop, evicting, evicted,
          pending, jobs, answered, down, crashed>>
\* The groups of variables that actions leave alone together.
partVars == <<batch, active, tick, armed, stop>>
poolVars == <<evicting, evicted, pending, jobs>>
restVars == <<answered, down, crashed>>

\* The threads besides the consumers.
Timer(p) == <<"timer", p>>
Stopper(p) == <<"stop", p>>
stopCh == down # "up"   \* it is closed: RetrySender.Shutdown
NoLock == [by |-> NoOne, victim |-> NoReq]
At(a, r, p) == [at |-> a, req |-> r, part |-> p]
Reading == At("read", NoReq, NoReq)
Busy == Cardinality(evicting) + Cardinality({j \in jobs : j.part # NoReq})
\* The pool has num_consumers workers.
NumWorkers == Cardinality(cfg.consumers)
FreeWorker == Busy < NumWorkers

Init ==
  /\ cfg \in Configs
  /\ queue = cfg.queue
  /\ cons = [c \in Consumers |-> IF c \in cfg.consumers THEN Reading ELSE At("exit", NoReq, NoReq)]
  /\ lru = <<>> /\ mbLock = NoLock
  /\ batch = [p \in Reqs |-> {}] /\ active = [p \in Reqs |-> FALSE]
  /\ tick = [p \in Reqs |-> "none"] /\ armed = [p \in Reqs |-> FALSE] /\ stop = [p \in Reqs |-> "no"]
  /\ evicting = {} /\ evicted = {} /\ pending = {} /\ jobs = {}
  /\ answered = {}
  /\ down = "up" /\ crashed = FALSE

-----------------------------------------------------------------------------
(* The goroutines of the queue. *)

\* asyncQueue: Read returns a request.
Read(c) ==
  LET r == Head(queue)
  IN
  /\ cons[c] = Reading /\ queue # <<>>
  /\ down = "queue" => ~cfg.persistent
  /\ queue' = Tail(queue)
  /\ cons' = [cons EXCEPT ![c] = At(IF cfg.batching THEN "get" ELSE "send", r, NoReq)]
  /\ jobs' = IF cfg.batching THEN jobs
             ELSE jobs \cup {[part |-> NoReq, reqs |-> {r}, at |-> "push"]}
  /\ UNCHANGED <<cfg, lru, mbLock, partVars, evicting, evicted, pending, restVars>>

\* Read returns false.
ReadEnds(c) ==
  /\ cons[c] = Reading /\ down = "queue" /\ (queue = <<>> \/ cfg.persistent)
  /\ cons' = [cons EXCEPT ![c].at = "exit"]
  /\ UNCHANGED <<cfg, queue, lru, mbLock, partVars, poolVars, restVars>>

\* disabledBatcher.Consume: the consumer itself sends.
DisabledReturns(c) ==
  /\ cons[c].at = "send" /\ cons[c].req \in answered
  /\ cons' = [cons EXCEPT ![c] = Reading]
  /\ UNCHANGED <<cfg, queue, lru, mbLock, partVars, poolVars, restVars>>

-----------------------------------------------------------------------------
(* multiBatcher. *)

\* Where key k is in the cache, and the cache without entry i.
Cached(k) == {i \in DOMAIN lru : KeyOf[lru[i]] = k}
Without(i) == SubSeq(lru, 1, i - 1) \o SubSeq(lru, i + 1, Len(lru))
\* newPartitionBatcher and Start.
started(p) == tick' = [tick EXCEPT ![p] = "select"] /\ armed' = [armed EXCEPT ![p] = TRUE]

getPartitionHit(c) ==
  /\ cons[c].at = "get" /\ mbLock = NoLock
  /\ \E i \in Cached(KeyOf[cons[c].req]) :
       /\ lru' = <<lru[i]>> \o Without(i)
       /\ cons' = [cons EXCEPT ![c] = At("consume", @.req, lru[i])]
  /\ UNCHANGED <<cfg, queue, mbLock, partVars, poolVars, restVars>>

\* A new partition; if the cache is full the oldest one leaves it, and waits for a
\* worker that stops it.  The lock is held until then.
getPartitionMiss(c) ==
  LET p == cons[c].req
      full == Len(lru) = MaxPartitions
  IN
  /\ cons[c].at = "get" /\ mbLock = NoLock /\ Cached(KeyOf[p]) = {}
  /\ lru' = <<p>> \o (IF full THEN Without(Len(lru)) ELSE lru)
  /\ active' = [active EXCEPT ![p] = TRUE]
  /\ IF full THEN mbLock' = [by |-> c, victim |-> lru[Len(lru)]] /\ UNCHANGED <<tick, armed>>
             ELSE UNCHANGED mbLock /\ started(p)
  /\ cons' = [cons EXCEPT ![c] = At(IF full THEN "evict" ELSE "consume", @.req, p)]
  /\ UNCHANGED <<cfg, queue, batch, stop, poolVars, restVars>>

\* The eviction callback found a worker: execute(pb.shutdownInternal).
evict(t) ==
  /\ mbLock.by = t /\ mbLock.victim # NoReq /\ FreeWorker
  /\ evicting' = evicting \cup {mbLock.victim} /\ evicted' = evicted \cup {mbLock.victim}
  /\ mbLock' = NoLock
  /\ UNCHANGED <<cfg, queue, lru, batch, active, stop, pending, jobs, restVars>>

EvictReturns(c) ==
  /\ cons[c].at = "evict" /\ evict(c)
  /\ started(cons[c].part)
  /\ cons' = [cons EXCEPT ![c].at = "consume"]

Flush(t, p, b) == [by |-> t, part |-> p, reqs |-> b]
Flushing(t) == \E f \in pending : f.by = t

ConsumeIgnoresActive(c) ==   \* mutant: a partition that is stopped keeps the request
  LET p == cons[c].part
      b == batch[p] \cup {cons[c].req}
      full == Cardinality(b) >= MinSize
  IN
  /\ cons[c].at = "consume"
  /\ batch' = [batch EXCEPT ![p] = IF full THEN {} ELSE b]
  /\ pending' = IF full THEN pending \cup {Flush(c, p, b)} ELSE pending
  /\ armed' = [armed EXCEPT ![p] = @ \/ (~full /\ batch[p] = {})]
  /\ cons' = [cons EXCEPT ![c].at = "flush"]
  /\ UNCHANGED <<cfg, queue, lru, mbLock, active, tick, stop, evicting, evicted, jobs, restVars>>
\* consumeInternal of the partition; it may have been stopped since getPartition.
Consume(c) ==
  LET p == cons[c].part
      b == batch[p] \cup {cons[c].req}
      full == Cardinality(b) >= MinSize
  IN
  /\ cons[c].at = "consume"
  /\ batch' = [batch EXCEPT ![p] = IF full THEN {} ELSE b]
  /\ pending' = IF full THEN pending \cup {Flush(c, p, b)} ELSE pending
  /\ armed' = [armed EXCEPT ![p] = @ \/ (~full /\ batch[p] = {})]
  /\ cons' = [cons EXCEPT ![c].at = IF active[p] THEN "flush" ELSE "late"]
  /\ UNCHANGED <<cfg, queue, lru, mbLock, active, tick, stop, evicting, evicted, jobs, restVars>>

flushKeepsBatch(t, p) ==   \* mutant: the batch stays current
  /\ pending' = IF batch[p] = {} THEN pending ELSE pending \cup {Flush(t, p, batch[p])}
  /\ batch' = batch
  /\ armed' = [armed EXCEPT ![p] = TRUE]
\* The part of flushCurrentBatchOrRemovePartition that flushes.
flushCurrentBatch(t, p) ==
  /\ pending' = IF batch[p] = {} THEN pending ELSE pending \cup {Flush(t, p, batch[p])}
  /\ batch' = [batch EXCEPT ![p] = {}]
  /\ armed' = [armed EXCEPT ![p] = TRUE]

ConsumeLate(c) ==
  /\ cons[c].at = "late" /\ ~Flushing(c)
  /\ flushCurrentBatch(c, cons[c].part)
  /\ cons' = [cons EXCEPT ![c].at = "flush"]
  /\ UNCHANGED <<cfg, queue, lru, mbLock, active, tick, stop, evicting, evicted, jobs, restVars>>

ConsumeReturns(c) ==
  /\ cons[c].at = "flush" /\ ~Flushing(c)
  /\ cons' = [cons EXCEPT ![c] = Reading]
  /\ UNCHANGED <<cfg, queue, lru, mbLock, partVars, poolVars, restVars>>

-----------------------------------------------------------------------------
(* The timer goroutine of a partition. *)

\* The timer fires and there is something to flush, or it is not idle for long.
TimerFires(p) ==
  /\ tick[p] = "select" /\ armed[p] /\ ~Flushing(Timer(p))
  /\ flushCurrentBatch(Timer(p), p)
  /\ UNCHANGED <<cfg, queue, cons, lru, mbLock, active, tick, stop, evicting, evicted, jobs, restVars>>

\* There was no data for partitionIdleCycles timeouts: currentBatchMu is released
\* before onEmpty is called.
TimerIdle(p) ==
  /\ tick[p] = "select" /\ armed[p] /\ ~Flushing(Timer(p)) /\ batch[p] = {} /\ active[p]
  /\ tick' = [tick EXCEPT ![p] = "call"] /\ armed' = [armed EXCEPT ![p] = FALSE]
  /\ UNCHANGED <<cfg, queue, cons, lru, mbLock, batch, active, stop, poolVars, restVars>>

\* qb.onEmpty() reads the field again, without the lock.
onEmpty(p) ==
  /\ tick[p] = "call"
  /\ tick' = [tick EXCEPT ![p] = "lock"]
  /\ crashed' = ~active[p]
  /\ UNCHANGED <<cfg, queue, cons, lru, mbLock, batch, active, armed, stop, poolVars, answered, down>>

\* partitions.Remove(key): the partition that has the key now, if there is one.
onEmptyRemove(p) ==
  /\ tick[p] = "lock" /\ mbLock = NoLock
  /\ IF Cached(KeyOf[p]) = {} THEN tick' = [tick EXCEPT ![p] = "select"] /\ UNCHANGED <<lru, mbLock>>
     ELSE \E i \in Cached(KeyOf[p]) :
            /\ lru' = Without(i)
            /\ tick' = [tick EXCEPT ![p] = "evict"]
            /\ mbLock' = [by |-> Timer(p), victim |-> lru[i]]
  /\ UNCHANGED <<cfg, queue, cons, batch, active, armed, stop, poolVars, restVars>>

onEmptyReturns(p) ==
  /\ tick[p] = "evict" /\ evict(Timer(p))
  /\ tick' = [tick EXCEPT ![p] = "select"]
  /\ UNCHANGED <<cons, armed>>

TimerExits(p) ==
  /\ tick[p] = "select" /\ stop[p] \in {"closed", "waiting"} /\ ~Flushing(Timer(p))
  /\ tick' = [tick EXCEPT ![p] = "exit"]
  /\ UNCHANGED <<cfg, queue, cons, lru, mbLock, batch, active, armed, stop, poolVars, restVars>>

-----------------------------------------------------------------------------
(* shutdownInternal of a partition, in a worker or for multiBatcher.Shutdown. *)

shutdownInternal(p) ==
  /\ stop[p] = "no"
  /\ p \in evicting \/ (down = "batcher" /\ p \in Range(lru))
  /\ stop' = [stop EXCEPT ![p] = "closed"] /\ active' = [active EXCEPT ![p] = FALSE]
  /\ UNCHANGED <<cfg, queue, cons, lru, mbLock, batch, tick, armed, poolVars, restVars>>

StopFlush(p) ==
  /\ stop[p] = "closed" /\ stop' = [stop EXCEPT ![p] = "waiting"]
  /\ flushCurrentBatch(Stopper(p), p)
  /\ UNCHANGED <<cfg, queue, cons, lru, mbLock, active, tick, evicting, evicted, jobs, restVars>>

StopNoWait(p) ==   \* mutant: exports that run are not waited for
  /\ stop[p] = "waiting" /\ tick[p] \in {"none", "exit"} /\ ~Flushing(Stopper(p))
  /\ stop' = [stop EXCEPT ![p] = "done"] /\ evicting' = evicting \ {p}
  /\ UNCHANGED <<cfg, queue, cons, lru, mbLock, batch, active, tick, armed, evicted, pending, jobs, restVars>>
\* stopWG.Wait: the timer goroutine and the flushes of the partition.
StopReturns(p) ==
  /\ stop[p] = "waiting" /\ tick[p] \in {"none", "exit"}
  /\ \A f \in pending \cup jobs : f.part # p
  /\ stop' = [stop EXCEPT ![p] = "done"] /\ evicting' = evicting \ {p}
  /\ UNCHANGED <<cfg, queue, cons, lru, mbLock, batch, active, tick, armed, evicted, pending, jobs, restVars>>

-----------------------------------------------------------------------------
(* The workers and the retry sender. *)

\* execute found a worker.
flush(f) ==
  /\ f \in pending /\ FreeWorker
  /\ pending' = pending \ {f}
  /\ jobs' = jobs \cup {[part |-> f.part, reqs |-> f.reqs, at |-> "push"]}
  /\ UNCHANGED <<cfg, queue, cons, lru, mbLock, partVars, evicting, evicted, restVars>>

\* Send returns, and OnDone is called for every request of the batch.
SendReturns(j) ==
  /\ jobs' = jobs \ {j}
  /\ answered' = answered \cup j.reqs
  /\ UNCHANGED <<cfg, queue, cons, lru, mbLock, partVars, evicting, evicted, pending, down, crashed>>

\* Success, a permanent error, or no time left for another attempt.
PushEnds(j) == j \in jobs /\ j.at = "push" /\ SendReturns(j)

Move(j, a) ==
  /\ jobs' = (jobs \ {j}) \cup {[j EXCEPT !.at = a]}
  /\ UNCHANGED <<cfg, queue, cons, lru, mbLock, partVars, evicting, evicted, pending, restVars>>
\* An error that can be retried, and the end of the delay.
PushAgain(j) == j \in jobs /\ j.at = "push" /\ Move(j, "wait")
Backoff(j) == j \in jobs /\ j.at = "wait" /\ Move(j, "push")

WaitForever(j) == FALSE /\ j \in jobs /\ SendReturns(j)   \* mutant: no stopCh in the select
Interrupted(j) == j \in jobs /\ j.at = "wait" /\ stopCh /\ SendReturns(j)

\* The context of the request ended.  A request from storage, and a batch that
\* merged several, have one that does not.
Cancelled(j) ==
  /\ j \in jobs /\ j.at = "wait" /\ ~cfg.persistent /\ Cardinality(j.reqs) = 1
  /\ SendReturns(j)

-----------------------------------------------------------------------------
(* Shutdown of the exporter. *)

Stage(a, b) ==
  /\ down = a /\ down' = b
  /\ UNCHANGED <<cfg, queue, cons, partVars, poolVars, answered, crashed>>

ShutdownRetry == Stage("up", "retry") /\ UNCHANGED <<lru, mbLock>>
ShutdownQueue == Stage("retry", "queue") /\ UNCHANGED <<lru, mbLock>>

\* asyncQueue.Shutdown waits for the consumers; then the batcher, and without one
\* the wrapped exporter.
ShutdownBatcher ==
  /\ \A c \in Consumers : cons[c].at = "exit"
  /\ IF cfg.batching
     THEN Stage("queue", "batcher") /\ mbLock = NoLock /\ mbLock' = [by |-> "shutdown", victim |-> NoReq]
     ELSE Stage("queue", "done") /\ UNCHANGED mbLock
  /\ UNCHANGED lru

ShutdownWaits ==
  /\ \A p \in Range(lru) : stop[p] = "done"
  /\ Stage("batcher", "purge") /\ UNCHANGED <<lru, mbLock>>

\* Purge gives every partition to a worker once more, which finds it inactive.
Purge ==
  /\ down = "purge" /\ lru # <<>> /\ FreeWorker
  /\ lru' = Without(Len(lru))
  /\ UNCHANGED <<cfg, queue, cons, mbLock, partVars, poolVars, restVars>>

\* The wrapped exporter is shut down, and Shutdown returns.
ShutdownReturns == lru = <<>> /\ Stage("purge", "done") /\ mbLock' = NoLock /\ UNCHANGED lru

-----------------------------------------------------------------------------

ConsumerStep(c) ==
  \/ Read(c) \/ ReadEnds(c) \/ DisabledReturns(c) \/ getPartitionHit(c) \/ getPartitionMiss(c) \/ EvictReturns(c)
  \/ Consume(c) \/ ConsumeLate(c) \/ ConsumeReturns(c)
TimerStep(p) ==
  TimerFires(p) \/ TimerIdle(p) \/ onEmpty(p) \/ onEmptyRemove(p) \/ onEmptyReturns(p) \/ TimerExits(p)
StopStep(p) == shutdownInternal(p) \/ StopFlush(p) \/ StopReturns(p)
FlushStep(r) == \E f \in pending : r \in f.reqs /\ flush(f)
PushStep(r) == \E j \in jobs : r \in j.reqs /\ (PushEnds(j) \/ PushAgain(j))
WaitStep(r) == \E j \in jobs : r \in j.reqs /\ (Backoff(j) \/ Interrupted(j) \/ Cancelled(j))
ShutdownStep == ShutdownQueue \/ ShutdownBatcher \/ ShutdownWaits \/ Purge \/ ShutdownReturns

Next ==
  /\ ~crashed
  /\ \/ \E c \in Consumers : ConsumerStep(c)
     \/ \E r \in Reqs : TimerStep(r) \/ StopStep(r) \/ FlushStep(r) \/ PushStep(r) \/ WaitStep(r)
     \/ ShutdownRetry \/ ShutdownStep

Spec == Init /\ [][Next]_vars

\* Goroutines run, an armed timer fires, the timeout sender ends every attempt, and
\* a select that finds stopCh closed again and again chooses it at last.
FairSpec ==
  /\ Spec
  /\ WF_vars(~crashed /\ ShutdownStep)
  /\ \A c \in Consumers : WF_vars(~crashed /\ ConsumerStep(c))
  /\ \A r \in Reqs :
       /\ WF_vars(~crashed /\ TimerStep(r)) /\ WF_vars(~crashed /\ StopStep(r))
       /\ WF_vars(~crashed /\ FlushStep(r)) /\ WF_vars(~crashed /\ PushStep(r))
       /\ WF_vars(~crashed /\ WaitStep(r))
       /\ SF_vars(~crashed /\ \E j \in jobs : r \in j.reqs /\ Interrupted(j))

-----------------------------------------------------------------------------
(* Properties. *)

\* The places that hold a request that is neither queued nor answered.
Holders(r) ==
  {<<"consumer", c>> : c \in {d \in Consumers : cons[d].req = r /\ cons[d].at \in {"get", "evict", "consume"}}}
    \cup {<<"batch", p>> : p \in {q \in Reqs : r \in batch[q]}}
    \cup {<<"flush", f>> : f \in {g \in pending : r \in g.reqs}}
    \cup {<<"job", j>> : j \in {k \in jobs : r \in k.reqs}}

\* A request is in the queue, in one hand, or answered, whatever partitions are made,
\* evicted or stopped meanwhile: none is lost and none is exported twice.
OneHolder ==
  \A r \in Range(cfg.queue) :
    IF r \in Range(queue) \cup answered THEN Holders(r) = {} ELSE \E h \in Holders(r) : Holders(r) = {h}

\* A partition that has been stopped keeps no request, except one that a consumer
\* has just put in and is about to flush itself.
NothingStranded ==
  \A p \in Reqs : stop[p] = "done" /\ batch[p] # {} =>
    \E c \in Consumers : cons[c].part = p /\ cons[c].at = "late"

\* When Shutdown has returned, the wrapped exporter is not used any more and every
\* request is answered or still in storage.  Shutdown does not wait for partitions
\* that left the cache before, so requests of those are excepted.
NothingBehind ==
  down = "done" =>
    /\ queue # <<>> => cfg.persistent
    /\ \A p \in Reqs : batch[p] # {} => p \in evicted
    /\ \A f \in pending \cup jobs : f.part \in evicted

\* The pool is full of partitions that are being stopped, each of which waits for a
\* worker or for mb.lock, which somebody holds who waits for a worker.
PoolCycle ==
  /\ Cardinality(evicting) = NumWorkers
  /\ \A p \in evicting :
       /\ stop[p] = "waiting"
       /\ (\E f \in pending : f.part = p) \/ (tick[p] \in {"lock", "evict"} /\ mbLock # NoLock)
\* Shutdown holds mb.lock and waits for a timer goroutine that waits for mb.lock.
LockCycle == mbLock.by = "shutdown" /\ \E p \in Range(lru) : tick[p] = "lock"
Wedged == crashed \/ PoolCycle \/ LockCycle

\* Shutdown returns although every attempt to export may fail, since the retry
\* sender is stopped first.  If it does not, it is wedged for ever in one of the
\* three ways of Wedged.
ShutdownTerminates == <>(down # "up") => (<>(down = "done") \/ <>[]Wedged)

=============================================================================
