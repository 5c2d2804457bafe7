--------------------------- MODULE BatchProcessor ---------------------------
(***************************************************************************)
(* The batch processor (processor/batchprocessor/batch_processor.go):      *)
(* callers put data into the channel of a shard, one shard for each        *)
(* combination of metadata values, and the goroutine of the shard makes    *)
(* batches of it, sends them on by size or by time, and empties its        *)
(* channel when the processor is shut down.                                *)
(*                                                                         *)
(* The data of one call is an item; an item has elements <<item, number>>  *)
(* (spans, data points or log records), and may have none.                 *)
(***************************************************************************)
EXTENDS Integers, FiniteSets, Sequences, Functions

CONSTANTS
  Items, NumElems,   \* one call of Consume each; [Items -> Nat]
  KeyOf,             \* [Items -> keys]: the metadata of the call
  ChanCap,           \* of newItem, the number of CPUs in the code
  Configs            \* see BatchConfigOK

\* Config.Validate: send_batch_max_size is zero or not below send_batch_size.
Validate(f) == f.max = 0 \/ f.max >= f.size

\* The limit matters only with metadata keys; without them there is one shard.
ASSUME BatchConfigOK ==
  /\ Items # {} /\ NumElems \in [Items -> Nat] /\ DOMAIN KeyOf = Items /\ ChanCap \in Nat \ {0}
  /\ \A f \in Configs :
       /\ f.timeout \in BOOLEAN /\ {f.size, f.max, f.limit} \subseteq Nat
       /\ f.metadata \in BOOLEAN /\ Validate(f)

VARIABLES
  cfg,     \* the configuration, which never changes
  call,    \* the call for each item: where it is
  shards,  \* keys that have a shard, mb.batchers
  size,    \* mb.size
  newItem, \* the channel of each shard
  batch,   \* the elements in the batch of each shard
  loop,    \* its goroutine: in a select, or in processItem, called from there
  sent,    \* processItem: something was sent
  timer,   \* none, armed, fired (its channel has a value), or read
  out,     \* the batches that were handed to the next consumer
  down,    \* where Shutdown stands
  early    \* items that had been accepted when Shutdown was called

vars == <<cfg, call, shards, size, newItem, batch, loop, sent, timer, out, down, early>>
callVars == <<call, shards, size>>
shardVars == <<newItem, batch, loop, sent, timer>>

Keys == {KeyOf[i] : i \in Items}
\* Without metadata keys, the one shard of singleShardBatcher.
Single == CHOOSE k \in Keys : TRUE
\* The shard for the item of a call.
Shard(i) == IF cfg.metadata THEN KeyOf[i] ELSE Single
Elems(i) == [n \in 1..NumElems[i] |-> <<i, n>>]
hasTimer(k) == timer[k] # "none"

startTimer == IF cfg.timeout /\ cfg.size # 0 THEN "armed" ELSE "none"

Init ==
  /\ cfg \in Configs
  /\ call = [i \in Items |-> "idle"]
  /\ shards = (IF cfg.metadata THEN {} ELSE {Single}) /\ size = 0
  /\ newItem = [k \in Keys |-> <<>>] /\ batch = [k \in Keys |-> <<>>]
  /\ loop = [k \in Keys |-> IF k \in shards THEN "select" ELSE "none"]
  /\ timer = [k \in Keys |-> IF k \in shards THEN startTimer ELSE "none"]
  /\ sent = [k \in Keys |-> FALSE]
  /\ out = {} /\ down = "up" /\ early = {}

-----------------------------------------------------------------------------
(* Consume. *)

\* batchers.Load.  The components that call the processor are stopped before it,
\* so no call begins after Shutdown, but one may be on its way.
Consume(i) ==
  /\ call[i] = "idle" /\ down = "up"
  /\ call' = [call EXCEPT ![i] = IF Shard(i) \in shards THEN "put" ELSE "store"]
  /\ UNCHANGED <<cfg, shards, size, shardVars, out, down, early>>

AtLimit == cfg.limit # 0 /\ size >= cfg.limit

StoreUnchecked(i) ==   \* mutant: Store in place of LoadOrStore
  /\ call[i] = "store"
  /\ IF AtLimit THEN call' = [call EXCEPT ![i] = "rejected"] /\ UNCHANGED <<shards, size, newItem, batch, loop, timer>>
     ELSE /\ call' = [call EXCEPT ![i] = "put"]
          /\ shards' = shards \cup {Shard(i)} /\ size' = size + 1
          /\ loop' = [loop EXCEPT ![Shard(i)] = "select"] /\ timer' = [timer EXCEPT ![Shard(i)] = startTimer]
          /\ newItem' = [newItem EXCEPT ![Shard(i)] = <<>>] /\ batch' = [batch EXCEPT ![Shard(i)] = <<>>]
  /\ UNCHANGED <<cfg, sent, out, down, early>>
\* Under mb.lock; the shard may have been stored by another call since Load.
LoadOrStore(i) ==
  /\ call[i] = "store"
  /\ call' = [call EXCEPT ![i] = IF AtLimit THEN "rejected" ELSE "put"]
  /\ IF AtLimit \/ Shard(i) \in shards THEN UNCHANGED <<shards, size, loop, timer>>
     ELSE /\ shards' = shards \cup {Shard(i)} /\ size' = size + 1
          /\ loop' = [loop EXCEPT ![Shard(i)] = "select"] /\ timer' = [timer EXCEPT ![Shard(i)] = startTimer]
  /\ UNCHANGED <<cfg, newItem, batch, sent, out, down, early>>

\* newItem <- data, which waits while the channel is full.
Put(i) ==
  /\ call[i] = "put" /\ Len(newItem[Shard(i)]) < ChanCap
  /\ newItem' = [newItem EXCEPT ![Shard(i)] = Append(@, i)]
  /\ call' = [call EXCEPT ![i] = "accepted"]
  /\ UNCHANGED <<cfg, shards, size, batch, loop, sent, timer, out, down, early>>

-----------------------------------------------------------------------------
(* The goroutine of shard k. *)

\* split, and what stays in the batch.
Full(b) == cfg.max > 0 /\ Len(b) > cfg.max
Unsplit(b) == b   \* mutant: send_batch_max_size is ignored
SplitOff(b) == IF Full(b) THEN SubSeq(b, 1, cfg.max) ELSE b
RestLost(b) == <<>>   \* mutant: the count is reset although the batch was split
Rest(b) == IF Full(b) THEN SubSeq(b, cfg.max + 1, Len(b)) ELSE <<>>
\* sendItems; an error of the next consumer is logged, and the data is gone.
sendItems(k) ==
  /\ out' = out \cup {SplitOff(batch[k])}
  /\ batch' = [batch EXCEPT ![k] = Rest(@)]

\* case item := <-b.newItem, in either select: the first part of processItem.
processItem(k) ==
  /\ loop[k] \in {"select", "drain"} /\ newItem[k] # <<>>
  /\ batch' = [batch EXCEPT ![k] = @ \o Elems(Head(newItem[k]))]
  /\ newItem' = [newItem EXCEPT ![k] = Tail(@)]
  /\ loop' = [loop EXCEPT ![k] = IF @ = "select" THEN "process" ELSE "drain process"]
  /\ sent' = [sent EXCEPT ![k] = FALSE]
  /\ UNCHANGED <<cfg, callVars, timer, out, down, early>>

SendOnce(k) == batch[k] # <<>> /\ (~hasTimer(k) \/ Len(batch[k]) >= cfg.size) /\ ~sent[k]   \* mutant: if in place of for
SendMore(k) == batch[k] # <<>> /\ (~hasTimer(k) \/ Len(batch[k]) >= cfg.size)
processSend(k) ==
  /\ loop[k] \in {"process", "drain process"} /\ SendMore(k)
  /\ sendItems(k)
  /\ sent' = [sent EXCEPT ![k] = TRUE]
  /\ UNCHANGED <<cfg, callVars, newItem, loop, timer, down, early>>

\* The timer is stopped and reset if something was sent.  If it was not armed then,
\* stopTimer would wait for a value that never comes.
processReturns(k) ==
  /\ loop[k] \in {"process", "drain process"} /\ ~SendMore(k)
  /\ sent[k] => timer[k] # "read"
  /\ timer' = [timer EXCEPT ![k] = IF sent[k] /\ hasTimer(k) THEN "armed" ELSE @]
  /\ loop' = [loop EXCEPT ![k] = IF @ = "process" THEN "select" ELSE "drain"]
  /\ UNCHANGED <<cfg, callVars, newItem, batch, sent, out, down, early>>

Elapses(k) ==
  /\ timer[k] = "armed" /\ timer' = [timer EXCEPT ![k] = "fired"]
  /\ UNCHANGED <<cfg, callVars, newItem, batch, loop, sent, out, down, early>>

\* case <-timerCh
timeout(k) ==
  /\ loop[k] = "select" /\ timer[k] = "fired"
  /\ IF batch[k] # <<>> THEN sendItems(k) ELSE UNCHANGED <<out, batch>>
  /\ timer' = [timer EXCEPT ![k] = "armed"]
  /\ UNCHANGED <<cfg, callVars, newItem, loop, sent, down, early>>

\* case <-b.processor.shutdownC
drain(k) ==
  /\ loop[k] = "select" /\ down # "up"
  /\ loop' = [loop EXCEPT ![k] = "drain"]
  /\ UNCHANGED <<cfg, callVars, newItem, batch, sent, timer, out, down, early>>

exitUndrained(k) ==   \* mutant: the channel is not emptied
  /\ loop[k] = "drain"
  /\ IF batch[k] # <<>> THEN sendItems(k) ELSE UNCHANGED <<out, batch>>
  /\ loop' = [loop EXCEPT ![k] = "exit"]
  /\ UNCHANGED <<cfg, callVars, newItem, sent, timer, down, early>>
\* The channel is found empty; what is left in the batch is sent, once.
exit(k) ==
  /\ loop[k] = "drain" /\ newItem[k] = <<>>
  /\ IF batch[k] # <<>> THEN sendItems(k) ELSE UNCHANGED <<out, batch>>
  /\ loop' = [loop EXCEPT ![k] = "exit"]
  /\ UNCHANGED <<cfg, callVars, newItem, sent, timer, down, early>>

-----------------------------------------------------------------------------

\* close(shutdownC); goroutines.Wait
Shutdown ==
  /\ down = "up" /\ down' = "closed"
  /\ early' = {i \in Items : call[i] = "accepted"}
  /\ UNCHANGED <<cfg, callVars, shardVars, out>>
ShutdownReturns ==
  /\ down = "closed" /\ \A k \in Keys : loop[k] \in {"none", "exit"}
  /\ down' = "done"
  /\ UNCHANGED <<cfg, callVars, shardVars, out, early>>

CallStep(i) == LoadOrStore(i) \/ Put(i)
ShardStep(k) ==
  processItem(k) \/ processSend(k) \/ processReturns(k) \/ timeout(k) \/ drain(k) \/ exit(k)
Next ==
  \/ \E i \in Items : Consume(i) \/ CallStep(i)
  \/ \E k \in Keys : ShardStep(k) \/ Elapses(k)
  \/ Shutdown \/ ShutdownReturns

Spec == Init /\ [][Next]_vars

\* Goroutines run, the next consumer returns, and time passes.  A select that finds
\* several cases ready chooses one at random, so that a case which is ready again and
\* again is taken, however often the timer fires in between.
FairSpec ==
  /\ Spec /\ WF_vars(ShutdownReturns)
  /\ \A i \in Items : WF_vars(CallStep(i))
  /\ \A k \in Keys : WF_vars(ShardStep(k) \/ Elapses(k)) /\ SF_vars(processItem(k) \/ drain(k))

-----------------------------------------------------------------------------
(* Properties. *)

Sent == UNION {Range(b) : b \in out}
InChannels == UNION {Range(newItem[k]) : k \in Keys}
InBatches == UNION {Range(batch[k]) : k \in Keys}
ElemsOf(I) == UNION {Range(Elems(i)) : i \in I}

\* However calls, timers, splits and Shutdown interleave, every element of an item
\* that was accepted is in one place: the channel of a shard, its batch, or one
\* batch that was sent.
EachElementOnce ==
  /\ ElemsOf({i \in Items : call[i] = "accepted"}) = ElemsOf(InChannels) \cup InBatches \cup Sent
  /\ \A a, b \in out : Range(a) \cap Range(b) # {} => a = b
  /\ ElemsOf(InChannels) \cap InBatches = {} /\ (ElemsOf(InChannels) \cup InBatches) \cap Sent = {}

\* What had been accepted when Shutdown was called has been sent when it returns.
SentBeforeShutdownReturns == down = "done" => ElemsOf(early) \subseteq Sent

\* A batch that is sent has elements, at most send_batch_max_size, and all from
\* calls with the same metadata.
BatchesWellFormed ==
  \A b \in out :
    /\ b # <<>> /\ (cfg.max > 0 => Len(b) <= cfg.max)
    /\ cfg.metadata => \A x, y \in Range(b) : KeyOf[x[1]] = KeyOf[y[1]]

\* There are never more shards than metadata_cardinality_limit, mb.size counts them,
\* and data is refused only when the limit is reached.
LimitHolds ==
  cfg.metadata =>
    /\ size = Cardinality(shards)
    /\ cfg.limit # 0 => size <= cfg.limit
    /\ \A i \in Items : call[i] = "rejected" => size = cfg.limit

\* Everything that was begun is finished.  Accepted data is sent, after the timeout at
\* the latest, Shutdown returns, and so does every call: no timer keeps a goroutine
\* from going on.  The exception are calls on their way when Shutdown comes, whose
\* shard finds its channel empty and leaves before they use it: they may wait for
\* room in the channel for ever, and what they put into it is not sent.
EverythingFinishes ==
  <>[](/\ down # "closed"
       /\ \A i \in Items :
            \/ call[i] \in {"idle", "rejected"}
            \/ call[i] = "accepted" /\ Range(Elems(i)) \subseteq Sent
            \/ loop[Shard(i)] = "exit" /\ i \notin early)
=============================================================================
