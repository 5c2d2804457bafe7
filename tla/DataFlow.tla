------------------------------ MODULE DataFlow ------------------------------
(***************************************************************************)
(* What happens to one piece of data in the pipelines: the fan-out to      *)
(* several consumers (internal/fanoutconsumer), the capabilities that      *)
(* decide who gets a copy (service/internal/graph), the read-only mark     *)
(* and the reference count of the data (pdata/internal/state.go,           *)
(* service/internal/refconsumer), and the components that keep it after    *)
(* their call has returned: the batch processor, and the sending queue     *)
(* with or without the batcher behind it.                                  *)
(*                                                                         *)
(* The contents of data are those who wrote to it.  A pipeline may have    *)
(* one processor; the exporters are instances that the pipelines share.    *)
(***************************************************************************)
EXTENDS Integers, FiniteSets, Sequences, SequencesExt, BagsExt

CONSTANTS
  N,            \* pipelines 1..N; a connector leads from a pipeline to the next
  Size,         \* the size of the data, which is the same in all pipelines
  Topologies    \* what may be configured: see TopologiesOK

Pipelines == 1..N
Processors == {"none", "read", "mutate", "batch"}
\* sync has no sending queue; batching has one, and a batcher.
Exporters == {"sync", "queued", "batching"}

ASSUME TopologiesOK ==
  /\ N \in Nat \ {0} /\ Size \in Nat \ {0}
  /\ \A g \in Topologies :
       /\ g.receiver \subseteq Pipelines /\ g.receiver # {}
       /\ g.proc \in [Pipelines -> Processors]
       /\ g.exps \in [Pipelines -> (SUBSET (Exporters \cup {"connector"})) \ {{}}]
       /\ "connector" \notin g.exps[N]
       /\ g.min \in Nat /\ g.max \in Nat /\ (g.max = 0 \/ g.min <= g.max)   \* of the batcher

VARIABLES
  topo,     \* the topology, which never changes
  heap,     \* the data: its State, and its contents
  stack,    \* calls that run: in the receiver, and in the batch processors
  queue,    \* what the sending queue of an exporter holds
  work,     \* what its consumer has in hand
  current,  \* currentBatch of the batcher
  workers,  \* the batches that its worker goroutines export
  chan,     \* what the channel of a batch processor holds
  got,      \* the bag of <<exporter, contents>> that were exported
  panicked  \* AssertMutable

vars == <<topo, heap, stack, queue, work, current, workers, chan, got, panicked>>

Pipe(p) == <<"pipe", p>>
Exp(e) == <<"exporter", e>>
Conn(p) == <<"connector", p>>
Receiver == 0   \* the thread of the receiver; thread p is that of batch processor p
Threads == {Receiver} \cup Pipelines

\* A consumer holds data, and relies on the contents it had.
Hold(d, h) == [data |-> d, val |-> h[d].val]
NewState(v) == [refs |-> 1, readOnly |-> FALSE, owned |-> FALSE, freed |-> FALSE, val |-> v]

-----------------------------------------------------------------------------
(* Capabilities, which are computed from the exporters backwards. *)

\* The consumers behind the fan-out node of pipeline p.
exporters(p) == {IF e = "connector" THEN Conn(p) ELSE Exp(e) : e \in topo.exps[p]}

\* Fan-out: all mutate, so that one of them gets the original.
FanOutCap(C, mutating) == C # {} /\ C \subseteq mutating

\* capabilitiesNode of the pipelines; a connector has the capabilities of what follows.
NoProcessorCap ==   \* mutant: the processors are not asked
  LET cap[p \in Pipelines] ==
        LET mutating == {Exp("batching")} \cup (IF p < N /\ cap[p + 1] THEN {Conn(p)} ELSE {})
        IN  FanOutCap(exporters(p), mutating)
  IN  cap
PipelineCap ==
  LET cap[p \in Pipelines] ==
        LET mutating == {Exp("batching")} \cup (IF p < N /\ cap[p + 1] THEN {Conn(p)} ELSE {})
        IN  topo.proc[p] \in {"mutate", "batch"} \/ FanOutCap(exporters(p), mutating)
  IN  cap

MutatesData(c) ==
  \/ c = Exp("batching")
  \/ c[1] = "pipe" /\ PipelineCap[c[2]]
  \/ c[1] = "connector" /\ PipelineCap[c[2] + 1]

\* A call of fan-out: the consumers that still have to get the data.
FanOut(C, d, h) ==
  [kind |-> "fanout", hold |-> Hold(d, h),
   mutable |-> {c \in C : MutatesData(c)}, readonly |-> {c \in C : ~MutatesData(c)}]
\* A deferred UnrefTraces of refconsumer.
Deferred(d, h) == [kind |-> "unref", hold |-> Hold(d, h), mutable |-> {}, readonly |-> {}]

-----------------------------------------------------------------------------
(* The State of data. *)

RefLost(h, d) == h   \* mutant: those who keep data do not count it
Ref(h, d) == [h EXCEPT ![d].refs = @ + 1]
Unref(h, d) == [h EXCEPT ![d].refs = @ - 1, ![d].freed = @ \/ h[d].refs <= 1]
MarkReadOnly(h, d) == [h EXCEPT ![d].readOnly = TRUE]
MarkPipelineOwned(h, d) == [h EXCEPT ![d].owned = TRUE]
clone(h, d) == Append(h, NewState(h[d].val))
\* A write; with the read-only mark, AssertMutable panics.
Write(h, d, who) == [h EXCEPT ![d].val = @ \cup {who}]

-----------------------------------------------------------------------------

Init ==
  /\ topo \in Topologies
  /\ heap = <<>> /\ stack = [t \in Threads |-> <<>>]
  /\ queue = [e \in Exporters |-> <<>>] /\ work = [e \in Exporters |-> <<>>]
  /\ current = <<>> /\ workers = {} /\ chan = [p \in Pipelines |-> <<>>]
  /\ got = EmptyBag /\ panicked = FALSE

\* The receiver calls its fan-out with new data.
Receive ==
  /\ heap = <<>>
  /\ heap' = <<NewState({})>>
  /\ stack' = [stack EXCEPT ![Receiver] = <<FanOut({Pipe(p) : p \in topo.receiver}, 1, heap')>>]
  /\ UNCHANGED <<topo, queue, work, current, workers, chan, got, panicked>>

NeverOwned(h, d) == FALSE   \* mutant: refconsumer never takes the data over
TakesOver(h, d) == ~h[d].owned

\* Thread t, with calls s on its stack, calls consumer c with data d: a component is
\* wrapped in a refconsumer, the first node of a pipeline is not.
Call(t, c, d, h, s) ==
  LET h1 == MarkPipelineOwned(h, d)
      s1 == IF TakesOver(h, d) THEN <<Deferred(d, h)>> \o s ELSE s
      proc == topo.proc[c[2]]
      h2 == Write(h1, d, c)
  IN
  \/ /\ c[1] = "pipe" /\ proc = "none"
     /\ heap' = h /\ stack' = [stack EXCEPT ![t] = <<FanOut(exporters(c[2]), d, h)>> \o s]
     /\ UNCHANGED <<queue, chan, got, panicked>>
  \/ /\ c[1] = "pipe" /\ proc = "read"
     /\ heap' = h1 /\ stack' = [stack EXCEPT ![t] = <<FanOut(exporters(c[2]), d, h1)>> \o s1]
     /\ UNCHANGED <<queue, chan, got, panicked>>
  \/ /\ c[1] = "pipe" /\ proc = "mutate"
     /\ heap' = h2 /\ stack' = [stack EXCEPT ![t] = <<FanOut(exporters(c[2]), d, h2)>> \o s1]
     /\ panicked' = (panicked \/ h[d].readOnly)
     /\ UNCHANGED <<queue, chan, got>>
  \/ /\ c[1] = "pipe" /\ proc = "batch"
     /\ heap' = Ref(h1, d) /\ stack' = [stack EXCEPT ![t] = s1]
     /\ chan' = [chan EXCEPT ![c[2]] = Append(@, Hold(d, h1))]
     /\ UNCHANGED <<queue, got, panicked>>
  \/ /\ c[1] = "connector"
     /\ heap' = h1 /\ stack' = [stack EXCEPT ![t] = <<FanOut({Pipe(c[2] + 1)}, d, h1)>> \o s1]
     /\ UNCHANGED <<queue, chan, got, panicked>>
  \/ /\ c = Exp("sync")
     /\ heap' = h1 /\ stack' = [stack EXCEPT ![t] = s1]
     /\ got' = BagAdd(got, <<"sync", h[d].val>>)
     /\ UNCHANGED <<queue, chan, panicked>>
  \/ /\ c[1] = "exporter" /\ c # Exp("sync")
     /\ heap' = Ref(h1, d) /\ stack' = [stack EXCEPT ![t] = s1]
     /\ queue' = [queue EXCEPT ![c[2]] = Append(@, Hold(d, h1))]
     /\ UNCHANGED <<chan, got, panicked>>

Top(t) == Head(stack[t])

LastAsIs(f, h) == Cardinality(f.mutable) = 1   \* mutant: readers may come after it
\* The last mutating consumer may get the data itself.
AsIs(f, h) == Cardinality(f.mutable) = 1 /\ f.readonly = {} /\ ~h[f.hold.data].readOnly
SendMutable(t) ==
  LET f == Top(t)
      d == f.hold.data
  IN
  /\ stack[t] # <<>> /\ f.mutable # {}
  /\ \E c \in f.mutable :
       LET s == <<[f EXCEPT !.mutable = @ \ {c}]>> \o Tail(stack[t])
       IN  IF AsIs(f, heap) THEN Call(t, c, d, heap, s)
           ELSE Call(t, c, Len(heap) + 1, clone(heap, d), s)
  /\ UNCHANGED <<topo, work, current, workers>>

SendReadOnly(t) ==
  LET f == Top(t)
      d == f.hold.data
      h == IF Cardinality(f.readonly) > 1 THEN MarkReadOnly(heap, d) ELSE heap
  IN
  /\ stack[t] # <<>> /\ f.mutable = {} /\ f.readonly # {}
  /\ \E c \in f.readonly :
       Call(t, c, d, h, <<[f EXCEPT !.readonly = @ \ {c}]>> \o Tail(stack[t]))
  /\ UNCHANGED <<topo, work, current, workers>>

\* A fan-out or a component returns.
Return(t) ==
  /\ stack[t] # <<>> /\ Top(t).mutable = {} /\ Top(t).readonly = {}
  /\ heap' = IF Top(t).kind = "unref" THEN Unref(heap, Top(t).hold.data) ELSE heap
  /\ stack' = [stack EXCEPT ![t] = Tail(@)]
  /\ UNCHANGED <<topo, queue, work, current, workers, chan, got, panicked>>

-----------------------------------------------------------------------------
(* What goes on when the call has returned. *)

\* The consumer of a sending queue reads a request.
Read(e) ==
  /\ queue[e] # <<>> /\ work[e] = <<>>
  /\ work' = [work EXCEPT ![e] = <<Head(queue[e])>>]
  /\ queue' = [queue EXCEPT ![e] = Tail(@)]
  /\ UNCHANGED <<topo, heap, stack, current, workers, chan, got, panicked>>

\* Without a batcher it exports the data, and drops its reference.
Export ==
  /\ work["queued"] # <<>>
  /\ heap' = Unref(heap, Head(work["queued"]).data)
  /\ got' = BagAdd(got, <<"queued", heap[Head(work["queued"]).data].val>>)
  /\ work' = [work EXCEPT !["queued"] = <<>>]
  /\ UNCHANGED <<topo, stack, queue, current, workers, chan, panicked>>

\* A batch, and what will have been exported once it is.  A request that is split is
\* exported with its last part.
Batch(d, h, n, exports) == [hold |-> Hold(d, h), size |-> n, exports |-> exports]

\* MergeSplit of a batch of size n: too large?  What is left when full parts are cut off?
Split(n) == topo.max > 0 /\ n > topo.max
RestSize(n) == IF Split(n) THEN ((n - 1) % topo.max) + 1 ELSE n

\* MergeSplit of data d, merged into data b (or b = d).  Only merging and splitting write.
\* Full parts are new data, of which one stands for all; the rest stays in b.
MergeSplit(d, b, split) ==
  LET h == IF split \/ b # d THEN Write(Write(heap, d, Exp("batching")), b, Exp("batching")) ELSE heap
  IN  IF split THEN Append(h, NewState(h[b].val)) ELSE h

\* The batcher takes the request, or merges it into the current batch.  Full parts go to
\* workers at once, and so does the rest if it has MinSize; else it is the current batch.
\* When Consume returns, the reference is dropped, whoever has the data now.
BatcherConsume ==
  LET d == Head(work["batching"]).data
      none == Batch(d, heap, 0, EmptyBag)
      cur == IF current = <<>> THEN none ELSE Head(current)
      b == cur.hold.data
      n == cur.size + Size
      h == MergeSplit(d, b, Split(n))
      new == SetToBag({<<"batching", heap[d].val>>})
      parts == IF Split(n) THEN {Batch(Len(h), h, topo.max, cur.exports)} ELSE {}
      rest == Batch(b, h, RestSize(n), IF Split(n) THEN new ELSE cur.exports (+) new)
  IN
  /\ work["batching"] # <<>>
  /\ heap' = Unref(h, d)
  /\ IF rest.size < topo.min
       THEN current' = <<rest>> /\ workers' = workers \cup parts
       ELSE current' = <<>> /\ workers' = workers \cup parts \cup {rest}
  /\ work' = [work EXCEPT !["batching"] = <<>>]
  /\ panicked' = (panicked \/ ((Split(n) \/ b # d) /\ (heap[d].readOnly \/ heap[b].readOnly)))
  /\ UNCHANGED <<topo, stack, queue, chan, got>>

\* The timer or Shutdown gives the current batch to a worker.
BatcherFlush ==
  /\ current # <<>> /\ current' = <<>>
  /\ workers' = workers \cup ToSet(current)
  /\ UNCHANGED <<topo, heap, stack, queue, work, chan, got, panicked>>

\* A worker exports its batch.  It has no reference to drop.
WorkerExport ==
  /\ \E b \in workers : workers' = workers \ {b} /\ got' = got (+) b.exports
  /\ UNCHANGED <<topo, heap, stack, queue, work, current, chan, panicked>>

\* The batch processor moves the data out, drops its reference, and sends a batch.
BatchSend(p) ==
  LET d == Head(chan[p]).data
      h == Append(Unref(Write(heap, d, Pipe(p)), d), NewState(heap[d].val))
  IN
  /\ chan[p] # <<>> /\ stack[p] = <<>>
  /\ heap' = h /\ chan' = [chan EXCEPT ![p] = Tail(@)]
  /\ stack' = [stack EXCEPT ![p] = <<FanOut(exporters(p), Len(h), h)>>]
  /\ panicked' = (panicked \/ heap[d].readOnly)
  /\ UNCHANGED <<topo, queue, work, current, workers, got>>

Next ==
  \/ Receive \/ Export \/ BatcherConsume \/ BatcherFlush \/ WorkerExport
  \/ \E t \in Threads : SendMutable(t) \/ SendReadOnly(t) \/ Return(t)
  \/ \E e \in Exporters : Read(e)
  \/ \E p \in Pipelines : BatchSend(p)

Spec == Init /\ [][Next]_vars

-----------------------------------------------------------------------------
(* Properties. *)

Calls == UNION {ToSet(stack[t]) : t \in Threads}
Kept == UNION {ToSet(queue[e]) \cup ToSet(work[e]) : e \in Exporters}
          \cup UNION {ToSet(chan[p]) : p \in Pipelines}
Batches == {b.hold : b \in ToSet(current) \cup workers}
\* Those who will still use their data.
Holds ==
  Kept \cup Batches \cup {f.hold : f \in {g \in Calls : g.mutable \cup g.readonly # {}}}
Quiet == heap # <<>> /\ Holds = {} /\ Calls = {}

\* The ways from the receiver to exporter e: from pipeline s through connectors to p.
Ways(e) ==
  {w \in Pipelines \X Pipelines :
     /\ w[1] \in topo.receiver /\ w[1] <= w[2] /\ e \in topo.exps[w[2]]
     /\ \A q \in w[1]..(w[2] - 1) : "connector" \in topo.exps[q]}
WrittenOn(w) == {Pipe(q) : q \in {r \in w[1]..w[2] : topo.proc[r] = "mutate"}}
\* How often exporter e should get contents v.
Due(e, v) == Cardinality({w \in Ways(e) : WrittenOn(w) = v})

\* Every exporter gets the data once for each way to it, written by the processors
\* on that way and by nobody else, in whatever order branches and queues run.
DeliveredAsConfigured ==
  /\ \A x \in BagToSet(got) : got[x] <= Due(x[1], x[2])
  /\ Quiet => \A e \in Exporters : \A w \in Ways(e) :
       CopiesIn(<<e, WrittenOn(w)>>, got) = Due(e, WrittenOn(w))

\* Nobody writes to data that somebody else still uses, and no write meets the
\* read-only mark: the capabilities give a copy to everyone who needs one.
SharedIsNeverWritten ==
  /\ ~panicked
  /\ \A k \in Holds : heap[k.data].val = k.val

\* The number of calls and queue entries that will drop a reference to d.
Droppers(d) ==
  Cardinality({t \in Threads : \E f \in ToSet(stack[t]) : f.kind = "unref" /\ f.hold.data = d})
    + Cardinality(UNION {{e} \X {i \in DOMAIN (queue[e] \o work[e]) : (queue[e] \o work[e])[i].data = d} : e \in Exporters})
    + Cardinality(UNION {{p} \X {i \in DOMAIN chan[p] : chan[p][i].data = d} : p \in Pipelines})

\* The reference count of data is the number of those who will drop a reference, and
\* one before the pipeline takes it over: Unref never goes below zero, and in the
\* end nothing keeps a reference.  The exception: the parts that a batcher splits off
\* are new data, whose first reference nobody drops.
RefsBalanced ==
  /\ \A d \in DOMAIN heap : heap[d].refs = Droppers(d) + (IF heap[d].owned THEN 0 ELSE 1)
  /\ Quiet => \A d \in DOMAIN heap : heap[d].owned \/ Exp("batching") \in heap[d].val

\* Data is given back to the pool while somebody still uses it only if it is shared
\* by read-only consumers, or is a batch, whether the batcher still has it or a worker:
\* the queue drops its reference when Consume returns (async_queue.go:49).
FreedOnlyIfShared == \A k \in Holds : heap[k.data].freed => heap[k.data].readOnly \/ k \in Batches

=============================================================================
