-------------------------- MODULE PartitionBatcher --------------------------
(***************************************************************************)
(* The batcher between the sending queue and the exporter                  *)
(* (exporterhelper/internal/queuebatch/partition_batcher.go): requests     *)
(* read from the queue are merged into a current batch, split at MaxSize,  *)
(* and flushed through a pool of workers when they reach MinSize, on a     *)
(* timer, or on Shutdown.  Shutdown may come while consumers are still at  *)
(* work: that is how multiBatcher evicts a partition.                      *)
(*                                                                         *)
(* An item is a pair <<request, number>>, so that every item can be        *)
(* followed; a batch keeps its items in order.  MinSize and MaxSize count  *)
(* items; an item of Oversize is larger than MaxSize by itself, as can     *)
(* happen when they count bytes.                                           *)
(***************************************************************************)
EXTENDS Integers, FiniteSets, Sequences, FiniteSetsExt

CONSTANTS
  Reqs, NumItems,     \* [Reqs -> Nat \ {0}]
  MinSize, MaxSize,   \* of BatchConfig; MaxSize = 0 is no limit
  Oversize,
  Consumers,          \* goroutines of the queue that call Consume
  NumWorkers,         \* the worker pool
  NoReq

TimerLoop == "timer"
Stopper == "shutdown"

ASSUME BatchConfigOK ==
  /\ NumItems \in [Reqs -> Nat \ {0}] /\ NoReq \notin Reqs
  /\ MinSize \in Nat /\ MaxSize \in Nat /\ (MaxSize = 0 \/ MaxSize >= MinSize)
  /\ NumWorkers \in Nat \ {0} /\ Consumers \cap {TimerLoop, Stopper} = {}

VARIABLES
  batch,    \* qb.currentBatch; without items it is nil
  active,   \* qb.active
  armed,    \* qb.timer will fire
  ticker,   \* the timer goroutine runs
  stop,     \* where shutdownInternal stands
  cons,     \* the consumers: the request each one has, and what is left to do
  todo,     \* the flushes that each thread still has to start
  working,  \* the flushes that run in a worker
  rc,       \* refCountDone.refCount of each request, 0 before it is consumed
  errd,     \* refCountDone.err # nil
  called,   \* how often OnDone of the queue was called for each request
  sent,     \* items that were exported with success
  lost      \* items that were dropped, or whose export failed

vars == <<batch, active, armed, ticker, stop, cons, todo, working, rc, errd, called, sent, lost>>

Threads == Consumers \cup {TimerLoop, Stopper}
\* The items, and the requests to answer for.
Batch(items, dones) == [items |-> items, dones |-> dones]
NoBatch == Batch(<<>>, {})
Contents(r) == [k \in 1..NumItems[r] |-> <<r, k>>]
Idle == [req |-> NoReq, at |-> "idle"]

Init ==
  /\ batch = NoBatch /\ active = TRUE /\ armed = TRUE /\ ticker = TRUE /\ stop = "no"
  /\ cons = [c \in Consumers |-> Idle]
  /\ todo = [t \in Threads |-> <<>>] /\ working = {}
  /\ rc = [r \in Reqs |-> 0] /\ errd = [r \in Reqs |-> FALSE] /\ called = [r \in Reqs |-> 0]
  /\ sent = {} /\ lost = {}

-----------------------------------------------------------------------------
(* MergeSplit: what it returns, and what it drops with an error. *)

\* The items before the first one that fits in no request; the rest is dropped.
Good(s) ==
  LET bad == {i \in 1..Len(s) : s[i] \in Oversize}
  IN  IF MaxSize = 0 \/ bad = {} THEN s ELSE SubSeq(s, 1, Min(bad) - 1)

split(s) ==
  IF MaxSize = 0 THEN <<s>>
  ELSE [i \in 1..((Len(s) + MaxSize - 1) \div MaxSize) |->
          SubSeq(s, (i - 1) * MaxSize + 1, IF i * MaxSize < Len(s) THEN i * MaxSize ELSE Len(s))]

-----------------------------------------------------------------------------
(* OnDone of refCountDone and multiDone. *)

OnDoneIgnoresErr(D, err) ==   \* mutant: only the last result counts
  /\ rc' = [r \in Reqs |-> IF r \in D THEN rc[r] - 1 ELSE rc[r]]
  /\ errd' = [r \in Reqs |-> IF r \in D THEN err ELSE errd[r]]
  /\ called' = [r \in Reqs |-> IF r \in D /\ rc[r] = 1 THEN called[r] + 1 ELSE called[r]]
OnDone(D, err) ==
  /\ rc' = [r \in Reqs |-> IF r \in D THEN rc[r] - 1 ELSE rc[r]]
  /\ errd' = [r \in Reqs |-> errd[r] \/ (r \in D /\ err)]
  /\ called' = [r \in Reqs |-> IF r \in D /\ rc[r] = 1 THEN called[r] + 1 ELSE called[r]]

-----------------------------------------------------------------------------
(* Consume. *)

resetTimerNever == armed' = FALSE   \* mutant: the timer fires once
resetTimer == armed' = TRUE

\* The references of a request whose items went to n flushes, after the one for a
\* split error has been given back.
numRefsNoErr(n, err) == IF err THEN n - 1 ELSE n   \* mutant: the error is not counted as a batch
numRefs(n, err) == n

\* Both branches of consumeInternal.  All the requests that MergeSplit returns are
\* flushed, except a last one below MinSize: it is the new current batch.  The
\* first one completes the old batch and answers for its requests too.
consumeInternal(c, r, isActive) ==
  LET s == batch.items \o Contents(r)
      L == split(Good(s))
      err == Len(Good(s)) < Len(s)
      B == [i \in 1..Len(L) |-> Batch(L[i], IF i = 1 THEN batch.dones \cup {r} ELSE {r})]
      keep == Len(L) > 0 /\ Len(L[Len(L)]) < MinSize
  IN
  /\ cons[c] = Idle /\ rc[r] = 0 /\ called[r] = 0
  /\ \A d \in Consumers : cons[d].req # r
  /\ batch' = IF L = <<>> THEN batch ELSE IF keep THEN B[Len(B)] ELSE NoBatch
  /\ todo' = [todo EXCEPT ![c] = IF keep THEN SubSeq(B, 1, Len(B) - 1) ELSE B]
  /\ IF keep /\ (batch = NoBatch \/ Len(L) > 1) THEN resetTimer ELSE UNCHANGED armed
  /\ rc' = [rc EXCEPT ![r] = numRefs(Len(L), err)]
  /\ errd' = [errd EXCEPT ![r] = err]
  /\ called' = [called EXCEPT ![r] = IF L = <<>> THEN 1 ELSE 0]
  /\ lost' = lost \cup {s[i] : i \in Len(Good(s))+1..Len(s)}
  /\ cons' = [cons EXCEPT ![c] = [req |-> r, at |-> IF isActive THEN "flush" ELSE "late"]]
  /\ UNCHANGED <<active, ticker, stop, working, sent>>

Consume(c, r) == consumeInternal(c, r, active)

flushKeepsBatch(t) ==   \* mutant: the current batch is not reset
  /\ todo[t] = <<>> /\ UNCHANGED batch
  /\ todo' = [todo EXCEPT ![t] = IF batch = NoBatch THEN <<>> ELSE <<batch>>]
\* flushCurrentBatchOrRemovePartition by thread t (without the removal).
flushCurrentBatch(t) ==
  /\ todo[t] = <<>>
  /\ todo' = [todo EXCEPT ![t] = IF batch = NoBatch THEN <<>> ELSE <<batch>>]
  /\ batch' = NoBatch

\* Consume found the partition inactive: nobody else would flush what it left.
ConsumeLate(c) ==
  /\ cons[c].at = "late"
  /\ flushCurrentBatch(c)
  /\ resetTimer
  /\ cons' = [cons EXCEPT ![c].at = "flush"]
  /\ UNCHANGED <<active, ticker, stop, working, rc, errd, called, sent, lost>>

ConsumeReturns(c) ==
  /\ cons[c].at = "flush" /\ todo[c] = <<>>
  /\ cons' = [cons EXCEPT ![c] = Idle]
  /\ UNCHANGED <<batch, active, armed, ticker, stop, todo, working, rc, errd, called, sent, lost>>

-----------------------------------------------------------------------------
(* Flushing. *)

\* flush: execute waits for a free worker.
flush(t) ==
  /\ todo[t] # <<>> /\ Cardinality(working) < NumWorkers
  /\ working' = working \cup {Head(todo[t])}
  /\ todo' = [todo EXCEPT ![t] = Tail(@)]
  /\ UNCHANGED <<batch, active, armed, ticker, stop, cons, rc, errd, called, sent, lost>>

\* The worker exports the batch and reports the result to all of its requests.
export(b, ok) ==
  /\ b \in working
  /\ working' = working \ {b}
  /\ IF ok THEN sent' = sent \cup Range(b.items) /\ UNCHANGED lost
           ELSE lost' = lost \cup Range(b.items) /\ UNCHANGED sent
  /\ OnDone(b.dones, ~ok)
  /\ UNCHANGED <<batch, active, armed, ticker, stop, cons, todo>>

-----------------------------------------------------------------------------
(* The timer goroutine and Shutdown. *)

\* The select may still choose the timer after shutdownCh was closed.
TimerFires ==
  /\ ticker /\ armed
  /\ flushCurrentBatch(TimerLoop)
  /\ resetTimer
  /\ UNCHANGED <<active, ticker, stop, cons, working, rc, errd, called, sent, lost>>

TimerExits ==
  /\ ticker /\ stop \in {"closed", "waiting"} /\ todo[TimerLoop] = <<>>
  /\ ticker' = FALSE
  /\ UNCHANGED <<batch, active, armed, stop, cons, todo, working, rc, errd, called, sent, lost>>

shutdownInternal ==
  /\ stop = "no" /\ stop' = "closed" /\ active' = FALSE
  /\ UNCHANGED <<batch, armed, ticker, cons, todo, working, rc, errd, called, sent, lost>>

\* "one last flush if necessary" ...
ShutdownFlush ==
  /\ stop = "closed" /\ stop' = "waiting"
  /\ flushCurrentBatch(Stopper)
  /\ resetTimer
  /\ UNCHANGED <<active, ticker, cons, working, rc, errd, called, sent, lost>>

\* ... and stopWG.Wait.
ShutdownReturns ==
  /\ stop = "waiting" /\ todo[Stopper] = <<>> /\ ~ticker /\ working = {}
  /\ stop' = "done"
  /\ UNCHANGED <<batch, active, armed, ticker, cons, todo, working, rc, errd, called, sent, lost>>

-----------------------------------------------------------------------------

Step(t) ==
  \/ flush(t)
  \/ t \in Consumers /\ (ConsumeLate(t) \/ ConsumeReturns(t))
  \/ t = TimerLoop /\ (TimerFires \/ TimerExits)
  \/ t = Stopper /\ (ShutdownFlush \/ ShutdownReturns)

Worker == \E b \in working : \E ok \in BOOLEAN : export(b, ok)

Next ==
  \/ \E c \in Consumers, r \in Reqs : Consume(c, r)
  \/ \E t \in Threads : Step(t)
  \/ Worker \/ shutdownInternal

Spec == Init /\ [][Next]_vars

\* Goroutines run, exports end, an armed timer fires.
FairSpec == Spec /\ WF_vars(Worker) /\ \A t \in Threads : WF_vars(Step(t))

-----------------------------------------------------------------------------
(* Properties. *)

InHand == {batch} \cup working \cup UNION {Range(todo[t]) : t \in Threads}
Pending == UNION {Range(b.items) : b \in InHand}
Consumed(r) == rc[r] > 0 \/ called[r] > 0

\* OnDone of the queue is called once, when the last batch with a part of the
\* request is through, and never while one is on its way.
DoneWhenFinished ==
  \A r \in Reqs : Consumed(r) =>
    /\ rc[r] = Cardinality({b \in InHand : r \in b.dones})
    /\ called[r] = IF rc[r] = 0 THEN 1 ELSE 0

\* A request is reported as delivered only if every item of it was exported.
NoSilentLoss ==
  \A r \in Reqs : called[r] = 1 /\ ~errd[r] => Range(Contents(r)) \subseteq sent

\* Merging and splitting neither lose nor repeat an item: each item of a consumed
\* request is in one batch that is on its way, or exported, or reported lost.
EachItemOnce ==
  /\ \A a, b \in InHand : Range(a.items) \cap Range(b.items) # {} => a = b
  /\ \A b \in InHand : Cardinality(Range(b.items)) = Len(b.items)
  /\ Pending \cap (sent \cup lost) = {} /\ sent \cap lost = {}
  /\ \A r \in Reqs : Consumed(r) => Range(Contents(r)) \subseteq Pending \cup sent \cup lost

\* Every request that was consumed is answered.
EveryoneAnswered == <>[](\A r \in Reqs : Consumed(r) => called[r] = 1)
=============================================================================
