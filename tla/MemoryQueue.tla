----------------------------- MODULE MemoryQueue -----------------------------
(***************************************************************************)
(* The in-memory sending queue (exporterhelper/internal/queue/             *)
(* memory_queue.go) between the callers of Offer and the consumer          *)
(* goroutines of async_queue.go.  hasMoreSpace is the condition variable   *)
(* of module Cond, its lock is mq.mu; hasMoreElements is a sync.Cond.      *)
(* OnDone of a request is called once, by some goroutine of its own.       *)
(***************************************************************************)
EXTENDS Integers, FiniteSets, Sequences, FiniteSetsExt

CONSTANTS
  Reqs,             \* requests, each offered once by its own caller
  Configs,          \* what may be configured: see QueueOK
  Capacity, Consumers,
  Slots,            \* blockingDone instances
  NoOne             \* no thread, no result, no slot

Completer(r) == <<"OnDone", r>>
Threads == Reqs \cup {Completer(r) : r \in Reqs}

ASSUME QueueOK ==
  /\ IsFiniteSet(Reqs) /\ Capacity \in Nat
  /\ NoOne \notin Reqs \cup Slots \cup Threads
  /\ \A r \in Reqs : Completer(r) \notin Reqs
  /\ \A f \in Configs :
       /\ f.sizeOf \in [Reqs -> Nat]   \* by the configured sizer
       /\ f.waitForResult \in BOOLEAN /\ f.blockOnOverflow \in BOOLEAN
       /\ f.consumers \subseteq Consumers /\ f.consumers # {}
       /\ Cardinality({r \in Reqs : f.sizeOf[r] \in 1..Capacity}) <= Cardinality(Slots)   \* New never fails

VARIABLES
  cfg,                   \* the configuration, which never changes
  mu, waiting, ch, at,   \* mq.mu and mq.hasMoreSpace, see Cond
  items,    \* mq.items: what was pushed and not yet popped, oldest first
  size,     \* mq.size
  stopped,  \* mq.stopped
  offer,    \* where each call of Offer stands
  cons,     \* the consumer goroutines: what each one holds or does
  flight,   \* elements popped by Read whose OnDone has not returned
  mine,     \* the blockingDone that add returned to each caller
  pool,     \* blockingDonePool: pooled or not yet allocated instances
  bd,       \* the instances: elSize and the result in ch
  result,   \* what Offer returned to a caller that waited for the result
  refs,     \* references the queue holds on the data of each request
  late      \* requests pushed after Shutdown

Space == INSTANCE Cond
SizeOf == cfg.sizeOf
space == <<mu, waiting, ch, at>>
queue == <<items, size, stopped>>
dones == <<mine, pool, bd, result>>
vars == <<cfg, space, queue, offer, cons, flight, dones, refs, late>>

Element == [req : Reqs, done : Slots]
Idle == [at |-> "awake", req |-> NoOne]

Init ==
  /\ cfg \in Configs
  /\ Space!CondInit
  /\ items = <<>> /\ size = 0 /\ stopped = FALSE
  /\ offer = [r \in Reqs |-> "new"]
  /\ cons = [c \in Consumers |-> IF c \in cfg.consumers THEN Idle ELSE [Idle EXCEPT !.at = "exited"]]
  /\ flight = {}
  /\ mine = [r \in Reqs |-> NoOne]
  /\ pool = Slots /\ bd = [d \in Slots |-> [elSize |-> 0, ch |-> NoOne]]
  /\ result = [r \in Reqs |-> NoOne]
  /\ refs = [r \in Reqs |-> 0]
  /\ late = {}

-----------------------------------------------------------------------------
(* Offer. *)

Return(r, how) == offer' = [offer EXCEPT ![r] = how]

\* Up to the call of add.  An empty request is ignored.
Offer(r) ==
  /\ offer[r] = "new"
  /\ IF SizeOf[r] = 0 THEN Return(r, "ignored") /\ UNCHANGED refs
     ELSE IF SizeOf[r] > Capacity THEN Return(r, "failed") /\ UNCHANGED refs
     ELSE Return(r, "adding") /\ refs' = [refs EXCEPT ![r] = @ + 1]
  /\ UNCHANGED <<cfg, space, queue, cons, flight, dones, late>>

UnrefNever(r) == UNCHANGED refs   \* mutant: Offer forgets its reference
Unref(r) == refs' = [refs EXCEPT ![r] = @ - 1]

\* The caller has the lock in add: at the start, or back from Wait.
Adding(r) == offer[r] = "adding" /\ mu = NoOne /\ at[r] \in {"out", "got"}
Fits(r) == size + SizeOf[r] <= Capacity

AddFull(r) ==
  /\ Adding(r) /\ ~Fits(r)
  /\ IF cfg.blockOnOverflow THEN Space!Wait(r) /\ UNCHANGED <<offer, refs>>
                        ELSE Return(r, "failed") /\ Unref(r) /\ UNCHANGED space
  /\ UNCHANGED <<cfg, queue, cons, flight, dones, late>>

NoSignalElements == UNCHANGED cons   \* mutant: the wake-up is forgotten
\* sync.Cond.Signal on hasMoreElements
SignalElements ==
  LET W == {c \in Consumers : cons[c].at = "waiting"}
  IN  IF W = {} THEN UNCHANGED cons ELSE \E c \in W : cons' = [cons EXCEPT ![c].at = "awake"]

resetNothing(d, r) == UNCHANGED bd   \* mutant: the size of the last user stays
\* The channel of the instance is left as it is.
reset(d, r) == bd' = [bd EXCEPT ![d].elSize = SizeOf[r]]

Add(r) ==
  /\ Adding(r) /\ Fits(r)
  /\ size' = size + SizeOf[r]
  /\ \E d \in pool :
       /\ pool' = pool \ {d} /\ mine' = [mine EXCEPT ![r] = d]
       /\ reset(d, r)
       /\ items' = Append(items, [req |-> r, done |-> d])
  /\ at' = [at EXCEPT ![r] = "out"]
  /\ SignalElements
  /\ Return(r, IF cfg.waitForResult THEN "awaiting" ELSE "accepted")
  /\ late' = IF stopped THEN late \cup {r} ELSE late
  /\ UNCHANGED <<cfg, mu, waiting, ch, stopped, flight, result, refs>>

\* While the caller waits for space it is signalled, or its context ends.
AddSignalled(r) ==
  /\ Space!Receive(r)
  /\ UNCHANGED <<cfg, queue, offer, cons, flight, dones, refs, late>>

AddCtxDone(r) ==
  /\ Space!CtxDone(r)
  /\ UNCHANGED <<cfg, queue, offer, cons, flight, dones, refs, late>>

AddCancelled(r) ==
  /\ Space!Cancelled(r)
  /\ IF at'[r] = "out" THEN Return(r, "failed") /\ Unref(r) ELSE UNCHANGED <<offer, refs>>
  /\ UNCHANGED <<cfg, queue, cons, flight, dones, late>>

\* The result arrives: the instance is free again ...
GetResult(r) ==
  LET d == mine[r] IN
  /\ offer[r] = "awaiting" /\ bd[d].ch # NoOne
  /\ result' = [result EXCEPT ![r] = bd[d].ch]
  /\ bd' = [bd EXCEPT ![d].ch = NoOne]
  /\ pool' = pool \cup {d}
  /\ Return(r, "accepted")
  /\ UNCHANGED <<cfg, space, queue, cons, flight, mine, refs, late>>

\* ... or the context ends first: the consumer may still use the instance.
GiveUpReuses(r) ==   \* mutant: the instance goes back to the pool
  /\ offer[r] = "awaiting" /\ Return(r, "timeout") /\ pool' = pool \cup {mine[r]}
  /\ UNCHANGED <<cfg, space, queue, cons, flight, bd, mine, result, refs, late>>
GiveUp(r) ==
  /\ offer[r] = "awaiting" /\ Return(r, "timeout")
  /\ UNCHANGED <<cfg, space, queue, cons, flight, dones, refs, late>>

-----------------------------------------------------------------------------
(* The consumer goroutines. *)

Reading(c) == mu = NoOne /\ cons[c].at = "awake"

ReadPop(c) ==
  /\ Reading(c) /\ items # <<>>
  /\ items' = Tail(items)
  /\ flight' = flight \cup {Head(items)}
  /\ cons' = [cons EXCEPT ![c] = [at |-> "busy", req |-> Head(items).req]]
  /\ UNCHANGED <<cfg, space, size, stopped, offer, dones, refs, late>>

ReadEmptyIgnoresItems(c) ==   \* mutant: stopped is looked at first
  /\ Reading(c) /\ (stopped \/ items = <<>>)
  /\ cons' = [cons EXCEPT ![c].at = IF stopped THEN "exited" ELSE "waiting"]
  /\ UNCHANGED <<cfg, space, queue, offer, flight, dones, refs, late>>
ReadEmpty(c) ==
  /\ Reading(c) /\ items = <<>>
  /\ cons' = [cons EXCEPT ![c].at = IF stopped THEN "exited" ELSE "waiting"]
  /\ UNCHANGED <<cfg, space, queue, offer, flight, dones, refs, late>>

\* The consumer function returns to the loop of asyncQueue.Start.
consumeFunc(c) ==
  /\ cons[c].at = "busy"
  /\ Unref(cons[c].req)
  /\ cons' = [cons EXCEPT ![c] = Idle]
  /\ UNCHANGED <<cfg, space, queue, offer, flight, dones, late>>

-----------------------------------------------------------------------------
(* OnDone and Shutdown. *)

\* The result goes to the caller that waits for it, or the instance to the pool.
Finished(e) ==
  /\ flight' = flight \ {e}
  /\ IF cfg.waitForResult
       THEN bd[e.done].ch = NoOne /\ bd' = [bd EXCEPT ![e.done].ch = e.req] /\ UNCHANGED pool
       ELSE pool' = pool \cup {e.done} /\ UNCHANGED bd

onDone(e) ==
  LET t == Completer(e.req) IN
  /\ e \in flight /\ mu = NoOne /\ at[t] = "out"
  /\ size' = size - bd[e.done].elSize
  /\ Space!Signal(t)
  /\ IF at'[t] = "send" THEN UNCHANGED <<flight, pool, bd>> ELSE Finished(e)
  /\ UNCHANGED <<cfg, items, stopped, offer, cons, mine, result, refs, late>>

\* onDone was blocked in Signal.
onDoneSent(e) ==
  /\ e \in flight /\ Space!Sent(Completer(e.req))
  /\ Finished(e)
  /\ UNCHANGED <<cfg, queue, offer, cons, mine, result, refs, late>>

Shutdown ==
  /\ mu = NoOne /\ ~stopped
  /\ stopped' = TRUE
  /\ cons' = [c \in Consumers |-> IF cons[c].at = "waiting" THEN Idle ELSE cons[c]]
  /\ UNCHANGED <<cfg, space, items, size, offer, flight, dones, refs, late>>

-----------------------------------------------------------------------------

Caller(r) == Offer(r) \/ AddFull(r) \/ Add(r) \/ AddSignalled(r) \/ AddCancelled(r) \/ GetResult(r)
Consumer(c) == ReadPop(c) \/ ReadEmpty(c) \/ consumeFunc(c)
Completion(r) == \E d \in Slots : LET e == [req |-> r, done |-> d] IN onDone(e) \/ onDoneSent(e)

Next ==
  \/ \E r \in Reqs : Caller(r) \/ AddCtxDone(r) \/ GiveUp(r) \/ Completion(r)
  \/ \E c \in Consumers : Consumer(c)
  \/ Shutdown

Spec == Init /\ [][Next]_vars

-----------------------------------------------------------------------------
(* Properties. *)

Queued == {items[i] : i \in 1..Len(items)}

\* size is the total of what waits and of what is being processed; an element
\* leaves it when its OnDone has the lock.
Occupying == {e \in Queued \cup flight : at[Completer(e.req)] = "out"}
SizeExact == size = MapThenSumSet(LAMBDA e : SizeOf[e.req], Occupying)

\* With wait_for_result a caller gets the result of its own request, however many
\* other callers gave up on instances that consumers still held.
ResultMatches == \A r \in Reqs : result[r] \in {NoOne, r}

\* The queue holds one reference on a request from before it is pushed until the
\* consumer function returned, and gives it back on every error path.
RefsHeld ==
  \A r \in Reqs : refs[r] =
    IF \/ offer[r] = "adding"
       \/ \E e \in Queued : e.req = r
       \/ \E c \in Consumers : cons[c].req = r
    THEN 1 ELSE 0

\* Shutdown drains: when the consumers are gone, nothing that was accepted before
\* Shutdown is left in the queue.
Exited == \A c \in Consumers : cons[c].at = "exited"
DrainsBeforeStop == Exited => \A e \in Queued : e.req \in late

\* OnDone is stuck in Signal with mq.mu: two callers whose contexts ended are still
\* counted as waiting, and nobody is left to take the signal out of the channel.
StuckInSignal == mu # NoOne /\ Space!In({"select"}) = {} /\ Cardinality(Space!In({"done"})) >= 2

\* No caller is left behind: while the queue runs every Offer returns, also one that
\* waits for space and then for the result, however the wake-ups are shared out.  As
\* long as a call has not returned there is somebody who can go on, except when the
\* condition variable is stuck.  (A call takes a bounded number of steps, so nothing
\* else could keep it from returning.)
OfferReturns ==
  (\E r \in Reqs : offer[r] \in {"adding", "awaiting"}) /\ ~stopped /\ ~StuckInSignal =>
    ENABLED ((\E r \in Reqs : Caller(r) \/ Completion(r)) \/ \E c \in Consumers : Consumer(c))
=============================================================================
