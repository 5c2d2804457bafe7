--------------------------- MODULE PersistentQueue ---------------------------
(***************************************************************************)
(* The disk-backed sending queue of an exporter                            *)
(* (exporterhelper/internal/queue/persistent_queue.go), driven by the      *)
(* consumer goroutines of async_queue.go.  A step is one storage           *)
(* transaction together with the memory updates made under pq.mu around    *)
(* it, so that the process may be killed between any two transactions.     *)
(*                                                                         *)
(* Abstractions.  ItemsSize and BytesSize are written at the same places   *)
(* by the same rule: one field, size, stands for both.  The dispatched     *)
(* list is a set: its order only decides the order of re-enqueueing, which *)
(* is left open here.  An encoding error in putInternal leaves the same    *)
(* state as a transaction that was not applied, and a decoding error in    *)
(* getNextItem the same as one that was applied but reported an error.     *)
(* A caller whose context has ended and that waits for pq.mu counts as     *)
(* blocked until it has the lock: it no longer takes signals, which        *)
(* TakeSignal never forces it to.  Module Cond has these steps one by one. *)
(***************************************************************************)
EXTENDS Integers, FiniteSets, Sequences

CONSTANTS
  Reqs,             \* requests offered to the queue, each by its own caller
  ItemsOf,          \* [Reqs -> Nat], the size of a request in items (bytes)
  Capacity,         \* queue_size
  SizerItems,       \* TRUE: capacity counts items (bytes); FALSE: requests
  BlockOnOverflow,  \* block_on_overflow
  Consumers,        \* num_consumers goroutines
  NilDecodes,       \* Encoding.Unmarshal(nil) succeeds with an empty request
  OldQueue,         \* requests left by a release that used the legacy keys
  OldRead,          \* how many of those it had dispatched (legacy read index)
  RecoveryCrashes,  \* may the process be killed while Start recovers?
  NoValue,          \* a missing storage value, and the empty request
  MaxIndex,         \* bound on WriteIndex
  MaxErrs,          \* bound on storage errors
  MaxCrashes        \* bound on kills

ASSUME ConstantsOK ==
  /\ ItemsOf \in [Reqs -> Nat]
  /\ Capacity \in Nat /\ MaxIndex \in Nat /\ MaxErrs \in Nat /\ MaxCrashes \in Nat
  /\ SizerItems \in BOOLEAN /\ BlockOnOverflow \in BOOLEAN
  /\ NilDecodes \in BOOLEAN /\ RecoveryCrashes \in BOOLEAN
  /\ NoValue \notin Reqs /\ IsFiniteSet(Reqs) /\ IsFiniteSet(Consumers)
  /\ OldQueue \in Seq(Reqs) /\ OldRead \in 0..Len(OldQueue) /\ Len(OldQueue) <= MaxIndex
  /\ \A i, j \in 1..Len(OldQueue) : OldQueue[i] = OldQueue[j] => i = j

VARIABLES
  life,       \* where Start, running and Shutdown of the exporter stand
  meta,       \* pq.metadata
  refClient,  \* pq.refClient
  stopped,    \* pq.stopped
  closed,     \* the storage client was closed
  mu,         \* pq.mu: Free, or what its holder does next
  cons,       \* the consumer goroutines
  flight,     \* requests handed out by Read whose OnDone is not called yet
  rec,        \* local variables of the recovery in Start
  disk,       \* what storage holds
  st,         \* per request: where its Offer stands
  waiting,    \* waiting of the condition variable hasMoreSpace
  ch,         \* signals in its channel, which has room for one
  done,       \* requests whose OnDone was called with a final result
  errs,       \* storage errors so far
  crashes     \* kills so far

proc == <<life, meta, refClient, stopped, closed, mu, cons, flight, rec>>
vars == <<proc, disk, st, waiting, ch, done, errs, crashes>>

Index == 0..MaxIndex-1
Value == Reqs \cup {NoValue}
Entry == [idx : Index, req : Value]
Items(v) == IF v = NoValue THEN 0 ELSE ItemsOf[v]
Metadata == [ri : 0..MaxIndex, wi : 0..MaxIndex, size : Nat, cdi : SUBSET Index]
Disk == [set : BOOLEAN, meta : Metadata, legacy : BOOLEAN, item : [Index -> Value]]
EmptyMetadata == [ri |-> 0, wi |-> 0, size |-> 0, cdi |-> {}]
Outcome == {"ok", "fail", "unsure"}   \* unsure: applied, yet an error came back

\* The lock: what its holder does next, for which consumer and which item.  In phase
\* "signal" it is stuck in the Signal after itemDispatchingFinish.
Phases == {"both", "delete", "set"}                     \* of itemDispatchingFinish
Lock == [k : {"free", "loop", "drop", "done"}, c : Consumers \cup {NoValue},
         i : 0..MaxIndex, ph : Phases \cup {"signal"}]
Free == [k |-> "free", c |-> NoValue, i |-> 0, ph |-> "both"]
Loop(c) == [k |-> "loop", c |-> c, i |-> 0, ph |-> "both"]   \* Read's inner loop goes on
Drop(c, i) == [k |-> "drop", c |-> c, i |-> i, ph |-> "both"]
Finish(i) == [k |-> "done", c |-> NoValue, i |-> i, ph |-> "both"]

NoRec == [old |-> FALSE, di |-> {}, got |-> {}]
Up == life \in {"up", "closing"}

pendingSize(m) == m.wi - m.ri   \* mutant: dispatched items not counted
requestSize(m) == m.wi - m.ri + Cardinality(m.cdi)
internalSize == IF SizerItems THEN meta.size ELSE requestSize(meta)
MinusUnclamped(a, b) == a - b   \* mutant: no clamp at zero
Minus(a, b) == IF a < b THEN 0 ELSE a - b
Sizeof(r) == IF SizerItems THEN ItemsOf[r] ELSE 1
Drained(m) == IF requestSize(m) = 0 THEN [m EXCEPT !.size = 0] ELSE m

-----------------------------------------------------------------------------
(* The storage client. *)

SetMetaNoList(d, m) == [d EXCEPT !.set = TRUE, !.meta = [m EXCEPT !.cdi = {}]]   \* mutant: list not saved
SetMeta(d, m) == [d EXCEPT !.set = TRUE, !.meta = m]
SetItem(d, i, r) == [d EXCEPT !.item[i] = r]
KeepItems(d, S) == d   \* mutant: items are never deleted
DeleteItems(d, S) == [d EXCEPT !.item = [i \in Index |-> IF i \in S THEN NoValue ELSE @[i]]]

\* One transaction that would turn disk into new, with outcome o.  A closed
\* client refuses everything.
Batch(new, o) ==
  /\ o \in IF closed THEN {"fail"} ELSE IF errs < MaxErrs THEN Outcome ELSE {"ok"}
  /\ disk' = IF o = "fail" THEN disk ELSE new
  /\ errs' = IF o = "ok" \/ closed THEN errs ELSE errs + 1

unrefEarly ==    \* mutant: closes with one reference left
  /\ refClient' = refClient - 1
  /\ closed' = (closed \/ refClient <= 2)
unrefClient ==
  /\ refClient' = refClient - 1
  /\ closed' = (closed \/ refClient = 1)

-----------------------------------------------------------------------------
(* Condition variables. *)

NoSignalElements == UNCHANGED cons   \* mutant: the wake-up is forgotten
NoSignalSpace == UNCHANGED <<st, waiting, ch>>   \* mutant: the wake-up is forgotten

\* sync.Cond.Signal on hasMoreElements
SignalElements ==
  LET W == {c \in Consumers : cons[c] = "waiting"}
  IN  IF W = {} THEN UNCHANGED cons ELSE \E c \in W : cons' = [cons EXCEPT ![c] = "awake"]

\* cond.Signal on hasMoreSpace, when it returns.  If the channel is full it first waits
\* for a caller in the select of Wait to take the signal that is there.
SignalSpace ==
  IF waiting = 0 THEN UNCHANGED <<st, waiting, ch>>
  ELSE /\ waiting' = waiting - 1 /\ ch' = 1
       /\ \/ ch = 0 /\ UNCHANGED st
          \/ ch = 1 /\ \E r \in Reqs : st[r] = "blocked" /\ st' = [st EXCEPT ![r] = "woken"]

\* ... and when it does not: the channel is full and the contexts of all blocked
\* callers have ended.  They wait for the lock, and nobody takes the signal.
SignalBlocks ==
  /\ waiting > 0 /\ ch = 1
  /\ waiting' = waiting - 1
  /\ mu' = [mu EXCEPT !.ph = "signal"]
  /\ UNCHANGED <<refClient, closed, st, ch>>

-----------------------------------------------------------------------------
(* Start: initClient. *)

Volatile(l) ==                        \* a process image in which nothing is queued
  /\ life' = l /\ mu' = Free /\ flight' = {} /\ stopped' = FALSE /\ closed' = FALSE
  /\ cons' = [c \in Consumers |-> "awake"]

\* Reads only: o is the outcome of Get(metadataKey).
loadQueueMetadata(o) ==
  /\ life = "down"
  /\ o = "ok" => disk.set
  /\ Batch(disk, o)
  /\ meta' = IF o = "ok" THEN disk.meta ELSE EmptyMetadata
  /\ rec' = [NoRec EXCEPT !.di = meta'.cdi]
  /\ refClient' = 1
  /\ Volatile(IF meta'.cdi = {} THEN "up" ELSE "retrieve")
  /\ UNCHANGED <<st, waiting, ch, done, crashes>>

\* The metadata key is missing: read the legacy keys (outcome oi for the two
\* indexes, od for the list of dispatched items).
loadLegacyMetadata(oi, od) ==
  /\ life = "down"
  /\ ~disk.set
  /\ {oi, od} \subseteq {"ok", "fail"}
  /\ errs' = errs + (IF oi = "fail" THEN 1 ELSE 0) + (IF od = "fail" THEN 1 ELSE 0)
  /\ errs' <= MaxErrs
  /\ meta' = IF oi = "ok" /\ disk.legacy
               THEN [EmptyMetadata EXCEPT !.ri = OldRead, !.wi = Len(OldQueue)]
               ELSE EmptyMetadata
  /\ rec' = [NoRec EXCEPT !.old = TRUE,
                          !.di = IF od = "ok" /\ disk.legacy THEN 0..OldRead-1 ELSE {}]
  /\ refClient' = 1
  /\ Volatile(IF rec'.di = {} THEN "migrate" ELSE "retrieve")
  /\ UNCHANGED <<disk, st, waiting, ch, done, crashes>>

\* enqueueNotDispatchedReqs, first transaction: read the items ...
retrieveBatch(o) ==
  /\ life = "retrieve"
  /\ Batch(disk, o)
  /\ life' = "cleanup"
  /\ rec' = [rec EXCEPT !.got = IF o = "ok"
               THEN {[idx |-> i, req |-> disk.item[i]] : i \in {j \in rec.di : disk.item[j] # NoValue}}
               ELSE {}]
  /\ UNCHANGED <<meta, refClient, stopped, closed, mu, cons, flight, st, waiting, ch, done, crashes>>

\* ... second transaction: delete them, whatever became of the first ...
cleanupBatch(o) ==
  /\ life = "cleanup"
  /\ Batch(DeleteItems(disk, rec.di), o)
  /\ life' = "reput"
  /\ UNCHANGED <<meta, refClient, stopped, closed, mu, cons, flight, rec, st, waiting, ch, done, crashes>>

\* ... then put them back one at a time (no consumer waits yet, so the Signal
\* in putInternal has no effect) ...
putBack(e, o) ==
  LET m == [meta EXCEPT !.wi = @ + 1] IN
  /\ life = "reput" /\ e \in rec.got /\ meta.wi < MaxIndex
  /\ Batch(SetItem(SetMeta(disk, m), meta.wi, e.req), o)
  /\ meta' = m
  /\ rec' = [rec EXCEPT !.got = @ \ {e}]
  /\ UNCHANGED <<life, refClient, stopped, closed, mu, cons, flight, st, waiting, ch, done, crashes>>

\* ... skipping the ones that do not decode.
skipUndecodable(e) ==
  /\ life = "reput" /\ e \in rec.got
  /\ errs < MaxErrs /\ errs' = errs + 1
  /\ rec' = [rec EXCEPT !.got = @ \ {e}]
  /\ UNCHANGED <<life, meta, refClient, stopped, closed, mu, cons, flight, disk, st, waiting, ch, done, crashes>>

\* The dispatched list is forgotten in memory only.
recovered ==
  /\ life = "reput" /\ rec.got = {}
  /\ meta' = [meta EXCEPT !.cdi = {}]
  /\ life' = IF rec.old THEN "migrate" ELSE "up"
  /\ UNCHANGED <<refClient, stopped, closed, mu, cons, flight, rec, disk, st, waiting, ch, done, errs, crashes>>

\* The tail of loadLegacyMetadata: save in the new format, delete the old keys.
migrate(o) ==
  /\ life = "migrate"
  /\ Batch(SetMeta(disk, meta), o)
  /\ life' = IF o = "ok" THEN "purge" ELSE "up"
  /\ UNCHANGED <<meta, refClient, stopped, closed, mu, cons, flight, rec, st, waiting, ch, done, crashes>>

purgeLegacy(o) ==
  /\ life = "purge"
  /\ Batch([disk EXCEPT !.legacy = FALSE], o)
  /\ life' = "up"
  /\ UNCHANGED <<meta, refClient, stopped, closed, mu, cons, flight, rec, st, waiting, ch, done, crashes>>

-----------------------------------------------------------------------------
(* Producers: Offer. *)

Offering(r) == Up /\ mu = Free /\ st[r] \in {"new", "woken"}

OfferFull(r) ==
  /\ Offering(r)
  /\ internalSize + Sizeof(r) > Capacity
  /\ IF BlockOnOverflow THEN st' = [st EXCEPT ![r] = "blocked"] /\ waiting' = waiting + 1
                        ELSE st' = [st EXCEPT ![r] = "rejected"] /\ UNCHANGED waiting
  /\ UNCHANGED <<proc, disk, ch, done, errs, crashes>>

\* Nothing here looks at stopped.  An error is returned without undoing the
\* new write index and size.
OfferPut(r, o) ==
  LET m == [meta EXCEPT !.wi = @ + 1, !.size = @ + ItemsOf[r]] IN
  /\ Offering(r) /\ meta.wi < MaxIndex
  /\ internalSize + Sizeof(r) <= Capacity
  /\ Batch(SetItem(SetMeta(disk, m), meta.wi, r), o)
  /\ meta' = m
  /\ st' = [st EXCEPT ![r] = IF o = "ok" THEN "accepted" ELSE "rejected"]
  /\ IF o = "ok" THEN SignalElements ELSE UNCHANGED cons
  /\ UNCHANGED <<life, refClient, stopped, closed, mu, flight, rec, waiting, ch, done, crashes>>

\* The caller takes the signal, and Wait will return nil once it has the lock.  Beside a
\* Signal that is stuck nobody is in the select any more.
TakeSignal(r) ==
  /\ Up /\ st[r] = "blocked" /\ ch = 1 /\ mu.ph # "signal"
  /\ ch' = 0
  /\ st' = [st EXCEPT ![r] = "woken"]
  /\ UNCHANGED <<proc, disk, waiting, done, errs, crashes>>

\* Wait returns the error of the context, which ended before a signal was taken.  If
\* nobody is counted as waiting, the signal in the channel is the caller's own.
OfferCancel(r) ==
  /\ Up /\ mu = Free /\ st[r] = "blocked"
  /\ IF waiting = 0 THEN ch = 1 /\ ch' = 0 /\ UNCHANGED waiting
                    ELSE waiting' = waiting - 1 /\ UNCHANGED ch
  /\ st' = [st EXCEPT ![r] = "rejected"]
  /\ UNCHANGED <<proc, disk, done, errs, crashes>>

-----------------------------------------------------------------------------
(* Consumers: Read and OnDone. *)

\* c holds the lock in Read: it has just taken it, or goes on in the inner loop,
\* which does not look at stopped again.
Reading(c) ==
  /\ Up
  /\ \/ mu = Free /\ cons[c] = "awake" /\ ~stopped
     \/ mu = Loop(c)

ReadStopped(c) ==
  /\ Up /\ mu = Free /\ cons[c] = "awake" /\ stopped
  /\ cons' = [cons EXCEPT ![c] = "exited"]
  /\ UNCHANGED <<life, meta, refClient, stopped, closed, mu, flight, rec, disk, st, waiting, ch, done, errs, crashes>>

ReadWait(c) ==
  /\ Reading(c) /\ meta.ri = meta.wi
  /\ cons' = [cons EXCEPT ![c] = "waiting"]
  /\ mu' = Free
  /\ UNCHANGED <<life, meta, refClient, stopped, closed, flight, rec, disk, st, waiting, ch, done, errs, crashes>>

\* getNextItem up to the decoding of the item.
getNextItem(c, o) ==
  LET i == meta.ri
      m == [meta EXCEPT !.ri = @ + 1, !.cdi = @ \cup {i}]
      consumed == o = "ok" /\ (disk.item[i] # NoValue \/ NilDecodes) IN
  /\ Reading(c) /\ meta.ri # meta.wi
  /\ Batch(SetMeta(disk, m), o)
  /\ meta' = m
  /\ IF consumed
       THEN /\ refClient' = refClient + 1
            /\ flight' = flight \cup {[idx |-> i, req |-> disk.item[i]]}
            /\ cons' = [cons EXCEPT ![c] = "busy"]
            /\ mu' = Free
       ELSE mu' = Drop(c, i) /\ UNCHANGED <<refClient, flight, cons>>
  /\ UNCHANGED <<life, stopped, closed, rec, st, waiting, ch, done, crashes>>

\* The consumer function returns to the loop of asyncQueue.Start.
consumeFunc(c) ==
  /\ Up /\ cons[c] = "busy"
  /\ cons' = [cons EXCEPT ![c] = "awake"]
  /\ UNCHANGED <<life, meta, refClient, stopped, closed, mu, flight, rec, disk, st, waiting, ch, done, errs, crashes>>

\* OnDone with a shutdown error: the item stays dispatched in storage.  Such an
\* error only comes once the retry sender has been shut down.
onDoneShutdown(f) ==
  /\ life = "closing" /\ mu = Free /\ f \in flight
  /\ flight' = flight \ {f}
  /\ unrefClient
  /\ UNCHANGED <<life, meta, stopped, mu, cons, rec, disk, st, waiting, ch, done, errs, crashes>>

\* OnDone with any other result: sizes first, then itemDispatchingFinish.
onDone(f) ==
  /\ Up /\ mu = Free /\ f \in flight
  /\ flight' = flight \ {f}
  /\ meta' = [meta EXCEPT !.size = Minus(@, Items(f.req))]
  /\ mu' = Finish(f.idx)
  /\ done' = done \cup {f.req}
  /\ UNCHANGED <<life, refClient, stopped, closed, cons, rec, disk, st, waiting, ch, errs, crashes>>

\* What the lock holder does after itemDispatchingFinish returned.
FinishReturns ==
  /\ SignalSpace
  /\ IF mu.k = "drop" THEN mu' = Loop(mu.c) /\ UNCHANGED <<refClient, closed>>
                      ELSE mu' = Free /\ unrefClient

\* itemDispatchingFinish: metadata and item in one transaction; on error the
\* item alone, and then the metadata alone.
itemDispatchingFinish(o) ==
  LET m == IF mu.ph = "both" THEN Drained([meta EXCEPT !.cdi = @ \ {mu.i}]) ELSE meta
      new == CASE mu.ph = "both"   -> SetMeta(DeleteItems(disk, {mu.i}), m)
               [] mu.ph = "delete" -> DeleteItems(disk, {mu.i})
               [] mu.ph = "set"    -> SetMeta(disk, m)
      next == CASE mu.ph = "both" /\ o # "ok"  -> "delete"
                [] mu.ph = "delete" /\ o = "ok" -> "set"
                [] OTHER -> "return" IN
  /\ Up /\ mu.k \in {"drop", "done"} /\ mu.ph \in Phases
  /\ Batch(new, o)
  /\ meta' = m
  /\ IF next = "return" THEN FinishReturns \/ SignalBlocks
     ELSE mu' = [mu EXCEPT !.ph = next] /\ UNCHANGED <<refClient, closed, st, waiting, ch>>
  /\ UNCHANGED <<life, stopped, cons, flight, rec, done, crashes>>

-----------------------------------------------------------------------------
(* Shutdown of the exporter, and the end of the process. *)

\* BaseExporter.Shutdown stops the retry sender before the queue.
retryShutdown ==
  /\ life = "up" /\ life' = "closing"
  /\ UNCHANGED <<meta, refClient, stopped, closed, mu, cons, flight, rec, disk, st, waiting, ch, done, errs, crashes>>

Shutdown ==
  /\ life = "closing" /\ mu = Free /\ ~stopped
  /\ stopped' = TRUE
  /\ cons' = [c \in Consumers |-> IF cons[c] = "waiting" THEN "awake" ELSE cons[c]]
  /\ unrefClient
  /\ UNCHANGED <<life, meta, mu, flight, rec, disk, st, waiting, ch, done, errs, crashes>>

\* Recovery holds requests that are nowhere in storage.
RecoveryWindow == life = "reput" /\ rec.got # {}

\* The process is killed, or exits after Shutdown.  Storage stays; callers that
\* were waiting for space are gone with it.
ProcessEnds ==
  /\ life # "down" /\ crashes < MaxCrashes
  /\ RecoveryWindow => RecoveryCrashes
  /\ crashes' = crashes + 1
  /\ meta' = EmptyMetadata /\ rec' = NoRec /\ refClient' = 0
  /\ Volatile("down")
  /\ st' = [r \in Reqs |-> IF st[r] \in {"blocked", "woken"} THEN "rejected" ELSE st[r]]
  /\ waiting' = 0 /\ ch' = 0
  /\ UNCHANGED <<disk, done, errs>>

-----------------------------------------------------------------------------

Init ==
  /\ life = "down" /\ meta = EmptyMetadata /\ rec = NoRec
  /\ refClient = 0 /\ stopped = FALSE /\ closed = FALSE
  /\ mu = Free /\ flight = {}
  /\ cons = [c \in Consumers |-> "awake"]
  /\ disk = [set |-> FALSE, meta |-> EmptyMetadata, legacy |-> Len(OldQueue) > 0,
             item |-> [i \in Index |-> IF i < Len(OldQueue) THEN OldQueue[i+1] ELSE NoValue]]
  /\ st = [r \in Reqs |-> IF \E i \in 1..Len(OldQueue) : OldQueue[i] = r THEN "accepted" ELSE "new"]
  /\ waiting = 0 /\ ch = 0 /\ done = {} /\ errs = 0 /\ crashes = 0

Recovery ==
  \/ \E o \in Outcome : loadQueueMetadata(o) \/ retrieveBatch(o) \/ cleanupBatch(o)
                        \/ migrate(o) \/ purgeLegacy(o)
  \/ \E oi, od \in Outcome : loadLegacyMetadata(oi, od)
  \/ \E e \in Entry : skipUndecodable(e) \/ \E o \in Outcome : putBack(e, o)
  \/ recovered

Producer(r) ==
  OfferFull(r) \/ (\E o \in Outcome : OfferPut(r, o)) \/ TakeSignal(r) \/ OfferCancel(r)

Consumer(c) ==
  \/ ReadStopped(c) \/ ReadWait(c) \/ consumeFunc(c)
  \/ \E o \in Outcome : getNextItem(c, o)

Completion ==
  \/ \E f \in Entry : onDone(f) \/ onDoneShutdown(f)
  \/ \E o \in Outcome : itemDispatchingFinish(o)

Next ==
  \/ Recovery
  \/ \E r \in Reqs : Producer(r)
  \/ \E c \in Consumers : Consumer(c)
  \/ Completion
  \/ retryShutdown \/ Shutdown \/ ProcessEnds

Spec == Init /\ [][Next]_vars

\* A caller that a signal was sent for goes on.
Resume == \E r \in Reqs :
  \/ TakeSignal(r)
  \/ st[r] = "woken" /\ (OfferFull(r) \/ \E o \in Outcome : OfferPut(r, o))

FairSpec ==
  /\ Spec
  /\ WF_vars(Recovery) /\ WF_vars(Completion) /\ WF_vars(Resume)
  /\ \A c \in Consumers : WF_vars(Consumer(c))

-----------------------------------------------------------------------------
(* Properties. *)

Lives == {"down", "retrieve", "cleanup", "reput", "migrate", "purge", "up", "closing"}
Stages == {"new", "blocked", "woken", "accepted", "rejected"}

\* Type invariant of the queue, its storage and its callers.
TypeOK ==
  /\ life \in Lives
  /\ meta \in Metadata
  /\ refClient \in Nat /\ stopped \in BOOLEAN /\ closed \in BOOLEAN
  /\ mu \in Lock
  /\ cons \in [Consumers -> {"awake", "waiting", "busy", "exited"}]
  /\ flight \in SUBSET Entry
  /\ rec \in [old : BOOLEAN, di : SUBSET Index, got : SUBSET Entry]
  /\ disk \in Disk
  /\ st \in [Reqs -> Stages] /\ waiting \in Nat /\ ch \in 0..1
  /\ done \in SUBSET Value
  /\ errs \in 0..MaxErrs /\ crashes \in 0..MaxCrashes

\* Start would find what is at index i, pending or dispatched, and so the request.
Listed(i) ==
  IF disk.set THEN i \in disk.meta.cdi \/ (disk.meta.ri <= i /\ i < disk.meta.wi)
              ELSE disk.legacy /\ i < Len(OldQueue)
Durable(r) == \E i \in Index : disk.item[i] = r /\ Listed(i)

\* As long as storage reports no error, a request whose Offer returned nil is
\* kept in storage (or in the hands of the recovery that is moving it) until
\* OnDone is called for it with a final result, across kills and restarts.
AcceptedSurvives ==
  errs = 0 =>
    \A r \in Reqs : st[r] = "accepted" =>
      r \in done \/ Durable(r) \/ \E e \in rec.got : e.req = r

\* The reference count: one for the producers until Shutdown, one for every
\* request in flight or being finished.  So the storage client is closed when the
\* last of them is gone and not before: onDone never meets a closed client.
Held == (IF stopped THEN 0 ELSE 1) + Cardinality(flight) + (IF mu.k = "done" THEN 1 ELSE 0)
ClientClosedLast ==
  Up => refClient = Held /\ (closed <=> Held = 0)

\* Indexes in flight are distinct dispatched indexes below the read index, and
\* without storage errors one process never has a request in flight twice.
DispatchedOnce ==
  Up => /\ meta.ri <= meta.wi
        /\ \A i \in meta.cdi : i < meta.ri
        /\ \A f \in flight : f.idx \in meta.cdi
        /\ \A f, g \in flight : (f.idx = g.idx \/ (errs = 0 /\ f.req = g.req)) => f = g

\* A consumer sleeps on hasMoreElements only if the consumers that are up and
\* about to Read are enough for the items that are there.  The exception: a put that
\* storage refused has taken its place in the queue and woken nobody, so there may be
\* one item more for each error.
NoIdleConsumer ==
  (Up /\ \E c \in Consumers : cons[c] = "waiting") =>
     meta.wi - meta.ri <= Cardinality({c \in Consumers : cons[c] = "awake"}) + errs

\* The capacity checked by Offer is respected by everything else that moves
\* items, recovery included, unless an older release left more than that.  (A
\* storage error may let it be exceeded: an item that could not be deleted by the
\* recovery is put back a second time after the next restart.)
WithinCapacity ==
  Up /\ errs = 0 /\ Len(OldQueue) <= Capacity =>
    (IF SizerItems THEN meta.size ELSE meta.wi - meta.ri + Cardinality(meta.cdi)) <= Capacity

\* What the queue promises (module DurableQueue), seen through the storage.
Kept == {r \in Reqs : Durable(r) \/ \E e \in rec.got : e.req = r}
Promise == INSTANCE DurableQueue WITH
  accepted <- {r \in Reqs : st[r] = "accepted"}, kept <- Kept,
  out <- {f.req : f \in flight}, finished <- done

\* Without storage errors and outside the recovery window, every step of the queue
\* is a step of the at-least-once queue it stands for.
Implements == Promise!Spec

\* Callers do not stay asleep beside an empty queue: with nothing waiting, nothing
\* in flight and no wake-up under way, nobody is blocked (block_on_overflow waits
\* "until the queue has space").  This is so if every request fits into the queue:
\* one that does not takes a wake-up, goes back to sleep and does not pass it on.
AllFit == \A r \in Reqs : Sizeof(r) <= Capacity
NoStrandedProducer ==
  (AllFit /\ life = "up" /\ errs = 0 /\ mu = Free /\ flight = {} /\ meta.ri = meta.wi
     /\ ch = 0 /\ \A r \in Reqs : st[r] # "woken")
  => \A r \in Reqs : st[r] # "blocked"

\* The one who finished an item is stuck in Signal with pq.mu (module Cond).
StuckInSignal == mu.ph = "signal"

\* However often the process is killed, in the end every accepted request is
\* finished and no caller is left waiting for space, unless the exporter is shut down
\* first.  The exception: the contexts of two blocked callers end so that a Signal
\* never returns.  It keeps pq.mu, and the queue stands still with all its callers.
OffersFinish ==
  <>[](life = "closing" \/ errs > 0 \/ ~AllFit \/ StuckInSignal
        \/ \A r \in Reqs : st[r] = "rejected" \/ st[r] = "new" \/ r \in done)

=============================================================================
