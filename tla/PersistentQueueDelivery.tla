----------------------- MODULE PersistentQueueDelivery -----------------------
(***************************************************************************)
(* More proofs about the persistent queue, which go on from the invariants *)
(* QInv, SInv and UInv of module PersistentQueueProofs: the queue          *)
(* implements the at-least-once queue of module DurableQueue, its capacity *)
(* is kept, and producers are woken.                                       *)
(***************************************************************************)
EXTENDS PersistentQueueProofs

-----------------------------------------------------------------------------
(* Every step is a step of the at-least-once queue. *)

Accepted == {r \in Reqs : st[r] = "accepted"}
Out == {f.req : f \in flight}
AbstractStep == Promise!Next \/ UNCHANGED <<Accepted, Kept, Out, done>>

\* A request is kept if storage lists it or the recovery holds it.
LEMMA KeptSame ==
  ASSUME \A r \in Reqs : Durable(r) => Durable(r)' \/ \E e \in rec'.got : e.req = r,
         \A r \in Reqs : Durable(r)' => Durable(r) \/ \E e \in rec.got : e.req = r,
         \A e \in rec.got : Durable(e.req)' \/ \E g \in rec'.got : g.req = e.req,
         \A e \in rec'.got : Durable(e.req) \/ \E g \in rec.got : g.req = e.req
  PROVE  Kept' = Kept
  BY Zenon DEF Kept

\* Listed items are durable, and durable requests are at a listed index.
LEMMA DurableMeans ==
  ASSUME NEW r
  PROVE  /\ Durable(r) <=> \E i \in Index : disk.item[i] = r /\ Listed(i)
         /\ Durable(r)' <=> \E i \in Index : disk'.item[i] = r /\ Listed(i)'
  BY Zenon DEF Durable

\* Nothing changes in storage and the recovery holds nothing.
LEMMA KeptUnchanged ==
  ASSUME UNCHANGED disk, rec.got = {}, rec'.got = {} PROVE Kept' = Kept
  BY Zenon DEF Kept, Durable, Listed

\* The steps of the recovery neither lose a request nor make one up.
LEMMA LoadKept ==
  ASSUME QInv, SInv, errs = 0, errs' = 0,
         \/ \E o \in Outcome : loadQueueMetadata(o)
         \/ \E oi, od \in Outcome : loadLegacyMetadata(oi, od)
  PROVE  Kept' = Kept /\ UNCHANGED <<st, done>>
<1>1. UNCHANGED <<disk, st, done>> /\ life = "down" /\ rec'.got = {}
  BY loadQueueMetadataDoes, loadLegacyMetadataDoes
<1>2. rec.got = {}
  BY <1>1, Zenon DEF SInv, Empty
<1> QED
  BY <1>1, <1>2, KeptUnchanged, Zenon

LEMMA retrieveBatchKept ==
  ASSUME QInv, SInv, errs = 0, NEW o \in Outcome, retrieveBatch(o), errs' = 0
  PROVE  Kept' = Kept /\ UNCHANGED <<st, done>>
<1>1. /\ life = "retrieve" /\ UNCHANGED <<meta, disk, st, done>>
      /\ rec'.got = {[idx |-> i, req |-> disk.item[i]] : i \in {j \in rec.di : disk.item[j] # NoValue}}
  BY retrieveBatchDoes, Zenon
<1>2. rec.got = {} /\ \A j \in rec.di : j \in Index /\ Listed(j)
  BY <1>1, Zenon DEF SInv, Empty, Recovering, QInv, TypeOK
<1>3. \A e \in rec'.got : Durable(e.req)
  BY <1>1, <1>2 DEF Durable
<1>4. \A r : Durable(r)' <=> Durable(r)
  BY <1>1, Zenon DEF Durable, Listed
<1>5. Kept' = Kept
  BY <1>1, <1>2, <1>3, <1>4, KeptSame, Zenon
<1> QED
  BY <1>1, <1>5, Zenon

LEMMA cleanupBatchKept ==
  ASSUME QInv, SInv, errs = 0, NEW o \in Outcome, cleanupBatch(o), errs' = 0
  PROVE  Kept' = Kept /\ UNCHANGED <<st, done>>
<1>1. /\ life = "cleanup" /\ UNCHANGED <<meta, rec, st, done>>
      /\ disk'.set = disk.set /\ disk'.meta = disk.meta /\ disk'.legacy = disk.legacy
      /\ disk'.item = [i \in Index |-> IF i \in rec.di THEN NoValue ELSE disk.item[i]]
  BY cleanupBatchDoes, Zenon
<1>2. \A i \in Index : disk'.item[i] = IF i \in rec.di THEN NoValue ELSE disk.item[i]
  BY <1>1, Zenon
<1>3. \A i \in Index : Listed(i)' <=> Listed(i)
  BY <1>1, Zenon DEF Listed
<1>4. \A j \in rec.di : disk.item[j] # NoValue => [idx |-> j, req |-> disk.item[j]] \in rec.got
  BY <1>1, Zenon DEF SInv, Recovering
<1>5. ASSUME NEW r \in Reqs, Durable(r) PROVE Durable(r)' \/ \E e \in rec'.got : e.req = r
  <2>1. PICK i \in Index : disk.item[i] = r /\ Listed(i)
    BY <1>5, DurableMeans, Zenon
  <2>2. CASE i \in rec.di
    <3>1. [idx |-> i, req |-> r] \in rec'.got
      BY <1>1, <1>4, <2>1, <2>2, Bounds, Zenon
    <3> QED
      BY <3>1, Zenon
  <2>3. CASE i \notin rec.di
    BY <1>2, <1>3, <2>1, <2>3, DurableMeans
  <2> QED
    BY <2>2, <2>3, Zenon
<1>6. \A r \in Reqs : Durable(r)' => Durable(r)
  BY <1>2, <1>3, Bounds, DurableMeans, Zenon
<1>7. Kept' = Kept
  BY <1>1, <1>5, <1>6, KeptSame
<1> QED
  BY <1>1, <1>7, Zenon

\* What is listed before and after a request is put back.
LEMMA putBackListed ==
  ASSUME QInv, SInv, Once, errs = 0, NEW e \in Entry, NEW o \in Outcome, putBack(e, o), errs' = 0,
         NEW w \in Index, w = meta.wi, NEW i \in Index
  PROVE  /\ ~Listed(w) /\ Listed(w)'
         /\ i # w /\ disk.item[i] \in Reqs => (Listed(i)' <=> Listed(i))
<1>1. /\ life = "reput" /\ meta'.ri = meta.ri /\ meta'.wi = meta.wi + 1 /\ meta'.cdi = meta.cdi
      /\ disk'.set /\ disk'.meta = meta'
  BY putBackDoes, Zenon
<1>2. meta.ri \in Nat /\ meta.wi \in Nat /\ meta.ri <= meta.wi /\ i \in Nat
  BY Stored, Bounds DEF Index
<1>3. \A j : Listed(j)' <=> j \in meta.cdi \/ (meta.ri <= j /\ j < meta.wi + 1)
  BY <1>1, Zenon DEF Listed
<1>4. CASE disk.set
  <2>1. \A j : Listed(j) <=> j \in meta.cdi \/ (meta.ri <= j /\ j < meta.wi)
    BY <1>1, <1>4, Zenon DEF Listed, SInv, Recovering, Same
  <2>2. \A j \in meta.cdi : j < meta.ri
    BY Zenon DEF SInv, Listing
  <2>3. meta.wi \notin meta.cdi
    BY <1>2, <2>2
  <2> QED
    BY <1>2, <1>3, <2>1, <2>3
<1>5. CASE ~disk.set
  <2>1. /\ disk.legacy /\ meta.cdi = {} /\ meta.ri = OldRead /\ meta.wi = Len(OldQueue) /\ rec.di = 0..OldRead-1
        /\ \A j \in rec.di : disk.item[j] = NoValue
    BY <1>1, <1>5, Zenon DEF Once, Legacy, Loaded, SInv, Recovering
  <2>2. \A j : Listed(j) <=> j < meta.wi
    BY <1>5, <2>1, Zenon DEF Listed
  <2>3. disk.item[i] \in Reqs => meta.ri <= i
    BY <1>2, <2>1, Bounds
  <2> QED
    BY <1>2, <1>3, <2>1, <2>2, <2>3
<1> QED
  BY <1>4, <1>5, Zenon

LEMMA putBackKept ==
  ASSUME QInv, SInv, Once, errs = 0, NEW e \in Entry, NEW o \in Outcome, putBack(e, o), errs' = 0
  PROVE  Kept' = Kept /\ UNCHANGED <<st, done>>
<1>1. /\ UNCHANGED <<st, done>> /\ e \in rec.got /\ meta.wi \in Index
      /\ disk'.item = [disk.item EXCEPT ![meta.wi] = e.req] /\ rec'.got = rec.got \ {e}
  BY putBackDoes, Zenon
<1>2. \A i \in Index : disk'.item[i] = IF i = meta.wi THEN e.req ELSE disk.item[i]
  BY <1>1, Stored, Zenon DEF Disk
<1>3. PICK w \in Index : w = meta.wi
  BY <1>1, Zenon
<1>4. \A i \in Index : /\ ~Listed(w) /\ Listed(w)'
                       /\ i # w /\ disk.item[i] \in Reqs => (Listed(i)' <=> Listed(i))
  BY <1>3, putBackListed, Zenon
<1>5. Durable(e.req)'
  BY <1>2, <1>3, <1>4, DurableMeans, Zenon
<1>6. \A r \in Reqs : Durable(r) => Durable(r)'
  BY <1>2, <1>3, <1>4, DurableMeans
<1>7. \A r \in Reqs : Durable(r)' => Durable(r) \/ \E g \in rec.got : g.req = r
  BY <1>1, <1>2, <1>3, <1>4, DurableMeans
<1>8. Kept' = Kept
  BY <1>1, <1>5, <1>6, <1>7, KeptSame, Zenon
<1> QED
  BY <1>1, <1>8, Zenon

LEMMA migrateKept ==
  ASSUME QInv, SInv, Once, errs = 0, NEW o \in Outcome, migrate(o), errs' = 0
  PROVE  Kept' = Kept /\ UNCHANGED <<st, done>>
<1>1. /\ life = "migrate" /\ UNCHANGED <<rec, st, done>>
      /\ disk'.set /\ disk'.meta = meta /\ disk'.item = disk.item
  BY migrateDoes, Zenon
<1>2. \A j : Listed(j)' <=> j \in meta.cdi \/ (meta.ri <= j /\ j < meta.wi)
  BY <1>1, Zenon DEF Listed
<1>3. ASSUME NEW i \in Index, disk.item[i] \in Reqs PROVE Listed(i)' <=> Listed(i)
  <2>1. CASE disk.set
    BY <1>1, <1>2, <2>1 DEF Listed, SInv, Recovering, Same
  <2>2. CASE ~disk.set
    <3>1. /\ meta.cdi = {} /\ (disk.legacy \/ meta.wi = meta.ri)
          /\ disk.legacy => meta.ri = OldRead /\ meta.wi = Len(OldQueue) /\ rec.di = 0..OldRead-1
          /\ \A j \in rec.di : disk.item[j] = NoValue
      BY <1>1, <2>2, Zenon DEF Once, Legacy, Loaded, SInv, Recovering
    <3>2. i \in Nat /\ meta.ri \in Nat /\ meta.wi \in Nat
      BY Stored, Bounds DEF Index
    <3>3. disk.legacy => OldRead <= i
      BY <1>3, <3>1, <3>2, Bounds
    <3>4. Listed(i) <=> disk.legacy /\ i < Len(OldQueue)
      BY <2>2, Zenon DEF Listed
    <3>5. CASE disk.legacy
      BY <1>2, <3>1, <3>3, <3>4, <3>5
    <3>6. CASE ~disk.legacy /\ meta.wi = meta.ri
      BY <1>2, <3>1, <3>2, <3>4, <3>6
    <3> QED
      BY <3>1, <3>5, <3>6
  <2> QED
    BY <2>1, <2>2, Zenon
<1>4. rec.got = {}
  BY <1>1, Zenon DEF SInv, Empty
<1>5. \A r \in Reqs : Durable(r)' <=> Durable(r)
  BY <1>1, <1>3, DurableMeans
<1>6. Kept' = Kept
  BY <1>1, <1>4, <1>5, KeptSame, Zenon
<1> QED
  BY <1>1, <1>6, Zenon

LEMMA purgeLegacyKept ==
  ASSUME QInv, SInv, errs = 0, NEW o \in Outcome, purgeLegacy(o), errs' = 0
  PROVE  Kept' = Kept /\ UNCHANGED <<st, done>>
<1>1. /\ life = "purge" /\ UNCHANGED <<rec, st, done>>
      /\ disk'.set = disk.set /\ disk'.meta = disk.meta /\ disk'.item = disk.item
  BY purgeLegacyDoes, Zenon
<1>2. ~closed
  BY <1>1, Zenon DEF QInv, Quiet, Up
<1>3. disk.set
  BY <1>1, <1>2, Zenon DEF SInv, Running
<1> QED
  BY <1>1, <1>3, Zenon DEF Kept, Durable, Listed

\* The recovery is invisible to the callers of the queue.
LEMMA RecoveryR ==
  ASSUME QInv, AInv, SInv, Once, errs = 0, Recovery, errs' = 0
  PROVE  UNCHANGED <<Accepted, Kept, Out, done>>
<1>1. Kept' = Kept /\ UNCHANGED <<st, done>>
  <2>1. CASE recovered
    BY <2>1, recoveredDoes, KeptUnchanged, Zenon
  <2> QED
    BY <2>1, LoadKept, retrieveBatchKept, cleanupBatchKept, putBackKept, migrateKept, purgeLegacyKept,
       skipUndecodableDoes DEF Recovery
<1>2. flight = {} /\ flight' = {}
  BY RecoveryQuiet, Zenon DEF QInv, Quiet
<1> QED
  BY <1>1, <1>2, Zenon DEF Accepted, Out

\* Steps of the running queue that leave storage, what is in flight and what is
\* accepted alone.
LEMMA StutterR ==
  ASSUME SInv, errs = 0, Up, UNCHANGED <<disk, rec, flight, done>>,
         \A q \in Reqs : st'[q] = "accepted" <=> st[q] = "accepted"
  PROVE  UNCHANGED <<Accepted, Kept, Out, done>>
<1>1. rec.got = {}
  BY Zenon DEF SInv, Empty, Up
<1> QED
  BY <1>1, KeptUnchanged, Zenon DEF Accepted, Out

\* Offer accepts a request when storage took it.
LEMMA OfferPutR ==
  ASSUME QInv, AInv, SInv, Once, errs = 0, NEW r \in Reqs, NEW o \in Outcome, OfferPut(r, o), errs' = 0
  PROVE  AbstractStep
<1>1. /\ Up /\ meta.wi \in Index /\ UNCHANGED <<life, flight, rec, done>>
      /\ meta'.ri = meta.ri /\ meta'.wi = meta.wi + 1 /\ meta'.cdi = meta.cdi
  BY OfferPutDoes, Zenon
<1>2. rec.got = {} /\ Out' = Out
  BY <1>1, Zenon DEF SInv, Empty, Up, Out
<1>3. st' = [st EXCEPT ![r] = IF o = "ok" THEN "accepted" ELSE "rejected"] /\ st[r] \in {"new", "woken"}
  BY Zenon DEF OfferPut, Offering
<1>4. CASE closed
  <2>1. disk' = disk /\ o = "fail"
    BY <1>4, OfferPutDoes, Zenon
  <2>2. \A q \in Reqs : st'[q] = "accepted" <=> st[q] = "accepted"
    BY <1>3, <2>1, Threads, Zenon
  <2> QED
    BY <1>1, <2>1, <2>2, StutterR, Zenon DEF AbstractStep
<1>5. CASE ~closed
  <2>1. o = "ok" /\ disk'.set /\ disk'.meta = meta' /\ disk'.item = [disk.item EXCEPT ![meta.wi] = r]
    BY <1>5, OfferPutDoes, Zenon
  <2>2. /\ disk.set /\ disk.meta.ri = meta.ri /\ disk.meta.wi = meta.wi /\ meta.cdi \subseteq disk.meta.cdi
        /\ \A j \in disk.meta.cdi \ meta.cdi : disk.item[j] = NoValue
    BY <1>1, <1>5, Zenon DEF SInv, Running, Up
  <2>3. PICK w \in Index : w = meta.wi
    BY <1>1, Zenon
  <2>4. \A i \in Index : disk'.item[i] = IF i = w THEN r ELSE disk.item[i]
    BY <2>1, <2>3, Stored, Zenon DEF Disk
  <2>5. meta.ri \in Nat /\ meta.wi \in Nat /\ meta.ri <= meta.wi /\ \A i \in Index : i \in Nat
    BY Stored, Bounds DEF Index
  <2>6. \A i \in Index : Listed(i)' <=> i \in meta.cdi \/ (meta.ri <= i /\ i < meta.wi + 1)
    BY <1>1, <2>1, Zenon DEF Listed
  <2>7. \A i \in Index : Listed(i) <=> i \in disk.meta.cdi \/ (meta.ri <= i /\ i < meta.wi)
    BY <2>2, Zenon DEF Listed
  <2>8. \A j \in disk.meta.cdi : j < meta.ri
    BY <2>2, Zenon DEF SInv, Listing
  <2>9. /\ ~Listed(w) /\ Listed(w)'
        /\ \A i \in Index : i # w /\ disk.item[i] \in Reqs => (Listed(i)' <=> Listed(i))
    BY <2>2, <2>3, <2>5, <2>6, <2>7, <2>8, Bounds
  <2>10. \A q \in Reqs : Durable(q)' <=> q = r \/ Durable(q)
    BY <2>3, <2>4, <2>9, DurableMeans
  <2>11. Kept' = Kept \cup {r}
    BY <1>1, <1>2, <2>10, Zenon DEF Kept
  <2>12. r \notin Accepted /\ Accepted' = Accepted \cup {r}
    BY <1>3, <2>1, Threads, Zenon DEF Accepted
  <2>13. Promise!Accept(r)
    BY <1>1, <1>2, <2>11, <2>12 DEF Promise!Accept, Accepted, Out
  <2> QED
    BY <2>13, Zenon DEF AbstractStep, Promise!Next
<1> QED
  BY <1>4, <1>5, Zenon

\* Read hands out a request that is kept and that nobody has.
LEMMA getNextItemR ==
  ASSUME QInv, AInv, SInv, Once, errs = 0, NEW c \in Consumers, NEW o \in Outcome, getNextItem(c, o), errs' = 0
  PROVE  AbstractStep
<1>1. /\ Up /\ ~closed /\ UNCHANGED <<life, rec, st, done>> /\ meta.ri \in Index /\ meta.ri + 1 <= meta.wi
      /\ meta'.ri = meta.ri + 1 /\ meta'.wi = meta.wi /\ meta'.cdi = meta.cdi \cup {meta.ri}
      /\ disk.set /\ disk.meta.ri = meta.ri /\ disk.meta.wi = meta.wi
      /\ disk'.set /\ disk'.meta = meta' /\ disk'.item = disk.item
      /\ disk.item[meta.ri] \in Reqs
      /\ flight' = flight \cup {[idx |-> meta.ri, req |-> disk.item[meta.ri]]}
  BY getNextItemServes, Zenon
<1>2. PICK i \in Index : i = meta.ri
  BY <1>1, Zenon
<1>3. PICK r \in Reqs : r = disk.item[i]
  BY <1>1, <1>2, Zenon
<1>4. /\ rec.got = {} /\ meta.cdi \subseteq disk.meta.cdi
      /\ \A f \in flight : disk.item[f.idx] = f.req
      /\ \A j \in disk.meta.cdi \ meta.cdi : disk.item[j] = NoValue
  BY <1>1, Zenon DEF SInv, Running, Empty, Up
<1>5. meta.ri \in Nat /\ meta.wi \in Nat /\ \A j \in Index : j \in Nat
  BY Stored, Bounds DEF Index
<1>6. \A j \in Index : Listed(j)' <=> j \in meta.cdi \/ j = meta.ri \/ (meta.ri + 1 <= j /\ j < meta.wi)
  BY <1>1, Zenon DEF Listed
<1>7. \A j \in Index : Listed(j) <=> j \in disk.meta.cdi \/ (meta.ri <= j /\ j < meta.wi)
  BY <1>1, Zenon DEF Listed
<1>8. Listed(i) /\ \A j \in Index : disk.item[j] \in Reqs => (Listed(j)' <=> Listed(j))
  BY <1>1, <1>2, <1>4, <1>5, <1>6, <1>7, Bounds
<1>9. \A q \in Reqs : Durable(q)' <=> Durable(q)
  BY <1>1, <1>8, DurableMeans
<1>10. Kept' = Kept /\ r \in Kept
  <2>1. Durable(r)
    BY <1>3, <1>8, DurableMeans, Zenon
  <2> QED
    BY <1>1, <1>9, <2>1, Zenon DEF Kept
<1>11. r \notin Out
  <2> SUFFICES ASSUME NEW f \in flight, f.req = r PROVE FALSE
    BY Zenon DEF Out
  <2>1. f.idx \in Index /\ f.idx # i
    BY <1>2, InFlight, Zenon
  <2> QED
    BY <1>3, <1>4, <2>1, Zenon DEF Once, StoredOnce
<1>12. Out' = Out \cup {r} /\ Accepted' = Accepted
  <2>1. PICK e : e.req = r /\ flight' = flight \cup {e}
    BY <1>1, <1>2, <1>3, Zenon
  <2>2. Out' = Out \cup {r}
    BY <2>1, Zenon DEF Out
  <2> QED
    BY <1>1, <2>2, Zenon DEF Accepted
<1>13. Promise!Dispatch(r)
  BY <1>1, <1>10, <1>11, <1>12, Zenon DEF Promise!Dispatch, Accepted, Out
<1> QED
  BY <1>13, Zenon DEF AbstractStep, Promise!Next

\* OnDone finishes a request or gives it back.
LEMMA onDoneR ==
  ASSUME QInv, AInv, SInv, UInv, errs = 0, NEW f \in Entry, onDone(f) \/ onDoneShutdown(f) PROVE AbstractStep
<1>1. f \in flight /\ Up /\ UNCHANGED <<disk, rec, st>> /\ flight' = flight \ {f}
  BY Zenon DEF onDone, onDoneShutdown, Up
<1>2. rec.got = {} /\ f.req \in Reqs
  BY <1>1, Zenon DEF SInv, Empty, Up, UInv, Once, NoHoles
<1>3. Kept' = Kept /\ Accepted' = Accepted
  BY <1>1, <1>2, KeptUnchanged, Zenon DEF Accepted
<1>4. f.req \in Out /\ Out' = Out \ {f.req}
  <2>1. \A g \in flight : g.req = f.req => g = f
    BY <1>1, FlightOnce, Zenon
  <2> QED
    BY <1>1, <2>1, Zenon DEF Out
<1>5. CASE onDone(f)
  <2>1. Promise!Finish(f.req)
    BY <1>3, <1>4, <1>5, Zenon DEF onDone, Promise!Finish, Accepted, Out
  <2> QED
    BY <1>2, <2>1, Zenon DEF AbstractStep, Promise!Next
<1>6. CASE onDoneShutdown(f)
  <2>1. Promise!GiveBack(f.req)
    BY <1>3, <1>4, <1>6 DEF onDoneShutdown, Promise!GiveBack, Accepted, Out
  <2> QED
    BY <1>2, <2>1, Zenon DEF AbstractStep, Promise!Next
<1> QED
  BY <1>5, <1>6, Zenon

\* The item of a finished request leaves storage.
LEMMA itemDispatchingFinishR ==
  ASSUME QInv, AInv, SInv, UInv, errs = 0, NEW o \in Outcome, itemDispatchingFinish(o), [Next]_vars, errs' = 0
  PROVE  AbstractStep
<1>1. /\ Up /\ ~closed /\ mu.k \in {"drop", "done"} /\ UNCHANGED <<life, flight, rec, done>>
      /\ mu.i \in Index /\ disk.item[mu.i] \in done \cup {NoValue}
      /\ meta'.ri = meta.ri /\ meta'.wi = meta.wi /\ meta'.cdi = meta.cdi \ {mu.i}
      /\ disk.set /\ disk.meta.ri = meta.ri /\ disk.meta.wi = meta.wi /\ disk'.set /\ disk'.meta = meta'
      /\ \A i \in Index : disk'.item[i] = IF i = mu.i THEN NoValue ELSE disk.item[i]
      /\ FinishReturns \/ SignalBlocks
  BY itemDispatchingFinishServes, Zenon
<1>2. \A q \in Reqs : st'[q] = "accepted" <=> st[q] = "accepted"
  BY <1>1, Threads, Zenon DEF FinishReturns, SignalSpace, SignalBlocks
<1>3. /\ rec.got = {} /\ meta.cdi \subseteq disk.meta.cdi
      /\ \A f \in flight : disk.item[f.idx] = f.req
      /\ \A j \in disk.meta.cdi \ meta.cdi : disk.item[j] = NoValue
  BY <1>1, Zenon DEF SInv, Running, Empty, Up
<1>4. PICK k \in Index : k = mu.i
  BY <1>1, Zenon
<1>5. PICK r : r = disk.item[k]
  OBVIOUS
<1>6. \A j \in Index : Listed(j)' <=> (j \in meta.cdi /\ j # k) \/ (meta.ri <= j /\ j < meta.wi)
  BY <1>1, <1>4, Zenon DEF Listed
<1>7. \A j \in Index : Listed(j) <=> j \in disk.meta.cdi \/ (meta.ri <= j /\ j < meta.wi)
  BY <1>1, Zenon DEF Listed
<1>8. \A j \in Index : j # k /\ disk.item[j] \in Reqs => (Listed(j)' <=> Listed(j))
  BY <1>3, <1>6, <1>7, Bounds
<1>9. \A q \in Reqs : Durable(q)' => Durable(q) /\ q # r
  <2>1. \A j \in Index : j # k => disk'.item[j] = disk.item[j]
    BY <1>1, <1>4, Zenon
  <2>2. disk'.item[k] = NoValue
    BY <1>1, <1>4, Zenon
  <2>3. \A j \in Index : j # k /\ disk.item[j] \in Reqs => disk.item[j] # r
    BY <1>5, Zenon DEF UInv, Once, StoredOnce
  <2> QED
    BY <1>8, <2>1, <2>2, <2>3, Bounds, DurableMeans
<1>10. \A q \in Reqs : Durable(q) /\ q # r => Durable(q)'
  BY <1>1, <1>4, <1>5, <1>8, DurableMeans
<1>11. Kept' = Kept \ {r}
  BY <1>1, <1>3, <1>9, <1>10 DEF Kept
<1>12. Accepted' = Accepted /\ Out' = Out
  BY <1>1, <1>2, Zenon DEF Accepted, Out
<1>13. CASE r \in Kept
  <2>1. r \in Reqs /\ r \in done
    BY <1>1, <1>4, <1>5, <1>13, Bounds DEF Kept
  <2>2. r \notin Out
    <3> SUFFICES ASSUME NEW f \in flight, f.req = r PROVE FALSE
      BY Zenon DEF Out
    <3>1. f.idx \in Index /\ f.idx # k
      BY <1>1, <1>4, InFlight, Zenon DEF UInv, Dispatched
    <3> QED
      BY <1>3, <1>5, <2>1, <3>1, Zenon DEF UInv, Once, StoredOnce
  <2>3. Promise!Release(r)
    BY <1>1, <1>11, <1>12, <1>13, <2>1, <2>2 DEF Promise!Release, Accepted, Out
  <2> QED
    BY <2>1, <2>3, Zenon DEF AbstractStep, Promise!Next
<1>14. CASE r \notin Kept
  BY <1>1, <1>11, <1>12, <1>14 DEF AbstractStep
<1> QED
  BY <1>13, <1>14, Zenon

\* The end of a process takes back what it had handed out.
LEMMA ProcessEndsR ==
  ASSUME QInv, SInv, errs = 0, ~RecoveryCrashes, ProcessEnds PROVE AbstractStep
<1>1. /\ UNCHANGED <<disk, done>> /\ flight' = {} /\ rec'.got = {}
      /\ \A q \in Reqs : st'[q] = "accepted" <=> st[q] = "accepted"
  BY Zenon DEF ProcessEnds, Volatile, NoRec
<1>2. \A e \in rec.got : Durable(e.req)
  BY Zenon DEF ProcessEnds, RecoveryWindow, SInv, Empty, Recovering
<1>3. \A q : Durable(q)' <=> Durable(q)
  BY <1>1, Zenon DEF Durable, Listed
<1>4. Kept' = Kept
  BY <1>1, <1>2, <1>3, KeptSame, Zenon
<1>5. Accepted' = Accepted /\ Out' = {}
  BY <1>1, Zenon DEF Accepted, Out
<1>6. Promise!ProcessEnds
  BY <1>1, <1>4, <1>5, Zenon DEF Promise!ProcessEnds, Accepted, Out
<1> QED
  BY <1>6, Zenon DEF AbstractStep, Promise!Next

\* Every step of the queue is one of the at-least-once queue, or changes nothing.
LEMMA RStep ==
  ASSUME ~RecoveryCrashes, QInv, AInv, SInv, UInv, errs = 0, [Next]_vars, errs' = 0 PROVE AbstractStep
<1>1. CASE Recovery
  BY <1>1, RecoveryR, Zenon DEF AbstractStep, UInv
<1>2. ASSUME NEW r \in Reqs, Producer(r) PROVE AbstractStep
  <2>1. CASE OfferFull(r) \/ TakeSignal(r) \/ OfferCancel(r)
    <3>1. Up /\ UNCHANGED <<disk, rec, flight, done>>
      BY <2>1, Zenon DEF OfferFull, Offering, TakeSignal, OfferCancel, proc
    <3>2. \A q \in Reqs : st'[q] = "accepted" <=> st[q] = "accepted"
      BY <2>1, Threads, Zenon DEF OfferFull, Offering, TakeSignal, OfferCancel
    <3> QED
      BY <3>1, <3>2, StutterR, Zenon DEF AbstractStep
  <2> QED
    BY <1>2, <2>1, OfferPutR, Zenon DEF Producer, UInv
<1>3. ASSUME NEW c \in Consumers, Consumer(c) PROVE AbstractStep
  <2>1. CASE ReadStopped(c) \/ consumeFunc(c) \/ ReadWait(c)
    BY <2>1, StutterR, Zenon DEF ReadStopped, consumeFunc, ReadWait, Reading, AbstractStep
  <2> QED
    BY <1>3, <2>1, getNextItemR, Zenon DEF Consumer, UInv
<1>4. CASE Completion
  BY <1>4, onDoneR, itemDispatchingFinishR, Zenon DEF Completion
<1>5. CASE retryShutdown \/ Shutdown
  BY <1>5, StutterR, Zenon DEF retryShutdown, Shutdown, AbstractStep, Up
<1>6. CASE ProcessEnds
  BY <1>6, ProcessEndsR, Zenon
<1>7. CASE UNCHANGED vars
  BY <1>7, Zenon DEF vars, proc, AbstractStep, Accepted, Kept, Durable, Listed, Out
<1> QED
  BY <1>1, <1>2, <1>3, <1>4, <1>5, <1>6, <1>7 DEF Next

\* What an older release left is what the queue starts with.
LEMMA RInit == Init => Promise!Init
<1> SUFFICES ASSUME Init PROVE Promise!Init
  OBVIOUS
<1>1. Accepted \in SUBSET Reqs /\ Out = {} /\ done = {} /\ rec.got = {}
  BY Zenon DEF Init, Accepted, Out, NoRec
<1>2. Kept \subseteq Accepted
  <2>1. \A r \in Reqs : Durable(r) => r \in Accepted
    BY UInit, Zenon DEF UInv, Once, StoredOnce, Init, Durable, Accepted
  <2> QED
    BY <1>1, <2>1, Zenon DEF Kept
<1>3. Accepted \subseteq Kept
  <2> SUFFICES ASSUME NEW r \in Reqs, st[r] = "accepted" PROVE Durable(r)
    BY Zenon DEF Accepted, Kept
  <2>1. PICK i \in 1..Len(OldQueue) : OldQueue[i] = r
    BY Zenon DEF Init
  <2>2. i - 1 \in Index /\ i - 1 < Len(OldQueue) /\ (i - 1) + 1 = i /\ Len(OldQueue) > 0
    BY <2>1, Bounds DEF Index
  <2>3. disk.item[i-1] = r /\ Listed(i-1)
    BY Zenon, <2>1, <2>2 DEF Init, Listed
  <2> QED
    BY <2>2, <2>3, Zenon DEF Durable
<1> QED
  BY <1>1, <1>2, <1>3, Zenon DEF Promise!Init, Accepted, Out

\* For any number of requests, consumers and kills: if storage reports no error and no
\* kill falls between cleanupBatch and the last putBack, the persistent queue
\* implements the at-least-once queue of module DurableQueue: it keeps what it accepted
\* until it was handed out and finished, and hands out only what it keeps.
THEOREM ImplementsDurableQueue ==
  ASSUME MaxErrs = 0, ~RecoveryCrashes PROVE Spec => Implements
<1>1. QInv => errs = 0
  BY DEF QInv, TypeOK
<1>2. QInv /\ QInv' /\ AInv /\ SInv /\ UInv /\ [Next]_vars => [Promise!Next]_(Promise!dvars)
  <2> SUFFICES ASSUME QInv, QInv', AInv, SInv, UInv, [Next]_vars PROVE [Promise!Next]_(Promise!dvars)
    OBVIOUS
  <2>1. errs = 0 /\ errs' = 0
    BY <1>1 DEF QInv, TypeOK
  <2>2. AbstractStep
    BY <2>1, RStep, Zenon
  <2> QED
    BY <2>2, Zenon DEF AbstractStep, Promise!dvars, Accepted, Out
<1> QED
  BY <1>2, RInit, QAlways, AAlways, SAlways, UAlways, PTL DEF Spec, Implements, Promise!Spec

-----------------------------------------------------------------------------
(* The capacity is kept. *)

\* The indexes of dispatched items that storage still has.
Live == {j \in disk.meta.cdi : disk.item[j] # NoValue}

SizeFits == meta.size <= Capacity /\ disk.meta.size <= Capacity

\* The recovery puts back no more than storage had, and what storage has is no more
\* than what memory has.
CountFits ==
  /\ Up \/ life = "purge" => requestSize(meta) <= Capacity
  /\ disk.set => disk.meta.wi - disk.meta.ri + Cardinality(Live) <= Capacity
  /\ Loaded => IsFiniteSet(rec.got) /\ meta.wi - meta.ri + Cardinality(rec.got) <= Capacity
  /\ life \in {"retrieve", "cleanup"} /\ rec.old => ~disk.set

CInv == errs = 0 => /\ SizerItems => SizeFits
                    /\ ~SizerItems /\ Len(OldQueue) <= Capacity => CountFits

\* Sets of indexes are finite, and a subset is no larger.
LEMMA IndexSets ==
  ASSUME NEW S \in SUBSET Index, NEW T \in SUBSET S
  PROVE  /\ IsFiniteSet(S) /\ Cardinality(S) \in Nat /\ IsFiniteSet(T) /\ Cardinality(T) \in Nat
         /\ Cardinality(T) <= Cardinality(S)
<1>1. IsFiniteSet(Index)
  BY Bounds, FS_Interval DEF Index
<1>2. IsFiniteSet(S)
  BY <1>1, FS_Subset, Zenon
<1> QED
  BY <1>2, FS_Subset, FS_CardinalityType, Zenon

\* What the counts range over.
LEMMA Counts ==
  ASSUME QInv
  PROVE  /\ meta.cdi \in SUBSET Index /\ disk.meta.cdi \in SUBSET Index /\ Live \in SUBSET disk.meta.cdi
         /\ meta.ri \in Nat /\ meta.wi \in Nat /\ disk.meta.ri \in Nat /\ disk.meta.wi \in Nat
         /\ meta.size \in Nat /\ disk.meta.size \in Nat /\ Capacity \in Nat
         /\ Cardinality(Live) \in Nat /\ Cardinality(meta.cdi) \in Nat
<1>1. meta \in Metadata /\ disk.meta \in Metadata
  BY Stored, Zenon DEF Disk
<1>2. /\ meta.cdi \in SUBSET Index /\ disk.meta.cdi \in SUBSET Index /\ Live \in SUBSET disk.meta.cdi
      /\ meta.ri \in Nat /\ meta.wi \in Nat /\ disk.meta.ri \in Nat /\ disk.meta.wi \in Nat
      /\ meta.size \in Nat /\ disk.meta.size \in Nat
  BY <1>1, Bounds DEF Metadata, Live
<1>3. Capacity \in Nat
  BY ConstantsOK, Zenon DEF ConstantsOK
<1> QED
  BY <1>2, <1>3, IndexSets, Zenon

\* Sizes only grow in Offer, which looks at the capacity.
LEMMA SizeFitsStep ==
  ASSUME QInv, SInv, UInv, errs = 0, SizerItems, SizeFits, [Next]_vars, errs' = 0 PROVE SizeFits'
<1> USE Counts DEF SizeFits
<1>1. CASE Recovery
  <2>1. ASSUME NEW o \in Outcome, loadQueueMetadata(o) PROVE SizeFits'
    BY <2>1, loadQueueMetadataDoes, Zenon
  <2>2. ASSUME NEW oi \in Outcome, NEW od \in Outcome, loadLegacyMetadata(oi, od) PROVE SizeFits'
    BY <2>2, loadLegacyMetadataDoes
  <2>3. ASSUME NEW o \in Outcome, retrieveBatch(o) \/ cleanupBatch(o) \/ migrate(o) \/ purgeLegacy(o) PROVE SizeFits'
    BY <2>3, retrieveBatchDoes, cleanupBatchDoes, migrateDoes, purgeLegacyDoes, Zenon
  <2>4. ASSUME NEW e \in Entry, NEW o \in Outcome, putBack(e, o) PROVE SizeFits'
    <3>1. meta'.size = meta.size /\ disk'.meta = meta'
      BY <2>4, putBackDoes, Zenon
    <3> QED
      BY <3>1, Zenon
  <2>5. CASE recovered
    BY <2>5, recoveredDoes, Zenon
  <2> QED
    BY <1>1, <2>1, <2>2, <2>3, <2>4, <2>5, skipUndecodableDoes DEF Recovery
<1>2. ASSUME NEW r \in Reqs, Producer(r) PROVE SizeFits'
  <2>1. CASE OfferFull(r) \/ TakeSignal(r) \/ OfferCancel(r)
    BY <2>1, Zenon DEF OfferFull, TakeSignal, OfferCancel, proc
  <2>2. ASSUME NEW o \in Outcome, OfferPut(r, o) PROVE SizeFits'
    <3>1. /\ internalSize + Sizeof(r) <= Capacity /\ meta'.size = meta.size + ItemsOf[r]
          /\ disk'.meta = disk.meta \/ disk'.meta = meta'
      BY <2>2, OfferPutDoes, Zenon
    <3> QED
      BY <3>1, Zenon DEF internalSize, Sizeof
  <2> QED
    BY <1>2, <2>1, <2>2, Zenon DEF Producer
<1>3. ASSUME NEW c \in Consumers, Consumer(c) PROVE SizeFits'
  <2>1. CASE ReadStopped(c) \/ consumeFunc(c) \/ ReadWait(c)
    BY <2>1, Zenon DEF ReadStopped, consumeFunc, ReadWait
  <2>2. ASSUME NEW o \in Outcome, getNextItem(c, o) PROVE SizeFits'
    <3>1. meta'.size = meta.size /\ (disk'.meta = disk.meta \/ disk'.meta = meta')
      BY <2>2, getNextItemDoes, Zenon
    <3> QED
      BY <3>1, Zenon
  <2> QED
    BY <1>3, <2>1, <2>2, Zenon DEF Consumer
<1>4. CASE Completion
  <2>1. ASSUME NEW f \in Entry, onDone(f) PROVE SizeFits'
    <3>1. meta'.size = Minus(meta.size, Items(f.req)) /\ UNCHANGED disk
      BY <2>1, onDoneDoes, Zenon
    <3>2. Items(f.req) \in Nat
      BY ConstantsOK, Zenon DEF ConstantsOK, Items, Entry, Value
    <3> QED
      BY <3>1, <3>2 DEF Minus
  <2>2. ASSUME NEW f \in Entry, onDoneShutdown(f) PROVE SizeFits'
    BY <2>2, Zenon DEF onDoneShutdown
  <2>3. ASSUME NEW o \in Outcome, itemDispatchingFinish(o) PROVE SizeFits'
    <3>1. /\ meta'.size = meta.size \/ meta'.size = 0
          /\ disk'.meta = disk.meta \/ disk'.meta = meta'
      BY <2>3, itemDispatchingFinishDoes, Zenon
    <3> QED
      BY <3>1
  <2> QED
    BY <1>4, <2>1, <2>2, <2>3, Zenon DEF Completion
<1>5. CASE retryShutdown \/ Shutdown \/ ProcessEnds
  BY <1>5 DEF retryShutdown, Shutdown, ProcessEnds, EmptyMetadata
<1>6. CASE UNCHANGED vars
  BY <1>6, Zenon DEF vars, proc
<1> QED
  BY <1>1, <1>2, <1>3, <1>4, <1>5, <1>6 DEF Next


\* Storage that has just been made to agree with memory holds no more than memory does.
LEMMA AgreeingFits ==
  ASSUME QInv', disk'.meta = meta', (requestSize(meta) <= Capacity)'
  PROVE  disk'.meta.wi - disk'.meta.ri + Cardinality(Live') <= Capacity
<1>1. /\ Live' \in SUBSET meta'.cdi /\ meta'.cdi \in SUBSET Index
      /\ meta'.ri \in Nat /\ meta'.wi \in Nat /\ Capacity \in Nat
  <2>1. (meta \in Metadata)'
    BY Zenon DEF QInv, TypeOK
  <2> QED
    BY <2>1, Bounds, ConstantsOK DEF ConstantsOK, Metadata, Live
<1>2. Cardinality(Live') <= Cardinality(meta'.cdi) /\ Cardinality(Live') \in Nat /\ Cardinality(meta'.cdi) \in Nat
  BY <1>1, IndexSets, Zenon
<1> QED
  BY <1>1, <1>2 DEF requestSize

LEMMA loadFits ==
  ASSUME QInv, SInv, errs = 0, CountFits, Len(OldQueue) <= Capacity, errs' = 0,
         \/ \E o \in Outcome : loadQueueMetadata(o)
         \/ \E oi, od \in Outcome : loadLegacyMetadata(oi, od)
  PROVE  CountFits'
<1>1. CASE \E o \in Outcome : loadQueueMetadata(o)
  <2>1. /\ disk.set /\ UNCHANGED disk /\ meta' = disk.meta /\ rec'.got = {} /\ ~rec'.old
        /\ life' = IF disk.meta.cdi = {} THEN "up" ELSE "retrieve"
    BY <1>1, loadQueueMetadataDoes
  <2>2. Live' = Live /\ disk.meta.wi - disk.meta.ri + Cardinality(Live) <= Capacity
    BY <2>1, Zenon DEF Live, CountFits
  <2>3. disk.meta.wi - disk.meta.ri + 0 <= Capacity
    BY <2>2, Counts
  <2> QED
    BY <2>1, <2>2, <2>3, FS_EmptySet, Zenon DEF CountFits, requestSize, Loaded, Up
<1>2. CASE \E oi, od \in Outcome : loadLegacyMetadata(oi, od)
  <2>1. /\ ~disk.set /\ UNCHANGED disk /\ rec'.got = {}
        /\ meta'.ri = IF disk.legacy THEN OldRead ELSE 0
        /\ meta'.wi = IF disk.legacy THEN Len(OldQueue) ELSE 0
        /\ life' \in {"migrate", "retrieve"}
    BY <1>2, loadLegacyMetadataDoes, Zenon
  <2>2. meta'.wi - meta'.ri + 0 <= Capacity
    BY <2>1, Bounds, Counts
  <2> QED
    BY <2>1, <2>2, FS_EmptySet, Zenon DEF CountFits, Up
<1> QED
  BY <1>1, <1>2, Zenon

\* The items read are the dispatched ones that storage has.
LEMMA retrieveBatchFits ==
  ASSUME QInv, SInv, Once, errs = 0, CountFits, Len(OldQueue) <= Capacity,
         NEW o \in Outcome, retrieveBatch(o), errs' = 0
  PROVE  CountFits'
<1> DEFINE J == {j \in rec.di : disk.item[j] # NoValue}
<1>1. /\ life = "retrieve" /\ life' = "cleanup" /\ UNCHANGED <<meta, disk>> /\ rec'.old = rec.old
      /\ rec'.got = {[idx |-> i, req |-> disk.item[i]] : i \in J}
  BY retrieveBatchDoes, Zenon
<1>2. rec.di \in SUBSET Index /\ J \in SUBSET rec.di
  BY Zenon DEF QInv, TypeOK
<1>3. IsFiniteSet(rec'.got) /\ Cardinality(rec'.got) \in Nat /\ Cardinality(rec'.got) <= Cardinality(J)
  <2>1. PICK g : g = [i \in J |-> [idx |-> i, req |-> disk.item[i]]]
    BY Zenon
  <2> HIDE DEF J
  <2>2. g \in Surjection(J, rec'.got)
    BY <1>1, <2>1, Zenon DEF Surjection
  <2>3. IsFiniteSet(J)
    BY <1>2, IndexSets, Zenon
  <2> QED
    BY <2>2, <2>3, FS_Surjection, FS_CardinalityType
<1>4. Cardinality(J) \in Nat
  BY <1>2, IndexSets, Zenon
<1>5. Live' = Live
  BY <1>1, Zenon DEF Live
<1>6. meta.wi - meta.ri + Cardinality(J) <= Capacity
  <2>1. CASE ~rec.old
    <3>1. disk.set /\ rec.di = disk.meta.cdi /\ meta.ri = disk.meta.ri /\ meta.wi = disk.meta.wi
      BY <1>1, <2>1, Zenon DEF SInv, Recovering, Same
    <3>2. J = Live
      BY <3>1, Zenon DEF Live
    <3> QED
      BY <3>1, <3>2, Zenon DEF CountFits
  <2>2. CASE rec.old
    <3>1. meta.ri = OldRead /\ meta.wi = Len(OldQueue) /\ rec.di = 0..OldRead-1
      BY <1>1, <2>2, Zenon DEF CountFits, Once, Legacy, Loaded, SInv, Recovering
    <3>2. Cardinality(rec.di) = OldRead
      BY <3>1, FS_Interval, Bounds
    <3>3. Cardinality(J) <= Cardinality(rec.di)
      BY <1>2, IndexSets, Zenon
    <3> QED
      BY <1>4, <3>1, <3>2, <3>3, Bounds, Counts
  <2> QED
    BY <2>1, <2>2, Zenon
<1> HIDE DEF J
<1>7. meta'.wi - meta'.ri + Cardinality(rec'.got) <= Capacity
  BY <1>1, <1>3, <1>4, <1>6, Counts
<1> QED
  BY <1>1, <1>3, <1>5, <1>7, Zenon DEF CountFits, Loaded, Up

LEMMA cleanupBatchFits ==
  ASSUME QInv, SInv, Once, errs = 0, CountFits, NEW o \in Outcome, cleanupBatch(o), errs' = 0
  PROVE  CountFits'
<1>1. /\ life = "cleanup" /\ life' = "reput" /\ UNCHANGED <<meta, rec>>
      /\ disk'.set = disk.set /\ disk'.meta = disk.meta
      /\ disk'.item = [i \in Index |-> IF i \in rec.di THEN NoValue ELSE disk.item[i]]
  BY cleanupBatchDoes, Zenon
<1>2. Live' \in SUBSET Live /\ Live \in SUBSET Index
  BY <1>1, Counts, Zenon DEF Live
<1>3. Cardinality(Live') <= Cardinality(Live) /\ Cardinality(Live') \in Nat
  BY <1>2, IndexSets, Zenon
<1>4. disk.set => disk'.meta.wi - disk'.meta.ri + Cardinality(Live') <= Capacity
  BY <1>1, <1>3, Counts DEF CountFits
<1> QED
  BY <1>1, <1>4, Zenon DEF CountFits, Loaded, Up

\* What is put back was counted in the hands of the recovery.
LEMMA putBackFits ==
  ASSUME QInv, SInv, Once, errs = 0, CountFits, NEW e \in Entry, NEW o \in Outcome, putBack(e, o), errs' = 0
  PROVE  CountFits'
<1>1. /\ life = "reput" /\ UNCHANGED life /\ e \in rec.got
      /\ meta.wi \in Index /\ meta'.ri = meta.ri /\ meta'.wi = meta.wi + 1 /\ meta'.cdi = meta.cdi
      /\ disk'.set /\ disk'.meta = meta'
      /\ disk'.item = [disk.item EXCEPT ![meta.wi] = e.req]
      /\ rec'.got = rec.got \ {e}
  BY putBackDoes, Zenon
<1>2. IsFiniteSet(rec.got) /\ meta.wi - meta.ri + Cardinality(rec.got) <= Capacity
  BY <1>1, Zenon DEF CountFits, Loaded
<1>3. /\ IsFiniteSet(rec'.got) /\ Cardinality(rec'.got) = Cardinality(rec.got) - 1
      /\ Cardinality(rec'.got) \in Nat /\ Cardinality(rec.got) \in Nat
  BY <1>1, <1>2, FS_RemoveElement, FS_CardinalityType
<1>4. \A j \in meta.cdi : disk.item[j] = NoValue /\ j # meta.wi /\ j \in Index
  <2>1. meta.cdi = {} \/ meta.cdi = rec.di
    BY <1>1, Zenon DEF SInv, Recovering
  <2>2. \A j \in meta.cdi : disk.item[j] = NoValue
    BY <1>1, <2>1, Zenon DEF SInv, Recovering
  <2>3. \A j \in meta.cdi : j < meta.ri /\ j \in Index /\ j \in Nat
    BY Counts, Bounds DEF SInv, Listing, Index
  <2>4. meta.ri <= meta.wi /\ meta.ri \in Nat /\ meta.wi \in Nat
    BY Stored, Counts, Zenon
  <2> QED
    BY <2>2, <2>3, <2>4
<1>5. Live' = {}
  <2>1. \A j \in Index : j # meta.wi => disk'.item[j] = disk.item[j]
    BY <1>1, Stored, Zenon DEF Disk
  <2> QED
    BY <1>1, <1>4, <2>1 DEF Live
<1>6. meta'.wi - meta'.ri + Cardinality(rec'.got) <= Capacity /\ meta'.wi - meta'.ri + 0 <= Capacity
  BY <1>1, <1>2, <1>3, Counts
<1> QED
  BY <1>1, <1>3, <1>5, <1>6, FS_EmptySet, Zenon DEF CountFits, Up

LEMMA recoveryEndsFits ==
  ASSUME QInv, SInv, errs = 0, CountFits, errs' = 0,
         recovered \/ \E o \in Outcome : migrate(o) \/ purgeLegacy(o)
  PROVE  CountFits'
<1>1. CASE recovered
  <2>1. /\ life = "reput" /\ rec.got = {} /\ UNCHANGED <<rec, disk>> /\ life' \in {"migrate", "up"}
        /\ meta'.ri = meta.ri /\ meta'.wi = meta.wi /\ meta'.cdi = {}
    BY <1>1, recoveredDoes, Zenon
  <2>2. Live' = Live /\ meta.wi - meta.ri + 0 <= Capacity
    BY <2>1, FS_EmptySet, Zenon DEF Live, CountFits, Loaded
  <2> QED
    BY <2>1, <2>2, FS_EmptySet, Zenon DEF CountFits, requestSize
<1>2. CASE \E o \in Outcome : migrate(o)
  <2>1. /\ life = "migrate" /\ life' = "purge" /\ UNCHANGED <<meta, rec>> /\ disk'.set /\ disk'.meta = meta
    BY <1>2, migrateDoes, Zenon
  <2>2. meta.cdi = {} /\ rec.got = {}
    BY <2>1, Zenon DEF SInv, Recovering, Empty
  <2>3. Live' = {} /\ meta.wi - meta.ri + 0 <= Capacity
    BY <2>1, <2>2, FS_EmptySet, Zenon DEF Live, CountFits, Loaded
  <2> QED
    BY <2>1, <2>2, <2>3, FS_EmptySet, Zenon DEF CountFits, requestSize, Loaded
<1>3. CASE \E o \in Outcome : purgeLegacy(o)
  <2>1. /\ life = "purge" /\ life' = "up" /\ UNCHANGED <<meta, rec>>
        /\ disk'.set = disk.set /\ disk'.meta = disk.meta /\ disk'.item = disk.item
    BY <1>3, purgeLegacyDoes, Zenon
  <2>2. Live' = Live
    BY <2>1, Zenon DEF Live
  <2> QED
    BY <2>1, <2>2, Zenon DEF CountFits, Loaded, requestSize
<1> QED
  BY <1>1, <1>2, <1>3, Zenon

\* A running queue that leaves storage and the counts alone.
LEMMA QuietFits ==
  ASSUME CountFits, UNCHANGED disk, meta'.wi = meta.wi, meta'.ri = meta.ri, meta'.cdi = meta.cdi,
         Up, life' \in {"up", "closing"}
  PROVE  CountFits'
<1>1. Live' = Live
  BY Zenon DEF Live
<1> QED
  BY <1>1, Zenon DEF CountFits, Loaded, Up, requestSize

\* A running queue counts what storage has if it writes its own list.
LEMMA RunningFits ==
  ASSUME QInv', Up', disk'.meta = meta', (requestSize(meta) <= Capacity)' PROVE CountFits'
  BY AgreeingFits, Zenon DEF CountFits, Loaded, Up

LEMMA OfferPutFits ==
  ASSUME QInv, QInv', SInv, errs = 0, ~SizerItems, CountFits,
         NEW r \in Reqs, NEW o \in Outcome, OfferPut(r, o), errs' = 0
  PROVE  CountFits'
<1>1. /\ Up /\ internalSize + Sizeof(r) <= Capacity /\ UNCHANGED life
      /\ meta'.ri = meta.ri /\ meta'.wi = meta.wi + 1 /\ meta'.cdi = meta.cdi
  BY OfferPutDoes, Zenon
<1>2. (requestSize(meta) <= Capacity)'
  BY <1>1, Counts DEF internalSize, Sizeof, requestSize
<1>3. CASE closed
  <2>1. disk' = disk
    BY <1>3, OfferPutDoes, Zenon
  <2>2. Live' = Live
    BY <2>1, Zenon DEF Live
  <2> QED
    BY <1>1, <1>2, <2>1, <2>2, Zenon DEF CountFits, Loaded, Up
<1>4. CASE ~closed
  <2>1. disk'.meta = meta'
    BY <1>4, OfferPutDoes, Zenon
  <2> QED
    BY <1>1, <1>2, <2>1, RunningFits, Zenon DEF Up
<1> QED
  BY <1>3, <1>4, Zenon

\* An item that is handed out leaves the pending ones and joins the dispatched ones.
LEMMA getNextItemFits ==
  ASSUME QInv, QInv', AInv, SInv, Once, errs = 0, CountFits,
         NEW c \in Consumers, NEW o \in Outcome, getNextItem(c, o), errs' = 0
  PROVE  CountFits'
<1>1. /\ Up /\ UNCHANGED life /\ meta'.ri = meta.ri + 1 /\ meta'.wi = meta.wi
      /\ meta'.cdi = meta.cdi \cup {meta.ri} /\ disk'.meta = meta'
  BY getNextItemServes, Zenon
<1>2. meta.ri \notin meta.cdi
  BY Counts DEF SInv, Listing
<1>3. Cardinality(meta'.cdi) = Cardinality(meta.cdi) + 1
  BY <1>1, <1>2, Counts, IndexSets, FS_AddElement
<1>4. (requestSize(meta) <= Capacity)'
  BY <1>1, <1>3, Counts DEF CountFits, requestSize
<1> QED
  BY <1>1, <1>4, RunningFits, Zenon DEF Up

LEMMA itemDispatchingFinishFits ==
  ASSUME QInv, QInv', AInv, SInv, errs = 0, CountFits, NEW o \in Outcome, itemDispatchingFinish(o), errs' = 0
  PROVE  CountFits'
<1>1. /\ Up /\ UNCHANGED life /\ meta'.ri = meta.ri /\ meta'.wi = meta.wi
      /\ meta'.cdi = meta.cdi \ {mu.i} /\ disk'.meta = meta'
  BY itemDispatchingFinishServes, Zenon
<1>2. Cardinality(meta'.cdi) <= Cardinality(meta.cdi) /\ Cardinality(meta'.cdi) \in Nat
  BY <1>1, Counts, IndexSets, Zenon
<1>3. (requestSize(meta) <= Capacity)'
  BY <1>1, <1>2, Counts DEF CountFits, requestSize
<1> QED
  BY <1>1, <1>3, RunningFits, Zenon DEF Up

LEMMA CountFitsStep ==
  ASSUME QInv, AInv, SInv, UInv, errs = 0, ~SizerItems, Len(OldQueue) <= Capacity, CountFits, [Next]_vars, errs' = 0
  PROVE  CountFits'
<1>0. QInv' /\ Once
  BY QStep, Zenon DEF UInv
<1>1. CASE Recovery
  BY <1>0, <1>1, loadFits, retrieveBatchFits, cleanupBatchFits, putBackFits, recoveryEndsFits, skipUndecodableDoes DEF Recovery
<1>2. ASSUME NEW r \in Reqs, Producer(r) PROVE CountFits'
  <2>1. CASE OfferFull(r) \/ TakeSignal(r) \/ OfferCancel(r)
    BY <2>1, QuietFits, Zenon DEF OfferFull, Offering, TakeSignal, OfferCancel, proc, Up
  <2> QED
    BY <1>0, <1>2, <2>1, OfferPutFits, Zenon DEF Producer
<1>3. ASSUME NEW c \in Consumers, Consumer(c) PROVE CountFits'
  <2>1. CASE ReadStopped(c) \/ consumeFunc(c) \/ ReadWait(c)
    BY <2>1, QuietFits, Zenon DEF ReadStopped, consumeFunc, ReadWait, Reading, Up
  <2> QED
    BY <1>0, <1>3, <2>1, getNextItemFits, Zenon DEF Consumer
<1>4. CASE Completion
  <2>1. ASSUME NEW f \in Entry, onDone(f) PROVE CountFits'
    <3>1. /\ Up /\ UNCHANGED <<life, disk>>
          /\ meta'.ri = meta.ri /\ meta'.wi = meta.wi /\ meta'.cdi = meta.cdi
      BY <2>1, onDoneDoes, Zenon
    <3> QED
      BY <3>1, QuietFits, Zenon DEF Up
  <2>2. ASSUME NEW f \in Entry, onDoneShutdown(f) PROVE CountFits'
    BY <2>2, QuietFits, Zenon DEF onDoneShutdown, Up
  <2> QED
    BY <1>0, <1>4, <2>1, <2>2, itemDispatchingFinishFits DEF Completion
<1>5. CASE retryShutdown \/ Shutdown
  BY <1>5, QuietFits, Zenon DEF retryShutdown, Shutdown, Up
<1>6. CASE ProcessEnds
  BY <1>6, Zenon DEF ProcessEnds, Volatile, CountFits, Live, Loaded, Up
<1>7. CASE UNCHANGED vars
  BY <1>7, Zenon DEF vars, proc, CountFits, Live, Loaded, Up, requestSize
<1> QED
  BY <1>1, <1>2, <1>3, <1>4, <1>5, <1>6, <1>7, Zenon DEF Next

LEMMA CInit == Init => CInv
  BY ConstantsOK DEF ConstantsOK, Init, CInv, SizeFits, CountFits, EmptyMetadata, Loaded, Up

LEMMA CStep == QInv /\ AInv /\ SInv /\ UInv /\ CInv /\ [Next]_vars => CInv'
  BY SizeFitsStep, CountFitsStep, ErrorsStay, Zenon DEF CInv

\* CInv holds in every reachable state.
LEMMA CAlways == Spec => []CInv
  BY CInit, CStep, QAlways, AAlways, SAlways, UAlways, PTL DEF Spec

\* As long as storage reports no error, the queue never holds more than its capacity,
\* counted in requests or in items: dispatching, finishing, killing the process at any
\* point and putting back what it had dispatched never make it exceed what Offer
\* checked, unless an older release left more than that.
THEOREM WithinCapacityAlways == Spec => []WithinCapacity
<1>1. CInv => WithinCapacity
  BY Zenon DEF CInv, SizeFits, CountFits, WithinCapacity, requestSize
<1> QED
  BY <1>1, CAlways, PTL

-----------------------------------------------------------------------------
(* Every blocked caller is counted, or has a signal in the channel. *)

Blocked == {r \in Reqs : st[r] = "blocked"}
Sending == IF mu.ph = "signal" THEN 1 ELSE 0   \* the signal of a Signal that is stuck
Counted == waiting + ch + Sending = Cardinality(Blocked)

LEMMA Signals == ASSUME QInv PROVE waiting \in Nat /\ ch \in 0..1 /\ mu \in Lock
  BY Zenon DEF QInv, TypeOK

LEMMA LockPhases ==
  /\ Free.ph = "both"
  /\ \A c : Loop(c).ph = "both"
  /\ \A c, i : Drop(c, i).ph = "both"
  /\ \A i : Finish(i).ph = "both"
  BY Zenon DEF Free, Loop, Drop, Finish

LEMMA BlockedFinite == IsFiniteSet(Blocked) /\ IsFiniteSet(Blocked') /\ Cardinality(Blocked) \in Nat
<1>1. IsFiniteSet(Reqs) /\ Blocked \in SUBSET Reqs /\ Blocked' \in SUBSET Reqs
  BY ConstantsOK, Zenon DEF ConstantsOK, Blocked
<1> QED
  BY <1>1, FS_Subset, FS_CardinalityType, Zenon

\* Nobody falls asleep or wakes up.
LEMMA SameBlocked ==
  ASSUME Counted, UNCHANGED <<waiting, ch>>, mu'.ph = "signal" <=> mu.ph = "signal",
         \A r \in Reqs : st'[r] = "blocked" <=> st[r] = "blocked"
  PROVE  Counted'
<1>1. Blocked' = Blocked /\ Sending' = Sending
  BY Zenon DEF Blocked, Sending
<1> QED
  BY <1>1, Zenon DEF Counted

\* One caller does.
LEMMA OneBlocked ==
  ASSUME QInv, NEW r \in Reqs, NEW s, st' = [st EXCEPT ![r] = s]
  PROVE  /\ s = "blocked" /\ st[r] # "blocked" => Cardinality(Blocked') = Cardinality(Blocked) + 1
         /\ s # "blocked" /\ st[r] = "blocked" =>
              Cardinality(Blocked') = Cardinality(Blocked) - 1 /\ Cardinality(Blocked) > 0
<1>1. \A q \in Reqs : st'[q] = IF q = r THEN s ELSE st[q]
  BY Threads, Zenon
<1>2. ASSUME s = "blocked", st[r] # "blocked" PROVE Cardinality(Blocked') = Cardinality(Blocked) + 1
  <2>1. Blocked' = Blocked \cup {r} /\ r \notin Blocked
    BY <1>1, <1>2, Zenon DEF Blocked
  <2> QED
    BY <2>1, BlockedFinite, FS_AddElement, Zenon
<1>3. ASSUME s # "blocked", st[r] = "blocked"
      PROVE  Cardinality(Blocked') = Cardinality(Blocked) - 1 /\ Cardinality(Blocked) > 0
  <2>1. Blocked' = Blocked \ {r} /\ r \in Blocked
    BY <1>1, <1>3, Zenon DEF Blocked
  <2>2. Cardinality(Blocked') = Cardinality(Blocked) - 1
    BY <2>1, BlockedFinite, FS_RemoveElement, Zenon
  <2>3. Cardinality(Blocked) # 0
    BY <2>1, BlockedFinite, FS_EmptySet, Zenon
  <2> QED
    BY <2>2, <2>3, BlockedFinite
<1> QED
  BY <1>2, <1>3, Zenon

LEMMA Woke ==
  ASSUME QInv, NEW r \in Reqs, st[r] = "blocked",
         \E s \in {"woken", "rejected"} : st' = [st EXCEPT ![r] = s]
  PROVE  Cardinality(Blocked') = Cardinality(Blocked) - 1
<1>1. PICK s \in {"woken", "rejected"} : st' = [st EXCEPT ![r] = s]
  OBVIOUS
<1>2. s # "blocked"
  OBVIOUS
<1> QED
  BY <1>1, <1>2, OneBlocked, Zenon

\* A caller that gives up takes its count, or its signal, along.  If it takes the
\* signal, it was the last one that was blocked.
LEMMA LastCancelled ==
  ASSUME QInv, Counted, NEW r \in Reqs, OfferCancel(r), waiting = 0 PROVE Blocked' = {}
<1>1. ch = 1 /\ mu = Free /\ st[r] = "blocked" /\ st' = [st EXCEPT ![r] = "rejected"]
  BY Zenon DEF OfferCancel
<1>2. Sending = 0
  BY <1>1, LockPhases, Zenon DEF Sending
<1>3. Cardinality(Blocked') = Cardinality(Blocked) - 1
  BY <1>1, Woke, Zenon
<1>4. Cardinality(Blocked') = 0
  BY <1>1, <1>2, <1>3 DEF Counted
<1> QED
  BY <1>4, BlockedFinite, FS_EmptySet, Zenon

LEMMA ProducerCounted ==
  ASSUME QInv, Counted, NEW r \in Reqs, Producer(r) PROVE Counted'
<1>1. CASE OfferFull(r)
  <2>1. st[r] # "blocked" /\ UNCHANGED <<mu, ch>>
    BY <1>1, Zenon DEF OfferFull, Offering, proc
  <2>2. Sending' = Sending
    BY <2>1, Zenon DEF Sending
  <2>3. CASE BlockOnOverflow
    <3>1. st' = [st EXCEPT ![r] = "blocked"] /\ waiting' = waiting + 1
      BY <1>1, <2>3, Zenon DEF OfferFull
    <3>2. Cardinality(Blocked') = Cardinality(Blocked) + 1
      BY <2>1, <3>1, OneBlocked, Zenon
    <3>3. Sending \in Nat
      BY DEF Sending
    <3> QED
      BY <2>1, <2>2, <3>1, <3>2, <3>3, Signals DEF Counted
  <2>4. CASE ~BlockOnOverflow
    <3>1. st' = [st EXCEPT ![r] = "rejected"] /\ waiting' = waiting
      BY <1>1, <2>4, Zenon DEF OfferFull
    <3> QED
      BY <2>1, <3>1, Threads, SameBlocked, Zenon
  <2> QED
    BY <2>3, <2>4, Zenon
<1>2. ASSUME NEW o \in Outcome, OfferPut(r, o) PROVE Counted'
  <2>1. /\ st[r] # "blocked" /\ UNCHANGED <<mu, waiting, ch>>
        /\ st' = [st EXCEPT ![r] = IF o = "ok" THEN "accepted" ELSE "rejected"]
    BY <1>2, Zenon DEF OfferPut, Offering
  <2> QED
    BY <2>1, Threads, SameBlocked, Zenon
<1>3. CASE TakeSignal(r) \/ OfferCancel(r)
  <2>1. /\ st[r] = "blocked" /\ UNCHANGED mu
        /\ \E s \in {"woken", "rejected"} : st' = [st EXCEPT ![r] = s]
    BY <1>3, Zenon DEF TakeSignal, OfferCancel, proc
  <2>2. Cardinality(Blocked') = Cardinality(Blocked) - 1
    BY <2>1, Woke, Zenon
  <2>3. Sending' = Sending /\ Sending \in Nat
    BY <2>1 DEF Sending
  <2>4. waiting' + ch' = waiting + ch - 1
    BY <1>3, Signals DEF TakeSignal, OfferCancel
  <2>5. waiting' \in Int /\ ch' \in Int
    BY <1>3, Signals DEF TakeSignal, OfferCancel
  <2> QED
    BY <2>2, <2>3, <2>4, <2>5, Signals DEF Counted
<1> QED
  BY <1>1, <1>2, <1>3, Zenon DEF Producer

LEMMA itemDispatchingFinishCounted ==
  ASSUME QInv, Counted, NEW o \in Outcome, itemDispatchingFinish(o) PROVE Counted'
<1>1. Sending = 0
  BY Zenon DEF itemDispatchingFinish, Sending, Phases
<1>2. CASE FinishReturns
  <2>1. Sending' = 0
    BY <1>2, LockPhases, Zenon DEF FinishReturns, Sending
  <2>2. SignalSpace
    BY <1>2, Zenon DEF FinishReturns
  <2>3. CASE UNCHANGED <<st, waiting, ch>>
    BY <1>1, <2>1, <2>3, Zenon DEF Counted, Blocked
  <2>4. CASE waiting' = waiting - 1 /\ ch' = 1 /\ ch = 0 /\ UNCHANGED st
    <3>1. Blocked' = Blocked
      BY <2>4, Zenon DEF Blocked
    <3> QED
      BY <1>1, <2>1, <2>4, <3>1, Signals DEF Counted
  <2>5. ASSUME waiting' = waiting - 1, ch' = 1, ch = 1, NEW r \in Reqs, st[r] = "blocked",
               st' = [st EXCEPT ![r] = "woken"]
        PROVE  Counted'
    <3>1. Cardinality(Blocked') = Cardinality(Blocked) - 1
      BY <2>5, Woke, Zenon
    <3> QED
      BY <1>1, <2>1, <2>5, <3>1, Signals DEF Counted
  <2> QED
    BY <2>2, <2>3, <2>4, <2>5, Zenon DEF SignalSpace
<1>3. CASE SignalBlocks
  <2>1. mu'.ph = "signal" /\ UNCHANGED <<st, ch>> /\ waiting' = waiting - 1
    BY <1>3, Signals, Zenon DEF SignalBlocks, Lock
  <2>2. Sending' = 1 /\ Blocked' = Blocked
    BY <2>1, Zenon DEF Sending, Blocked
  <2> QED
    BY <1>1, <2>1, <2>2, Signals DEF Counted
<1>4. CASE UNCHANGED <<st, waiting, ch>> /\ \E ph \in {"delete", "set"} : mu' = [mu EXCEPT !.ph = ph]
  <2>1. mu'.ph # "signal"
    BY <1>4, Signals, Zenon DEF Lock
  <2>2. mu.ph # "signal"
    BY Zenon DEF itemDispatchingFinish, Phases
  <2> QED
    BY <1>4, <2>1, <2>2, SameBlocked, Zenon
<1> QED
  BY <1>2, <1>3, <1>4, Zenon DEF itemDispatchingFinish

\* Counted is inductive relative to QInv and AInv.
LEMMA CountedStep == QInv /\ AInv /\ Counted /\ [Next]_vars => Counted'
<1> SUFFICES ASSUME QInv, AInv, Counted, [Next]_vars PROVE Counted'
  OBVIOUS
<1>1. CASE Recovery
  <2>1. mu = Free
    BY <1>1, RecoveryQuiet, Zenon DEF QInv, Quiet
  <2>2. UNCHANGED <<st, waiting, ch>> /\ (mu' = mu \/ mu' = Free)
    BY <1>1, Zenon DEF Recovery, loadQueueMetadata, loadLegacyMetadata, Volatile, retrieveBatch,
       cleanupBatch, putBack, skipUndecodable, recovered, migrate, purgeLegacy
  <2> QED
    BY <2>1, <2>2, SameBlocked, Zenon
<1>2. CASE \E r \in Reqs : Producer(r)
  BY <1>2, ProducerCounted, Zenon
<1>3. ASSUME NEW c \in Consumers, Consumer(c) PROVE Counted'
  <2>1. UNCHANGED <<st, waiting, ch>>
    BY <1>3, Zenon DEF Consumer, ReadStopped, ReadWait, consumeFunc, getNextItem
  <2>2. CASE ReadStopped(c) \/ consumeFunc(c)
    BY <2>1, <2>2, SameBlocked, Zenon DEF ReadStopped, consumeFunc
  <2>3. ASSUME Reading(c), mu' = Free \/ \E i : mu' = Drop(c, i) PROVE Counted'
    <3>1. mu.ph = "both" /\ mu'.ph = "both"
      BY <2>3, LockPhases, Zenon DEF Reading
    <3> QED
      BY <2>1, <3>1, SameBlocked, Zenon
  <2>4. CASE ReadWait(c)
    BY <2>3, <2>4, Zenon DEF ReadWait
  <2>5. ASSUME NEW o \in Outcome, getNextItem(c, o) PROVE Counted'
    BY <2>3, <2>5, Zenon DEF getNextItem
  <2> QED
    BY <1>3, <2>2, <2>4, <2>5, Zenon DEF Consumer
<1>4. CASE Completion
  <2>1. ASSUME NEW f \in Entry, onDone(f) \/ onDoneShutdown(f) PROVE Counted'
    BY <2>1, LockPhases, SameBlocked, Zenon DEF onDone, onDoneShutdown
  <2> QED
    BY <1>4, <2>1, itemDispatchingFinishCounted, Zenon DEF Completion
<1>5. CASE retryShutdown \/ Shutdown
  BY <1>5, SameBlocked, Zenon DEF retryShutdown, Shutdown
<1>6. CASE ProcessEnds
  <2>1. Blocked' = {} /\ waiting' = 0 /\ ch' = 0 /\ Sending' = 0
    BY <1>6, LockPhases, Zenon DEF ProcessEnds, Volatile, Blocked, Sending
  <2> QED
    BY <2>1, FS_EmptySet DEF Counted
<1>7. CASE UNCHANGED vars
  BY <1>7, Zenon DEF vars, proc, Counted, Blocked, Sending
<1> QED
  BY <1>1, <1>2, <1>3, <1>4, <1>5, <1>6, <1>7, Zenon DEF Next

LEMMA CountedInit == Init => Counted
<1> SUFFICES ASSUME Init PROVE Counted
  OBVIOUS
<1>1. Blocked = {} /\ waiting = 0 /\ ch = 0 /\ Sending = 0
  BY LockPhases, Zenon DEF Init, Blocked, Sending
<1> QED
  BY <1>1, FS_EmptySet DEF Counted

\* In every reachable state the callers in Wait are those that cond.waiting counts, one
\* for the signal in the channel, and one for a Signal that is stuck on it.
LEMMA CountedAlways == Spec => []Counted
  BY CountedInit, CountedStep, QAlways, AAlways, PTL DEF Spec

-----------------------------------------------------------------------------
(* Producers do not stay asleep beside an empty queue. *)

\* Every dispatched index is that of a request in flight or being finished, ...
ListedInFlight ==
  life = "up" => \A j \in meta.cdi : (\E f \in flight : f.idx = j) \/ (mu.k \in {"drop", "done"} /\ mu.i = j)
\* ... and has its item, ...
ListedLive ==
  /\ Up /\ ~closed => \A j \in meta.cdi : disk.item[j] # NoValue
  /\ disk.set /\ disk.meta.wi = disk.meta.ri /\ ~RecoveryWindow =>
       \A j \in disk.meta.cdi : disk.item[j] # NoValue
\* ... and an empty queue has size zero, also the one a restart will find.
EmptyIsZero ==
  /\ Up /\ meta.wi = meta.ri /\ meta.cdi = {} => meta.size = 0
  /\ disk.set /\ disk.meta.wi = disk.meta.ri /\ disk.meta.cdi = {} => disk.meta.size = 0
  /\ life = "retrieve" => rec.di # {}
  /\ life \in {"cleanup", "reput"} /\ ~rec.old /\ meta.wi = meta.ri => rec.got # {}
  /\ life = "purge" \/ (Loaded /\ rec.old) => meta.size = 0 /\ meta.cdi = {}
\* A signal is under way when the lock holder finished an item, if a caller is blocked.
Signalled == ch = 1 \/ \E r \in Reqs : st[r] = "woken"
Woken ==
  /\ life = "up" /\ (mu.k = "loop" \/ (mu = Free /\ flight = {} /\ meta.ri = meta.wi)) =>
       Signalled \/ \A r \in Reqs : st[r] # "blocked"
  /\ ~Up => \A r \in Reqs : st[r] \notin {"blocked", "woken"}

Drains == ListedLive /\ EmptyIsZero
WInv == errs = 0 /\ ~RecoveryCrashes => Drains /\ ListedInFlight /\ (AllFit => Woken)

\* A running queue that writes its own list, ...
LEMMA RunningDrains ==
  ASSUME Up', disk'.meta = meta', \A j \in meta'.cdi : disk'.item[j] # NoValue,
         meta'.wi = meta'.ri /\ meta'.cdi = {} => meta'.size = 0
  PROVE  Drains'
  BY Zenon DEF Drains, ListedLive, EmptyIsZero, Loaded, Up

\* ... and one that leaves storage and the indexes alone.
LEMMA QuietDrains ==
  ASSUME Drains, UNCHANGED disk, meta'.wi = meta.wi, meta'.ri = meta.ri, meta'.cdi = meta.cdi,
         meta.size = 0 => meta'.size = 0, Up, life' \in {"up", "closing"}, closed => closed'
  PROVE  Drains'
  BY Zenon DEF Drains, ListedLive, EmptyIsZero, RecoveryWindow, Loaded, Up

LEMMA OfferPutDrains ==
  ASSUME QInv, Drains, NEW r \in Reqs, NEW o \in Outcome, OfferPut(r, o), errs' = 0
  PROVE  Drains'
<1>1. /\ Up /\ UNCHANGED <<life, closed>>
      /\ meta'.ri = meta.ri /\ meta'.wi = meta.wi + 1 /\ meta'.cdi = meta.cdi
  BY OfferPutDoes, Zenon
<1>2. meta'.wi # meta'.ri
  BY <1>1, Counts DEF QInv, Order
<1>3. CASE closed
  <2>1. disk' = disk
    BY <1>3, OfferPutDoes, Zenon
  <2> QED
    BY <1>1, <1>2, <1>3, <2>1, Zenon DEF Drains, ListedLive, EmptyIsZero, RecoveryWindow, Loaded, Up
<1>4. CASE ~closed
  <2>1. disk'.meta = meta' /\ disk'.item = [disk.item EXCEPT ![meta.wi] = r] /\ disk.item \in [Index -> Value]
    BY <1>4, OfferPutDoes, Stored, Zenon DEF Disk
  <2>2. \A j \in meta.cdi : j \in Index /\ disk.item[j] # NoValue
    BY <1>1, <1>4, Counts, Zenon DEF Drains, ListedLive
  <2>3. \A j \in meta'.cdi : disk'.item[j] # NoValue
    BY <1>1, <2>1, <2>2, Bounds, Zenon
  <2> QED
    BY <1>1, <1>2, <2>1, <2>3, RunningDrains DEF Up
<1> QED
  BY <1>3, <1>4, Zenon

LEMMA getNextItemDrains ==
  ASSUME QInv, AInv, SInv, Once, errs = 0, Drains,
         NEW c \in Consumers, NEW o \in Outcome, getNextItem(c, o), errs' = 0
  PROVE  Drains'
<1>1. /\ Up /\ ~closed /\ UNCHANGED life /\ meta'.cdi = meta.cdi \cup {meta.ri} /\ disk'.meta = meta'
      /\ disk'.item = disk.item /\ disk.item[meta.ri] \in Reqs
  BY getNextItemServes, Zenon
<1>2. \A j \in meta'.cdi : disk'.item[j] # NoValue
  BY <1>1, Bounds, Zenon DEF Drains, ListedLive
<1> QED
  BY <1>1, <1>2, RunningDrains, Zenon DEF Up

LEMMA DrainedIsZero ==
  ASSUME NEW m \in Metadata, NEW i, m.wi = m.ri, m.cdi \ {i} = {}
  PROVE  Drained([m EXCEPT !.cdi = @ \ {i}]).size = 0
<1> DEFINE n == [m EXCEPT !.cdi = @ \ {i}]
<1>1. n.cdi = {} /\ n.wi = n.ri /\ n.wi \in Nat /\ n \in [ri : 0..MaxIndex, wi : 0..MaxIndex, size : Nat, cdi : SUBSET Index]
  BY Bounds DEF Metadata
<1>2. requestSize(n) = 0
  BY <1>1, FS_EmptySet DEF requestSize
<1>3. [n EXCEPT !.size = 0].size = 0
  BY <1>1, Zenon
<1> QED
  BY <1>2, <1>3, Zenon DEF Drained

LEMMA itemDispatchingFinishDrains ==
  ASSUME QInv, AInv, SInv, errs = 0, Drains, NEW o \in Outcome, itemDispatchingFinish(o), errs' = 0
  PROVE  Drains'
<1>1. /\ Up /\ ~closed /\ UNCHANGED life /\ meta' = Drained([meta EXCEPT !.cdi = @ \ {mu.i}])
      /\ meta'.ri = meta.ri /\ meta'.wi = meta.wi /\ meta'.cdi = meta.cdi \ {mu.i} /\ disk'.meta = meta'
      /\ \A i \in Index : disk'.item[i] = IF i = mu.i THEN NoValue ELSE disk.item[i]
  BY itemDispatchingFinishServes, Zenon
<1>2. \A j \in meta'.cdi : disk'.item[j] # NoValue
  BY <1>1, Counts, Zenon DEF Drains, ListedLive
<1>3. meta \in Metadata
  BY Zenon DEF QInv, TypeOK
<1>4. ASSUME meta'.wi = meta'.ri, meta'.cdi = {} PROVE meta'.size = 0
  <2>1. meta.wi = meta.ri /\ meta.cdi \ {mu.i} = {}
    BY <1>1, <1>4, Zenon
  <2>2. Drained([meta EXCEPT !.cdi = @ \ {mu.i}]).size = 0
    BY <1>3, <2>1, DrainedIsZero, Zenon
  <2> QED
    BY <1>1, <2>2, Zenon
<1> QED
  BY <1>1, <1>2, <1>4, RunningDrains, Zenon DEF Up

LEMMA loadDrains ==
  ASSUME QInv, SInv, errs = 0, Drains, errs' = 0,
         \/ \E o \in Outcome : loadQueueMetadata(o)
         \/ \E oi, od \in Outcome : loadLegacyMetadata(oi, od)
  PROVE  Drains'
<1>1. CASE \E o \in Outcome : loadQueueMetadata(o)
  <2>1. /\ life = "down" /\ disk.set /\ disk' = disk /\ meta' = disk.meta
        /\ rec' = [old |-> FALSE, di |-> disk.meta.cdi, got |-> {}]
        /\ life' = IF disk.meta.cdi = {} THEN "up" ELSE "retrieve"
    BY <1>1, loadQueueMetadataDoes, Zenon
  <2>2. rec'.di = disk.meta.cdi /\ ~rec'.old
    BY <2>1, Zenon
  <2> QED
    BY <2>1, <2>2, Zenon DEF Drains, ListedLive, EmptyIsZero, RecoveryWindow, Loaded, Up
<1>2. CASE \E oi, od \in Outcome : loadLegacyMetadata(oi, od)
  <2>1. /\ life = "down" /\ ~disk.set /\ disk' = disk /\ meta'.cdi = {} /\ meta'.size = 0
        /\ life' = IF rec'.di = {} THEN "migrate" ELSE "retrieve"
    BY <1>2, loadLegacyMetadataDoes, Zenon
  <2> QED
    BY <2>1, Zenon DEF Drains, ListedLive, EmptyIsZero, RecoveryWindow, Loaded, Up
<1> QED
  BY <1>1, <1>2, Zenon

\* An empty queue with dispatched items has something to put back.
LEMMA retrieveBatchDrains ==
  ASSUME QInv, SInv, errs = 0, Drains, NEW o \in Outcome, retrieveBatch(o), errs' = 0
  PROVE  Drains'
<1>1. /\ life = "retrieve" /\ life' = "cleanup" /\ UNCHANGED <<meta, disk>> /\ rec'.old = rec.old /\ rec'.di = rec.di
      /\ rec'.got = {[idx |-> i, req |-> disk.item[i]] : i \in {j \in rec.di : disk.item[j] # NoValue}}
  BY retrieveBatchDoes, Zenon
<1>2. ASSUME ~rec.old, meta.wi = meta.ri PROVE rec'.got # {}
  <2>1. disk.set /\ Same /\ rec.di = meta.cdi
    BY <1>1, <1>2, Zenon DEF SInv, Recovering
  <2>2. PICK j \in rec.di : TRUE
    BY <1>1, Zenon DEF Drains, EmptyIsZero
  <2>3. disk.item[j] # NoValue
    BY <1>1, <1>2, <2>1, <2>2 DEF Same, Drains, ListedLive, RecoveryWindow
  <2> QED
    BY <1>1, <2>2, <2>3, Zenon
<1> QED
  BY <1>1, <1>2, Zenon DEF Drains, ListedLive, EmptyIsZero, RecoveryWindow, Loaded, Up

LEMMA cleanupBatchDrains ==
  ASSUME QInv, SInv, errs = 0, Drains, NEW o \in Outcome, cleanupBatch(o), errs' = 0
  PROVE  Drains'
<1>1. /\ life = "cleanup" /\ life' = "reput" /\ UNCHANGED <<meta, rec>>
      /\ disk'.set = disk.set /\ disk'.meta = disk.meta
      /\ disk'.item = [i \in Index |-> IF i \in rec.di THEN NoValue ELSE disk.item[i]]
  BY cleanupBatchDoes, Zenon
<1>2. disk.set => meta.ri = disk.meta.ri /\ meta.wi = disk.meta.wi /\ meta.cdi = disk.meta.cdi
  BY <1>1, Zenon DEF SInv, Recovering, Same
<1>3. disk.set /\ disk.meta.wi = disk.meta.ri /\ rec.got = {} => meta.cdi = {}
  BY <1>1, <1>2, Zenon DEF Drains, EmptyIsZero, Loaded
<1>4. ListedLive'
  BY <1>1, <1>2, <1>3, Zenon DEF ListedLive, RecoveryWindow, Up
<1>5. EmptyIsZero'
  BY <1>1, Zenon DEF Drains, EmptyIsZero, Loaded, Up
<1> QED
  BY <1>4, <1>5, Zenon DEF Drains

LEMMA putBackDrains ==
  ASSUME QInv, errs = 0, Drains, NEW e \in Entry, NEW o \in Outcome, putBack(e, o), errs' = 0
  PROVE  Drains'
<1>1. /\ life = "reput" /\ life' = life /\ meta'.ri = meta.ri /\ meta'.wi = meta.wi + 1 /\ meta'.cdi = meta.cdi
      /\ meta'.size = meta.size /\ disk'.meta = meta' /\ rec'.old = rec.old
  BY putBackDoes, Zenon
<1>2. meta'.wi # meta'.ri
  BY <1>1, Counts DEF QInv, Order
<1> QED
  BY <1>1, <1>2, Zenon DEF Drains, ListedLive, EmptyIsZero, Loaded, Up

LEMMA recoveryEndsDrains ==
  ASSUME QInv, SInv, errs = 0, Drains, errs' = 0,
         recovered \/ \E o \in Outcome : migrate(o) \/ purgeLegacy(o)
  PROVE  Drains'
<1>1. CASE recovered
  <2>1. /\ life = "reput" /\ rec.got = {} /\ UNCHANGED <<rec, disk>>
        /\ meta'.ri = meta.ri /\ meta'.wi = meta.wi /\ meta'.cdi = {} /\ meta'.size = meta.size
        /\ life' = IF rec.old THEN "migrate" ELSE "up"
    BY <1>1, recoveredDoes, Zenon
  <2> QED
    BY <2>1, Zenon DEF Drains, ListedLive, EmptyIsZero, RecoveryWindow, Loaded, Up
<1>2. CASE \E o \in Outcome : migrate(o)
  <2>1. life = "migrate" /\ life' = "purge" /\ UNCHANGED <<meta, rec>> /\ disk'.meta = meta
    BY <1>2, migrateDoes, Zenon
  <2>2. rec.old
    BY <2>1, Zenon DEF SInv, Recovering
  <2> QED
    BY <2>1, <2>2, Zenon DEF Drains, ListedLive, EmptyIsZero, Loaded, Up
<1>3. CASE \E o \in Outcome : purgeLegacy(o)
  <2>1. /\ life = "purge" /\ life' = "up" /\ UNCHANGED <<meta, rec>>
        /\ disk'.set = disk.set /\ disk'.meta = disk.meta /\ disk'.item = disk.item
    BY <1>3, purgeLegacyDoes, Zenon
  <2> QED
    BY <2>1 DEF Drains, ListedLive, EmptyIsZero, RecoveryWindow, Loaded, Up
<1> QED
  BY <1>1, <1>2, <1>3, Zenon

LEMMA DrainsStep ==
  ASSUME QInv, AInv, SInv, UInv, ~RecoveryCrashes, errs = 0, Drains, [Next]_vars, errs' = 0
  PROVE  Drains'
<1>0. Once
  BY Zenon DEF UInv
<1>1. CASE Recovery
  BY <1>1, loadDrains, retrieveBatchDrains, cleanupBatchDrains, putBackDrains, recoveryEndsDrains, skipUndecodableDoes DEF Recovery
<1>2. ASSUME NEW r \in Reqs, Producer(r) PROVE Drains'
  <2>1. CASE OfferFull(r) \/ TakeSignal(r) \/ OfferCancel(r)
    BY <2>1, QuietDrains DEF OfferFull, Offering, TakeSignal, OfferCancel, proc, Up
  <2> QED
    BY <1>2, <2>1, OfferPutDrains, Zenon DEF Producer
<1>3. ASSUME NEW c \in Consumers, Consumer(c) PROVE Drains'
  <2>1. CASE ReadStopped(c) \/ consumeFunc(c) \/ ReadWait(c)
    BY <2>1, QuietDrains DEF ReadStopped, consumeFunc, ReadWait, Reading, Up
  <2> QED
    BY <1>0, <1>3, <2>1, getNextItemDrains, Zenon DEF Consumer
<1>4. CASE Completion
  <2>1. ASSUME NEW f \in Entry, onDone(f) PROVE Drains'
    <3>1. /\ Up /\ UNCHANGED <<life, disk, closed>> /\ meta'.size = Minus(meta.size, Items(f.req))
          /\ meta'.ri = meta.ri /\ meta'.wi = meta.wi /\ meta'.cdi = meta.cdi
      BY <2>1, onDoneDoes, Zenon
    <3>2. Items(f.req) \in Nat
      BY ConstantsOK, Zenon DEF ConstantsOK, Items, Entry, Value
    <3>3. meta.size = 0 => meta'.size = 0
      BY <3>1, <3>2 DEF Minus
    <3> QED
      BY <3>1, <3>3, QuietDrains, Zenon DEF Up
  <2>2. ASSUME NEW f \in Entry, onDoneShutdown(f) PROVE Drains'
    BY <2>2, QuietDrains, Zenon DEF onDoneShutdown, unrefClient, Up
  <2> QED
    BY <1>4, <2>1, <2>2, itemDispatchingFinishDrains DEF Completion
<1>5. CASE retryShutdown \/ Shutdown
  <2>1. Up /\ life' \in {"up", "closing"} /\ UNCHANGED <<meta, disk>>
    BY <1>5, Zenon DEF retryShutdown, Shutdown, Up
  <2>2. closed => closed'
    BY <1>5, Zenon DEF retryShutdown, Shutdown, unrefClient
  <2> QED
    BY <2>1, <2>2, QuietDrains, Zenon
<1>6. CASE ProcessEnds
  BY <1>6, Zenon DEF ProcessEnds, Volatile, Drains, ListedLive, EmptyIsZero, RecoveryWindow, Loaded, Up
<1>7. CASE UNCHANGED vars
  BY <1>7, Zenon DEF vars, proc, Drains, ListedLive, EmptyIsZero, RecoveryWindow, Loaded, Up
<1> QED
  BY <1>1, <1>2, <1>3, <1>4, <1>5, <1>6, <1>7 DEF Next

\* A recovery that ends without an error ends with an empty list.
LEMMA RecoveryUnlists ==
  ASSUME QInv, errs = 0, Drains, Recovery, errs' = 0, life' = "up" PROVE meta'.cdi = {}
<1>1. CASE \E o \in Outcome : loadQueueMetadata(o)
  <2>1. meta' = disk.meta /\ life' = IF disk.meta.cdi = {} THEN "up" ELSE "retrieve"
    BY <1>1, loadQueueMetadataDoes, Zenon
  <2> QED
    BY <2>1, Zenon
<1>2. CASE \E oi, od \in Outcome : loadLegacyMetadata(oi, od)
  BY <1>2, loadLegacyMetadataDoes, Zenon
<1>3. CASE \E o \in Outcome : retrieveBatch(o) \/ cleanupBatch(o) \/ migrate(o)
  BY <1>3, retrieveBatchDoes, cleanupBatchDoes, migrateDoes
<1>4. CASE \E o \in Outcome : purgeLegacy(o)
  <2>1. life = "purge" /\ UNCHANGED meta
    BY <1>4, purgeLegacyDoes, Zenon
  <2> QED
    BY <2>1, Zenon DEF Drains, EmptyIsZero
<1>5. CASE \E e \in Entry, o \in Outcome : putBack(e, o)
  BY <1>5, Zenon DEF putBack
<1>6. CASE recovered
  BY <1>6, recoveredDoes, Zenon
<1> QED
  BY <1>1, <1>2, <1>3, <1>4, <1>5, <1>6, skipUndecodableDoes DEF Recovery

LEMMA ListedInFlightStep ==
  ASSUME QInv, AInv, SInv, UInv, errs = 0, Drains, ListedInFlight, [Next]_vars, errs' = 0
  PROVE  ListedInFlight'
<1>0. Once
  BY Zenon DEF UInv
<1>1. CASE Recovery
  BY <1>1, RecoveryUnlists, Zenon DEF ListedInFlight
<1>2. ASSUME NEW r \in Reqs, Producer(r) PROVE ListedInFlight'
  <2>1. CASE OfferFull(r) \/ TakeSignal(r) \/ OfferCancel(r)
    BY <2>1, Zenon DEF OfferFull, TakeSignal, OfferCancel, proc, ListedInFlight
  <2>2. ASSUME NEW o \in Outcome, OfferPut(r, o) PROVE ListedInFlight'
    <3>1. UNCHANGED <<life, flight, mu>> /\ meta'.cdi = meta.cdi
      BY <2>2, OfferPutDoes, Zenon
    <3> QED
      BY <3>1, Zenon DEF ListedInFlight
  <2> QED
    BY <1>2, <2>1, <2>2, Zenon DEF Producer
<1>3. ASSUME NEW c \in Consumers, Consumer(c) PROVE ListedInFlight'
  <2>1. CASE ReadStopped(c) \/ consumeFunc(c)
    BY <2>1, Zenon DEF ReadStopped, consumeFunc, ListedInFlight
  <2>2. CASE ReadWait(c)
    BY <2>2, LockKinds, Zenon DEF ReadWait, Reading, ListedInFlight
  <2>3. ASSUME NEW o \in Outcome, getNextItem(c, o) PROVE ListedInFlight'
    <3>1. /\ UNCHANGED life /\ meta'.cdi = meta.cdi \cup {meta.ri}
          /\ flight' = flight \cup {[idx |-> meta.ri, req |-> disk.item[meta.ri]]}
      BY <1>0, <2>3, getNextItemServes, Zenon
    <3>2. mu.k \notin {"drop", "done"}
      BY <2>3, LockKinds, Zenon DEF getNextItem, Reading
    <3>3. flight \subseteq flight' /\ \E g \in flight' : g.idx = meta.ri
      <4> DEFINE g == [idx |-> meta.ri, req |-> disk.item[meta.ri]]
      <4>1. flight' = flight \cup {g} /\ g.idx = meta.ri
        BY <3>1, Zenon
      <4> HIDE DEF g
      <4> QED
        BY <4>1, Zenon
    <3>4. ASSUME life = "up", NEW j \in meta'.cdi PROVE \E g \in flight' : g.idx = j
      BY <3>1, <3>2, <3>3, <3>4, Zenon DEF ListedInFlight
    <3> QED
      BY <3>1, <3>4, Zenon DEF ListedInFlight
  <2> QED
    BY <1>3, <2>1, <2>2, <2>3, Zenon DEF Consumer
<1>4. CASE Completion
  <2>1. ASSUME NEW f \in Entry, onDone(f) PROVE ListedInFlight'
    <3>1. /\ mu = Free /\ flight' = flight \ {f} /\ mu' = Finish(f.idx) /\ UNCHANGED life /\ meta'.cdi = meta.cdi
      BY <2>1, onDoneDoes, Zenon
    <3> QED
      BY <3>1, LockKinds DEF ListedInFlight
  <2>2. ASSUME NEW f \in Entry, onDoneShutdown(f) PROVE ListedInFlight'
    BY <2>2, Zenon DEF onDoneShutdown, ListedInFlight
  <2>3. ASSUME NEW o \in Outcome, itemDispatchingFinish(o) PROVE ListedInFlight'
    <3>1. UNCHANGED <<life, flight>> /\ meta'.cdi = meta.cdi \ {mu.i}
      BY <2>3, itemDispatchingFinishServes, Zenon
    <3> QED
      BY <3>1, Zenon DEF ListedInFlight
  <2> QED
    BY <1>4, <2>1, <2>2, <2>3, Zenon DEF Completion
<1>5. CASE retryShutdown \/ Shutdown \/ ProcessEnds
  BY <1>5, Zenon DEF retryShutdown, Shutdown, ProcessEnds, Volatile, ListedInFlight
<1>6. CASE UNCHANGED vars
  BY <1>6, Zenon DEF vars, proc, ListedInFlight
<1> QED
  BY <1>1, <1>2, <1>3, <1>4, <1>5, <1>6 DEF Next

\* Nobody is blocked beside an empty queue that has nothing in flight.
LEMMA EmptyHasSpace ==
  ASSUME QInv, Drains, ListedInFlight, life = "up", mu = Free, flight = {}, meta.ri = meta.wi
  PROVE  internalSize = 0
<1>1. meta.cdi = {}
  BY LockKinds, Zenon DEF ListedInFlight
<1>2. meta.size = 0
  BY <1>1, Zenon DEF Drains, EmptyIsZero, Up
<1>3. Cardinality(meta.cdi) = 0
  BY <1>1, FS_EmptySet, Zenon
<1> QED
  BY <1>2, <1>3, Counts DEF internalSize, requestSize

LEMMA OfferWoken ==
  ASSUME QInv, Counted, Drains, ListedInFlight, AllFit, Woken, NEW r \in Reqs,
         OfferFull(r) \/ TakeSignal(r) \/ OfferCancel(r)
  PROVE  Woken'
<1>1. st \in [Reqs -> Stages]
  BY Threads, Zenon
<1>2. CASE OfferFull(r)
  <2>1. Up /\ mu = Free /\ UNCHANGED <<life, mu, flight, meta>> /\ internalSize + Sizeof(r) > Capacity
    BY <1>2, Zenon DEF OfferFull, Offering, proc
  <2>2. Sizeof(r) <= Capacity /\ Sizeof(r) \in Nat /\ Capacity \in Nat
    BY ConstantsOK, Zenon DEF AllFit, Sizeof, ConstantsOK
  <2>3. ~(life = "up" /\ flight = {} /\ meta.ri = meta.wi)
    BY <2>1, <2>2, EmptyHasSpace
  <2> QED
    BY <2>1, <2>3, LockKinds, Zenon DEF Woken, Up
<1>3. CASE TakeSignal(r)
  <2>1. Up /\ UNCHANGED life /\ st'[r] = "woken"
    BY <1>1, <1>3, Zenon DEF TakeSignal, proc
  <2> QED
    BY <2>1, Zenon DEF Woken, Signalled, Up
<1>4. CASE OfferCancel(r)
  <2>1. Up /\ mu = Free /\ st[r] = "blocked" /\ UNCHANGED <<life, mu, flight, meta>>
    BY <1>4, Zenon DEF OfferCancel, proc
  <2>2. \A q \in Reqs : st'[q] = IF q = r THEN "rejected" ELSE st[q]
    BY <1>1, <1>4, Zenon DEF OfferCancel
  <2>3. CASE waiting = 0
    <3>1. Blocked' = {}
      BY <1>4, <2>1, <2>3, LastCancelled, Zenon
    <3>2. \A q \in Reqs : st'[q] # "blocked"
      BY <3>1, Zenon DEF Blocked
    <3> QED
      BY <2>1, <3>2, Zenon DEF Woken, Up
  <2>4. CASE waiting # 0
    <3>1. ch' = ch
      BY <1>4, <2>4, Zenon DEF OfferCancel
    <3> QED
      BY <2>1, <2>2, <3>1, LockKinds, Zenon DEF Woken, Signalled, Up
  <2> QED
    BY <2>3, <2>4, Zenon
<1> QED
  BY <1>2, <1>3, <1>4, Zenon

\* A Signal that returns leaves a signal in the channel if a caller is blocked.
LEMMA SignalWakes ==
  ASSUME QInv, Counted, mu.ph # "signal", SignalSpace
  PROVE  Signalled' \/ \A r \in Reqs : st'[r] # "blocked"
<1>1. CASE waiting = 0
  <2>1. UNCHANGED <<st, ch>> /\ ch \in 0..1
    BY <1>1, Signals, Zenon DEF SignalSpace
  <2>2. CASE ch = 1
    BY <2>1, <2>2, Zenon DEF Signalled
  <2>3. CASE ch # 1
    <3>1. Cardinality(Blocked) = 0
      BY <1>1, <2>1, <2>3 DEF Counted, Sending
    <3>2. Blocked = {}
      BY <3>1, BlockedFinite, FS_EmptySet, Zenon
    <3> QED
      BY <2>1, <3>2, Zenon DEF Blocked
  <2> QED
    BY <2>2, <2>3, Zenon
<1>2. CASE waiting # 0
  BY <1>2, Zenon DEF SignalSpace, Signalled
<1> QED
  BY <1>1, <1>2, Zenon

LEMMA RecoveryWoken ==
  ASSUME QInv, AInv, Woken, Recovery PROVE Woken'
<1>1. ~Up
  BY RecoveryQuiet, Zenon
<1>2. st' = st /\ ch' = ch
  BY Zenon DEF Recovery, loadQueueMetadata, loadLegacyMetadata, retrieveBatch, cleanupBatch, putBack,
         skipUndecodable, recovered, migrate, purgeLegacy
<1> QED
  BY <1>1, <1>2, Zenon DEF Woken

LEMMA WokenStep ==
  ASSUME QInv, AInv, SInv, UInv, Counted, errs = 0, Drains, ListedInFlight, AllFit, Woken, [Next]_vars, errs' = 0
  PROVE  Woken'
<1>0. Once
  BY Zenon DEF UInv
<1>1. CASE Recovery
  BY <1>1, RecoveryWoken, Zenon
<1>2. ASSUME NEW r \in Reqs, Producer(r) PROVE Woken'
  <2>1. ASSUME NEW o \in Outcome, OfferPut(r, o) PROVE Woken'
    <3>1. Up /\ mu = Free /\ UNCHANGED <<life, mu>> /\ meta'.ri = meta.ri /\ meta'.wi = meta.wi + 1
      BY <2>1, OfferPutDoes, Zenon
    <3>2. meta'.ri # meta'.wi
      BY <3>1, Counts DEF QInv, Order
    <3> QED
      BY <3>1, <3>2, LockKinds, Zenon DEF Woken, Up
  <2> QED
    BY <1>2, <2>1, OfferWoken, Zenon DEF Producer
<1>3. ASSUME NEW c \in Consumers, Consumer(c) PROVE Woken'
  <2>1. CASE ReadStopped(c) \/ consumeFunc(c)
    BY <2>1, Zenon DEF ReadStopped, consumeFunc, Woken, Signalled, Up
  <2>2. CASE ReadWait(c)
    BY <2>2, LockKinds DEF ReadWait, Reading, Woken, Signalled, Up
  <2>3. ASSUME NEW o \in Outcome, getNextItem(c, o) PROVE Woken'
    <3>1. /\ Up /\ UNCHANGED life /\ mu' = Free
          /\ flight' = flight \cup {[idx |-> meta.ri, req |-> disk.item[meta.ri]]}
      BY <1>0, <2>3, getNextItemServes, Zenon
    <3>2. flight' # {}
      BY <3>1, Zenon
    <3> QED
      BY <3>1, <3>2, LockKinds, Zenon DEF Woken, Up
  <2> QED
    BY <1>3, <2>1, <2>2, <2>3 DEF Consumer
<1>4. CASE Completion
  <2>1. ASSUME NEW f \in Entry, onDone(f) PROVE Woken'
    <3>1. Up /\ UNCHANGED life /\ mu' = Finish(f.idx)
      BY <2>1, onDoneDoes, Zenon
    <3> QED
      BY <3>1, LockKinds, Zenon DEF Woken, Up
  <2>2. ASSUME NEW f \in Entry, onDoneShutdown(f) PROVE Woken'
    BY <2>2, Zenon DEF onDoneShutdown, Woken, Signalled, Up
  <2>3. ASSUME NEW o \in Outcome, itemDispatchingFinish(o) PROVE Woken'
    <3>1. Up /\ UNCHANGED life /\ (FinishReturns \/ SignalBlocks) /\ mu.k \in {"drop", "done"}
      BY <2>3, itemDispatchingFinishServes, Zenon
    <3>2. CASE FinishReturns
      <4>1. mu.ph # "signal"
        BY <2>3, Zenon DEF itemDispatchingFinish, Phases
      <4>2. Signalled' \/ \A r \in Reqs : st'[r] # "blocked"
        BY <3>2, <4>1, SignalWakes, Zenon DEF FinishReturns
      <4> QED
        BY <3>1, <4>2, Zenon DEF Woken, Up
    <3>3. CASE SignalBlocks
      <4>1. mu'.k = mu.k
        BY <3>3, Signals, Zenon DEF SignalBlocks, Lock
      <4> QED
        BY <3>1, <4>1, LockKinds, Zenon DEF Woken, Up
    <3> QED
      BY <3>1, <3>2, <3>3, Zenon
  <2> QED
    BY <1>4, <2>1, <2>2, <2>3 DEF Completion
<1>5. CASE retryShutdown \/ Shutdown
  BY <1>5, Zenon DEF retryShutdown, Shutdown, Woken, Signalled, Up
<1>6. CASE ProcessEnds
  BY <1>6, Zenon DEF ProcessEnds, Volatile, Woken, Up
<1>7. CASE UNCHANGED vars
  BY <1>7, Zenon DEF vars, proc, Woken, Signalled, Up
<1> QED
  BY <1>1, <1>2, <1>3, <1>4, <1>5, <1>6, <1>7 DEF Next

LEMMA WInit == Init => WInv
<1> SUFFICES ASSUME Init PROVE WInv
  OBVIOUS
<1>1. \A r \in Reqs : st[r] \in {"accepted", "new"}
  BY Zenon DEF Init
<1>2. life = "down" /\ ~disk.set /\ rec.old = FALSE
  BY Zenon DEF Init, NoRec
<1> QED
  BY <1>1, <1>2, Zenon DEF WInv, Drains, ListedLive, EmptyIsZero, ListedInFlight, Woken, Loaded, Up

LEMMA WStep == QInv /\ AInv /\ SInv /\ UInv /\ Counted /\ WInv /\ [Next]_vars => WInv'
  BY DrainsStep, ListedInFlightStep, WokenStep, ErrorsStay DEF WInv

\* WInv holds in every reachable state.
LEMMA WAlways == Spec => []WInv
  BY WInit, WStep, QAlways, AAlways, SAlways, UAlways, CountedAlways, PTL DEF Spec

\* Unless the process is killed in the window in which the recovery holds requests that
\* are not in storage, no caller of Offer stays asleep beside an empty queue:
\* every finished item is signalled, a cancelled waiter leaves the signal to the others
\* as long as there are any, and an empty queue counts as empty, whatever the restarts did to its size.
THEOREM NoStrandedProducerAlways == ASSUME ~RecoveryCrashes PROVE Spec => []NoStrandedProducer
<1>0. ch = 0 => ch # 1
  OBVIOUS
<1>1. WInv => NoStrandedProducer
  BY <1>0, Zenon DEF WInv, Woken, Signalled, NoStrandedProducer
<1> QED
  BY <1>1, WAlways, PTL

=============================================================================
