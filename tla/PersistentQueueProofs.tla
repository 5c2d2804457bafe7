----------------------- MODULE PersistentQueueProofs -----------------------
(***************************************************************************)
(* Proofs about the persistent queue, for any set of requests, consumers,  *)
(* capacity, number of kills and number of storage errors.                 *)
(***************************************************************************)
EXTENDS PersistentQueue, FiniteSetTheorems, TLAPS

\* What the proofs use of the assumption on the constants.
LEMMA Bounds ==
  /\ MaxIndex \in Nat /\ MaxErrs \in Nat /\ MaxCrashes \in Nat
  /\ Len(OldQueue) \in 0..MaxIndex /\ OldRead \in 0..Len(OldQueue)
  /\ NoValue \notin Reqs
  BY ConstantsOK DEF ConstantsOK

\* A new item takes the write index ...
LEMMA WriteUpdate ==
  ASSUME NEW m \in Metadata, NEW x \in 0..MaxIndex, NEW y \in Nat
  PROVE  /\ [m EXCEPT !.wi = x, !.size = y] \in Metadata
         /\ [m EXCEPT !.wi = x, !.size = y].ri = m.ri
         /\ [m EXCEPT !.wi = x, !.size = y].wi = x
         /\ [m EXCEPT !.wi = x, !.size = y].cdi = m.cdi
  BY Zenon DEF Metadata

\* ... and a dispatched one the read index.
LEMMA ReadUpdate ==
  ASSUME NEW m \in Metadata, NEW i \in Index
  PROVE  LET n == [m EXCEPT !.ri = i + 1, !.cdi = @ \cup {i}]
         IN  n \in Metadata /\ n.ri = i + 1 /\ n.wi = m.wi /\ n.cdi = m.cdi \cup {i}
<1>1. i + 1 \in 0..MaxIndex /\ m.cdi \cup {i} \in SUBSET Index
  BY Bounds DEF Metadata, Index
<1>2. ASSUME NEW x \in 0..MaxIndex, NEW y \in SUBSET Index
      PROVE  LET n == [m EXCEPT !.ri = x, !.cdi = y]
             IN  n \in Metadata /\ n.ri = x /\ n.wi = m.wi /\ n.cdi = y
  BY Zenon DEF Metadata
<1> QED
  BY Zenon, <1>1, <1>2

\* What the holder of the lock does next.
LEMMA LockKinds ==
  /\ Free.k = "free"
  /\ \A c : Loop(c).k = "loop"
  /\ \A c, i : Drop(c, i).k = "drop" /\ Drop(c, i).i = i /\ Drop(c, i).c = c
  /\ \A i : Finish(i).k = "done" /\ Finish(i).i = i
  /\ \A c \in Consumers \cup {NoValue}, i \in 0..MaxIndex :
       Loop(c) \in Lock /\ Drop(c, i) \in Lock /\ Finish(i) \in Lock
  BY Bounds DEF Free, Loop, Drop, Finish, Lock, Phases

-----------------------------------------------------------------------------
(* The storage client. *)

\* Writing the metadata keeps the type of storage.
LEMMA SetMetaFacts ==
  ASSUME NEW d \in Disk, NEW m \in Metadata
  PROVE  /\ SetMeta(d, m) \in Disk
         /\ SetMeta(d, m).set /\ SetMeta(d, m).meta = m
         /\ SetMeta(d, m).item = d.item /\ SetMeta(d, m).legacy = d.legacy
  BY Zenon DEF SetMeta, Disk

\* Writing one item keeps the type of storage.
LEMMA SetItemFacts ==
  ASSUME NEW d \in Disk, NEW i \in Index, NEW r \in Value
  PROVE  /\ SetItem(d, i, r) \in Disk
         /\ SetItem(d, i, r).set = d.set /\ SetItem(d, i, r).meta = d.meta
         /\ SetItem(d, i, r).item = [d.item EXCEPT ![i] = r]
         /\ SetItem(d, i, r).legacy = d.legacy
  BY Zenon DEF SetItem, Disk

\* Deleting items keeps the type of storage and empties those indexes.
LEMMA DeleteItemsFacts ==
  ASSUME NEW d \in Disk, NEW S
  PROVE  /\ DeleteItems(d, S) \in Disk
         /\ DeleteItems(d, S).set = d.set /\ DeleteItems(d, S).meta = d.meta
         /\ DeleteItems(d, S).item = [i \in Index |-> IF i \in S THEN NoValue ELSE d.item[i]]
         /\ DeleteItems(d, S).legacy = d.legacy
  BY Zenon DEF DeleteItems, Disk, Value

\* A transaction is applied or not, and an error is counted within its bound.
LEMMA BatchFacts ==
  ASSUME disk \in Disk, errs \in 0..MaxErrs,
         NEW new \in Disk, NEW o, Batch(new, o)
  PROVE  /\ disk' \in Disk /\ errs' \in 0..MaxErrs /\ errs <= errs'
         /\ o \in Outcome /\ (closed => o = "fail")
         /\ disk' = disk \/ disk' = new
  BY Bounds DEF Batch, Outcome

-----------------------------------------------------------------------------
(* Types and the reference count of the storage client. *)

\* Indexes never pass each other, and what is in flight was read.
Order ==
  /\ meta.ri <= meta.wi /\ disk.meta.ri <= disk.meta.wi
  /\ \A f \in flight : f.idx < meta.ri

\* Before the consumers run there is one reference, and none in a dead process.
Quiet ==
  ~Up => /\ mu = Free /\ flight = {} /\ ~stopped /\ ~closed
         /\ refClient = IF life = "down" THEN 0 ELSE 1

QInv == TypeOK /\ Order /\ IsFiniteSet(flight) /\ Quiet /\ ClientClosedLast

\* What is in flight has an index of its own, below the read and the write index.
LEMMA InFlight ==
  ASSUME QInv, NEW f \in flight
  PROVE  f \in Entry /\ f.idx \in Index /\ f.idx # meta.ri /\ f.idx # meta.wi
<1>1. f \in Entry /\ f.idx \in Index
  BY Zenon DEF QInv, TypeOK, Entry
<1>2. meta.ri \in Nat /\ meta.wi \in Nat /\ meta.ri <= meta.wi /\ f.idx < meta.ri
  BY Bounds DEF QInv, TypeOK, Order, Metadata
<1> QED
  BY <1>1, <1>2 DEF Index

\* The state every action on storage starts from.
LEMMA Stored ==
  ASSUME QInv
  PROVE  /\ disk \in Disk /\ errs \in 0..MaxErrs /\ meta \in Metadata
         /\ meta.ri \in Nat /\ meta.wi \in 0..MaxIndex /\ meta.ri <= meta.wi
  BY Bounds DEF QInv, TypeOK, Metadata, Order

\* The metadata of an empty queue and the free lock are well typed.
LEMMA EmptyTypes == EmptyMetadata \in Metadata /\ Free \in Lock
                    /\ NoRec \in [old : BOOLEAN, di : SUBSET Index, got : SUBSET Entry]
  BY Bounds DEF EmptyMetadata, Metadata, Free, Lock, Phases, NoRec

\* The initial state, legacy contents included.
LEMMA QInit == Init => QInv
<1> SUFFICES ASSUME Init PROVE QInv
  OBVIOUS
<1>1. disk \in Disk
  <2>1. \A i \in Index : i < Len(OldQueue) => OldQueue[i+1] \in Reqs
    BY ConstantsOK DEF ConstantsOK, Index
  <2>2. disk.item \in [Index -> Value]
    BY <2>1, Zenon DEF Value, Init
  <2> QED
    BY <2>2, EmptyTypes, ConstantsOK DEF Init, ConstantsOK, Disk
<1>2. st \in [Reqs -> Stages]
  BY Zenon DEF Stages, Init
<1>3. errs \in 0..MaxErrs /\ crashes \in 0..MaxCrashes
  BY ConstantsOK DEF ConstantsOK, Init
<1>4. TypeOK
  <2>1. waiting \in Nat /\ ch \in 0..1
    BY DEF Init
  <2> QED
    BY Zenon, <1>1, <1>2, <1>3, <2>1, EmptyTypes DEF TypeOK, Init, Lives
<1>5. Order
  BY DEF Order, Init, EmptyMetadata
<1> QED
  BY <1>4, <1>5, FS_EmptySet, Zenon DEF QInv, Quiet, ClientClosedLast, Up, Init

\* initPersistentContiguousStorage with metadata under the new key keeps QInv.
LEMMA loadQueueMetadataQ ==
  ASSUME QInv, NEW o \in Outcome, loadQueueMetadata(o) PROVE QInv'
<1> USE DEF QInv
<1>1. disk' \in Disk /\ errs' \in 0..MaxErrs /\ disk' = disk
  BY BatchFacts, Zenon DEF loadQueueMetadata, TypeOK
<1>2. meta' \in Metadata /\ meta'.ri <= meta'.wi
  BY EmptyTypes DEF loadQueueMetadata, TypeOK, Disk, Order, EmptyMetadata
<1>3. rec' \in [old : BOOLEAN, di : SUBSET Index, got : SUBSET Entry]
  BY Zenon, <1>2, EmptyTypes DEF loadQueueMetadata, NoRec, Metadata
<1>4. TypeOK'
  BY Zenon, <1>1, <1>2, <1>3, EmptyTypes DEF loadQueueMetadata, TypeOK, Volatile, Lives
<1>5. Order'
  BY <1>1, <1>2, Zenon DEF loadQueueMetadata, Order, Volatile
<1> QED
  BY <1>4, <1>5, FS_EmptySet
  DEF loadQueueMetadata, Volatile, Quiet, ClientClosedLast, Held, Up, Free

\* The same with the indexes of an older release.
LEMMA loadLegacyMetadataQ ==
  ASSUME QInv, NEW oi \in Outcome, NEW od \in Outcome, loadLegacyMetadata(oi, od) PROVE QInv'
<1> USE DEF QInv
<1>1. meta' \in Metadata /\ meta'.ri <= meta'.wi
  <2>1. CASE meta' = EmptyMetadata
    BY <2>1, EmptyTypes DEF EmptyMetadata
  <2>2. CASE meta' = [EmptyMetadata EXCEPT !.ri = OldRead, !.wi = Len(OldQueue)]
    <3>1. meta' = [ri |-> OldRead, wi |-> Len(OldQueue), size |-> 0, cdi |-> {}]
      BY Zenon, <2>2 DEF EmptyMetadata
    <3> QED
      BY <3>1, Bounds DEF Metadata
  <2> QED
    BY <2>1, <2>2, Zenon DEF loadLegacyMetadata
<1>2. rec' \in [old : BOOLEAN, di : SUBSET Index, got : SUBSET Entry]
  <2>1. 0..OldRead-1 \subseteq Index
    BY Bounds DEF Index
  <2> QED
    BY Zenon, <2>1 DEF loadLegacyMetadata, NoRec
<1>3. errs' \in 0..MaxErrs
  BY Bounds DEF loadLegacyMetadata, TypeOK
<1>4. TypeOK'
  BY Zenon, <1>1, <1>2, <1>3, EmptyTypes DEF loadLegacyMetadata, TypeOK, Volatile, Lives
<1>5. Order'
  BY <1>1, Zenon DEF loadLegacyMetadata, Order, Volatile
<1> QED
  BY <1>4, <1>5, FS_EmptySet, Zenon
  DEF loadLegacyMetadata, Volatile, Quiet, ClientClosedLast, Held, Up, Free

\* Reading the dispatched items at the start keeps QInv.
LEMMA retrieveBatchQ ==
  ASSUME QInv, NEW o \in Outcome, retrieveBatch(o) PROVE QInv'
<1> USE DEF QInv
<1>1. disk' \in Disk /\ errs' \in 0..MaxErrs /\ disk' = disk
  BY BatchFacts, Zenon DEF retrieveBatch, TypeOK
<1>2. rec' \in [old : BOOLEAN, di : SUBSET Index, got : SUBSET Entry]
  <2>1. {[idx |-> i, req |-> disk.item[i]] : i \in {j \in rec.di : disk.item[j] # NoValue}} \subseteq Entry
    BY DEF TypeOK, Disk, Entry
  <2> QED
    BY <2>1, Zenon DEF retrieveBatch, TypeOK
<1>3. TypeOK'
  BY <1>1, <1>2, Zenon DEF retrieveBatch, TypeOK, Lives
<1> QED
  BY <1>1, <1>3, Zenon DEF retrieveBatch, Order, Quiet, ClientClosedLast, Up

\* Deleting the dispatched items at the start keeps QInv.
LEMMA cleanupBatchQ ==
  ASSUME QInv, NEW o \in Outcome, cleanupBatch(o) PROVE QInv'
<1> USE DEF QInv
<1>1. DeleteItems(disk, rec.di) \in Disk /\ DeleteItems(disk, rec.di).meta = disk.meta
  BY Zenon, DeleteItemsFacts DEF TypeOK
<1>2. disk' \in Disk /\ errs' \in 0..MaxErrs /\ disk'.meta = disk.meta
  BY <1>1, BatchFacts, Zenon DEF cleanupBatch, TypeOK
<1>3. TypeOK'
  BY <1>2, Zenon DEF cleanupBatch, TypeOK, Lives
<1> QED
  BY <1>2, <1>3, Zenon DEF cleanupBatch, Order, Quiet, ClientClosedLast, Up

\* A transaction that writes an item behind the last one together with metadata.
LEMMA PutFacts ==
  ASSUME disk \in Disk, errs \in 0..MaxErrs, NEW m \in Metadata, m.ri <= m.wi,
         disk.meta.ri <= disk.meta.wi,
         NEW i \in Index, NEW r \in Value, NEW o, Batch(SetItem(SetMeta(disk, m), i, r), o)
  PROVE  disk' \in Disk /\ errs' \in 0..MaxErrs /\ disk'.meta.ri <= disk'.meta.wi
<1>1. SetMeta(disk, m) \in Disk /\ SetMeta(disk, m).meta = m
  BY SetMetaFacts, Zenon
<1>2. SetItem(SetMeta(disk, m), i, r) \in Disk /\ SetItem(SetMeta(disk, m), i, r).meta = m
  BY Zenon, <1>1, SetItemFacts
<1> QED
  BY <1>2, BatchFacts, Zenon

\* Putting a dispatched item back into the queue keeps QInv.
LEMMA putBackQ ==
  ASSUME QInv, NEW e \in Entry, NEW o \in Outcome, putBack(e, o) PROVE QInv'
<1> USE DEF QInv
<1> DEFINE m == [meta EXCEPT !.wi = @ + 1]
<1>1. m \in Metadata /\ m.ri <= m.wi /\ m.ri = meta.ri /\ meta.wi \in Index
  <2>1. meta \in Metadata /\ meta.wi < MaxIndex /\ meta.ri <= meta.wi /\ MaxIndex \in Nat
    BY Bounds, Zenon DEF putBack, TypeOK, Order
  <2> QED
    BY <2>1 DEF Metadata, Index
<1>2. disk' \in Disk /\ errs' \in 0..MaxErrs /\ disk'.meta.ri <= disk'.meta.wi
  BY Zenon, <1>1, PutFacts DEF putBack, TypeOK, Order, Entry
<1>3. TypeOK'
  BY <1>1, <1>2, Zenon DEF putBack, TypeOK
<1> QED
  BY <1>1, <1>2, <1>3, Zenon DEF putBack, Order, Quiet, ClientClosedLast, Up

\* Skipping an item that cannot be decoded keeps QInv.
LEMMA skipUndecodableQ ==
  ASSUME QInv, NEW e \in Entry, skipUndecodable(e) PROVE QInv'
  BY Bounds DEF QInv, skipUndecodable, TypeOK, Order, Quiet, ClientClosedLast, Up

\* The end of the recovery, where the client gets its first reference, keeps QInv.
LEMMA recoveredQ ==
  ASSUME QInv, recovered PROVE QInv'
<1> USE DEF QInv
<1>1. meta' \in Metadata /\ meta'.ri = meta.ri /\ meta'.wi = meta.wi
  BY Zenon DEF recovered, TypeOK, Metadata
<1>2. TypeOK'
  BY <1>1, Zenon DEF recovered, TypeOK, Lives
<1>3. Order'
  BY <1>1, Zenon DEF recovered, Order
<1> QED
  BY <1>2, <1>3, FS_EmptySet DEF recovered, Quiet, ClientClosedLast, Held, Up, Free

\* Writing the metadata of an older release under the new key keeps QInv.
LEMMA migrateQ ==
  ASSUME QInv, NEW o \in Outcome, migrate(o) \/ purgeLegacy(o) PROVE QInv'
<1> USE DEF QInv
<1>1. /\ SetMeta(disk, meta) \in Disk /\ SetMeta(disk, meta).meta = meta
      /\ [disk EXCEPT !.legacy = FALSE] \in Disk
      /\ [disk EXCEPT !.legacy = FALSE].meta = disk.meta
  BY Zenon, SetMetaFacts DEF TypeOK, Disk
<1>2. /\ disk' \in Disk /\ errs' \in 0..MaxErrs
      /\ disk'.meta = disk.meta \/ disk'.meta = meta
  BY Zenon, <1>1, BatchFacts DEF TypeOK, migrate, purgeLegacy
<1>3. TypeOK'
  BY <1>2, Zenon DEF migrate, purgeLegacy, TypeOK, Lives
<1>4. Order'
  BY <1>2, Zenon DEF migrate, purgeLegacy, Order
<1> QED
  BY <1>3, <1>4, FS_EmptySet DEF migrate, purgeLegacy, Quiet, ClientClosedLast, Held, Up, Free

\* A signal to the consumers keeps their type.
LEMMA SignalElementsType ==
  ASSUME TypeOK, SignalElements
  PROVE  cons' \in [Consumers -> {"awake", "waiting", "busy", "exited"}]
  BY Zenon DEF TypeOK, SignalElements

\* A signal to the producers keeps their type.
LEMMA SignalSpaceType ==
  ASSUME TypeOK, SignalSpace
  PROVE  st' \in [Reqs -> Stages] /\ waiting' \in Nat /\ ch' \in 0..1
<1>1. st' \in [Reqs -> Stages]
  BY Zenon DEF TypeOK, SignalSpace, Stages
<1>2. waiting' \in Nat /\ ch' \in 0..1
  BY DEF TypeOK, SignalSpace
<1> QED
  BY <1>1, <1>2, Zenon

\* Every step of Offer keeps QInv.
LEMMA ProducerQ ==
  ASSUME QInv, NEW r \in Reqs, Producer(r) PROVE QInv'
<1> USE DEF QInv
<1>1. CASE OfferFull(r) \/ TakeSignal(r) \/ OfferCancel(r)
  <2>1. st' \in [Reqs -> Stages]
    BY <1>1, Zenon DEF OfferFull, TakeSignal, OfferCancel, TypeOK, Stages
  <2>2. waiting' \in Nat /\ ch' \in 0..1
    BY <1>1 DEF OfferFull, TakeSignal, OfferCancel, TypeOK
  <2>3. UNCHANGED <<proc, disk, done, errs, crashes>>
    BY <1>1, Zenon DEF OfferFull, TakeSignal, OfferCancel
  <2> QED
    BY <2>1, <2>2, <2>3, Zenon DEF proc, TypeOK, Order, Quiet, ClientClosedLast, Held, Up
<1>2. ASSUME NEW o \in Outcome, OfferPut(r, o) PROVE QInv'
  <2> DEFINE m == [meta EXCEPT !.wi = @ + 1, !.size = @ + ItemsOf[r]]
  <2>1. ItemsOf[r] \in Nat
    BY ConstantsOK, Zenon DEF ConstantsOK
  <2>2. m \in Metadata /\ m.ri <= m.wi /\ m.ri = meta.ri /\ meta.wi \in Index
    <3>1. meta.wi \in 0..MaxIndex-1 /\ meta.ri \in 0..MaxIndex /\ meta.ri <= meta.wi
      BY <1>2, Bounds DEF OfferPut, TypeOK, Metadata, Order
    <3>2. meta \in Metadata /\ meta.wi + 1 \in 0..MaxIndex /\ meta.size + ItemsOf[r] \in Nat
      BY <2>1, <3>1, Bounds DEF TypeOK, Metadata
    <3>3. m \in Metadata /\ m.ri = meta.ri /\ m.wi = meta.wi + 1
      BY <3>2, WriteUpdate, ZenonT(40)
    <3> QED
      BY <3>1, <3>3 DEF Index
  <2>3. disk' \in Disk /\ errs' \in 0..MaxErrs /\ disk'.meta.ri <= disk'.meta.wi
    BY Zenon, <1>2, <2>2, PutFacts DEF OfferPut, TypeOK, Order, Value
  <2>4. cons' \in [Consumers -> {"awake", "waiting", "busy", "exited"}]
    BY <1>2, SignalElementsType, Zenon DEF OfferPut, TypeOK
  <2>5. TypeOK'
    BY <1>2, <2>2, <2>3, <2>4, Zenon DEF OfferPut, TypeOK, Stages
  <2> QED
    BY <1>2, <2>2, <2>3, <2>5, Zenon DEF OfferPut, Order, Quiet, ClientClosedLast, Held, Up
<1> QED
  BY <1>1, <1>2, Zenon DEF Producer

\* Dispatching an item adds one request in flight and one reference.
LEMMA getNextItemQ ==
  ASSUME QInv, NEW c \in Consumers, NEW o \in Outcome, getNextItem(c, o) PROVE QInv'
<1> USE DEF QInv
<1> DEFINE i == meta.ri
           m == [meta EXCEPT !.ri = @ + 1, !.cdi = @ \cup {i}]
           f == [idx |-> i, req |-> disk.item[i]]
<1>1. i \in Index /\ meta \in Metadata /\ i + 1 \in 0..MaxIndex /\ i + 1 <= meta.wi
  <2>1. meta \in Metadata /\ meta.ri < meta.wi /\ MaxIndex \in Nat
    BY Bounds DEF getNextItem, TypeOK, Order, Metadata
  <2> QED
    BY <2>1 DEF Metadata, Index
<1>3. m \in Metadata /\ m.ri = i + 1 /\ m.wi = meta.wi
  BY Zenon, <1>1, ReadUpdate
<1>4. SetMeta(disk, m) \in Disk /\ SetMeta(disk, m).meta = m
  BY <1>3, SetMetaFacts, Zenon DEF TypeOK
<1>5. /\ disk' \in Disk /\ errs' \in 0..MaxErrs /\ disk'.meta.ri <= disk'.meta.wi
      /\ closed => o = "fail"
  BY Zenon, <1>1, <1>3, <1>4, BatchFacts DEF TypeOK, Order, getNextItem
<1>6. f \in Entry /\ f.idx = i /\ f \notin flight
  BY <1>1 DEF Entry, TypeOK, Disk, Order, Metadata
<1>7. meta' = m /\ UNCHANGED <<life, stopped, closed, rec, st, waiting, ch, done, crashes>>
  BY Zenon DEF getNextItem
<1>8. CASE o = "ok" /\ (disk.item[i] # NoValue \/ NilDecodes)
  <2>1. /\ refClient' = refClient + 1 /\ flight' = flight \cup {f}
        /\ cons' = [cons EXCEPT ![c] = "busy"] /\ mu' = Free
    BY <1>8, Zenon DEF getNextItem
  <2>2. TypeOK'
    BY <1>3, <1>5, <1>6, <1>7, <2>1, EmptyTypes DEF TypeOK
  <2>3. \A g \in flight' : g.idx < meta'.ri
    BY <1>1, <1>3, <1>6, <1>7, <2>1 DEF Order, TypeOK, Metadata, Entry, Index
  <2>4. IsFiniteSet(flight') /\ Cardinality(flight') = Cardinality(flight) + 1
    BY <1>6, <2>1, FS_AddElement, Zenon
  <2>5. mu.k # "done" /\ Up
    BY LockKinds, Zenon DEF getNextItem, Reading
  <2>6. ClientClosedLast'
    BY <1>5, <1>7, <1>8, <2>1, <2>4, <2>5, FS_CardinalityType
    DEF ClientClosedLast, Held, Up, Free, TypeOK
  <2> QED
    BY <1>1, <1>3, <1>5, <1>7, <2>2, <2>3, <2>4, <2>5, <2>6, Zenon DEF Order, Quiet, Up
<1>9. CASE ~(o = "ok" /\ (disk.item[i] # NoValue \/ NilDecodes))
  <2>1. mu' = Drop(c, i) /\ UNCHANGED <<refClient, flight, cons>>
    BY <1>9, Zenon DEF getNextItem
  <2>2. mu' \in Lock /\ mu'.k = "drop"
    BY <1>1, <2>1, LockKinds, Bounds DEF Index
  <2>3. TypeOK'
    BY <1>3, <1>5, <1>7, <2>1, <2>2, Zenon DEF TypeOK
  <2>4. \A g \in flight' : g.idx < meta'.ri
    BY <1>1, <1>3, <1>7, <2>1 DEF Order, TypeOK, Metadata, Entry, Index
  <2>5. mu.k # "done" /\ Up
    BY LockKinds, Zenon DEF getNextItem, Reading
  <2>6. ClientClosedLast'
    BY <1>7, <2>1, <2>2, <2>5, Zenon DEF ClientClosedLast, Held, Up
  <2> QED
    BY <1>1, <1>3, <1>5, <1>7, <2>1, <2>3, <2>4, <2>5, <2>6, Zenon DEF Order, Quiet, Up
<1> QED
  BY <1>8, <1>9, Zenon

\* Every step of a consumer keeps QInv.
LEMMA ConsumerQ ==
  ASSUME QInv, NEW c \in Consumers, Consumer(c) PROVE QInv'
<1> USE DEF QInv
<1>1. CASE ReadStopped(c)
  BY <1>1, Zenon DEF ReadStopped, TypeOK, Order, Quiet, ClientClosedLast, Held, Up
<1>2. CASE ReadWait(c)
  <2>1. mu.k # "done" /\ Up
    BY <1>2, LockKinds, Zenon DEF ReadWait, Reading
  <2> QED
    BY <1>2, <2>1, EmptyTypes, Zenon DEF ReadWait, TypeOK, Order, Quiet, ClientClosedLast, Held, Up, Free
<1>3. CASE consumeFunc(c)
  BY <1>3, Zenon DEF consumeFunc, TypeOK, Order, Quiet, ClientClosedLast, Held, Up
<1> QED
  BY <1>1, <1>2, <1>3, getNextItemQ, Zenon DEF Consumer

\* Giving back a reference keeps the count equal to what is held.
LEMMA unrefFacts ==
  ASSUME refClient \in Nat, closed \in BOOLEAN, refClient = Held, closed <=> Held = 0,
         Held \in Nat, Held > 0, unrefClient, Held' = Held - 1
  PROVE  refClient' \in Nat /\ closed' \in BOOLEAN /\ refClient' = Held' /\ (closed' <=> Held' = 0)
<1>1. refClient' \in Nat /\ refClient' = Held' /\ (refClient = 1 <=> Held' = 0) /\ Held # 0
  BY DEF unrefClient
<1>2. closed' = (refClient = 1)
  BY <1>1, Zenon DEF unrefClient
<1> QED
  BY <1>1, <1>2, Zenon

\* onDone moves a reference from the request in flight to the holder of the lock.
LEMMA onDoneQ ==
  ASSUME QInv, NEW f \in Entry, onDone(f) PROVE QInv'
<1> USE DEF QInv
<1>1. /\ IsFiniteSet(flight') /\ Cardinality(flight') = Cardinality(flight) - 1
      /\ Cardinality(flight) \in Nat
  BY FS_RemoveElement, FS_CardinalityType, Zenon DEF onDone
<1>2. Items(f.req) \in Nat /\ f.idx \in 0..MaxIndex /\ f.req \in Value
  BY ConstantsOK DEF ConstantsOK, Items, Entry, Value, Index
<1>3. meta.size \in Nat /\ Minus(meta.size, Items(f.req)) \in Nat
  BY <1>2 DEF Minus, TypeOK, Metadata
<1>4. meta' \in Metadata /\ meta'.ri = meta.ri /\ meta'.wi = meta.wi
  BY <1>3, Zenon DEF onDone, TypeOK, Metadata
<1>5. mu' \in Lock /\ mu'.k = "done" /\ mu.k = "free"
  BY <1>2, LockKinds, Zenon DEF onDone
<1>6. TypeOK'
  BY <1>2, <1>4, <1>5, Zenon DEF onDone, TypeOK
<1>7. Order'
  BY <1>4, Zenon DEF onDone, Order
<1>8. ClientClosedLast'
  BY <1>1, <1>5 DEF onDone, ClientClosedLast, Held, Up
<1> QED
  BY <1>1, <1>6, <1>7, <1>8, Zenon DEF onDone, Quiet, Up

\* onDone of a request given back at shutdown drops its reference.
LEMMA onDoneShutdownQ ==
  ASSUME QInv, NEW f \in Entry, onDoneShutdown(f) PROVE QInv'
<1> USE DEF QInv
<1>1. /\ IsFiniteSet(flight') /\ Cardinality(flight') = Cardinality(flight) - 1
      /\ Cardinality(flight) \in Nat /\ Cardinality(flight') \in Nat
  BY FS_RemoveElement, FS_CardinalityType, Zenon DEF onDoneShutdown
<1>2. Held \in Nat /\ Held > 0 /\ Held' = Held - 1
  BY <1>1 DEF onDoneShutdown, Held
<1>3. Up /\ Up'
  BY Zenon DEF onDoneShutdown, Up
<1>4. refClient' \in Nat /\ closed' \in BOOLEAN /\ refClient' = Held' /\ (closed' <=> Held' = 0)
  BY <1>2, <1>3, unrefFacts, Zenon DEF onDoneShutdown, ClientClosedLast, TypeOK
<1>5. TypeOK'
  BY <1>4, Zenon DEF onDoneShutdown, TypeOK
<1> QED
  BY <1>1, <1>3, <1>4, <1>5, Zenon DEF onDoneShutdown, Order, Quiet, ClientClosedLast

\* Drained only resets a size.
LEMMA DrainedFacts ==
  ASSUME NEW m \in Metadata
  PROVE  /\ Drained(m) \in Metadata
         /\ Drained(m).ri = m.ri /\ Drained(m).wi = m.wi /\ Drained(m).cdi = m.cdi
  BY Zenon DEF Drained, Metadata

\* Removing a finished item from storage, and its fallbacks, keep QInv; the last step drops the reference.
LEMMA itemDispatchingFinishQ ==
  ASSUME QInv, NEW o \in Outcome, itemDispatchingFinish(o) PROVE QInv'
<1> USE DEF QInv
<1> DEFINE n == [meta EXCEPT !.cdi = @ \ {mu.i}]
<1>1. n \in Metadata /\ n.ri = meta.ri /\ n.wi = meta.wi
  BY Zenon DEF TypeOK, Metadata
<1>2. meta' \in Metadata /\ meta'.ri = meta.ri /\ meta'.wi = meta.wi
  BY Zenon, <1>1, DrainedFacts DEF itemDispatchingFinish, TypeOK
<1>3. /\ disk' \in Disk /\ errs' \in 0..MaxErrs /\ disk'.meta.ri <= disk'.meta.wi
  <2> DEFINE d == DeleteItems(disk, {mu.i})
  <2>1. d \in Disk /\ d.meta = disk.meta
    BY Zenon, DeleteItemsFacts DEF TypeOK
  <2>2. /\ SetMeta(d, meta') \in Disk /\ SetMeta(d, meta').meta = meta'
        /\ SetMeta(disk, meta') \in Disk /\ SetMeta(disk, meta').meta = meta'
    BY <1>2, <2>1, SetMetaFacts DEF TypeOK
  <2>3. mu.ph \in {"both", "delete", "set"}
    BY Zenon DEF itemDispatchingFinish, Phases
  <2>4. PICK new \in {SetMeta(d, meta'), d, SetMeta(disk, meta')} : Batch(new, o)
    BY <2>3, Zenon DEF itemDispatchingFinish
  <2>5. new \in Disk /\ new.meta.ri <= new.meta.wi
    BY <1>2, <2>1, <2>2, <2>4, Zenon DEF Order
  <2> QED
    BY <2>4, <2>5, BatchFacts, Zenon DEF TypeOK, Order
<1>4. Up /\ Up' /\ Cardinality(flight) \in Nat
  BY FS_CardinalityType, Zenon DEF itemDispatchingFinish, Up
<1>5. CASE FinishReturns
  <2>1. st' \in [Reqs -> Stages] /\ waiting' \in Nat /\ ch' \in 0..1
    BY <1>5, SignalSpaceType, Zenon DEF FinishReturns
  <2>2. CASE mu.k = "drop"
    <3>1. mu' \in Lock /\ mu'.k = "loop" /\ UNCHANGED <<refClient, closed>>
      BY <1>5, <2>2, LockKinds, Bounds DEF FinishReturns, TypeOK, Lock
    <3>2. TypeOK'
      BY <1>2, <1>3, <2>1, <3>1, Zenon DEF itemDispatchingFinish, TypeOK
    <3> QED
      BY Zenon, <1>2, <1>3, <1>4, <2>2, <3>1, <3>2
      DEF itemDispatchingFinish, Order, Quiet, ClientClosedLast, Held
  <2>3. CASE mu.k = "done"
    <3>1. mu' = Free /\ unrefClient
      BY <1>5, <2>3, Zenon DEF FinishReturns
    <3>2. Held \in Nat /\ Held > 0 /\ Held' = Held - 1
      BY <1>4, <2>3, <3>1, LockKinds DEF itemDispatchingFinish, Held
    <3>3. refClient' \in Nat /\ closed' \in BOOLEAN /\ refClient' = Held' /\ (closed' <=> Held' = 0)
      BY <1>4, <3>1, <3>2, unrefFacts, Zenon DEF ClientClosedLast, TypeOK
    <3>4. TypeOK'
      BY <1>2, <1>3, <2>1, <3>1, <3>3, EmptyTypes, Zenon DEF itemDispatchingFinish, TypeOK
    <3> QED
      BY Zenon, <1>2, <1>3, <1>4, <3>3, <3>4 DEF itemDispatchingFinish, Order, Quiet, ClientClosedLast
  <2> QED
    BY <2>2, <2>3, Zenon DEF itemDispatchingFinish
<1>6. ASSUME NEW ph \in Phases \cup {"signal"}, mu' = [mu EXCEPT !.ph = ph],
             UNCHANGED <<refClient, closed, st, ch>>, waiting' \in Nat
      PROVE  QInv'
  <2>1. mu' \in Lock /\ mu'.k = mu.k
    BY <1>6, Zenon DEF TypeOK, Lock
  <2>2. TypeOK'
    BY <1>2, <1>3, <1>6, <2>1, Zenon DEF itemDispatchingFinish, TypeOK
  <2> QED
    BY <1>2, <1>3, <1>4, <1>6, <2>1, <2>2, Zenon
    DEF itemDispatchingFinish, Order, Quiet, ClientClosedLast, Held
<1>7. CASE SignalBlocks
  <2>1. waiting' \in Nat
    BY <1>7 DEF SignalBlocks, TypeOK
  <2> QED
    BY <1>6, <1>7, <2>1, Zenon DEF SignalBlocks
<1> QED
  BY <1>5, <1>6, <1>7, Zenon DEF itemDispatchingFinish, Phases, TypeOK

\* Shutdown, and the end of the process, keep QInv.
LEMMA LifeQ ==
  ASSUME QInv, retryShutdown \/ Shutdown \/ ProcessEnds PROVE QInv'
<1> USE DEF QInv
<1>1. CASE retryShutdown
  BY <1>1, Zenon DEF retryShutdown, TypeOK, Lives, Order, Quiet, ClientClosedLast, Held, Up
<1>2. CASE Shutdown
  <2>1. Up /\ Up' /\ Cardinality(flight) \in Nat
    BY <1>2, FS_CardinalityType, Zenon DEF Shutdown, Up
  <2>2. Held \in Nat /\ Held > 0 /\ Held' = Held - 1
    BY <1>2, <2>1, LockKinds DEF Shutdown, Held
  <2>3. refClient' \in Nat /\ closed' \in BOOLEAN /\ refClient' = Held' /\ (closed' <=> Held' = 0)
    BY <1>2, <2>1, <2>2, unrefFacts, Zenon DEF Shutdown, ClientClosedLast, TypeOK
  <2>4. TypeOK'
    BY <1>2, <2>3, Zenon DEF Shutdown, TypeOK
  <2> QED
    BY <1>2, <2>1, <2>3, <2>4, Zenon DEF Shutdown, Order, Quiet, ClientClosedLast
<1>3. CASE ProcessEnds
  <2>1. TypeOK'
    <3>1. crashes' \in 0..MaxCrashes
      BY <1>3, Bounds DEF ProcessEnds, TypeOK
    <3>2. st' \in [Reqs -> Stages]
      BY <1>3, Zenon DEF ProcessEnds, TypeOK, Stages
    <3>3. waiting' \in Nat /\ ch' \in 0..1
      BY <1>3 DEF ProcessEnds
    <3> QED
      BY Zenon, <1>3, <3>1, <3>2, <3>3, EmptyTypes DEF ProcessEnds, Volatile, TypeOK, Lives
  <2>2. Order'
    BY <1>3 DEF ProcessEnds, Volatile, Order, EmptyMetadata
  <2> QED
    BY <1>3, <2>1, <2>2, FS_EmptySet, Zenon
    DEF ProcessEnds, Volatile, Quiet, ClientClosedLast, Up
<1> QED
  BY <1>1, <1>2, <1>3, Zenon

\* QInv is inductive.
LEMMA QStep == QInv /\ [Next]_vars => QInv'
<1> SUFFICES ASSUME QInv, [Next]_vars PROVE QInv'
  OBVIOUS
<1>1. CASE Recovery
  BY Zenon, <1>1, loadQueueMetadataQ, loadLegacyMetadataQ, retrieveBatchQ, cleanupBatchQ, putBackQ,
     skipUndecodableQ, recoveredQ, migrateQ DEF Recovery
<1>2. CASE \E r \in Reqs : Producer(r)
  BY <1>2, ProducerQ, Zenon
<1>3. CASE \E c \in Consumers : Consumer(c)
  BY <1>3, ConsumerQ, Zenon
<1>4. CASE Completion
  BY <1>4, onDoneQ, onDoneShutdownQ, itemDispatchingFinishQ, Zenon DEF Completion
<1>5. CASE retryShutdown \/ Shutdown \/ ProcessEnds
  BY <1>5, LifeQ, Zenon
<1>6. CASE UNCHANGED vars
  BY <1>6, Zenon DEF vars, proc, QInv, TypeOK, Order, Quiet, ClientClosedLast, Held, Up
<1> QED
  BY <1>1, <1>2, <1>3, <1>4, <1>5, <1>6, Zenon DEF Next

\* QInv holds in every reachable state.
LEMMA QAlways == Spec => []QInv
  BY QInit, QStep, PTL DEF Spec

\* Every reachable state of the queue is well typed; in particular the indexes
\* stay in their range and the reference count never goes below zero.
THEOREM TypesAlwaysOK == Spec => []TypeOK
<1>1. QInv => TypeOK
  BY Zenon DEF QInv
<1> QED
  BY <1>1, QAlways, PTL

\* However the consumers, producers, completions and Shutdown interleave, and
\* whatever storage errors occur, the storage client is closed exactly when the last
\* reference to it is given back (unrefClient), so no OnDone meets a closed client.
THEOREM ClientClosedLastAlways == Spec => []ClientClosedLast
<1>1. QInv => ClientClosedLast
  BY Zenon DEF QInv
<1> QED
  BY <1>1, QAlways, PTL

-----------------------------------------------------------------------------
(***************************************************************************)
(* An accepted request is never lost while storage reports no error: the   *)
(* proof that AcceptedSurvives is an invariant of the persistent queue     *)
(* when the process is not killed inside the recovery window.              *)
(***************************************************************************)

\* Every accepted request is finished, in storage or in the hands of the recovery, if
\* the recovery is not interrupted.
Safe == \A r \in Reqs : st[r] = "accepted" =>
          RecoveryCrashes \/ r \in done \/ Durable(r) \/ \E e \in rec.got : e.req = r

\* Dispatched indexes lie below the read index, in memory and in storage.
Listing ==
  /\ \A j \in meta.cdi : j < meta.ri
  /\ \A j \in disk.meta.cdi : j < disk.meta.ri

\* Only the recovery holds requests that storage does not.
Empty == life \notin {"cleanup", "reput"} => rec.got = {}

Same == meta.ri = disk.meta.ri /\ meta.wi = disk.meta.wi /\ meta.cdi = disk.meta.cdi

\* During the recovery, memory agrees with what was loaded, the items to put back
\* are held before they are deleted and are deleted before they are put back.
Recovering ==
  life \in {"retrieve", "cleanup", "reput", "migrate"} =>
    /\ \A j \in rec.di : j < meta.wi
    /\ disk.set => Same
    /\ rec.old => meta.cdi = {}
    /\ ~rec.old => disk.set /\ rec.di = meta.cdi
    /\ ~disk.set /\ disk.legacy =>
         meta.ri = OldRead /\ meta.wi = Len(OldQueue) /\ rec.di = 0..OldRead-1
    /\ life = "migrate" => rec.old
    /\ life = "retrieve" => \A j \in rec.di : Listed(j)
    /\ life = "cleanup" =>
         /\ \A j \in rec.di : disk.item[j] # NoValue => [idx |-> j, req |-> disk.item[j]] \in rec.got
         /\ \A x \in rec.got : Durable(x.req)
    /\ life \in {"reput", "migrate"} => \A j \in rec.di : disk.item[j] = NoValue

\* While the client is open, storage agrees with memory but for dispatched indexes
\* whose items were put back, and what is in flight is what storage holds.
Running ==
  life \in {"purge", "up", "closing"} /\ ~closed =>
    /\ disk.set /\ meta.ri = disk.meta.ri /\ meta.wi = disk.meta.wi
    /\ meta.cdi \subseteq disk.meta.cdi
    /\ \A j \in disk.meta.cdi \ meta.cdi : disk.item[j] = NoValue
    /\ \A f \in flight : disk.item[f.idx] = f.req
    /\ mu.k \in {"drop", "done"} =>
         /\ mu.i \in Index /\ mu.ph \in {"both", "signal"} /\ disk.item[mu.i] \in done \cup {NoValue}
         /\ \A f \in flight : f.idx # mu.i

SInv == Listing /\ (errs = 0 => Safe /\ Empty /\ Recovering /\ Running)

\* A step that leaves the metadata in storage equal to the one in memory.
LEMMA Agreeing ==
  ASSUME disk'.set, disk'.meta = meta',
         \A f \in flight' : disk'.item[f.idx] = f.req,
         mu'.k \in {"drop", "done"} =>
           /\ mu'.i \in Index /\ mu'.ph \in {"both", "signal"} /\ disk'.item[mu'.i] \in done' \cup {NoValue}
           /\ \A f \in flight' : f.idx # mu'.i
  PROVE  Running'
  BY Zenon DEF Running

-----------------------------------------------------------------------------
\* Without errors a transaction on an open client succeeds, on a closed one it
\* changes nothing.
LEMMA BatchOutcome ==
  ASSUME errs \in 0..MaxErrs, NEW new, NEW o, Batch(new, o), errs' = 0
  PROVE  /\ errs = 0
         /\ ~closed => o = "ok" /\ disk' = new
         /\ closed => o = "fail" /\ disk' = disk
  BY Bounds DEF Batch, Outcome

\* Nothing accepted is lost by a step that keeps, finishes or takes into the
\* recovery whatever is listed in storage, and keeps or stores what the recovery holds.
LEMMA SafeStep ==
  ASSUME Safe,
         done \subseteq done',
         \A r \in Reqs : st'[r] = "accepted" => st[r] = "accepted" \/ Durable(r)',
         \A i \in Index : disk.item[i] \in Reqs /\ Listed(i) =>
            \/ disk'.item[i] = disk.item[i] /\ Listed(i)'
            \/ disk.item[i] \in done'
            \/ \E e \in rec'.got : e.req = disk.item[i],
         \A e \in rec.got : e \in rec'.got \/ Durable(e.req)'
  PROVE  Safe'
<1> SUFFICES ASSUME NEW r \in Reqs, st'[r] = "accepted"
             PROVE  RecoveryCrashes \/ r \in done' \/ Durable(r)' \/ \E e \in rec'.got : e.req = r
  BY Zenon DEF Safe
<1>1. CASE Durable(r)'
  BY <1>1, Zenon
<1>2. CASE r \in done
  BY <1>2, Zenon
<1>3. CASE Durable(r)
  <2>1. PICK i \in Index : disk.item[i] = r /\ Listed(i)
    BY <1>3, Zenon DEF Durable
  <2> QED
    BY <2>1, Zenon DEF Durable
<1>4. CASE \E e \in rec.got : e.req = r
  BY <1>4, Zenon
<1> QED
  BY <1>1, <1>2, <1>3, <1>4, Zenon DEF Safe

\* What an older release left is listed in storage.
LEMMA SInit == Init => SInv
<1> SUFFICES ASSUME Init PROVE SInv
  OBVIOUS
<1>1. Listing /\ Empty /\ Recovering /\ Running
  BY Zenon DEF Init, Listing, Empty, Recovering, Running, EmptyMetadata, NoRec
<1>2. ASSUME NEW r \in Reqs, st[r] = "accepted" PROVE Durable(r)
  <2>1. PICK i \in 1..Len(OldQueue) : OldQueue[i] = r
    BY <1>2, Zenon DEF Init
  <2>2. i - 1 \in Index /\ i - 1 < Len(OldQueue) /\ (i - 1) + 1 = i /\ Len(OldQueue) > 0
    BY <2>1, Bounds DEF Index
  <2>3. disk.item[i-1] = r /\ Listed(i-1)
    BY Zenon, <2>1, <2>2 DEF Init, Listed
  <2> QED
    BY <2>2, <2>3, Zenon DEF Durable
<1> QED
  BY <1>1, <1>2, Zenon DEF SInv, Safe

\* Memory takes over the indexes that storage has.
LEMMA loadQueueMetadataS ==
  ASSUME QInv, SInv, NEW o \in Outcome, loadQueueMetadata(o) PROVE SInv'
<1>1. disk' = disk /\ errs \in 0..MaxErrs /\ ~closed /\ disk \in Disk
  BY BatchFacts, Zenon DEF loadQueueMetadata, QInv, TypeOK, Quiet, Up
<1>2. Listing'
  BY <1>1, Zenon DEF loadQueueMetadata, SInv, Listing, EmptyMetadata
<1>3. ASSUME errs' = 0 PROVE Safe' /\ Empty' /\ Recovering' /\ Running'
  <2>1. errs = 0 /\ o = "ok" /\ disk.set /\ meta' = disk.meta
    BY <1>1, <1>3, BatchOutcome, Zenon DEF loadQueueMetadata
  <2>2. rec' = [old |-> FALSE, di |-> disk.meta.cdi, got |-> {}] /\ rec.got = {}
    BY Zenon, <2>1 DEF loadQueueMetadata, NoRec, SInv, Empty
  <2>3. Safe'
    BY <1>1, <2>1, <2>2, Zenon DEF loadQueueMetadata, SInv, Safe, Durable, Listed
  <2>4. \A j \in disk.meta.cdi : j < disk.meta.wi
    BY <1>1 DEF SInv, Listing, QInv, Order, Disk, Metadata, Index
  <2>5. /\ life' \in {"up", "retrieve"} /\ (life' = "up" => disk.meta.cdi = {})
        /\ flight' = {} /\ mu' = Free
    BY <2>1, Zenon DEF loadQueueMetadata, Volatile
  <2>6. \A j \in rec'.di : Listed(j)'
    BY <1>1, <2>1, <2>2, Zenon DEF Listed
  <2> QED
    BY <1>1, <2>1, <2>2, <2>3, <2>4, <2>5, <2>6, LockKinds
    DEF loadQueueMetadata, Empty, Recovering, Running, Same
<1> QED
  BY <1>2, <1>3, Zenon DEF SInv

\* Memory takes over the legacy indexes; nothing is written yet.
LEMMA loadLegacyMetadataS ==
  ASSUME QInv, SInv, NEW oi \in Outcome, NEW od \in Outcome, loadLegacyMetadata(oi, od)
  PROVE  SInv'
<1>1. disk' = disk /\ errs \in 0..MaxErrs /\ disk \in Disk /\ ~disk.set
  BY Zenon DEF loadLegacyMetadata, QInv, TypeOK
<1>2. meta'.cdi = {}
  BY Zenon DEF loadLegacyMetadata, EmptyMetadata
<1>3. ASSUME errs' = 0 PROVE Safe' /\ Empty' /\ Recovering' /\ Running'
  <2>1. errs = 0 /\ oi = "ok" /\ od = "ok"
    BY <1>1, <1>3, Bounds DEF loadLegacyMetadata
  <2>2. /\ rec'.old /\ rec'.got = {} /\ rec.got = {}
        /\ rec'.di = IF disk.legacy THEN 0..OldRead-1 ELSE {}
    BY <2>1, Zenon DEF loadLegacyMetadata, NoRec, SInv, Empty
  <2>3. disk.legacy => meta'.ri = OldRead /\ meta'.wi = Len(OldQueue)
    BY <2>1, Zenon DEF loadLegacyMetadata, EmptyMetadata
  <2>4. Safe'
    BY <1>1, <2>1, <2>2, Zenon DEF loadLegacyMetadata, SInv, Safe, Durable, Listed
  <2>5. \A j \in rec'.di : j < meta'.wi
    BY <2>2, <2>3, Bounds
  <2>6. life' \in {"migrate", "retrieve"} /\ (life' = "migrate" => rec'.di = {})
    BY Zenon DEF loadLegacyMetadata, Volatile
  <2>7. \A j \in rec'.di : Listed(j)'
    BY <1>1, <2>2, Bounds DEF Listed
  <2> QED
    BY <1>1, <1>2, <2>2, <2>3, <2>4, <2>5, <2>6, <2>7, Zenon DEF Empty, Recovering, Running
<1> QED
  BY <1>1, <1>2, <1>3, Zenon DEF SInv, Listing

\* The dispatched items are held by the recovery and still listed.
LEMMA retrieveBatchS ==
  ASSUME QInv, SInv, NEW o \in Outcome, retrieveBatch(o) PROVE SInv'
<1>1. disk' = disk /\ errs \in 0..MaxErrs /\ ~closed /\ disk \in Disk
  BY BatchFacts, Zenon DEF retrieveBatch, QInv, TypeOK, Quiet, Up
<1>2. Listing'
  BY <1>1, Zenon DEF retrieveBatch, SInv, Listing
<1>3. ASSUME errs' = 0 PROVE Safe' /\ Empty' /\ Recovering' /\ Running'
  <2>1. errs = 0 /\ o = "ok"
    BY <1>1, <1>3, BatchOutcome DEF retrieveBatch
  <2>2. /\ rec'.got = {[idx |-> i, req |-> disk.item[i]] : i \in {j \in rec.di : disk.item[j] # NoValue}}
        /\ rec'.old = rec.old /\ rec'.di = rec.di
    BY <2>1, Zenon DEF retrieveBatch, QInv, TypeOK
  <2>3. rec.got = {}
    BY <2>1, Zenon DEF retrieveBatch, SInv, Empty
  <2>4. Safe'
    BY <1>1, <2>1, <2>3, Zenon DEF retrieveBatch, SInv, Safe, Durable, Listed
  <2>5. \A x \in rec'.got : Durable(x.req)'
    <3>1. \A j \in rec.di : j \in Index /\ Listed(j)
      BY <2>1, Zenon DEF retrieveBatch, SInv, Recovering, QInv, TypeOK
    <3>2. ASSUME NEW x \in rec'.got PROVE Durable(x.req)'
      <4>1. PICK j \in rec.di : x = [idx |-> j, req |-> disk.item[j]]
        BY <2>2, Zenon
      <4>2. x.req = disk'.item[j] /\ j \in Index /\ Listed(j)'
        BY <1>1, <3>1, <4>1, Zenon DEF Listed
      <4> QED
        BY <4>2, Zenon DEF Durable
    <3> QED
      BY <3>2, Zenon
  <2>6. Recovering'
    BY <1>1, <2>1, <2>2, <2>5, Zenon DEF retrieveBatch, SInv, Recovering, Same
  <2> QED
    BY <2>4, <2>6, Zenon DEF retrieveBatch, Empty, Running
<1> QED
  BY <1>2, <1>3, Zenon DEF SInv

\* The recovery holds whatever this transaction deletes.
LEMMA cleanupBatchS ==
  ASSUME QInv, SInv, NEW o \in Outcome, cleanupBatch(o) PROVE SInv'
<1> DEFINE d == DeleteItems(disk, rec.di)
<1>1. disk \in Disk /\ errs \in 0..MaxErrs /\ ~closed /\ rec.di \in SUBSET Index
  BY Zenon DEF cleanupBatch, QInv, TypeOK, Quiet, Up
<1>2. /\ d \in Disk /\ d.set = disk.set /\ d.meta = disk.meta /\ d.legacy = disk.legacy
      /\ d.item = [i \in Index |-> IF i \in rec.di THEN NoValue ELSE disk.item[i]]
  BY <1>1, DeleteItemsFacts
<1>3. disk'.meta = disk.meta
  BY <1>1, <1>2, BatchFacts, Zenon DEF cleanupBatch
<1>4. Listing'
  BY <1>3, Zenon DEF cleanupBatch, SInv, Listing
<1>5. ASSUME errs' = 0 PROVE Safe' /\ Empty' /\ Recovering' /\ Running'
  <2>1. errs = 0 /\ disk' = d
    BY <1>1, <1>5, BatchOutcome, Zenon DEF cleanupBatch
  <2>2. Safe'
    <3>1. \A i \in Index : Listed(i)' <=> Listed(i)
      BY <1>2, <2>1, Zenon DEF Listed
    <3>2. ASSUME NEW i \in Index, disk.item[i] \in Reqs
          PROVE  disk'.item[i] = disk.item[i] \/ \E e \in rec'.got : e.req = disk.item[i]
      <4>1. CASE i \in rec.di
        <5>1. [idx |-> i, req |-> disk.item[i]] \in rec'.got
          BY <2>1, <3>2, <4>1, Bounds, Zenon DEF cleanupBatch, SInv, Recovering
        <5> QED
          BY <5>1, Zenon
      <4>2. CASE i \notin rec.di
        BY <1>2, <2>1, <4>2, Zenon
      <4> QED
        BY <4>1, <4>2, Zenon
    <3> QED
      BY <2>1, <3>1, <3>2, SafeStep, Zenon DEF cleanupBatch, SInv
  <2>3. Recovering'
    BY <1>1, <1>2, <2>1, Zenon DEF cleanupBatch, SInv, Recovering, Same
  <2> QED
    BY <2>2, <2>3, Zenon DEF cleanupBatch, Empty, Running
<1> QED
  BY <1>4, <1>5, Zenon DEF SInv

\* Storage after a transaction that writes an item together with the metadata.
LEMMA PutDisk ==
  ASSUME disk \in Disk, NEW m \in Metadata, NEW i \in Index, NEW r \in Value
  PROVE  LET d == SetItem(SetMeta(disk, m), i, r)
         IN  /\ d \in Disk /\ d.set /\ d.meta = m /\ d.legacy = disk.legacy
             /\ d.item = [disk.item EXCEPT ![i] = r]
<1>1. /\ SetMeta(disk, m) \in Disk /\ SetMeta(disk, m).set /\ SetMeta(disk, m).meta = m
      /\ SetMeta(disk, m).item = disk.item /\ SetMeta(disk, m).legacy = disk.legacy
  BY SetMetaFacts, Zenon
<1> QED
  BY <1>1, SetItemFacts

\* An item that was put back is listed at the write index.
LEMMA putBackS ==
  ASSUME QInv, SInv, NEW e \in Entry, NEW o \in Outcome, putBack(e, o) PROVE SInv'
<1> DEFINE m == [meta EXCEPT !.wi = @ + 1]
           d == SetItem(SetMeta(disk, m), meta.wi, e.req)
<1>1. /\ disk \in Disk /\ errs \in 0..MaxErrs /\ ~closed /\ rec.di \in SUBSET Index
      /\ meta \in Metadata /\ meta.ri <= meta.wi /\ meta.wi \in Index
  BY Bounds DEF putBack, QInv, TypeOK, Quiet, Up, Metadata, Index, Order
<1>2. m \in Metadata /\ m.ri = meta.ri /\ m.wi = meta.wi + 1 /\ m.cdi = meta.cdi
  BY <1>1, Bounds DEF Metadata, Index
<1>3. /\ d \in Disk /\ d.set /\ d.meta = m /\ d.item = [disk.item EXCEPT ![meta.wi] = e.req]
  BY <1>1, <1>2, PutDisk DEF Entry
<1>0. Batch(d, o) /\ meta' = m
  BY Zenon DEF putBack
<1> HIDE DEF m, d
<1>4. Listing'
  <2>1. disk' = disk \/ disk' = d
    BY <1>0, <1>1, <1>3, BatchFacts, Zenon
  <2> QED
    BY <1>0, <1>2, <1>3, <2>1, Zenon DEF SInv, Listing
<1>5. ASSUME errs' = 0 PROVE Safe' /\ Empty' /\ Recovering' /\ Running'
  <2>1. errs = 0 /\ disk' = d /\ meta' = m
    BY <1>0, <1>1, <1>5, BatchOutcome, Zenon
  <2>2. rec'.old = rec.old /\ rec'.di = rec.di /\ rec'.got = rec.got \ {e}
    BY Zenon DEF putBack, QInv, TypeOK
  <2>3. Safe'
    <3>1. ASSUME NEW i \in Index, disk.item[i] \in Reqs, Listed(i)
          PROVE  i # meta.wi /\ Listed(i)'
      <4>1. CASE disk.set
        BY <1>1, <1>2, <1>3, <2>1, <3>1, <4>1
        DEF putBack, SInv, Recovering, Same, Listing, Listed, Metadata, Index
      <4>2. CASE ~disk.set
        <5>1. i < Len(OldQueue) /\ meta.ri = OldRead /\ meta.wi = Len(OldQueue) /\ rec.di = 0..OldRead-1
          BY <2>1, <3>1, <4>2, Zenon DEF putBack, SInv, Recovering, Listed
        <5>2. i \notin rec.di
          BY <2>1, <3>1, Bounds, Zenon DEF putBack, SInv, Recovering
        <5>3. OldRead <= i
          BY <5>1, <5>2, Bounds DEF Index
        <5> QED
          BY <1>2, <1>3, <2>1, <5>1, <5>3, Bounds DEF Listed, Index
      <4> QED
        BY <4>1, <4>2, Zenon
    <3>2. Durable(e.req)'
      <4> PICK w \in Index : w = meta.wi
        BY <1>1, Zenon
      <4>1. disk'.item[w] = e.req
        BY <1>1, <1>3, <2>1, Zenon DEF Disk
      <4>2. Listed(w)'
        BY <1>1, <1>2, <1>3, <2>1 DEF Listed, Index, Metadata
      <4> QED
        BY <4>1, <4>2, Zenon DEF Durable
    <3>3. \A i \in Index : i # meta.wi => disk'.item[i] = disk.item[i]
      BY <1>1, <1>3, <2>1, Zenon DEF Disk
    <3>4. \A x \in rec.got : x \in rec'.got \/ Durable(x.req)'
      BY <2>2, <3>2, Zenon
    <3> QED
      BY <2>1, <3>1, <3>3, <3>4, SafeStep, Zenon DEF putBack, SInv
  <2>4. Recovering'
    <3>1. \A j \in rec.di : disk.item[j] = NoValue /\ j < meta.wi
      BY <2>1, Zenon DEF putBack, SInv, Recovering
    <3>2. \A j \in rec.di : j # meta.wi /\ j < meta.wi + 1
      BY <1>1, <3>1 DEF Index
    <3>3. \A j \in rec.di : disk'.item[j] = NoValue
      BY <1>1, <1>3, <2>1, <3>1, <3>2, Zenon DEF Disk
    <3> QED
      BY <3>2, <3>3, <1>2, <1>3, <2>1, <2>2, <3>1 DEF putBack, SInv, Recovering, Same
  <2> QED
    BY <2>3, <2>4, Zenon DEF putBack, Empty, Running
<1> QED
  BY <1>4, <1>5, Zenon DEF SInv

\* Skipping an item that does not decode counts as an error.
LEMMA skipUndecodableS ==
  ASSUME QInv, SInv, NEW e \in Entry, skipUndecodable(e) PROVE SInv'
  BY Bounds DEF QInv, TypeOK, SInv, skipUndecodable, Listing

\* When everything is put back, storage lists all that was accepted.
LEMMA recoveredS ==
  ASSUME QInv, SInv, recovered PROVE SInv'
<1>1. meta'.cdi = {} /\ meta'.ri = meta.ri /\ meta'.wi = meta.wi
  BY Zenon DEF recovered, QInv, TypeOK, Metadata
<1>2. Listing'
  BY <1>1, Zenon DEF recovered, SInv, Listing
<1>3. ASSUME errs' = 0 PROVE Safe' /\ Empty' /\ Recovering' /\ Running'
  <2>1. errs = 0 /\ rec.got = {} /\ mu = Free /\ flight = {}
    BY <1>3, Zenon DEF recovered, QInv, Quiet, Up
  <2>2. Safe'
    BY <2>1, Zenon DEF recovered, SInv, Safe, Durable, Listed
  <2>3. CASE rec.old
    BY <1>1, <2>1, <2>2, <2>3, Zenon DEF recovered, SInv, Recovering, Same, Empty, Running
  <2>4. CASE ~rec.old
    BY <1>1, <2>1, <2>2, <2>4, LockKinds, Zenon DEF recovered, SInv, Recovering, Same, Empty, Running
  <2> QED
    BY <2>3, <2>4, Zenon
<1> QED
  BY <1>2, <1>3, Zenon DEF SInv

\* The new metadata lists what the legacy indexes listed.
LEMMA migrateS ==
  ASSUME QInv, SInv, NEW o \in Outcome, migrate(o) PROVE SInv'
<1> DEFINE d == SetMeta(disk, meta)
<1>1. disk \in Disk /\ errs \in 0..MaxErrs /\ ~closed /\ meta \in Metadata /\ mu = Free /\ flight = {}
  BY Zenon DEF migrate, QInv, TypeOK, Quiet, Up
<1>2. d \in Disk /\ d.set /\ d.meta = meta /\ d.item = disk.item
  BY <1>1, SetMetaFacts, Zenon
<1>3. Batch(d, o)
  BY Zenon DEF migrate
<1> HIDE DEF d
<1>4. Listing'
  <2>1. disk' = disk \/ disk' = d
    BY <1>1, <1>2, <1>3, BatchFacts, Zenon
  <2> QED
    BY <1>2, <2>1, Zenon DEF migrate, SInv, Listing
<1>5. ASSUME errs' = 0 PROVE Safe' /\ Empty' /\ Recovering' /\ Running'
  <2>1. errs = 0 /\ disk' = d /\ o = "ok"
    BY <1>1, <1>3, <1>5, BatchOutcome, Zenon
  <2>2. ASSUME NEW i \in Index, disk.item[i] \in Reqs, Listed(i) PROVE Listed(i)'
    <3>1. CASE disk.set
      BY <1>2, <2>1, <2>2, <3>1, Zenon DEF migrate, SInv, Recovering, Same, Listed
    <3>2. CASE ~disk.set
      <4>1. i < Len(OldQueue) /\ meta.ri = OldRead /\ meta.wi = Len(OldQueue) /\ rec.di = 0..OldRead-1
        BY Zenon, <2>1, <2>2, <3>2 DEF migrate, SInv, Recovering, Listed
      <4>2. i \notin rec.di
        BY <2>1, <2>2, Bounds, Zenon DEF migrate, SInv, Recovering
      <4>3. OldRead <= i
        BY <4>1, <4>2, Bounds DEF Index
      <4> QED
        BY <1>2, <2>1, <4>1, <4>3, Zenon DEF Listed
    <3> QED
      BY <3>1, <3>2, Zenon
  <2>3. Safe'
    BY <1>2, <2>1, <2>2, SafeStep, Zenon DEF migrate, SInv
  <2>4. Running'
    BY <1>1, <1>2, <2>1, LockKinds, Zenon DEF migrate, Running
  <2> QED
    BY <2>1, <2>3, <2>4, Zenon DEF migrate, SInv, Empty, Recovering
<1> QED
  BY <1>4, <1>5, Zenon DEF SInv

\* The legacy keys are not needed once the new metadata is written.
LEMMA purgeLegacyS ==
  ASSUME QInv, SInv, NEW o \in Outcome, purgeLegacy(o) PROVE SInv'
<1> DEFINE d == [disk EXCEPT !.legacy = FALSE]
<1>1. disk \in Disk /\ errs \in 0..MaxErrs /\ ~closed
  BY Zenon DEF purgeLegacy, QInv, TypeOK, Quiet, Up
<1>2. d \in Disk /\ d.set = disk.set /\ d.meta = disk.meta /\ d.item = disk.item
  BY Zenon, <1>1 DEF Disk
<1>3. Batch(d, o)
  BY Zenon DEF purgeLegacy
<1> HIDE DEF d
<1>4. disk'.meta = disk.meta
  BY <1>1, <1>2, <1>3, BatchFacts, Zenon
<1>5. ASSUME errs' = 0 PROVE Safe' /\ Empty' /\ Recovering' /\ Running'
  <2>1. errs = 0 /\ disk' = d /\ disk.set
    BY <1>1, <1>3, <1>5, BatchOutcome, Zenon DEF purgeLegacy, SInv, Running
  <2>2. Safe'
    BY Zenon, <1>2, <2>1 DEF purgeLegacy, SInv, Safe, Durable, Listed
  <2> QED
    BY Zenon, <1>2, <2>1, <2>2 DEF purgeLegacy, SInv, Empty, Recovering, Running
<1> QED
  BY <1>4, <1>5, Zenon DEF SInv, Listing, purgeLegacy

\* A request is accepted only when storage lists it.
LEMMA OfferPutS ==
  ASSUME QInv, SInv, NEW r \in Reqs, NEW o \in Outcome, OfferPut(r, o) PROVE SInv'
<1> DEFINE m == [meta EXCEPT !.wi = @ + 1, !.size = @ + ItemsOf[r]]
           d == SetItem(SetMeta(disk, m), meta.wi, r)
<1>1. /\ disk \in Disk /\ errs \in 0..MaxErrs /\ meta \in Metadata
      /\ meta.ri <= meta.wi /\ meta.wi \in Index /\ mu = Free
  BY Bounds, Stored DEF OfferPut, Offering, Index
<1>2. m \in Metadata /\ m.ri = meta.ri /\ m.wi = meta.wi + 1 /\ m.cdi = meta.cdi
  <2>1. meta \in Metadata /\ meta.wi + 1 \in 0..MaxIndex /\ meta.size + ItemsOf[r] \in Nat
    BY <1>1, Bounds, ConstantsOK DEF ConstantsOK, Metadata, Index
  <2>2. m \in Metadata /\ m.ri = meta.ri /\ m.wi = meta.wi + 1
    BY <2>1, WriteUpdate, ZenonT(40)
  <2>3. m.cdi = meta.cdi
    BY <2>1, WriteUpdate, ZenonT(40)
  <2> QED
    BY <2>2, <2>3, Zenon
<1>3. d \in Disk /\ d.set /\ d.meta = m /\ d.item = [disk.item EXCEPT ![meta.wi] = r]
  BY <1>1, <1>2, PutDisk DEF Value
<1>4. Batch(d, o) /\ meta' = m
  BY Zenon DEF OfferPut
<1> HIDE DEF m, d
<1>5. Listing'
  <2>1. disk' = disk \/ disk' = d
    BY <1>1, <1>3, <1>4, BatchFacts, Zenon
  <2> QED
    BY <1>2, <1>3, <1>4, <2>1, Zenon DEF SInv, Listing
<1>6. ASSUME errs' = 0 PROVE Safe' /\ Empty' /\ Recovering' /\ Running'
  <2>1. errs = 0
    BY <1>1, <1>4, <1>6, BatchOutcome, Zenon
  <2>2. Empty' /\ Recovering'
    BY <2>1, Zenon DEF OfferPut, Offering, Up, SInv, Empty, Recovering
  <2>3. CASE closed
    <3>1. disk' = disk /\ o = "fail"
      BY <1>1, <1>4, <1>6, <2>3, BatchOutcome
    <3>2. Safe'
      BY <2>1, <3>1, Zenon DEF OfferPut, SInv, Safe, Durable, Listed, QInv, TypeOK
    <3> QED
      BY <2>2, <2>3, <3>2, Zenon DEF OfferPut, Running
  <2>4. CASE ~closed
    <3>1. disk' = d /\ o = "ok"
      BY <1>1, <1>4, <1>6, <2>4, BatchOutcome, Zenon
    <3>2. /\ disk.set /\ meta.ri = disk.meta.ri /\ meta.wi = disk.meta.wi
          /\ \A j \in disk.meta.cdi \ meta.cdi : disk.item[j] = NoValue
          /\ \A f \in flight : disk.item[f.idx] = f.req
      BY <2>1, <2>4, Zenon DEF SInv, Running, OfferPut, Offering, Up
    <3>3. \A i \in Index : i # meta.wi => disk'.item[i] = disk.item[i]
      BY <1>1, <1>3, <3>1, Zenon DEF Disk
    <3>4. ASSUME NEW i \in Index, disk.item[i] \in Reqs, Listed(i) PROVE i # meta.wi /\ Listed(i)'
      <4>1. disk'.set /\ disk'.meta.ri = meta.ri /\ disk'.meta.wi = meta.wi + 1 /\ disk'.meta.cdi = meta.cdi
        BY <1>2, <1>3, <3>1, Zenon
      <4>2. meta.ri \in Nat /\ meta.wi \in Nat /\ meta.ri <= meta.wi /\ i \in Nat
        BY <1>1, Bounds DEF Metadata, Index
      <4>3. CASE i \in disk.meta.cdi
        <5>1. i < meta.ri
          BY <3>2, <4>3, Zenon DEF SInv, Listing
        <5>2. i \in meta.cdi
          BY <3>2, <3>4, <4>3, ConstantsOK, Zenon DEF ConstantsOK
        <5> QED
          BY <4>1, <4>2, <5>1, <5>2 DEF Listed
      <4>4. CASE meta.ri <= i /\ i < meta.wi
        BY <4>1, <4>2, <4>4 DEF Listed
      <4> QED
        BY <3>2, <3>4, <4>3, <4>4, Zenon DEF Listed
    <3>5. Durable(r)'
      <4> PICK w \in Index : w = meta.wi
        BY <1>1, Zenon
      <4>1. disk'.item[w] = r
        BY <1>1, <1>3, <3>1, Zenon DEF Disk
      <4>2. Listed(w)'
        BY <1>1, <1>2, <1>3, <3>1 DEF Listed, Index, Metadata
      <4> QED
        BY <4>1, <4>2, Zenon DEF Durable
    <3>6. Safe'
      BY <2>1, <3>3, <3>4, <3>5, SafeStep, Zenon DEF OfferPut, SInv, QInv, TypeOK
    <3>7. Running'
      <4>1. \A f \in flight : f.idx \in Index /\ f.idx # meta.wi
        BY Zenon, InFlight
      <4>2. \A f \in flight : disk'.item[f.idx] = f.req
        BY <3>2, <3>3, <4>1, Zenon
      <4> QED
        BY <1>1, <1>2, <1>3, <1>4, <3>1, <4>2, LockKinds, Zenon DEF OfferPut, Running
    <3> QED
      BY <2>2, <3>6, <3>7, Zenon
  <2> QED
    BY <2>3, <2>4, Zenon
<1> QED
  BY <1>5, <1>6, Zenon DEF SInv

\* The steps of producers and consumers that touch neither storage nor metadata.
LEMMA QuietStepsS ==
  ASSUME QInv, SInv,
         \/ \E r \in Reqs : OfferFull(r) \/ TakeSignal(r) \/ OfferCancel(r)
         \/ \E c \in Consumers : ReadStopped(c) \/ ReadWait(c) \/ consumeFunc(c)
  PROVE  SInv'
<1>1. /\ UNCHANGED <<life, meta, closed, flight, rec, disk, done, errs>>
      /\ mu' = mu \/ mu' = Free
      /\ life \in {"up", "closing"}
  BY Zenon DEF OfferFull, Offering, TakeSignal, OfferCancel, ReadStopped, ReadWait, Reading, consumeFunc, proc, Up
<1>2. \A q \in Reqs : st'[q] = "accepted" => st[q] = "accepted"
  BY Zenon DEF OfferFull, TakeSignal, OfferCancel, ReadStopped, ReadWait, consumeFunc, QInv, TypeOK
<1>3. Listing'
  BY <1>1, Zenon DEF SInv, Listing
<1>4. ASSUME errs = 0 PROVE Safe' /\ Empty' /\ Recovering' /\ Running'
  <2>1. Safe'
    BY Zenon, <1>1, <1>2, <1>4 DEF SInv, Safe, Durable, Listed
  <2> QED
    BY Zenon, <1>1, <1>4, <2>1, LockKinds DEF SInv, Empty, Recovering, Running
<1> QED
  BY <1>1, <1>3, <1>4, Zenon DEF SInv

\* A dispatched item moves from the pending indexes to the dispatched ones in one transaction.
LEMMA getNextItemS ==
  ASSUME QInv, SInv, NEW c \in Consumers, NEW o \in Outcome, getNextItem(c, o) PROVE SInv'
<1> DEFINE m == [meta EXCEPT !.ri = @ + 1, !.cdi = @ \cup {meta.ri}]
           d == SetMeta(disk, m)
           f == [idx |-> meta.ri, req |-> disk.item[meta.ri]]
<1>1. /\ disk \in Disk /\ errs \in 0..MaxErrs /\ meta \in Metadata
      /\ meta.ri <= meta.wi /\ meta.ri \in Index /\ meta.ri + 1 <= meta.wi
  BY Bounds, Stored DEF getNextItem, Index
<1>2. m \in Metadata /\ m.ri = meta.ri + 1 /\ m.wi = meta.wi /\ m.cdi = meta.cdi \cup {meta.ri}
  BY Zenon, <1>1, ReadUpdate
<1>3. d \in Disk /\ d.set /\ d.meta = m /\ d.item = disk.item
  BY <1>1, <1>2, SetMetaFacts, Zenon
<1>4. Batch(d, o) /\ meta' = m
  BY Zenon DEF getNextItem
<1>5. IF o = "ok" /\ (disk.item[meta.ri] # NoValue \/ NilDecodes)
        THEN flight' = flight \cup {f} /\ mu' = Free
        ELSE flight' = flight /\ mu' = Drop(c, meta.ri)
  BY Zenon DEF getNextItem
<1>6. f.idx = meta.ri /\ f.req = disk.item[meta.ri]
  OBVIOUS
<1> HIDE DEF m, d, f
<1>7. Listing'
  <2>1. disk' = disk \/ disk' = d
    BY <1>1, <1>3, <1>4, BatchFacts, Zenon
  <2>2. \A j \in m.cdi : j < m.ri
    BY <1>1, <1>2 DEF SInv, Listing, Metadata, Index
  <2> QED
    BY <1>3, <1>4, <2>1, <2>2, Zenon DEF SInv, Listing
<1>8. ASSUME errs' = 0 PROVE Safe' /\ Empty' /\ Recovering' /\ Running'
  <2>1. errs = 0 /\ Up
    BY <1>1, <1>4, <1>8, BatchOutcome, Zenon DEF getNextItem, Reading
  <2>2. Empty' /\ Recovering'
    BY <2>1, Zenon DEF getNextItem, Up, SInv, Empty, Recovering
  <2>3. CASE closed
    <3>1. disk' = disk
      BY <1>1, <1>4, <1>8, <2>3, BatchOutcome, Zenon
    <3>2. Safe'
      BY <2>1, <3>1, Zenon DEF getNextItem, SInv, Safe, Durable, Listed
    <3> QED
      BY <2>2, <2>3, <3>2, Zenon DEF getNextItem, Running
  <2>4. CASE ~closed
    <3>1. disk' = d /\ o = "ok"
      BY <1>1, <1>4, <1>8, <2>4, BatchOutcome, Zenon
    <3>2. /\ disk.set /\ meta.ri = disk.meta.ri /\ meta.wi = disk.meta.wi
          /\ \A j \in disk.meta.cdi \ meta.cdi : disk.item[j] = NoValue
          /\ \A g \in flight : disk.item[g.idx] = g.req
      BY <2>1, <2>4, Zenon DEF SInv, Running, Up
    <3>3. ASSUME NEW i \in Index, disk.item[i] \in Reqs, Listed(i) PROVE Listed(i)'
      BY <1>1, <1>2, <1>3, <3>1, <3>2, <3>3, Bounds DEF Listed, Metadata, Index
    <3>4. Safe'
      BY <1>3, <2>1, <3>1, <3>3, SafeStep, Zenon DEF getNextItem, SInv
    <3>5. /\ disk'.set /\ disk'.meta = meta' /\ disk'.item = disk.item
      BY <1>3, <1>4, <3>1, Zenon
    <3>6. Running'
      <4>1. CASE disk.item[meta.ri] # NoValue \/ NilDecodes
        <5>1. flight' = flight \cup {f} /\ mu' = Free
          BY Zenon, <1>5, <3>1, <4>1
        <5>2. \A g \in flight' : disk'.item[g.idx] = g.req
          BY Zenon, <1>6, <3>2, <3>5, <5>1
        <5>3. mu'.k \notin {"drop", "done"}
          BY <5>1, LockKinds, Zenon
        <5> QED
          BY Zenon, <3>5, <5>2, <5>3, Agreeing
      <4>2. CASE ~(disk.item[meta.ri] # NoValue \/ NilDecodes)
        <5>1. flight' = flight /\ mu' = Drop(c, meta.ri) /\ disk.item[meta.ri] = NoValue
          BY Zenon, <1>5, <4>2
        <5>2. \A g \in flight' : g.idx # meta.ri /\ disk'.item[g.idx] = g.req
          BY Zenon, <3>2, <3>5, <5>1, InFlight
        <5>3. mu'.i = meta.ri /\ mu'.ph = "both" /\ meta.ri \in Index
          BY <1>1, <5>1, Zenon DEF Drop
        <5>4. disk'.item[mu'.i] \in done' \cup {NoValue}
          BY Zenon, <3>5, <5>1, <5>3
        <5> QED
          BY Zenon, <3>5, <5>2, <5>3, <5>4, Agreeing
      <4> QED
        BY <4>1, <4>2, Zenon
    <3> QED
      BY <2>2, <3>4, <3>6, Zenon
  <2> QED
    BY <2>3, <2>4, Zenon
<1> QED
  BY <1>7, <1>8, Zenon DEF SInv

\* A request given back at shutdown stays where it is in storage.
LEMMA onDoneShutdownS ==
  ASSUME QInv, SInv, NEW f \in Entry, onDoneShutdown(f) PROVE SInv'
<1>1. closed' \in BOOLEAN /\ (~closed' => ~closed)
  BY onDoneShutdownQ, Zenon DEF onDoneShutdown, unrefClient, QInv, TypeOK
<1>2. /\ UNCHANGED <<life, meta, mu, rec, disk, st, done, errs>> /\ flight' \subseteq flight
  BY Zenon DEF onDoneShutdown
<1>3. Listing'
  BY <1>2, Zenon DEF SInv, Listing
<1>4. ASSUME errs = 0 PROVE Safe' /\ Empty' /\ Recovering' /\ Running'
  <2>1. Safe'
    BY <1>2, <1>4, Zenon DEF SInv, Safe, Durable, Listed
  <2>2. Recovering'
    BY <1>2, <1>4, Zenon DEF SInv, Recovering, Same, Durable, Listed
  <2> QED
    BY <1>1, <1>2, <1>4, <2>1, <2>2, Zenon DEF SInv, Empty, Running
<1> QED
  BY <1>2, <1>3, <1>4, Zenon DEF SInv

\* A request whose item may now be removed is done.
LEMMA onDoneS ==
  ASSUME QInv, SInv, NEW f \in Entry, onDone(f) PROVE SInv'
<1>1. meta'.ri = meta.ri /\ meta'.wi = meta.wi /\ meta'.cdi = meta.cdi
  BY Zenon DEF onDone, QInv, TypeOK, Metadata
<1>2. /\ UNCHANGED <<life, closed, rec, disk, st, errs>> /\ done' = done \cup {f.req}
      /\ flight' = flight \ {f} /\ mu' = Finish(f.idx) /\ f \in flight /\ Up
  BY Zenon DEF onDone
<1>3. Listing'
  BY <1>1, <1>2, Zenon DEF SInv, Listing
<1>4. ASSUME errs = 0 PROVE Safe' /\ Empty' /\ Recovering' /\ Running'
  <2>1. Safe'
    BY <1>2, <1>4, Zenon DEF SInv, Safe, Durable, Listed
  <2>2. Running'
    <3> SUFFICES ASSUME ~closed PROVE Running'
      BY <1>2, Zenon DEF Running
    <3>1. \A g \in flight : disk.item[g.idx] = g.req
      BY <1>2, <1>4, Zenon DEF SInv, Running, Up
    <3>2. \A g \in flight \ {f} : g.idx # f.idx
      <4> SUFFICES ASSUME NEW g \in flight, g.idx = f.idx PROVE g = f
        OBVIOUS
      <4>1. g \in Entry /\ g.req = f.req
        BY Zenon, <1>2, <3>1, InFlight
      <4> QED
        BY <4>1 DEF Entry
    <3>3. mu'.i = f.idx /\ mu'.ph = "both" /\ f.idx \in Index
      BY <1>2, Zenon DEF Finish, Entry
    <3> QED
      BY <1>1, <1>2, <1>4, <3>1, <3>2, <3>3, Zenon DEF SInv, Running, Up
  <2> QED
    BY <1>2, <1>4, <2>1, <2>2, Zenon DEF SInv, Empty, Recovering, Up
<1> QED
  BY <1>2, <1>3, <1>4, Zenon DEF SInv

\* Only the item of a request that is done leaves storage.
LEMMA itemDispatchingFinishS ==
  ASSUME QInv, SInv, NEW o \in Outcome, itemDispatchingFinish(o) PROVE SInv'
<1> DEFINE n == [meta EXCEPT !.cdi = @ \ {mu.i}]
           e == DeleteItems(disk, {mu.i})
<1>1. /\ disk \in Disk /\ errs \in 0..MaxErrs /\ meta \in Metadata /\ Up /\ Up'
      /\ mu.ph \in {"both", "delete", "set"} /\ mu.k \in {"drop", "done"}
  BY Zenon DEF itemDispatchingFinish, QInv, TypeOK, Up, Lock, Phases
<1>2. n \in Metadata /\ n.ri = meta.ri /\ n.wi = meta.wi /\ n.cdi = meta.cdi \ {mu.i}
  BY <1>1, Zenon DEF Metadata
<1>3. /\ meta' \in Metadata /\ meta'.ri = meta.ri /\ meta'.wi = meta.wi
      /\ meta'.cdi = meta.cdi \ {mu.i} \/ meta'.cdi = meta.cdi
      /\ mu.ph = "both" => meta'.cdi = meta.cdi \ {mu.i}
  BY Zenon, <1>1, <1>2, DrainedFacts DEF itemDispatchingFinish
<1>4. /\ e \in Disk /\ e.set = disk.set /\ e.meta = disk.meta
      /\ e.item = [i \in Index |-> IF i = mu.i THEN NoValue ELSE disk.item[i]]
  BY <1>1, DeleteItemsFacts
<1>5. /\ SetMeta(e, meta') \in Disk /\ SetMeta(e, meta').set /\ SetMeta(e, meta').meta = meta'
      /\ SetMeta(e, meta').item = e.item
      /\ SetMeta(disk, meta') \in Disk /\ SetMeta(disk, meta').meta = meta'
  BY <1>1, <1>3, <1>4, SetMetaFacts, Zenon
<1>6. /\ mu.ph = "both" => Batch(SetMeta(e, meta'), o)
      /\ mu.ph = "delete" => Batch(e, o)
      /\ mu.ph = "set" => Batch(SetMeta(disk, meta'), o)
  BY Zenon DEF itemDispatchingFinish
<1>7. UNCHANGED <<life, flight, rec, done>>
  BY Zenon DEF itemDispatchingFinish
<1> HIDE DEF n, e
<1>8. Listing'
  <2>1. disk'.meta = disk.meta \/ disk'.meta = meta'
    BY <1>1, <1>4, <1>5, <1>6, BatchFacts, Zenon
  <2> QED
    BY <1>3, <2>1, Zenon DEF SInv, Listing
<1>9. ASSUME errs' = 0 PROVE Safe' /\ Empty' /\ Recovering' /\ Running'
  <2>1. errs = 0
    BY <1>1, <1>6, <1>9, BatchOutcome, Zenon
  <2>2. Empty' /\ Recovering'
    BY <1>1, <1>7, <2>1, Zenon DEF Up, SInv, Empty, Recovering
  <2>3. \A r \in Reqs : st'[r] = "accepted" => st[r] = "accepted"
    BY Zenon DEF itemDispatchingFinish, FinishReturns, SignalSpace, SignalBlocks, QInv, TypeOK
  <2>4. CASE closed
    <3>1. disk' = disk
      BY <1>1, <1>6, <1>9, <2>4, BatchOutcome, Zenon
    <3>2. Safe'
      BY <1>7, <2>1, <2>3, <3>1, Zenon DEF SInv, Safe, Durable, Listed
    <3>3. closed'
      BY Zenon, <2>4 DEF itemDispatchingFinish, FinishReturns, SignalBlocks, unrefClient
    <3> QED
      BY <2>2, <3>2, <3>3, Zenon DEF Running
  <2>5. CASE ~closed
    <3>1. /\ disk.set /\ meta.ri = disk.meta.ri /\ meta.wi = disk.meta.wi
          /\ \A j \in disk.meta.cdi \ meta.cdi : disk.item[j] = NoValue
          /\ \A f \in flight : disk.item[f.idx] = f.req /\ f.idx # mu.i
          /\ mu.i \in Index /\ mu.ph = "both" /\ disk.item[mu.i] \in done \cup {NoValue}
      BY <1>1, <2>1, <2>5, Zenon DEF SInv, Running, Up
    <3>2. disk' = SetMeta(e, meta') /\ o = "ok"
      BY <1>1, <1>6, <1>9, <2>5, <3>1, BatchOutcome, Zenon
    <3>3. disk'.set /\ disk'.meta = meta' /\ disk'.item = e.item
      BY <1>5, <3>2, Zenon
    <3>4. \A i \in Index : i # mu.i => disk'.item[i] = disk.item[i]
      BY <1>4, <3>3, Zenon
    <3>5. ASSUME NEW i \in Index, disk.item[i] \in Reqs, Listed(i)
          PROVE  (disk'.item[i] = disk.item[i] /\ Listed(i)') \/ disk.item[i] \in done'
      <4>1. CASE i = mu.i
        BY <1>7, <3>1, <3>5, <4>1, Bounds, Zenon
      <4>2. CASE i # mu.i
        <5>1. Listed(i)'
          BY <1>3, <3>1, <3>3, <3>5, <4>2, Bounds, Zenon DEF Listed
        <5> QED
          BY <3>4, <4>2, <5>1, Zenon
      <4> QED
        BY <4>1, <4>2, Zenon
    <3>6. Safe'
      BY <1>7, <2>1, <2>3, <3>5, SafeStep, Zenon DEF SInv
    <3>7. Running'
      <4>1. mu'.k \in {"drop", "done"} => mu'.i = mu.i /\ mu'.ph = "signal"
        <5>1. CASE FinishReturns
          BY <1>1, <5>1, LockKinds, Zenon DEF FinishReturns
        <5>2. CASE SignalBlocks
          BY <5>2, Zenon DEF SignalBlocks, QInv, TypeOK, Lock
        <5> QED
          BY <3>1, <3>2, <5>1, <5>2, Zenon DEF itemDispatchingFinish
      <4>2. \A f \in flight : disk'.item[f.idx] = f.req
        BY Zenon, <3>1, <3>4, InFlight
      <4>3. disk'.item[mu.i] = NoValue
        BY <1>4, <3>1, <3>3, Zenon
      <4> QED
        BY Zenon, <1>7, <3>1, <3>3, <4>1, <4>2, <4>3, Agreeing
    <3> QED
      BY <2>2, <3>6, <3>7, Zenon
  <2> QED
    BY <2>4, <2>5, Zenon
<1> QED
  BY <1>8, <1>9, Zenon DEF SInv

\* Shutdown writes nothing to storage.
LEMMA ShutdownS ==
  ASSUME QInv, SInv, retryShutdown \/ Shutdown PROVE SInv'
<1>1. closed' \/ ~closed \/ UNCHANGED closed
  BY Zenon DEF retryShutdown, Shutdown, unrefClient
<1>2. /\ UNCHANGED <<meta, mu, flight, rec, disk, st, done, errs>>
      /\ life \in {"up", "closing"} /\ life' \in {"up", "closing"}
  BY Zenon DEF retryShutdown, Shutdown
<1>3. Listing'
  BY <1>2, Zenon DEF SInv, Listing
<1>4. ASSUME errs = 0 PROVE Safe' /\ Empty' /\ Recovering' /\ Running'
  <2>1. Safe'
    BY <1>2, <1>4, Zenon DEF SInv, Safe, Durable, Listed
  <2> QED
    BY <1>1, <1>2, <1>4, <2>1, Zenon DEF SInv, Empty, Recovering, Running
<1> QED
  BY <1>2, <1>3, <1>4, Zenon DEF SInv

\* A kill outside the recovery window loses nothing that storage does not hold.
LEMMA ProcessEndsS ==
  ASSUME QInv, SInv, ProcessEnds PROVE SInv'
<1>1. /\ UNCHANGED <<disk, done, errs>> /\ life' = "down" /\ meta' = EmptyMetadata /\ rec' = NoRec
      /\ \A r \in Reqs : st'[r] = "accepted" => st[r] = "accepted"
  BY Zenon DEF ProcessEnds, Volatile
<1>2. Listing'
  BY <1>1, Zenon DEF SInv, Listing, EmptyMetadata
<1>3. ASSUME errs = 0 PROVE Safe' /\ Empty' /\ Recovering' /\ Running'
  <2>1. RecoveryCrashes \/ rec.got = {} \/ life = "cleanup"
    BY <1>3, Zenon DEF ProcessEnds, RecoveryWindow, SInv, Empty
  <2>2. RecoveryCrashes \/ \A x \in rec.got : Durable(x.req)
    BY <1>3, <2>1, Zenon DEF SInv, Recovering
  <2>3. Safe'
    BY <1>1, <1>3, <2>2, Zenon DEF SInv, Safe, Durable, Listed
  <2> QED
    BY <1>1, <2>3, Zenon DEF Empty, Recovering, Running, NoRec
<1> QED
  BY <1>1, <1>2, <1>3, Zenon DEF SInv

\* SInv is inductive relative to QInv.
LEMMA SStep == QInv /\ SInv /\ [Next]_vars => SInv'
<1> SUFFICES ASSUME QInv, SInv, [Next]_vars PROVE SInv'
  OBVIOUS
<1>1. CASE Recovery
  BY Zenon, <1>1, loadQueueMetadataS, loadLegacyMetadataS, retrieveBatchS, cleanupBatchS, putBackS,
     skipUndecodableS, recoveredS, migrateS, purgeLegacyS DEF Recovery
<1>2. CASE \E r \in Reqs : Producer(r)
  BY <1>2, QuietStepsS, OfferPutS, Zenon DEF Producer
<1>3. CASE \E c \in Consumers : Consumer(c)
  BY <1>3, QuietStepsS, getNextItemS, Zenon DEF Consumer
<1>4. CASE Completion
  BY <1>4, onDoneS, onDoneShutdownS, itemDispatchingFinishS, Zenon DEF Completion
<1>5. CASE retryShutdown \/ Shutdown \/ ProcessEnds
  BY <1>5, ShutdownS, ProcessEndsS, Zenon
<1>6. CASE UNCHANGED vars
  BY Zenon, <1>6 DEF vars, proc, SInv, Listing, Safe, Durable, Listed, Empty, Recovering, Same, Running
<1> QED
  BY <1>1, <1>2, <1>3, <1>4, <1>5, <1>6, Zenon DEF Next

\* SInv holds in every reachable state.
LEMMA SAlways == Spec => []SInv
  BY SInit, SStep, QAlways, PTL DEF Spec

\* For any number of requests, consumers and kills, with or without a legacy queue
\* to migrate: as long as storage reports no error and no kill falls between
\* cleanupBatch and the last putBack, a request whose Offer returned nil stays in
\* storage until OnDone is called for it with a final result.
THEOREM AcceptedSurvivesAlways ==
  ASSUME ~RecoveryCrashes PROVE Spec => []AcceptedSurvives
<1>1. SInv => AcceptedSurvives
  BY Zenon DEF SInv, Safe, AcceptedSurvives
<1> QED
  BY <1>1, SAlways, PTL

\* The types of the consumers and producers.
LEMMA Threads ==
  ASSUME QInv
  PROVE  cons \in [Consumers -> {"awake", "waiting", "busy", "exited"}] /\ st \in [Reqs -> Stages]
  BY Zenon DEF QInv, TypeOK

-----------------------------------------------------------------------------
(* What the steps that write to storage do to it and to the indexes. *)

\* A put takes the write index, whether storage takes the item or not.
LEMMA OfferPutDoes ==
  ASSUME QInv, NEW r \in Reqs, NEW o \in Outcome, OfferPut(r, o)
  PROVE  /\ Up /\ mu = Free /\ meta.wi \in Index /\ internalSize + Sizeof(r) <= Capacity
         /\ UNCHANGED <<life, refClient, stopped, closed, mu, flight, rec, done>>
         /\ meta'.ri = meta.ri /\ meta'.wi = meta.wi + 1 /\ meta'.cdi = meta.cdi
         /\ meta'.size = meta.size + ItemsOf[r]
         /\ disk'.meta = disk.meta \/ disk'.meta = meta'
         /\ errs' = 0 => errs = 0 /\ (closed => disk' = disk /\ o = "fail")
         /\ errs' = 0 /\ ~closed =>
              /\ o = "ok" /\ disk'.set /\ disk'.meta = meta' /\ disk'.legacy = disk.legacy
              /\ disk'.item = [disk.item EXCEPT ![meta.wi] = r]
<1> DEFINE m == [meta EXCEPT !.wi = @ + 1, !.size = @ + ItemsOf[r]]
           d == SetItem(SetMeta(disk, m), meta.wi, r)
<1>1. disk \in Disk /\ errs \in 0..MaxErrs /\ meta \in Metadata /\ meta.wi \in Index
  BY Bounds, Stored DEF OfferPut, Index
<1>2. meta.wi + 1 \in 0..MaxIndex /\ meta.size + ItemsOf[r] \in Nat
  BY <1>1, Bounds, ConstantsOK DEF ConstantsOK, Metadata, Index
<1>3. m \in Metadata /\ m.ri = meta.ri /\ m.wi = meta.wi + 1 /\ m.cdi = meta.cdi /\ m.size = meta.size + ItemsOf[r]
  BY Zenon, <1>1, <1>2 DEF Metadata
<1>4. d \in Disk /\ d.set /\ d.meta = m /\ d.item = [disk.item EXCEPT ![meta.wi] = r] /\ d.legacy = disk.legacy
  BY <1>1, <1>3, PutDisk DEF Value
<1>5. Batch(d, o) /\ meta' = m
  BY Zenon DEF OfferPut
<1> HIDE DEF m, d
<1>6. disk' = disk \/ disk' = d
  BY <1>1, <1>4, <1>5, BatchFacts, Zenon
<1>7. /\ errs' = 0 => errs = 0 /\ (closed => disk' = disk /\ o = "fail")
      /\ errs' = 0 /\ ~closed => o = "ok" /\ disk' = d
  BY <1>1, <1>5, BatchOutcome
<1>8. /\ Up /\ mu = Free /\ internalSize + Sizeof(r) <= Capacity
      /\ UNCHANGED <<life, refClient, stopped, closed, mu, flight, rec, done>>
  BY Zenon DEF OfferPut, Offering
<1> QED
  BY Zenon, <1>1, <1>3, <1>4, <1>5, <1>6, <1>7, <1>8

\* getNextItem moves the read index and hands the item out, or drops it.
LEMMA getNextItemDoes ==
  ASSUME QInv, NEW c \in Consumers, NEW o \in Outcome, getNextItem(c, o)
  PROVE  /\ Up /\ ((mu = Free /\ cons[c] = "awake" /\ ~stopped) \/ mu = Loop(c))
         /\ UNCHANGED <<life, stopped, closed, rec, st, done>>
         /\ meta.ri \in Index /\ meta.ri + 1 <= meta.wi
         /\ meta'.ri = meta.ri + 1 /\ meta'.wi = meta.wi /\ meta'.cdi = meta.cdi \cup {meta.ri}
         /\ meta'.size = meta.size
         /\ errs \in Nat /\ errs' \in Nat /\ errs <= errs'
         /\ disk'.item = disk.item /\ (disk'.meta = disk.meta \/ disk'.meta = meta')
         /\ \/ /\ mu' = Free /\ cons' = [cons EXCEPT ![c] = "busy"]
               /\ flight' = flight \cup {[idx |-> meta.ri, req |-> disk.item[meta.ri]]}
            \/ mu' = Drop(c, meta.ri) /\ UNCHANGED <<cons, flight>>
         /\ errs' = 0 => errs = 0 /\ (closed => disk' = disk /\ mu' = Drop(c, meta.ri))
         /\ errs' = 0 /\ ~closed =>
              /\ disk'.set /\ disk'.meta = meta' /\ disk'.legacy = disk.legacy
              /\ disk.item[meta.ri] # NoValue => mu' = Free
<1> DEFINE m == [meta EXCEPT !.ri = @ + 1, !.cdi = @ \cup {meta.ri}]
           d == SetMeta(disk, m)
<1>1. /\ disk \in Disk /\ errs \in 0..MaxErrs /\ meta \in Metadata
      /\ meta.ri \in Index /\ meta.ri + 1 <= meta.wi
  BY Bounds, Stored DEF getNextItem, Index
<1>2. m \in Metadata /\ m.ri = meta.ri + 1 /\ m.wi = meta.wi /\ m.cdi = meta.cdi \cup {meta.ri}
  BY Zenon, <1>1, ReadUpdate
<1>3. m.size = meta.size
  BY <1>1, Zenon DEF Metadata
<1>4. d \in Disk /\ d.set /\ d.meta = m /\ d.item = disk.item /\ d.legacy = disk.legacy
  BY <1>1, <1>2, SetMetaFacts, Zenon
<1>5. Batch(d, o) /\ meta' = m
  BY Zenon DEF getNextItem
<1>6. /\ o # "ok" => mu' = Drop(c, meta.ri)
      /\ o = "ok" /\ disk.item[meta.ri] # NoValue => mu' = Free
      /\ \/ /\ mu' = Free /\ cons' = [cons EXCEPT ![c] = "busy"]
            /\ flight' = flight \cup {[idx |-> meta.ri, req |-> disk.item[meta.ri]]}
         \/ mu' = Drop(c, meta.ri) /\ UNCHANGED <<cons, flight>>
  BY Zenon DEF getNextItem
<1> HIDE DEF m, d
<1>7. (disk' = disk \/ disk' = d) /\ errs \in Nat /\ errs' \in Nat /\ errs <= errs'
  BY <1>1, <1>4, <1>5, BatchFacts, Bounds
<1>8. /\ errs' = 0 => errs = 0 /\ (closed => disk' = disk /\ o = "fail")
      /\ errs' = 0 /\ ~closed => o = "ok" /\ disk' = d
  BY <1>1, <1>5, BatchOutcome
<1>9. /\ Up /\ ((mu = Free /\ cons[c] = "awake" /\ ~stopped) \/ mu = Loop(c))
      /\ UNCHANGED <<life, stopped, closed, rec, st, done>>
  BY Zenon DEF getNextItem, Reading
<1> QED
  BY <1>1, <1>2, <1>3, <1>4, <1>5, <1>6, <1>7, <1>8, <1>9, ZenonT(40), Zenon

\* itemDispatchingFinish moves no index, and without errors takes the item off storage
\* and off the dispatched list.
LEMMA itemDispatchingFinishDoes ==
  ASSUME QInv, NEW o \in Outcome, itemDispatchingFinish(o)
  PROVE  /\ Up /\ mu.k \in {"drop", "done"}
         /\ UNCHANGED <<life, stopped, cons, flight, rec, done>>
         /\ meta'.ri = meta.ri /\ meta'.wi = meta.wi
         /\ meta'.cdi = meta.cdi \/ meta'.cdi = meta.cdi \ {mu.i}
         /\ meta'.size = meta.size \/ meta'.size = 0
         /\ errs \in Nat /\ errs' \in Nat /\ errs <= errs'
         /\ disk'.meta = disk.meta \/ disk'.meta = meta'
         /\ FinishReturns \/ (mu'.k = mu.k /\ mu'.c = mu.c /\ mu'.i = mu.i /\ UNCHANGED <<closed, st>>)
         /\ errs' = 0 => errs = 0 /\ (closed => disk' = disk)
         /\ errs' = 0 /\ ~closed /\ mu.ph = "both" =>
              /\ meta' = Drained([meta EXCEPT !.cdi = @ \ {mu.i}])
              /\ disk'.set /\ disk'.meta = meta' /\ disk'.legacy = disk.legacy
              /\ disk'.item = [i \in Index |-> IF i = mu.i THEN NoValue ELSE disk.item[i]]
              /\ FinishReturns \/ SignalBlocks
<1> DEFINE n == [meta EXCEPT !.cdi = @ \ {mu.i}]
           e == DeleteItems(disk, {mu.i})
<1>1. /\ disk \in Disk /\ errs \in 0..MaxErrs /\ meta \in Metadata /\ mu \in Lock
      /\ mu.ph \in {"both", "delete", "set"}
  BY Zenon DEF QInv, TypeOK, itemDispatchingFinish, Phases
<1>2. n \in Metadata /\ n.ri = meta.ri /\ n.wi = meta.wi /\ n.cdi = meta.cdi \ {mu.i} /\ n.size = meta.size
  BY <1>1, Zenon DEF Metadata
<1>3. Drained(n).size = n.size \/ Drained(n).size = 0
  BY <1>2, Zenon DEF Drained, Metadata
<1>4. meta' = IF mu.ph = "both" THEN Drained(n) ELSE meta
  BY Zenon DEF itemDispatchingFinish
<1>5. /\ meta' \in Metadata /\ meta'.ri = meta.ri /\ meta'.wi = meta.wi
      /\ meta'.cdi = meta.cdi \/ meta'.cdi = meta.cdi \ {mu.i}
      /\ meta'.size = meta.size \/ meta'.size = 0
  <2>1. /\ Drained(n) \in Metadata
        /\ Drained(n).ri = n.ri /\ Drained(n).wi = n.wi /\ Drained(n).cdi = n.cdi
    BY Zenon, <1>2, DrainedFacts
  <2> HIDE DEF n
  <2> QED
    BY <1>1, <1>2, <1>3, <1>4, <2>1, Zenon
<1>6. /\ e \in Disk /\ e.set = disk.set /\ e.meta = disk.meta /\ e.legacy = disk.legacy
      /\ e.item = [i \in Index |-> IF i = mu.i THEN NoValue ELSE disk.item[i]]
  BY <1>1, DeleteItemsFacts
<1>7. /\ SetMeta(e, meta') \in Disk /\ SetMeta(e, meta').set /\ SetMeta(e, meta').meta = meta'
      /\ SetMeta(e, meta').item = e.item /\ SetMeta(e, meta').legacy = e.legacy
      /\ SetMeta(disk, meta') \in Disk /\ SetMeta(disk, meta').meta = meta'
  BY <1>1, <1>5, <1>6, SetMetaFacts, Zenon
<1>8. /\ mu.ph = "both" => Batch(SetMeta(e, meta'), o)
      /\ mu.ph = "delete" => Batch(e, o)
      /\ mu.ph = "set" => Batch(SetMeta(disk, meta'), o)
  BY Zenon DEF itemDispatchingFinish
<1>9. /\ FinishReturns \/ (mu'.k = mu.k /\ mu'.c = mu.c /\ mu'.i = mu.i /\ UNCHANGED <<closed, st>>)
      /\ mu.ph = "both" /\ o = "ok" => FinishReturns \/ SignalBlocks
  BY <1>1, Zenon DEF itemDispatchingFinish, SignalBlocks, Lock
<1>10. Up /\ mu.k \in {"drop", "done"} /\ UNCHANGED <<life, stopped, cons, flight, rec, done>>
  BY Zenon DEF itemDispatchingFinish
<1> HIDE DEF n, e
<1>11. /\ errs \in Nat /\ errs' \in Nat /\ errs <= errs'
       /\ disk'.meta = disk.meta \/ disk'.meta = meta'
  BY <1>1, <1>6, <1>7, <1>8, BatchFacts, Bounds
<1>12. /\ errs' = 0 => errs = 0 /\ (closed => disk' = disk)
       /\ errs' = 0 /\ ~closed /\ mu.ph = "both" => o = "ok" /\ disk' = SetMeta(e, meta')
  BY <1>1, <1>8, BatchOutcome, Zenon
<1>13. mu.ph = "both" => meta' = Drained([meta EXCEPT !.cdi = @ \ {mu.i}])
  BY Zenon DEF itemDispatchingFinish
<1> QED
  BY <1>5, <1>6, <1>7, <1>9, <1>10, <1>11, <1>12, <1>13, ZenonT(40), Zenon

-----------------------------------------------------------------------------
(* Consumers are woken. *)

\* A consumer that holds the lock in Read is awake, and there is none, and none that
\* waits, once the queue was stopped.
ReadersAwake ==
  /\ mu.k \in {"loop", "drop"} => mu.c \in Consumers /\ cons[mu.c] = "awake" /\ ~stopped
  /\ stopped \/ ~Up => \A c \in Consumers : cons[c] # "waiting"
  /\ ~Up => \A c \in Consumers : cons[c] = "awake"

Awake == {c \in Consumers : cons[c] = "awake"}
AInv == ReadersAwake /\ NoIdleConsumer

\* The consumers that are awake can be counted.
LEMMA AwakeFacts ==
  /\ IsFiniteSet(Awake) /\ Cardinality(Awake) \in Nat
  /\ IsFiniteSet(Awake') /\ Cardinality(Awake') \in Nat
<1>1. IsFiniteSet(Consumers)
  BY ConstantsOK, Zenon DEF ConstantsOK
<1>2. Awake \subseteq Consumers /\ Awake' \subseteq Consumers
  BY Zenon DEF Awake
<1> QED
  BY <1>1, <1>2, FS_Subset, FS_CardinalityType, Zenon

\* What NoIdleConsumer says: if a consumer sleeps, those that are awake are enough.
Asleep == \E c \in Consumers : cons[c] = "waiting"
Unread == meta.wi - meta.ri
Enough == Unread <= Cardinality(Awake) + errs

LEMMA NoIdleMeans ==
  /\ NoIdleConsumer <=> (Up /\ Asleep => Enough)
  /\ NoIdleConsumer' <=> (Up' /\ Asleep' => Enough')
  BY Zenon DEF NoIdleConsumer, Awake, Asleep, Unread, Enough

\* How a step keeps it.
LEMMA NoIdleKept ==
  ASSUME AInv, Up' /\ Asleep' => Enough' \/ (Up /\ Asleep /\ (Enough => Enough'))
  PROVE  NoIdleConsumer'
  BY NoIdleMeans, Zenon DEF AInv

\* The recovery leaves no lock, nothing in flight and every consumer awake.
LEMMA RecoveryQuiet ==
  ASSUME QInv, AInv, Recovery
  PROVE  mu' = Free /\ flight' = {} /\ ~closed' /\ ~Up /\ \A c \in Consumers : cons'[c] = "awake"
<1>1. CASE \E o \in Outcome : loadQueueMetadata(o)
  BY <1>1, Zenon DEF loadQueueMetadata, Volatile, Up
<1>2. CASE \E oi, od \in Outcome : loadLegacyMetadata(oi, od)
  BY <1>2, Zenon DEF loadLegacyMetadata, Volatile, Up
<1>3. CASE ~Up /\ UNCHANGED <<mu, flight, closed, cons>>
  BY <1>3, Zenon DEF QInv, Quiet, AInv, ReadersAwake
<1>4. \/ ~Up /\ UNCHANGED <<mu, flight, closed, cons>>
      \/ \E o \in Outcome : loadQueueMetadata(o)
      \/ \E oi, od \in Outcome : loadLegacyMetadata(oi, od)
  BY Zenon DEF Recovery, retrieveBatch, cleanupBatch, putBack, skipUndecodable, recovered, migrate, purgeLegacy, Up
<1> QED
  BY <1>1, <1>2, <1>3, <1>4, Zenon

\* All consumers start awake, and are so until the recovery is over.
LEMMA RecoveryA == ASSUME QInv, AInv, Recovery PROVE AInv'
  BY RecoveryQuiet, LockKinds, Zenon DEF AInv, ReadersAwake, NoIdleConsumer

\* A put that succeeds wakes a consumer if one waits; one that fails is counted.
LEMMA OfferPutA ==
  ASSUME QInv, AInv, NEW r \in Reqs, NEW o \in Outcome, OfferPut(r, o) PROVE AInv'
<1>1. /\ UNCHANGED <<life, mu, stopped, closed>> /\ mu = Free /\ Up /\ Up'
      /\ errs \in Nat /\ meta.wi - meta.ri \in Int /\ meta'.wi - meta'.ri = meta.wi - meta.ri + 1
  BY Stored DEF OfferPut, Offering, Metadata, Up
<1>2. \A c \in Consumers : cons[c] # "waiting" => cons'[c] = cons[c]
  BY Threads, Zenon DEF OfferPut, SignalElements
<1>3. ReadersAwake'
  BY <1>1, <1>2, LockKinds DEF AInv, ReadersAwake, OfferPut, SignalElements
<1>4. CASE \A c \in Consumers : cons[c] # "waiting"
  BY <1>2, <1>3, <1>4, Zenon DEF AInv, NoIdleConsumer
<1>5. CASE o = "ok" /\ \E c \in Consumers : cons[c] = "waiting"
  <2>1. PICK c \in Consumers : cons[c] = "waiting" /\ cons' = [cons EXCEPT ![c] = "awake"]
    BY <1>5, Zenon DEF OfferPut, SignalElements
  <2>2. Awake' = Awake \cup {c} /\ c \notin Awake
    BY <2>1, Threads, Zenon DEF Awake
  <2>3. Cardinality(Awake') = Cardinality(Awake) + 1
    BY <2>2, AwakeFacts, FS_AddElement, Zenon
  <2>4. errs' = errs
    BY <1>5, Zenon DEF OfferPut, Batch
  <2>5. Enough => Enough'
    BY <1>1, <2>3, <2>4, AwakeFacts DEF Enough, Unread
  <2>6. Up /\ Asleep
    BY <1>1, <1>5, Zenon DEF Asleep
  <2>7. NoIdleConsumer'
    BY <2>5, <2>6, NoIdleKept, Zenon
  <2> QED
    BY <1>3, <2>7, Zenon DEF AInv
<1>6. CASE o # "ok" /\ \E c \in Consumers : cons[c] = "waiting"
  <2>1. Awake' = Awake
    BY <1>6, Zenon DEF OfferPut, Awake
  <2>2. ~stopped
    BY <1>1, <1>6, Zenon DEF AInv, ReadersAwake
  <2>3. ~closed
    BY <1>1, <2>2, FS_CardinalityType DEF QInv, ClientClosedLast, Held
  <2>4. errs' = errs + 1
    BY <1>6, <2>3, Zenon DEF OfferPut, Batch
  <2>5. Enough => Enough'
    BY <1>1, <2>1, <2>4, AwakeFacts DEF Enough, Unread
  <2>6. Up /\ Asleep
    BY <1>1, <1>6, Zenon DEF Asleep
  <2>7. NoIdleConsumer'
    BY <2>5, <2>6, NoIdleKept, Zenon
  <2> QED
    BY <1>3, <2>7, Zenon DEF AInv
<1> QED
  BY <1>4, <1>5, <1>6, Zenon

\* The other steps of producers do not concern the consumers.
LEMMA ProducerA == ASSUME QInv, AInv, NEW r \in Reqs, Producer(r) PROVE AInv'
<1>1. CASE OfferFull(r) \/ TakeSignal(r) \/ OfferCancel(r)
  BY <1>1 DEF OfferFull, TakeSignal, OfferCancel, proc, AInv, ReadersAwake, NoIdleConsumer, Up
<1> QED
  BY <1>1, OfferPutA, Zenon DEF Producer

\* A consumer that reads an item was awake.
LEMMA getNextItemA ==
  ASSUME QInv, AInv, NEW c \in Consumers, NEW o \in Outcome, getNextItem(c, o) PROVE AInv'
<1>1. /\ UNCHANGED <<life, stopped>> /\ Up /\ Up'
      /\ errs \in Nat /\ errs' \in Nat /\ errs <= errs'
      /\ meta.wi - meta.ri \in Int /\ meta'.wi - meta'.ri = meta.wi - meta.ri - 1
  <2>1. meta.wi \in Int /\ meta.ri \in Int
    BY Stored, Bounds
  <2> QED
    BY <2>1, getNextItemDoes DEF Up
<1>2. cons[c] = "awake" /\ ~stopped
  BY getNextItemDoes, LockKinds DEF AInv, ReadersAwake, Loop
<1>3. CASE UNCHANGED cons /\ mu' = Drop(c, meta.ri)
  <2>1. Awake' = Awake
    BY <1>3, Zenon DEF Awake
  <2>2. ReadersAwake'
    BY <1>1, <1>2, <1>3, LockKinds DEF AInv, ReadersAwake
  <2>3. Enough => Enough'
    BY <1>1, <2>1, AwakeFacts DEF Enough, Unread
  <2>4. Asleep' => Asleep
    BY <1>3, Zenon DEF Asleep
  <2>5. NoIdleConsumer'
    BY <1>1, <2>3, <2>4, NoIdleKept, Zenon
  <2> QED
    BY <2>2, <2>5, Zenon DEF AInv
<1>4. CASE cons' = [cons EXCEPT ![c] = "busy"] /\ mu' = Free
  <2>1. \A d \in Consumers : cons'[d] = IF d = c THEN "busy" ELSE cons[d]
    BY <1>4, Threads, Zenon
  <2>2. Awake' = Awake \ {c} /\ c \in Awake
    BY <1>2, <2>1, Zenon DEF Awake
  <2>3. Cardinality(Awake') = Cardinality(Awake) - 1
    BY <2>2, AwakeFacts, FS_RemoveElement, Zenon
  <2>4. ReadersAwake'
    BY <1>1, <1>2, <1>4, <2>1, LockKinds, Zenon DEF AInv, ReadersAwake
  <2>5. Enough => Enough'
    BY <1>1, <2>3, AwakeFacts DEF Enough, Unread
  <2>6. Asleep' => Asleep
    BY <2>1, Zenon DEF Asleep
  <2>7. NoIdleConsumer'
    BY <1>1, <2>5, <2>6, NoIdleKept, Zenon
  <2> QED
    BY <2>4, <2>7, Zenon DEF AInv
<1> QED
  BY <1>3, <1>4, getNextItemDoes, Zenon

\* A consumer goes to sleep only beside an empty queue, and not after Shutdown.
LEMMA ConsumerA == ASSUME QInv, AInv, NEW c \in Consumers, Consumer(c) PROVE AInv'
<1>1. CASE ReadStopped(c)
  <2>1. \A d \in Consumers : cons'[d] = IF d = c THEN "exited" ELSE cons[d]
    BY <1>1, Threads, Zenon DEF ReadStopped
  <2> QED
    BY <1>1, <2>1, LockKinds DEF ReadStopped, AInv, ReadersAwake, NoIdleConsumer, Up
<1>2. CASE ReadWait(c)
  <2>1. \A d \in Consumers : cons'[d] = IF d = c THEN "waiting" ELSE cons[d]
    BY <1>2, Threads, Zenon DEF ReadWait
  <2>2. mu' = Free /\ ~stopped /\ ~stopped' /\ Up /\ Up'
    BY <1>2, LockKinds DEF ReadWait, Reading, AInv, ReadersAwake, Up
  <2>3. meta'.wi - meta'.ri = 0 /\ errs' \in Nat
    BY <1>2, Stored DEF ReadWait, Metadata
  <2>4. Enough'
    BY <2>3, AwakeFacts DEF Enough, Unread
  <2>5. NoIdleConsumer'
    BY <2>4, NoIdleKept, Zenon
  <2>6. ReadersAwake'
    BY <2>1, <2>2, LockKinds, Zenon DEF ReadersAwake
  <2> QED
    BY <2>5, <2>6, Zenon DEF AInv
<1>3. CASE consumeFunc(c)
  <2>1. \A d \in Consumers : cons'[d] = IF d = c THEN "awake" ELSE cons[d]
    BY <1>3, Threads, Zenon DEF consumeFunc
  <2>2. UNCHANGED <<life, meta, errs, mu, stopped>> /\ cons[c] = "busy" /\ Up
    BY <1>3, Zenon DEF consumeFunc
  <2>3. Awake' = Awake \cup {c} /\ c \notin Awake
    BY <2>1, <2>2, Zenon DEF Awake
  <2>4. Cardinality(Awake') = Cardinality(Awake) + 1
    BY <2>3, AwakeFacts, FS_AddElement, Zenon
  <2>5. errs \in Nat /\ meta.wi - meta.ri \in Int
    BY Stored DEF Metadata
  <2>6. Enough => Enough'
    BY <2>2, <2>4, <2>5, AwakeFacts DEF Enough, Unread
  <2>7. Asleep' => Asleep
    BY <2>1, Zenon DEF Asleep
  <2>8. NoIdleConsumer'
    BY <2>2, <2>6, <2>7, NoIdleKept, Zenon
  <2>9. ReadersAwake'
    BY <2>1, <2>2, Zenon DEF AInv, ReadersAwake, Up
  <2> QED
    BY <2>8, <2>9, Zenon DEF AInv
<1> QED
  BY <1>1, <1>2, <1>3, getNextItemA, Zenon DEF Consumer

\* Completions wake no consumer and add no item.
LEMMA CompletionA == ASSUME QInv, AInv, Completion PROVE AInv'
<1>1. CASE \E f \in Entry : onDone(f) \/ onDoneShutdown(f)
  <2>1. UNCHANGED <<life, cons, stopped, errs>> /\ mu'.k \notin {"loop", "drop"}
    BY <1>1, LockKinds, Zenon DEF onDone, onDoneShutdown
  <2>2. meta'.ri = meta.ri /\ meta'.wi = meta.wi
    BY <1>1, Stored, Zenon DEF onDone, onDoneShutdown, Metadata
  <2> QED
    BY <2>1, <2>2, Zenon DEF AInv, ReadersAwake, NoIdleConsumer, Up
<1>2. CASE \E o \in Outcome : itemDispatchingFinish(o)
  <2>0. PICK o \in Outcome : itemDispatchingFinish(o)
    BY <1>2, Zenon
  <2>1. /\ UNCHANGED <<life, cons, stopped>> /\ meta'.ri = meta.ri /\ meta'.wi = meta.wi
        /\ errs \in Nat /\ errs' \in Nat /\ errs <= errs' /\ meta.wi - meta.ri \in Int
    <3>1. /\ UNCHANGED <<life, cons, stopped>> /\ meta'.ri = meta.ri /\ meta'.wi = meta.wi
          /\ errs \in Nat /\ errs' \in Nat /\ errs <= errs'
      BY <2>0, itemDispatchingFinishDoes, Zenon
    <3>2. meta.wi \in Int /\ meta.ri \in Int
      BY Stored, Bounds
    <3> QED
      BY <3>1, <3>2
  <2>2. mu'.k \in {"loop", "drop"} => mu.k \in {"loop", "drop"} /\ mu'.c = mu.c
    <3>1. FinishReturns \/ (mu'.k = mu.k /\ mu'.c = mu.c)
      BY <2>0, itemDispatchingFinishDoes, Zenon
    <3> QED
      BY <3>1, LockKinds DEF FinishReturns, Loop
  <2>3. Awake' = Awake
    BY <2>1, Zenon DEF Awake
  <2>4. Enough => Enough'
    BY <2>1, <2>3, AwakeFacts DEF Enough, Unread
  <2>5. Up' /\ Asleep' => Up /\ Asleep
    BY <2>1, Zenon DEF Up, Asleep
  <2>6. NoIdleConsumer'
    BY <2>4, <2>5, NoIdleKept, Zenon
  <2>7. ReadersAwake'
    BY <2>1, <2>2, Zenon DEF AInv, ReadersAwake, Up
  <2> QED
    BY <2>6, <2>7, Zenon DEF AInv
<1> QED
  BY <1>1, <1>2, Zenon DEF Completion

\* Shutdown wakes every consumer.
LEMMA LifeA == ASSUME QInv, AInv, retryShutdown \/ Shutdown \/ ProcessEnds PROVE AInv'
<1>1. CASE retryShutdown
  BY Zenon, <1>1 DEF retryShutdown, AInv, ReadersAwake, NoIdleConsumer, Up
<1>2. CASE Shutdown
  <2>1. /\ UNCHANGED <<life, mu>> /\ mu = Free /\ Up /\ Up'
        /\ \A c \in Consumers : cons'[c] # "waiting"
    BY <1>2, Threads, Zenon DEF Shutdown, Up
  <2>2. ReadersAwake'
    BY <2>1, LockKinds, Zenon DEF ReadersAwake
  <2>3. NoIdleConsumer'
    BY <2>1, NoIdleKept, Zenon DEF Asleep
  <2> QED
    BY <2>2, <2>3, Zenon DEF AInv
<1>3. CASE ProcessEnds
  BY <1>3, LockKinds, Zenon DEF ProcessEnds, Volatile, AInv, ReadersAwake, NoIdleConsumer, Up
<1> QED
  BY <1>1, <1>2, <1>3, Zenon

LEMMA AInit == Init => AInv
  BY Zenon, LockKinds DEF Init, AInv, ReadersAwake, NoIdleConsumer, Up

LEMMA AStep == QInv /\ AInv /\ [Next]_vars => AInv'
<1> SUFFICES ASSUME QInv, AInv, [Next]_vars PROVE AInv'
  OBVIOUS
<1>1. CASE UNCHANGED vars
  BY <1>1, Zenon DEF vars, proc, AInv, ReadersAwake, NoIdleConsumer, Up
<1> QED
  BY <1>1, RecoveryA, ProducerA, ConsumerA, CompletionA, LifeA, Zenon DEF Next

\* AInv holds in every reachable state.
LEMMA AAlways == Spec => []AInv
  BY AInit, AStep, QAlways, PTL DEF Spec

\* The wake-ups of hasMoreElements are enough: whatever puts fail, and whoever reads
\* in between, a consumer sleeps only if those that are awake can read every item that
\* is there, but for one item for each put that storage refused.
THEOREM NoIdleConsumerAlways == Spec => []NoIdleConsumer
<1>1. AInv => NoIdleConsumer
  BY Zenon DEF AInv
<1> QED
  BY <1>1, AAlways, PTL

-----------------------------------------------------------------------------
(* What the steps of the recovery do while storage reports no error. *)

LEMMA loadQueueMetadataDoes ==
  ASSUME QInv, NEW o \in Outcome, loadQueueMetadata(o), errs' = 0
  PROVE  /\ errs = 0 /\ life = "down" /\ disk.set /\ UNCHANGED <<disk, st, done>>
         /\ meta' = disk.meta /\ rec' = [old |-> FALSE, di |-> disk.meta.cdi, got |-> {}]
         /\ life' = IF disk.meta.cdi = {} THEN "up" ELSE "retrieve"
<1>1. errs \in 0..MaxErrs /\ ~closed /\ life = "down" /\ UNCHANGED <<st, done>> /\ Batch(disk, o)
  BY Stored, Zenon DEF loadQueueMetadata, QInv, Quiet, Up
<1>2. errs = 0 /\ o = "ok" /\ disk' = disk
  BY <1>1, BatchOutcome, Zenon
<1>3. disk.set /\ meta' = disk.meta
  BY <1>2, Zenon DEF loadQueueMetadata
<1>4. rec' = [old |-> FALSE, di |-> disk.meta.cdi, got |-> {}]
  BY Zenon, <1>3 DEF loadQueueMetadata, NoRec
<1>5. life' = IF disk.meta.cdi = {} THEN "up" ELSE "retrieve"
  BY <1>3, Zenon DEF loadQueueMetadata, Volatile
<1> QED
  BY <1>1, <1>2, <1>3, <1>4, <1>5, Zenon

LEMMA loadLegacyMetadataDoes ==
  ASSUME QInv, NEW oi \in Outcome, NEW od \in Outcome, loadLegacyMetadata(oi, od), errs' = 0
  PROVE  /\ errs = 0 /\ life = "down" /\ ~disk.set /\ UNCHANGED <<disk, st, done>>
         /\ rec'.old /\ rec'.got = {} /\ meta'.cdi = {} /\ meta'.size = 0
         /\ rec'.di = IF disk.legacy THEN 0..OldRead-1 ELSE {}
         /\ meta'.ri = IF disk.legacy THEN OldRead ELSE 0
         /\ meta'.wi = IF disk.legacy THEN Len(OldQueue) ELSE 0
         /\ life' = IF rec'.di = {} THEN "migrate" ELSE "retrieve"
<1>1. errs \in 0..MaxErrs
  BY Stored, Zenon
<1>2. errs = 0 /\ oi = "ok" /\ od = "ok"
  BY <1>1, Bounds DEF loadLegacyMetadata
<1>3. life = "down" /\ ~disk.set /\ UNCHANGED <<disk, st, done>> /\ life' = IF rec'.di = {} THEN "migrate" ELSE "retrieve"
  BY Zenon DEF loadLegacyMetadata, Volatile
<1>4. rec'.old /\ rec'.got = {} /\ rec'.di = IF disk.legacy THEN 0..OldRead-1 ELSE {}
  BY <1>2, Zenon DEF loadLegacyMetadata, NoRec
<1>5. meta' = IF disk.legacy THEN [EmptyMetadata EXCEPT !.ri = OldRead, !.wi = Len(OldQueue)] ELSE EmptyMetadata
  BY <1>2, Zenon DEF loadLegacyMetadata
<1>6. /\ meta'.cdi = {} /\ meta'.size = 0
      /\ meta'.ri = IF disk.legacy THEN OldRead ELSE 0
      /\ meta'.wi = IF disk.legacy THEN Len(OldQueue) ELSE 0
  BY <1>5, Zenon DEF EmptyMetadata
<1> QED
  BY <1>2, <1>3, <1>4, <1>6, Zenon

LEMMA retrieveBatchDoes ==
  ASSUME QInv, NEW o \in Outcome, retrieveBatch(o), errs' = 0
  PROVE  /\ errs = 0 /\ life = "retrieve" /\ life' = "cleanup" /\ UNCHANGED <<meta, disk, st, done>>
         /\ rec'.old = rec.old /\ rec'.di = rec.di
         /\ rec'.got = {[idx |-> i, req |-> disk.item[i]] : i \in {j \in rec.di : disk.item[j] # NoValue}}
<1>1. errs \in 0..MaxErrs /\ ~closed /\ Batch(disk, o)
  BY Stored, Zenon DEF retrieveBatch, QInv, Quiet, Up
<1>2. errs = 0 /\ o = "ok" /\ disk' = disk
  BY <1>1, BatchOutcome, Zenon
<1>3. /\ rec'.old = rec.old /\ rec'.di = rec.di
      /\ rec'.got = {[idx |-> i, req |-> disk.item[i]] : i \in {j \in rec.di : disk.item[j] # NoValue}}
  BY <1>2, Zenon DEF retrieveBatch, QInv, TypeOK
<1> QED
  BY <1>2, <1>3, Zenon DEF retrieveBatch

LEMMA cleanupBatchDoes ==
  ASSUME QInv, NEW o \in Outcome, cleanupBatch(o), errs' = 0
  PROVE  /\ errs = 0 /\ life = "cleanup" /\ life' = "reput" /\ UNCHANGED <<meta, rec, st, done>>
         /\ disk'.set = disk.set /\ disk'.meta = disk.meta /\ disk'.legacy = disk.legacy
         /\ disk'.item = [i \in Index |-> IF i \in rec.di THEN NoValue ELSE disk.item[i]]
<1>1. errs \in 0..MaxErrs /\ ~closed /\ Batch(DeleteItems(disk, rec.di), o)
  BY Stored, Zenon DEF cleanupBatch, QInv, Quiet, Up
<1>2. errs = 0 /\ disk' = DeleteItems(disk, rec.di)
  BY <1>1, BatchOutcome, Zenon
<1>3. /\ disk'.set = disk.set /\ disk'.meta = disk.meta /\ disk'.legacy = disk.legacy
      /\ disk'.item = [i \in Index |-> IF i \in rec.di THEN NoValue ELSE disk.item[i]]
  BY <1>2, Stored, DeleteItemsFacts, Zenon
<1> QED
  BY <1>2, <1>3, Zenon DEF cleanupBatch

LEMMA putBackDoes ==
  ASSUME QInv, NEW e \in Entry, NEW o \in Outcome, putBack(e, o), errs' = 0
  PROVE  /\ errs = 0 /\ life = "reput" /\ UNCHANGED <<life, st, done>> /\ e \in rec.got
         /\ meta.wi \in Index /\ meta'.ri = meta.ri /\ meta'.wi = meta.wi + 1 /\ meta'.cdi = meta.cdi
         /\ meta'.size = meta.size
         /\ disk'.set /\ disk'.meta = meta' /\ disk'.legacy = disk.legacy
         /\ disk'.item = [disk.item EXCEPT ![meta.wi] = e.req]
         /\ rec'.old = rec.old /\ rec'.di = rec.di /\ rec'.got = rec.got \ {e}
<1> DEFINE m == [meta EXCEPT !.wi = @ + 1]
           d == SetItem(SetMeta(disk, m), meta.wi, e.req)
<1>1. /\ disk \in Disk /\ errs \in 0..MaxErrs /\ ~closed /\ meta \in Metadata /\ meta.wi \in Index
  BY Bounds, Stored DEF putBack, QInv, Quiet, Up, Index
<1>2. m \in Metadata /\ m.ri = meta.ri /\ m.wi = meta.wi + 1 /\ m.cdi = meta.cdi /\ m.size = meta.size
  BY <1>1, Bounds DEF Metadata, Index
<1>3. /\ d \in Disk /\ d.set /\ d.meta = m /\ d.item = [disk.item EXCEPT ![meta.wi] = e.req] /\ d.legacy = disk.legacy
  BY <1>1, <1>2, PutDisk DEF Entry
<1>4. Batch(d, o) /\ meta' = m /\ life = "reput" /\ UNCHANGED <<life, st, done>> /\ e \in rec.got
  BY Zenon DEF putBack
<1>5. rec'.old = rec.old /\ rec'.di = rec.di /\ rec'.got = rec.got \ {e}
  BY Zenon DEF putBack, QInv, TypeOK
<1> HIDE DEF m, d
<1>6. errs = 0 /\ disk' = d
  BY <1>1, <1>4, BatchOutcome, Zenon
<1> QED
  BY Zenon, <1>1, <1>2, <1>3, <1>4, <1>5, <1>6

LEMMA recoveredDoes ==
  ASSUME QInv, recovered
  PROVE  /\ life = "reput" /\ rec.got = {} /\ UNCHANGED <<rec, disk, st, done, errs>>
         /\ meta'.ri = meta.ri /\ meta'.wi = meta.wi /\ meta'.cdi = {} /\ meta'.size = meta.size
         /\ life' = IF rec.old THEN "migrate" ELSE "up"
<1>1. meta'.ri = meta.ri /\ meta'.wi = meta.wi /\ meta'.cdi = {} /\ meta'.size = meta.size
  BY Stored, Zenon DEF recovered, Metadata
<1> QED
  BY <1>1, Zenon DEF recovered

LEMMA migrateDoes ==
  ASSUME QInv, NEW o \in Outcome, migrate(o), errs' = 0
  PROVE  /\ errs = 0 /\ life = "migrate" /\ life' = "purge" /\ UNCHANGED <<meta, rec, st, done>>
         /\ disk'.set /\ disk'.meta = meta /\ disk'.legacy = disk.legacy /\ disk'.item = disk.item
<1>1. errs \in 0..MaxErrs /\ ~closed /\ Batch(SetMeta(disk, meta), o)
  BY Stored, Zenon DEF migrate, QInv, Quiet, Up
<1>2. errs = 0 /\ disk' = SetMeta(disk, meta) /\ o = "ok"
  BY <1>1, BatchOutcome, Zenon
<1>3. disk'.set /\ disk'.meta = meta /\ disk'.legacy = disk.legacy /\ disk'.item = disk.item
  BY <1>2, Stored, SetMetaFacts, Zenon
<1> QED
  BY <1>2, <1>3, Zenon DEF migrate

LEMMA purgeLegacyDoes ==
  ASSUME QInv, NEW o \in Outcome, purgeLegacy(o), errs' = 0
  PROVE  /\ errs = 0 /\ life = "purge" /\ life' = "up" /\ UNCHANGED <<meta, rec, st, done>>
         /\ disk'.set = disk.set /\ disk'.meta = disk.meta /\ disk'.item = disk.item
<1>1. errs \in 0..MaxErrs /\ ~closed /\ Batch([disk EXCEPT !.legacy = FALSE], o)
  BY Stored, Zenon DEF purgeLegacy, QInv, Quiet, Up
<1>2. errs = 0 /\ disk' = [disk EXCEPT !.legacy = FALSE]
  BY <1>1, BatchOutcome, Zenon
<1>3. disk'.set = disk.set /\ disk'.meta = disk.meta /\ disk'.item = disk.item
  BY <1>2, Stored, Zenon DEF Disk
<1> QED
  BY <1>2, <1>3, Zenon DEF purgeLegacy

\* An item that does not decode is an error.
LEMMA skipUndecodableDoes ==
  ASSUME QInv, NEW e \in Entry, skipUndecodable(e) PROVE errs' # 0
  BY Stored, Bounds DEF skipUndecodable

\* onDone hands the index of the request over to itemDispatchingFinish.
LEMMA onDoneDoes ==
  ASSUME QInv, NEW f \in Entry, onDone(f)
  PROVE  /\ Up /\ mu = Free /\ f \in flight /\ flight' = flight \ {f} /\ mu' = Finish(f.idx)
         /\ UNCHANGED <<life, stopped, closed, cons, rec, disk, st, errs>> /\ done' = done \cup {f.req}
         /\ meta'.ri = meta.ri /\ meta'.wi = meta.wi /\ meta'.cdi = meta.cdi
         /\ meta'.size = Minus(meta.size, Items(f.req))
<1>1. /\ meta'.ri = meta.ri /\ meta'.wi = meta.wi /\ meta'.cdi = meta.cdi
      /\ meta'.size = Minus(meta.size, Items(f.req))
  BY Stored, Zenon DEF onDone, Metadata
<1> QED
  BY <1>1, Zenon DEF onDone

-----------------------------------------------------------------------------
(* Requests are handed out once. *)

\* What is in flight is listed, under an index of its own, and so is what is being
\* finished.
Dispatched ==
  /\ \A f \in flight : f.idx \in meta.cdi
  /\ \A f, g \in flight : f.idx = g.idx => f = g
  /\ mu.k \in {"drop", "done"} => mu.i \in Index /\ mu.i < meta.ri /\ \A f \in flight : f.idx # mu.i

LEMMA DispatchedStep == QInv /\ AInv /\ Dispatched /\ [Next]_vars => Dispatched'
<1> SUFFICES ASSUME QInv, AInv, Dispatched, [Next]_vars PROVE Dispatched'
  OBVIOUS
<1>1. CASE Recovery
  BY <1>1, RecoveryQuiet, LockKinds, Zenon DEF Dispatched
<1>2. ASSUME NEW r \in Reqs, Producer(r) PROVE Dispatched'
  <2>1. CASE OfferFull(r) \/ TakeSignal(r) \/ OfferCancel(r)
    BY <2>1, Zenon DEF OfferFull, TakeSignal, OfferCancel, proc, Dispatched
  <2>2. ASSUME NEW o \in Outcome, OfferPut(r, o) PROVE Dispatched'
    BY Zenon, <2>2, OfferPutDoes, LockKinds DEF Dispatched
  <2> QED
    BY <1>2, <2>1, <2>2, Zenon DEF Producer
<1>3. ASSUME NEW c \in Consumers, Consumer(c) PROVE Dispatched'
  <2>1. CASE ReadStopped(c) \/ consumeFunc(c) \/ ReadWait(c)
    BY <2>1, LockKinds, Zenon DEF ReadStopped, consumeFunc, ReadWait, Dispatched
  <2>2. ASSUME NEW o \in Outcome, getNextItem(c, o) PROVE Dispatched'
    <3>1. \A f \in flight : f.idx # meta.ri
      BY InFlight, Zenon
    <3>2. /\ meta.ri \in Index /\ meta'.ri = meta.ri + 1 /\ meta'.cdi = meta.cdi \cup {meta.ri}
          /\ \/ mu' = Free /\ flight' = flight \cup {[idx |-> meta.ri, req |-> disk.item[meta.ri]]}
             \/ mu' = Drop(c, meta.ri) /\ UNCHANGED flight
      BY <2>2, getNextItemDoes, Zenon
    <3> QED
      BY <3>1, <3>2, LockKinds, Bounds DEF Dispatched, Index
  <2> QED
    BY <1>3, <2>1, <2>2, Zenon DEF Consumer
<1>4. CASE Completion
  <2>1. ASSUME NEW f \in Entry, onDone(f) PROVE Dispatched'
    <3>1. /\ f \in flight /\ flight' = flight \ {f} /\ mu' = Finish(f.idx)
          /\ meta'.ri = meta.ri /\ meta'.cdi = meta.cdi
      BY <2>1, onDoneDoes, Zenon
    <3>2. f.idx \in Index /\ f.idx < meta.ri
      BY <3>1, InFlight, Zenon DEF QInv, Order
    <3> QED
      BY Zenon, <3>1, <3>2, LockKinds DEF Dispatched
  <2>2. ASSUME NEW f \in Entry, onDoneShutdown(f) PROVE Dispatched'
    BY Zenon, <2>2, LockKinds DEF onDoneShutdown, Dispatched
  <2>3. ASSUME NEW o \in Outcome, itemDispatchingFinish(o) PROVE Dispatched'
    <3>1. /\ mu.k \in {"drop", "done"} /\ UNCHANGED flight /\ meta'.ri = meta.ri
          /\ meta'.cdi = meta.cdi \/ meta'.cdi = meta.cdi \ {mu.i}
          /\ FinishReturns \/ (mu'.k = mu.k /\ mu'.i = mu.i)
      BY <2>3, itemDispatchingFinishDoes, Zenon
    <3>2. mu'.k \in {"drop", "done"} => mu'.i = mu.i
      BY <3>1, LockKinds, Zenon DEF FinishReturns
    <3> QED
      BY <3>1, <3>2, Zenon DEF Dispatched
  <2> QED
    BY <1>4, <2>1, <2>2, <2>3, Zenon DEF Completion
<1>5. CASE retryShutdown \/ Shutdown \/ ProcessEnds
  BY <1>5, LockKinds, Zenon DEF retryShutdown, Shutdown, ProcessEnds, Volatile, Dispatched
<1>6. CASE UNCHANGED vars
  BY <1>6, Zenon DEF vars, proc, Dispatched
<1> QED
  BY <1>1, <1>2, <1>3, <1>4, <1>5, <1>6, Zenon DEF Next

\* While an item is read or finished the storage client is open.
LEMMA StillOpen ==
  ASSUME QInv, AInv, Up, ~stopped \/ mu.k # "free" PROVE ~closed
<1>1. mu.k \in {"loop", "drop"} => ~stopped
  BY Zenon DEF AInv, ReadersAwake
<1>2. mu.k \in {"free", "loop", "drop", "done"} /\ Cardinality(flight) \in Nat
  BY FS_CardinalityType, Zenon DEF QInv, TypeOK, Lock
<1> QED
  BY <1>1, <1>2 DEF QInv, ClientClosedLast, Held

\* A request that was accepted stays so.
LEMMA AcceptedStays ==
  ASSUME QInv, [Next]_vars, NEW r \in Reqs, st[r] = "accepted" PROVE st'[r] = "accepted"
<1>1. CASE Recovery
  BY <1>1, Zenon DEF Recovery, loadQueueMetadata, loadLegacyMetadata, retrieveBatch, cleanupBatch, putBack, skipUndecodable, recovered, migrate, purgeLegacy
<1>2. ASSUME NEW q \in Reqs, Producer(q) PROVE st'[r] = "accepted"
  BY <1>2, Threads, Zenon DEF Producer, OfferFull, OfferPut, TakeSignal, OfferCancel, Offering
<1>3. CASE Completion
  BY <1>3, Threads, Zenon DEF Completion, onDone, onDoneShutdown, itemDispatchingFinish, FinishReturns, SignalSpace, SignalBlocks
<1>4. CASE ProcessEnds
  BY <1>4, Zenon DEF ProcessEnds
<1>5. CASE UNCHANGED st
  BY <1>5, Zenon
<1> QED
  BY <1>1, <1>2, <1>3, <1>4, <1>5, Zenon DEF Next, Consumer, ReadStopped, ReadWait, consumeFunc, getNextItem, retryShutdown, Shutdown, vars

Loaded == life \in {"retrieve", "cleanup", "reput", "migrate"}

\* A request is in storage once, and only if it was accepted.
StoredOnce ==
  /\ \A i, j \in Index : disk.item[i] \in Reqs /\ disk.item[i] = disk.item[j] => i = j
  /\ \A i \in Index : disk.item[i] \in Reqs => st[disk.item[i]] = "accepted"

\* There is a request at every index that waits to be read.
NoHoles ==
  /\ disk.set => \A i \in Index : disk.meta.ri <= i /\ i < disk.meta.wi => disk.item[i] \in Reqs
  /\ ~disk.set => \A i \in Index : OldRead <= i /\ i < Len(OldQueue) => disk.item[i] \in Reqs
  /\ Loaded => \A i \in Index : meta.ri <= i /\ i < meta.wi => disk.item[i] \in Reqs
  /\ \A f \in flight : f.req \in Reqs

\* The recovery holds accepted requests, each once, and after the clean-up storage
\* does not have them.
HeldOnce ==
  /\ \A e \in rec.got : e.req \in Reqs /\ st[e.req] = "accepted"
  /\ \A e, g \in rec.got : e.req = g.req => e = g
  /\ life = "cleanup" => \A e \in rec.got : e.idx \in rec.di /\ disk.item[e.idx] = e.req
  /\ life = "reput" => \A e \in rec.got, i \in Index : disk.item[i] # e.req

\* What the recovery moves was read, and without metadata in storage there is a legacy
\* queue, or nothing.
Legacy ==
  Loaded => /\ \A j \in rec.di : j < meta.ri
            /\ ~disk.set => disk.legacy \/ (life = "migrate" /\ meta.wi = meta.ri)

Once == StoredOnce /\ NoHoles /\ HeldOnce /\ Legacy
UInv == Dispatched /\ (errs = 0 => Once)

\* Deleting items does not disturb StoredOnce.
LEMMA StoredKeeps ==
  ASSUME StoredOnce, \A i \in Index : disk'.item[i] = disk.item[i] \/ disk'.item[i] = NoValue,
         \A r \in Reqs : st[r] = "accepted" => st'[r] = "accepted"
  PROVE  StoredOnce'
  BY Bounds, Zenon DEF StoredOnce

\* A request that was not in storage is put there.
LEMMA StoredPut ==
  ASSUME disk \in Disk, StoredOnce, NEW w \in Index, NEW r \in Reqs, disk'.item = [disk.item EXCEPT ![w] = r],
         \A i \in Index : disk.item[i] # r,
         \A q \in Reqs : st[q] = "accepted" => st'[q] = "accepted", st'[r] = "accepted"
  PROVE  StoredOnce'
<1>1. \A i \in Index : disk'.item[i] = IF i = w THEN r ELSE disk.item[i]
  BY Zenon DEF Disk
<1> QED
  BY <1>1, Zenon DEF StoredOnce

LEMMA loadQueueMetadataU ==
  ASSUME QInv, AInv, SInv, Once, errs = 0, NEW o \in Outcome, loadQueueMetadata(o), Recovery, errs' = 0
  PROVE  Once'
<1>1. /\ disk.set /\ UNCHANGED <<disk, st>> /\ flight' = {} /\ rec'.got = {} /\ rec'.di = disk.meta.cdi
      /\ meta' = disk.meta
  BY loadQueueMetadataDoes, RecoveryQuiet
<1>2. StoredOnce'
  BY <1>1, Zenon DEF Once, StoredOnce
<1>3. NoHoles'
  BY <1>1, Zenon DEF Once, NoHoles
<1>4. HeldOnce' /\ Legacy'
  BY <1>1, Zenon DEF HeldOnce, Legacy, SInv, Listing
<1> QED
  BY <1>2, <1>3, <1>4, Zenon DEF Once

LEMMA loadLegacyMetadataU ==
  ASSUME QInv, AInv, SInv, Once, errs = 0, NEW oi \in Outcome, NEW od \in Outcome,
         loadLegacyMetadata(oi, od), Recovery, errs' = 0
  PROVE  Once'
<1>1. /\ ~disk.set /\ UNCHANGED <<disk, st>> /\ flight' = {} /\ rec'.got = {}
      /\ rec'.di = IF disk.legacy THEN 0..OldRead-1 ELSE {}
      /\ meta'.ri = IF disk.legacy THEN OldRead ELSE 0
      /\ meta'.wi = IF disk.legacy THEN Len(OldQueue) ELSE 0
      /\ life' = IF rec'.di = {} THEN "migrate" ELSE "retrieve"
  BY loadLegacyMetadataDoes, RecoveryQuiet, Zenon
<1>2. StoredOnce'
  BY <1>1, Zenon DEF Once, StoredOnce
<1>3. NoHoles'
  BY <1>1, Bounds DEF Once, NoHoles, Index
<1>4. HeldOnce' /\ Legacy'
  BY <1>1, Bounds DEF HeldOnce, Legacy
<1> QED
  BY <1>2, <1>3, <1>4, Zenon DEF Once

LEMMA retrieveBatchU ==
  ASSUME QInv, AInv, SInv, Once, errs = 0, NEW o \in Outcome, retrieveBatch(o), Recovery, errs' = 0
  PROVE  Once'
<1>1. /\ life = "retrieve" /\ life' = "cleanup" /\ UNCHANGED <<meta, disk, st>> /\ rec'.di = rec.di
      /\ rec'.got = {[idx |-> i, req |-> disk.item[i]] : i \in {j \in rec.di : disk.item[j] # NoValue}}
      /\ flight' = {}
  BY retrieveBatchDoes, RecoveryQuiet, Zenon
<1>2. StoredOnce'
  BY <1>1, Zenon DEF Once, StoredOnce
<1>3. NoHoles' /\ Legacy'
  BY <1>1, Zenon DEF Once, NoHoles, Legacy, Loaded
<1>4. \A e \in rec'.got : e.idx \in rec.di /\ e.idx \in Index /\ e.req = disk.item[e.idx] /\ e.req \in Reqs
                          /\ e = [idx |-> e.idx, req |-> e.req]
  <2>1. rec.di \in SUBSET Index /\ \A i \in Index : disk.item[i] \in Reqs \cup {NoValue}
    BY Stored, Zenon DEF QInv, TypeOK, Disk, Value
  <2> QED
    BY <1>1, <2>1
<1>5. HeldOnce'
  BY <1>1, <1>4 DEF Once, StoredOnce, HeldOnce
<1> QED
  BY <1>2, <1>3, <1>5, Zenon DEF Once

LEMMA cleanupBatchU ==
  ASSUME QInv, AInv, SInv, Once, errs = 0, NEW o \in Outcome, cleanupBatch(o), Recovery, errs' = 0
  PROVE  Once'
<1>1. /\ life = "cleanup" /\ life' = "reput" /\ UNCHANGED <<meta, rec, st>>
      /\ disk'.set = disk.set /\ disk'.meta = disk.meta /\ disk'.legacy = disk.legacy
      /\ disk'.item = [i \in Index |-> IF i \in rec.di THEN NoValue ELSE disk.item[i]]
      /\ flight' = {}
  BY cleanupBatchDoes, RecoveryQuiet, Zenon
<1>2. \A i \in Index : disk'.item[i] = IF i \in rec.di THEN NoValue ELSE disk.item[i]
  BY <1>1, Zenon
<1>3. StoredOnce'
  BY <1>1, <1>2, StoredKeeps, Zenon DEF Once
<1>4. /\ disk.set => disk.meta.ri = meta.ri
      /\ ~disk.set => meta.ri = OldRead
  BY <1>1, Zenon DEF SInv, Recovering, Same, Once, Legacy, Loaded
<1>5. \A j \in rec.di : j \in Index /\ j < meta.ri
  BY <1>1, Zenon DEF Once, Legacy, Loaded, QInv, TypeOK
<1>6. meta.ri \in Nat /\ \A i \in Index : i \in Nat
  BY Stored, Bounds DEF Index
<1>7. NoHoles'
  BY <1>1, <1>2, <1>4, <1>5, <1>6 DEF Once, NoHoles, Loaded
<1>8. ASSUME NEW e \in rec.got, NEW i \in Index PROVE disk'.item[i] # e.req
  <2>1. e.req \in Reqs /\ e.idx \in rec.di /\ disk.item[e.idx] = e.req
    BY <1>1, Zenon DEF Once, HeldOnce
  <2>2. CASE disk.item[i] = e.req
    BY <1>2, <1>5, <2>1, <2>2, Bounds DEF Once, StoredOnce
  <2>3. CASE disk.item[i] # e.req
    BY <1>2, <2>1, <2>3, Bounds, Zenon
  <2> QED
    BY <2>2, <2>3, Zenon
<1>9. HeldOnce' /\ Legacy'
  BY <1>1, <1>8, Zenon DEF Once, HeldOnce, Legacy, Loaded
<1> QED
  BY <1>3, <1>7, <1>9, Zenon DEF Once

LEMMA putBackU ==
  ASSUME QInv, AInv, SInv, Once, errs = 0, NEW e \in Entry, NEW o \in Outcome, putBack(e, o), Recovery, errs' = 0
  PROVE  Once'
<1>1. /\ life = "reput" /\ UNCHANGED <<life, st>> /\ e \in rec.got
      /\ meta.wi \in Index /\ meta'.ri = meta.ri /\ meta'.wi = meta.wi + 1
      /\ disk'.set /\ disk'.meta = meta'
      /\ disk'.item = [disk.item EXCEPT ![meta.wi] = e.req]
      /\ rec'.di = rec.di /\ rec'.got = rec.got \ {e} /\ flight' = {}
  BY putBackDoes, RecoveryQuiet, Zenon
<1>2. e.req \in Reqs /\ st[e.req] = "accepted" /\ \A i \in Index : disk.item[i] # e.req
  BY <1>1, Zenon DEF Once, HeldOnce
<1>3. StoredOnce'
  BY <1>1, <1>2, StoredPut, Stored, Zenon DEF Once
<1>4. \A i \in Index : disk'.item[i] = IF i = meta.wi THEN e.req ELSE disk.item[i]
  BY <1>1, Stored, Zenon DEF Disk
<1>5. \A i \in Index : i \in Int
  BY Bounds DEF Index
<1>6. \A i \in Index : meta'.ri <= i /\ i < meta'.wi => disk'.item[i] \in Reqs
  BY <1>1, <1>2, <1>4, <1>5 DEF Once, NoHoles, Loaded
<1>7. NoHoles'
  BY Zenon, <1>1, <1>6 DEF NoHoles
<1>8. HeldOnce'
  BY <1>1, <1>4 DEF Once, HeldOnce
<1>9. Legacy'
  BY <1>1, Zenon DEF Once, Legacy, Loaded
<1> QED
  BY <1>3, <1>7, <1>8, <1>9, Zenon DEF Once

\* Steps after which the recovery is over and which leave storage alone.
LEMMA OnceKeeps ==
  ASSUME Once, ~Loaded', UNCHANGED <<disk, rec>>, flight' \subseteq flight,
         \A r \in Reqs : st[r] = "accepted" => st'[r] = "accepted"
  PROVE  Once'
<1>1. StoredOnce'
  BY StoredKeeps, Zenon DEF Once
<1>2. HeldOnce'
  BY Zenon DEF Once, HeldOnce, Loaded
<1> QED
  BY <1>1, <1>2, Zenon DEF Once, NoHoles, Legacy

LEMMA recoveredU ==
  ASSUME QInv, AInv, SInv, Once, errs = 0, recovered, Recovery PROVE Once'
<1>1. /\ life = "reput" /\ rec.got = {} /\ UNCHANGED <<rec, disk, st>> /\ flight' = {}
      /\ meta'.ri = meta.ri /\ meta'.wi = meta.wi
      /\ life' = IF rec.old THEN "migrate" ELSE "up"
  BY recoveredDoes, RecoveryQuiet, Zenon
<1>2. CASE rec.old
  BY <1>1, <1>2, Zenon DEF Once, StoredOnce, NoHoles, HeldOnce, Legacy, Loaded
<1>3. CASE ~rec.old
  BY <1>1, <1>3, OnceKeeps, Zenon DEF Loaded
<1> QED
  BY <1>2, <1>3, Zenon

LEMMA migrateU ==
  ASSUME QInv, AInv, SInv, Once, errs = 0, NEW o \in Outcome, migrate(o), Recovery, errs' = 0
  PROVE  Once'
<1>1. /\ life = "migrate" /\ life' = "purge" /\ UNCHANGED <<meta, rec, st>> /\ flight' = {}
      /\ disk'.set /\ disk'.meta = meta /\ disk'.item = disk.item
  BY migrateDoes, RecoveryQuiet, Zenon
<1> QED
  BY <1>1 DEF Once, StoredOnce, NoHoles, HeldOnce, Legacy, Loaded

LEMMA purgeLegacyU ==
  ASSUME QInv, AInv, SInv, Once, errs = 0, NEW o \in Outcome, purgeLegacy(o), Recovery, errs' = 0
  PROVE  Once'
<1>1. /\ life = "purge" /\ life' = "up" /\ UNCHANGED <<meta, rec, st>> /\ flight' = {}
      /\ disk'.set = disk.set /\ disk'.meta = disk.meta /\ disk'.item = disk.item
  BY purgeLegacyDoes, RecoveryQuiet, Zenon
<1> QED
  BY <1>1 DEF Once, StoredOnce, NoHoles, HeldOnce, Legacy, Loaded

\* A caller offers a request that storage does not have.
LEMMA OfferPutU ==
  ASSUME QInv, AInv, SInv, Once, errs = 0, NEW r \in Reqs, NEW o \in Outcome, OfferPut(r, o), [Next]_vars, errs' = 0
  PROVE  Once'
<1>1. \A q \in Reqs : st[q] = "accepted" => st'[q] = "accepted"
  BY AcceptedStays, Zenon
<1>2. /\ Up /\ meta.wi \in Index /\ UNCHANGED <<life, flight, rec>>
      /\ meta'.ri = meta.ri /\ meta'.wi = meta.wi + 1
  BY OfferPutDoes, Zenon
<1>3. ~Loaded' /\ ~Loaded
  BY <1>2, Zenon DEF Up, Loaded
<1>4. CASE closed
  <2>1. disk' = disk
    BY <1>4, OfferPutDoes, Zenon
  <2> QED
    BY <1>1, <1>2, <1>3, <2>1, OnceKeeps, Zenon
<1>5. CASE ~closed
  <2>1. o = "ok" /\ disk'.set /\ disk'.meta = meta' /\ disk'.item = [disk.item EXCEPT ![meta.wi] = r]
    BY <1>5, OfferPutDoes, Zenon
  <2>2. st[r] # "accepted" /\ st'[r] = "accepted"
    BY <2>1, Threads, Zenon DEF OfferPut, Offering
  <2>3. \A i \in Index : disk.item[i] # r
    BY <2>2, Zenon DEF Once, StoredOnce
  <2>4. StoredOnce'
    BY <1>1, <1>2, <2>1, <2>2, <2>3, StoredPut, Stored, Zenon DEF Once
  <2>5. disk.set /\ disk.meta.ri = meta.ri /\ disk.meta.wi = meta.wi
    BY <1>2, <1>5, Zenon DEF SInv, Running, Up
  <2>6. \A i \in Index : i \in Int /\ disk'.item[i] = IF i = meta.wi THEN r ELSE disk.item[i]
    BY <2>1, Stored, Bounds DEF Disk, Index
  <2>7. \A i \in Index : meta'.ri <= i /\ i < meta'.wi => disk'.item[i] \in Reqs
    BY <1>2, <2>5, <2>6 DEF Once, NoHoles
  <2>8. NoHoles'
    BY <1>2, <1>3, <2>1, <2>7, Zenon DEF Once, NoHoles
  <2>9. HeldOnce' /\ Legacy'
    BY <1>1, <1>2, <1>3, Zenon DEF Once, HeldOnce, Legacy, Loaded
  <2> QED
    BY <2>4, <2>8, <2>9, Zenon DEF Once
<1> QED
  BY <1>4, <1>5, Zenon

\* While storage reports no error, getNextItem finds a request, which is handed out, ...
LEMMA getNextItemServes ==
  ASSUME QInv, AInv, SInv, Once, errs = 0, NEW c \in Consumers, NEW o \in Outcome, getNextItem(c, o), errs' = 0
  PROVE  /\ Up /\ ~closed /\ UNCHANGED <<life, closed, rec, st, done>>
         /\ meta.ri \in Index /\ meta.ri + 1 <= meta.wi
         /\ meta'.ri = meta.ri + 1 /\ meta'.wi = meta.wi /\ meta'.cdi = meta.cdi \cup {meta.ri}
         /\ disk.set /\ disk.meta.ri = meta.ri /\ disk.meta.wi = meta.wi
         /\ disk'.set /\ disk'.meta = meta' /\ disk'.item = disk.item
         /\ disk.item[meta.ri] \in Reqs /\ mu' = Free
         /\ flight' = flight \cup {[idx |-> meta.ri, req |-> disk.item[meta.ri]]}
<1>1. /\ Up /\ ((mu = Free /\ cons[c] = "awake" /\ ~stopped) \/ mu = Loop(c))
      /\ UNCHANGED <<life, closed, rec, st, done>> /\ meta.ri \in Index /\ meta.ri + 1 <= meta.wi
      /\ meta'.ri = meta.ri + 1 /\ meta'.wi = meta.wi /\ meta'.cdi = meta.cdi \cup {meta.ri} /\ disk'.item = disk.item
  BY getNextItemDoes, Zenon
<1>2. ~closed
  BY <1>1, StillOpen, LockKinds, Zenon
<1>3. disk'.set /\ disk'.meta = meta' /\ (disk.item[meta.ri] # NoValue => mu' = Free)
  BY <1>2, getNextItemDoes, Zenon
<1>4. disk.set /\ disk.meta.ri = meta.ri /\ disk.meta.wi = meta.wi
  BY <1>1, <1>2, Zenon DEF SInv, Running, Up
<1>5. disk.item[meta.ri] \in Reqs
  BY <1>1, <1>4, Stored, Bounds DEF Once, NoHoles, Index
<1>6. mu' = Free /\ mu' # Drop(c, meta.ri)
  BY <1>3, <1>5, Bounds, LockKinds
<1>7. flight' = flight \cup {[idx |-> meta.ri, req |-> disk.item[meta.ri]]}
  BY <1>6, getNextItemDoes, Zenon
<1> QED
  BY Zenon, <1>1, <1>2, <1>3, <1>4, <1>5, <1>6, <1>7

LEMMA getNextItemU ==
  ASSUME QInv, AInv, SInv, Once, errs = 0, NEW c \in Consumers, NEW o \in Outcome, getNextItem(c, o), errs' = 0
  PROVE  Once'
<1>1. /\ Up /\ UNCHANGED <<life, rec, st>> /\ meta.ri \in Index /\ meta'.ri = meta.ri + 1 /\ meta'.wi = meta.wi
      /\ disk.set /\ disk.meta.ri = meta.ri /\ disk.meta.wi = meta.wi
      /\ disk'.set /\ disk'.meta = meta' /\ disk'.item = disk.item
      /\ disk.item[meta.ri] \in Reqs
      /\ flight' = flight \cup {[idx |-> meta.ri, req |-> disk.item[meta.ri]]}
  BY getNextItemServes, Zenon
<1>2. \A i \in Index : i \in Int
  BY Bounds DEF Index
<1>3. ~Loaded' /\ ~Loaded
  BY <1>1, Zenon DEF Up, Loaded
<1>4. NoHoles'
  BY <1>1, <1>2, <1>3 DEF Once, NoHoles
<1>5. StoredOnce'
  BY <1>1 DEF Once, StoredOnce
<1>6. HeldOnce' /\ Legacy'
  BY <1>1, <1>3, Zenon DEF Once, HeldOnce, Legacy, Loaded
<1> QED
  BY <1>4, <1>5, <1>6, Zenon DEF Once

\* ... and itemDispatchingFinish takes the item off storage in its first transaction.
LEMMA itemDispatchingFinishServes ==
  ASSUME QInv, AInv, SInv, errs = 0, NEW o \in Outcome, itemDispatchingFinish(o), errs' = 0
  PROVE  /\ Up /\ ~closed /\ mu.k \in {"drop", "done"} /\ UNCHANGED <<life, flight, rec, done>>
         /\ mu.i \in Index /\ disk.item[mu.i] \in done \cup {NoValue}
         /\ meta' = Drained([meta EXCEPT !.cdi = @ \ {mu.i}])
         /\ meta'.ri = meta.ri /\ meta'.wi = meta.wi /\ meta'.cdi = meta.cdi \ {mu.i}
         /\ disk.set /\ disk.meta.ri = meta.ri /\ disk.meta.wi = meta.wi
         /\ disk'.set /\ disk'.meta = meta'
         /\ \A i \in Index : disk'.item[i] = IF i = mu.i THEN NoValue ELSE disk.item[i]
         /\ FinishReturns \/ SignalBlocks
<1>1. /\ Up /\ mu.k \in {"drop", "done"} /\ UNCHANGED <<life, flight, rec, done>>
      /\ meta'.ri = meta.ri /\ meta'.wi = meta.wi
  BY itemDispatchingFinishDoes, Zenon
<1>2. ~closed
  BY <1>1, StillOpen, Zenon
<1>3. /\ disk.set /\ disk.meta.ri = meta.ri /\ disk.meta.wi = meta.wi /\ mu.ph = "both"
      /\ mu.i \in Index /\ disk.item[mu.i] \in done \cup {NoValue}
  <2>1. mu.ph # "signal"
    BY Zenon DEF itemDispatchingFinish, Phases
  <2> QED
    BY <1>1, <1>2, <2>1, Zenon DEF SInv, Running, Up
<1>4. /\ meta' = Drained([meta EXCEPT !.cdi = @ \ {mu.i}])
      /\ disk'.set /\ disk'.meta = meta' /\ (FinishReturns \/ SignalBlocks)
      /\ disk'.item = [i \in Index |-> IF i = mu.i THEN NoValue ELSE disk.item[i]]
  BY <1>2, <1>3, itemDispatchingFinishDoes, Zenon
<1>5. meta'.cdi = meta.cdi \ {mu.i}
  <2>1. [meta EXCEPT !.cdi = @ \ {mu.i}] \in Metadata /\ [meta EXCEPT !.cdi = @ \ {mu.i}].cdi = meta.cdi \ {mu.i}
    BY Stored, Zenon DEF Metadata
  <2> QED
    BY <1>4, <2>1, DrainedFacts, Zenon
<1>6. \A i \in Index : disk'.item[i] = IF i = mu.i THEN NoValue ELSE disk.item[i]
  BY <1>4, Zenon
<1> QED
  BY <1>1, <1>2, <1>3, <1>4, <1>5, <1>6, Zenon

\* What is deleted was read.
LEMMA itemDispatchingFinishU ==
  ASSUME QInv, AInv, SInv, Dispatched, Once, errs = 0, NEW o \in Outcome, itemDispatchingFinish(o), [Next]_vars, errs' = 0
  PROVE  Once'
<1>1. \A q \in Reqs : st[q] = "accepted" => st'[q] = "accepted"
  BY AcceptedStays, Zenon
<1>2. /\ Up /\ mu.k \in {"drop", "done"} /\ UNCHANGED <<life, flight, rec>> /\ meta'.ri = meta.ri /\ meta'.wi = meta.wi
      /\ disk.set /\ disk.meta.ri = meta.ri /\ disk.meta.wi = meta.wi /\ disk'.set /\ disk'.meta = meta'
      /\ \A i \in Index : disk'.item[i] = IF i = mu.i THEN NoValue ELSE disk.item[i]
  BY itemDispatchingFinishServes, Zenon
<1>3. \A i \in Index : i \in Int
  BY Bounds DEF Index
<1>4. StoredOnce'
  BY <1>1, <1>2, StoredKeeps, Zenon DEF Once
<1>5. ~Loaded' /\ ~Loaded
  BY <1>2, Zenon DEF Up, Loaded
<1>6. mu.i < meta.ri /\ mu.i \in Int /\ meta.ri \in Int
  BY <1>2, <1>3, Stored DEF Dispatched
<1>7. NoHoles'
  BY <1>2, <1>3, <1>5, <1>6 DEF Once, NoHoles
<1>8. HeldOnce' /\ Legacy'
  BY <1>1, <1>2, <1>5, Zenon DEF Once, HeldOnce, Legacy, Loaded
<1> QED
  BY <1>4, <1>7, <1>8, Zenon DEF Once

\* Steps of a running queue that write nothing to storage.
LEMMA QuietStepsU ==
  ASSUME QInv, Once, [Next]_vars, UNCHANGED <<disk, rec>>, flight' \subseteq flight, life' \in {"down", "up", "closing"}
  PROVE  Once'
<1>1. \A q \in Reqs : st[q] = "accepted" => st'[q] = "accepted"
  BY AcceptedStays, Zenon
<1> QED
  BY <1>1, OnceKeeps, Zenon DEF Loaded

\* What an older release left is there once.
LEMMA UInit == Init => UInv
<1> SUFFICES ASSUME Init PROVE UInv
  OBVIOUS
<1>1. \A i \in Index : i \in Nat /\ disk.item[i] = IF i < Len(OldQueue) THEN OldQueue[i+1] ELSE NoValue
  BY Bounds DEF Init, Index
<1>2. Len(OldQueue) \in Nat /\ OldRead \in Nat /\ \A i \in 1..Len(OldQueue) : OldQueue[i] \in Reqs
  BY ConstantsOK DEF ConstantsOK
<1>3. \A i \in Index : disk.item[i] \in Reqs <=> i < Len(OldQueue)
  BY <1>1, <1>2, Bounds
<1>4. \A i \in Index : i < Len(OldQueue) => i + 1 \in 1..Len(OldQueue)
  BY <1>1, <1>2
<1>5. \A i \in Index : disk.item[i] \in Reqs => st[disk.item[i]] = "accepted"
  BY <1>1, <1>2, <1>3, <1>4, Zenon DEF Init
<1>6. \A i, j \in Index : disk.item[i] \in Reqs /\ disk.item[i] = disk.item[j] => i = j
  <2> SUFFICES ASSUME NEW i \in Index, NEW j \in Index, disk.item[i] \in Reqs, disk.item[i] = disk.item[j] PROVE i = j
    OBVIOUS
  <2>1. OldQueue[i+1] = OldQueue[j+1] /\ i + 1 \in 1..Len(OldQueue) /\ j + 1 \in 1..Len(OldQueue)
    BY <1>1, <1>3, <1>4, Zenon
  <2>2. i + 1 = j + 1
    BY <2>1, ConstantsOK, Zenon DEF ConstantsOK
  <2> QED
    BY <1>1, <2>2
<1>7. Dispatched
  BY LockKinds, Zenon DEF Init, Dispatched
<1>8. NoHoles /\ HeldOnce /\ Legacy
  BY <1>3, Zenon DEF Init, NoHoles, HeldOnce, Legacy, Loaded, NoRec
<1> QED
  BY <1>5, <1>6, <1>7, <1>8, Zenon DEF UInv, Once, StoredOnce

\* Errors are counted, never taken back.
LEMMA ErrorsStay == ASSUME QInv, [Next]_vars, errs' = 0 PROVE errs = 0
<1> USE Stored, Bounds
<1>1. CASE Recovery
  <2>1. CASE \E o \in Outcome : loadQueueMetadata(o) \/ retrieveBatch(o) \/ cleanupBatch(o) \/ migrate(o) \/ purgeLegacy(o)
    BY <2>1 DEF loadQueueMetadata, retrieveBatch, cleanupBatch, migrate, purgeLegacy, Batch
  <2>2. CASE \E oi, od \in Outcome : loadLegacyMetadata(oi, od)
    BY <2>2 DEF loadLegacyMetadata
  <2>3. CASE \E e \in Entry : skipUndecodable(e) \/ \E o \in Outcome : putBack(e, o)
    BY <2>3 DEF skipUndecodable, putBack, Batch
  <2> QED
    BY <1>1, <2>1, <2>2, <2>3, Zenon DEF Recovery, recovered
<1>2. CASE \E r \in Reqs : Producer(r)
  BY <1>2 DEF Producer, OfferFull, OfferPut, TakeSignal, OfferCancel, Batch
<1>3. CASE \E c \in Consumers : Consumer(c)
  BY <1>3 DEF Consumer, ReadStopped, ReadWait, consumeFunc, getNextItem, Batch
<1>4. CASE Completion
  BY <1>4 DEF Completion, onDone, onDoneShutdown, itemDispatchingFinish, Batch
<1> QED
  BY <1>1, <1>2, <1>3, <1>4 DEF Next, retryShutdown, Shutdown, ProcessEnds, vars

\* UInv is inductive relative to the invariants before it.
LEMMA UStep == QInv /\ AInv /\ SInv /\ UInv /\ [Next]_vars => UInv'
<1> SUFFICES ASSUME QInv, AInv, SInv, Dispatched, Once, errs = 0, [Next]_vars, errs' = 0 PROVE Once'
  BY DispatchedStep, ErrorsStay, Zenon DEF UInv
<1>1. CASE Recovery
  BY <1>1, loadQueueMetadataU, loadLegacyMetadataU, retrieveBatchU, cleanupBatchU, putBackU,
     recoveredU, migrateU, purgeLegacyU, skipUndecodableDoes DEF Recovery
<1>2. ASSUME NEW r \in Reqs, Producer(r) PROVE Once'
  <2>1. CASE OfferFull(r) \/ TakeSignal(r) \/ OfferCancel(r)
    BY <2>1, QuietStepsU, Zenon DEF OfferFull, Offering, TakeSignal, OfferCancel, proc, Up
  <2> QED
    BY <1>2, <2>1, OfferPutU, Zenon DEF Producer
<1>3. ASSUME NEW c \in Consumers, Consumer(c) PROVE Once'
  <2>1. CASE ReadStopped(c) \/ consumeFunc(c) \/ ReadWait(c)
    BY <2>1, QuietStepsU, Zenon DEF ReadStopped, consumeFunc, ReadWait, Reading, Up
  <2> QED
    BY <1>3, <2>1, getNextItemU, Zenon DEF Consumer
<1>4. CASE Completion
  <2>1. CASE \E f \in Entry : onDone(f) \/ onDoneShutdown(f)
    BY <2>1, QuietStepsU, Zenon DEF onDone, onDoneShutdown, Up
  <2> QED
    BY <1>4, <2>1, itemDispatchingFinishU, Zenon DEF Completion
<1>5. CASE retryShutdown \/ Shutdown
  BY <1>5, QuietStepsU, Zenon DEF retryShutdown, Shutdown
<1>6. CASE ProcessEnds
  <2>1. \A q \in Reqs : st[q] = "accepted" => st'[q] = "accepted"
    BY AcceptedStays, Zenon
  <2>2. disk' = disk /\ flight' = {} /\ rec'.got = {} /\ life' = "down"
    BY <1>6, Zenon DEF ProcessEnds, Volatile, NoRec
  <2> QED
    BY Zenon, <2>1, <2>2, StoredKeeps DEF Once, NoHoles, HeldOnce, Legacy, Loaded
<1>7. CASE UNCHANGED vars
  BY Zenon, <1>7 DEF vars, proc, Once, StoredOnce, NoHoles, HeldOnce, Legacy, Loaded
<1> QED
  BY <1>1, <1>2, <1>3, <1>4, <1>5, <1>6, <1>7, Zenon DEF Next

\* UInv holds in every reachable state.
LEMMA UAlways == Spec => []UInv
  BY UInit, UStep, QAlways, AAlways, SAlways, PTL DEF Spec

\* While storage reports no error, a request in flight is what storage holds at its
\* index, so no other request in flight is the same.
LEMMA FlightOnce ==
  ASSUME QInv, SInv, UInv, Up, errs = 0, NEW f \in flight, NEW g \in flight, f.req = g.req PROVE f = g
<1>1. flight # {} /\ IsFiniteSet(flight)
  BY Zenon DEF QInv
<1>2. Cardinality(flight) # 0 /\ Cardinality(flight) \in Nat
  BY <1>1, FS_EmptySet, FS_CardinalityType, Zenon
<1>3. ~closed
  BY <1>2 DEF QInv, ClientClosedLast, Held
<1>4. f.idx \in Index /\ g.idx \in Index
  BY InFlight, Zenon
<1>5. disk.item[f.idx] = f.req /\ disk.item[g.idx] = g.req /\ f.req \in Reqs
  BY <1>3, Zenon DEF SInv, Running, Up, UInv, Once, NoHoles
<1>6. f.idx = g.idx
  BY <1>4, <1>5, Zenon DEF UInv, Once, StoredOnce
<1> QED
  BY <1>6, Zenon DEF UInv, Dispatched

\* Whatever storage reports, an index is handed out once, and a request is never in
\* the hands of two consumers of the process at the same time unless storage failed.
THEOREM DispatchedOnceAlways == Spec => []DispatchedOnce
<1>1. QInv /\ SInv /\ UInv => DispatchedOnce
  BY FlightOnce, Stored, Zenon DEF DispatchedOnce, SInv, Listing, UInv, Dispatched
<1> QED
  BY <1>1, QAlways, SAlways, UAlways, PTL

=============================================================================
