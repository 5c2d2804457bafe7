------------------------ MODULE BatchProcessorProofs ------------------------
(***************************************************************************)
(* Proofs about the batch processor, for any number of calls, metadata     *)
(* combinations and configurations: the cardinality limit, the form of     *)
(* the batches, that Shutdown sends what was accepted before it, and that  *)
(* every accepted element is in one place.                                 *)
(***************************************************************************)
EXTENDS BatchProcessor, FiniteSetTheorems, TLAPS

Elements == Items \X Nat
Places == {"none", "select", "process", "drain", "drain process", "exit"}

BatchTypeOK ==
  /\ cfg \in Configs
  /\ call \in [Items -> {"idle", "store", "put", "accepted", "rejected"}]
  /\ shards \subseteq Keys /\ size \in Nat
  /\ newItem \in [Keys -> Seq(Items)] /\ batch \in [Keys -> Seq(Elements)]
  /\ loop \in [Keys -> Places] /\ sent \in [Keys -> BOOLEAN]
  /\ timer \in [Keys -> {"none", "armed", "fired", "read"}]
  /\ out \subseteq Seq(Elements)
  /\ down \in {"up", "closed", "done"} /\ early \subseteq Items

\* Who was refused found the limit reached, and it stays reached.
Limited ==
  /\ IsFiniteSet(shards)
  /\ cfg.metadata =>
       /\ size = Cardinality(shards)
       /\ cfg.limit # 0 => size <= cfg.limit
       /\ \A i \in Items : call[i] = "rejected" => cfg.limit # 0 /\ size = cfg.limit

\* A goroutine runs, or has run, exactly for the shards that are stored, and calls
\* that have passed LoadOrStore have one.
Started ==
  /\ \A k \in Keys : loop[k] = "none" <=> k \notin shards
  /\ \A k \in Keys \ shards : batch[k] = <<>> /\ newItem[k] = <<>>
  /\ \A i \in Items : call[i] \in {"put", "accepted"} => Shard(i) \in shards

In(x, s) == \E j \in DOMAIN s : s[j] = x

\* Data is only in the channel and the batch of its shard.
InShard(k) ==
  /\ \A i \in Items : In(i, newItem[k]) => Shard(i) = k
  /\ \A x \in Elements : In(x, batch[k]) => Shard(x[1]) = k

\* In a select the batch is below send_batch_size, and empty without a timer.
Small(k) ==
  loop[k] \in {"select", "drain"} => batch[k] = <<>> \/ (hasTimer(k) /\ Len(batch[k]) < cfg.size)

Out(x) == \E b \in out : In(x, b)

\* Accepted data is in the channel, or each of its elements in the batch or sent.
Kept(i) ==
  call[i] = "accepted" =>
    \/ In(i, newItem[Shard(i)])
    \/ \A n \in 1..NumElems[i] : In(<<i, n>>, batch[Shard(i)]) \/ Out(<<i, n>>)

\* A goroutine leaves only after Shutdown, and then the data accepted before is sent.
Left ==
  /\ down = "up" => \A k \in Keys : loop[k] \in {"none", "select", "process"}
  /\ \A i \in early : call[i] = "accepted"
  /\ \A i \in early : loop[Shard(i)] = "exit" => \A n \in 1..NumElems[i] : Out(<<i, n>>)
  /\ down = "done" => \A i \in early : loop[Shard(i)] = "exit"

\* An element of an item that was accepted.
Valid(x) == call[x[1]] = "accepted" /\ x[2] \in 1..NumElems[x[1]]

\* No item is twice in a channel and no element twice in a batch; the channel, the
\* batch and what was sent have nothing in common, and nothing that was not accepted.
Once(k) ==
  /\ IsInjective(newItem[k]) /\ IsInjective(batch[k])
  /\ \A i \in Items : In(i, newItem[k]) => call[i] = "accepted"
  /\ \A x \in Elements : In(x[1], newItem[k]) => ~In(x, batch[k]) /\ ~Out(x)
  /\ \A x \in Elements : In(x, batch[k]) => Valid(x) /\ ~Out(x)
SentOnce ==
  /\ \A x \in Elements : Out(x) => Valid(x)
  /\ \A a, b \in out : (\E x \in Elements : In(x, a) /\ In(x, b)) => a = b
OInv == (\A k \in Keys : Once(k)) /\ SentOnce

BInv ==
  /\ BatchTypeOK /\ Limited /\ Started
  /\ \A k \in Keys : InShard(k) /\ Small(k)
  /\ \A i \in Items : Kept(i)
  /\ Left /\ BatchesWellFormed

-----------------------------------------------------------------------------
(* Sequences. *)

\* Append adds one element and keeps the others.
LEMMA InAppend ==
  ASSUME NEW S, NEW s \in Seq(S), NEW e \in S
  PROVE  In(e, Append(s, e)) /\ \A x : In(x, s) => In(x, Append(s, e))
<1>1. Append(s, e)[Len(s) + 1] = e /\ Len(s) + 1 \in DOMAIN Append(s, e)
  OBVIOUS
<1>2. \A j \in DOMAIN s : j \in DOMAIN Append(s, e) /\ Append(s, e)[j] = s[j]
  OBVIOUS
<1> QED
  BY <1>1, <1>2, Zenon DEF In

\* Concatenation has the elements of both.
LEMMA InConcat ==
  ASSUME NEW S, NEW s \in Seq(S), NEW t \in Seq(S)
  PROVE  \A x : In(x, s \o t) <=> In(x, s) \/ In(x, t)
<1>1. \A j \in DOMAIN s : j \in DOMAIN (s \o t) /\ (s \o t)[j] = s[j]
  OBVIOUS
<1>2. \A j \in DOMAIN t : Len(s) + j \in DOMAIN (s \o t) /\ (s \o t)[Len(s) + j] = t[j]
  OBVIOUS
<1>3. \A j \in DOMAIN (s \o t) :
        \/ j \in DOMAIN s /\ (s \o t)[j] = s[j]
        \/ j - Len(s) \in DOMAIN t /\ (s \o t)[j] = t[j - Len(s)]
  OBVIOUS
<1> QED
  BY Zenon, <1>1, <1>2, <1>3 DEF In

\* A sequence has its head and the elements of its tail.
LEMMA InTail ==
  ASSUME NEW S, NEW s \in Seq(S), s # <<>>
  PROVE  /\ Head(s) \in S /\ Tail(s) \in Seq(S) /\ In(Head(s), s)
         /\ \A x : In(x, s) <=> x = Head(s) \/ In(x, Tail(s))
<1>1. Head(s) \in S /\ Tail(s) \in Seq(S) /\ 1 \in DOMAIN s /\ s[1] = Head(s)
  OBVIOUS
<1>2. \A j \in DOMAIN s : j = 1 \/ (j - 1 \in DOMAIN Tail(s) /\ s[j] = Tail(s)[j - 1])
  OBVIOUS
<1>3. \A j \in DOMAIN Tail(s) : j + 1 \in DOMAIN s /\ s[j + 1] = Tail(s)[j]
  OBVIOUS
<1>4. \A x : In(x, s) => x = Head(s) \/ In(x, Tail(s))
  BY Zenon, <1>1, <1>2 DEF In
<1>5. \A x : In(x, Tail(s)) => In(x, s)
  BY <1>3, Zenon DEF In
<1> QED
  BY <1>1, <1>4, <1>5, Zenon DEF In

\* Cutting a sequence in two keeps its elements.
LEMMA InCut ==
  ASSUME NEW S, NEW s \in Seq(S), NEW m \in 1..Len(s)
  PROVE  LET a == SubSeq(s, 1, m)
             b == SubSeq(s, m + 1, Len(s))
         IN  /\ a \in Seq(S) /\ Len(a) = m /\ b \in Seq(S)
             /\ \A x : In(x, s) <=> In(x, a) \/ In(x, b)
<1> DEFINE a == SubSeq(s, 1, m)
           b == SubSeq(s, m + 1, Len(s))
<1>1. a \in Seq(S) /\ Len(a) = m /\ b \in Seq(S) /\ Len(b) = Len(s) - m
  OBVIOUS
<1>2. \A j \in 1..m : j \in DOMAIN s /\ a[j] = s[j]
  OBVIOUS
<1>3. \A j \in 1..(Len(s) - m) : m + j \in DOMAIN s /\ b[j] = s[m + j]
  OBVIOUS
<1>4. \A j \in DOMAIN s : j \in 1..m \/ j - m \in 1..(Len(s) - m)
  OBVIOUS
<1>5. DOMAIN a = 1..m /\ DOMAIN b = 1..(Len(s) - m)
  BY <1>1
<1>6. \A x : In(x, a) => In(x, s)
  BY <1>2, <1>5, Zenon DEF In
<1>7. \A x : In(x, b) => In(x, s)
  BY <1>3, <1>5, Zenon DEF In
<1>8. \A x : In(x, s) => In(x, a) \/ In(x, b)
  <2> SUFFICES ASSUME NEW j \in DOMAIN s PROVE In(s[j], a) \/ In(s[j], b)
    BY Zenon DEF In
  <2>1. CASE j \in 1..m
    BY <2>1, <1>2, <1>5, Zenon DEF In
  <2>2. CASE j - m \in 1..(Len(s) - m)
    <3>1. b[j - m] = s[j]
      BY <2>2, <1>3
    <3> QED
      BY <3>1, <2>2, <1>5, Zenon DEF In
  <2> QED
    BY <2>1, <2>2, <1>4, Zenon
<1> QED
  BY <1>1, <1>6, <1>7, <1>8, Zenon

-----------------------------------------------------------------------------
(* Configurations, shards, and what a batch is split into. *)

\* What Validate and the types of a configuration give.
LEMMA ConfigFacts ==
  ASSUME cfg \in Configs
  PROVE  /\ cfg.timeout \in BOOLEAN /\ cfg.metadata \in BOOLEAN
         /\ cfg.size \in Nat /\ cfg.max \in Nat /\ cfg.limit \in Nat
         /\ cfg.max = 0 \/ cfg.max >= cfg.size
BY BatchConfigOK, Zenon DEF BatchConfigOK, Validate

\* Every call belongs to the shard of some key.
LEMMA ShardFacts ==
  ASSUME cfg \in Configs
  PROVE  Single \in Keys /\ \A i \in Items : Shard(i) \in Keys
<1>1. Keys # {} /\ \A i \in Items : KeyOf[i] \in Keys
  BY BatchConfigOK DEF BatchConfigOK, Keys
<1>2. Single \in Keys
  BY <1>1, Zenon DEF Single
<1> QED
  BY <1>1, <1>2, Zenon DEF Shard

\* The elements of an item are numbered from one.
LEMMA ElemsFacts ==
  ASSUME NEW i \in Items
  PROVE  /\ Elems(i) \in Seq(Elements)
         /\ \A x : In(x, Elems(i)) <=> \E n \in 1..NumElems[i] : x = <<i, n>>
<1>1. NumElems[i] \in Nat
  BY BatchConfigOK, Zenon DEF BatchConfigOK
<1>2. \A n \in 1..NumElems[i] : <<i, n>> \in Elements
  BY <1>1 DEF Elements
<1>3. Elems(i) \in Seq(Elements)
  BY <1>1, <1>2 DEF Elems
<1>4. DOMAIN Elems(i) = 1..NumElems[i] /\ \A n \in 1..NumElems[i] : Elems(i)[n] = <<i, n>>
  BY Zenon DEF Elems
<1> QED
  BY Zenon, <1>3, <1>4 DEF In

\* split loses nothing, and what it returns is neither empty nor too large.
LEMMA Splitting ==
  ASSUME cfg \in Configs, NEW b \in Seq(Elements), b # <<>>
  PROVE  /\ SplitOff(b) \in Seq(Elements) /\ SplitOff(b) # <<>> /\ Rest(b) \in Seq(Elements)
         /\ cfg.max > 0 => Len(SplitOff(b)) <= cfg.max
         /\ \A x : In(x, b) <=> In(x, SplitOff(b)) \/ In(x, Rest(b))
         /\ Len(b) < cfg.size => Rest(b) = <<>>
<1>1. CASE Full(b)
  <2>1. cfg.max \in 1..Len(b) /\ ~(Len(b) < cfg.size)
    BY <1>1, ConfigFacts DEF Full
  <2>2. SplitOff(b) = SubSeq(b, 1, cfg.max) /\ Rest(b) = SubSeq(b, cfg.max + 1, Len(b))
    BY Zenon, <1>1 DEF SplitOff, Rest
  <2>3. /\ SplitOff(b) \in Seq(Elements) /\ Len(SplitOff(b)) = cfg.max /\ Rest(b) \in Seq(Elements)
        /\ \A x : In(x, b) <=> In(x, SplitOff(b)) \/ In(x, Rest(b))
    BY <2>1, <2>2, InCut
  <2> QED
    BY <2>1, <2>3
<1>2. CASE ~Full(b)
  <2>1. SplitOff(b) = b /\ Rest(b) = <<>>
    BY <1>2, Zenon DEF SplitOff, Rest
  <2>2. cfg.max > 0 => Len(b) <= cfg.max
    BY <1>2, ConfigFacts DEF Full
  <2>3. \A x : ~In(x, <<>>)
    BY DEF In
  <2> QED
    BY <2>1, <2>2, <2>3
<1> QED
  BY <1>1, <1>2, Zenon

\* sendItems: what was in the batch is sent or still in it.
LEMMA Sending ==
  ASSUME BInv, cfg' = cfg, NEW k \in Keys, batch[k] # <<>>, sendItems(k)
  PROVE  /\ out' \subseteq Seq(Elements) /\ batch' \in [Keys -> Seq(Elements)]
         /\ \A l \in Keys \ {k} : batch'[l] = batch[l]
         /\ \A x : Out(x) => Out(x)'
         /\ \A x : In(x, batch[k]) => In(x, batch'[k]) \/ Out(x)'
         /\ \A x : In(x, batch'[k]) => In(x, batch[k])
         /\ Len(batch[k]) < cfg.size => batch'[k] = <<>>
         /\ BatchesWellFormed'
<1> DEFINE b == batch[k]
<1>1. b \in Seq(Elements) /\ cfg \in Configs /\ out \subseteq Seq(Elements) /\ batch \in [Keys -> Seq(Elements)]
  BY Zenon DEF BInv, BatchTypeOK
<1>2. /\ SplitOff(b) \in Seq(Elements) /\ SplitOff(b) # <<>> /\ Rest(b) \in Seq(Elements)
      /\ cfg.max > 0 => Len(SplitOff(b)) <= cfg.max
      /\ \A x : In(x, b) <=> In(x, SplitOff(b)) \/ In(x, Rest(b))
      /\ Len(b) < cfg.size => Rest(b) = <<>>
  BY <1>1, Splitting, Zenon
<1>3. out' = out \cup {SplitOff(b)} /\ batch' = [batch EXCEPT ![k] = Rest(b)]
  BY Zenon DEF sendItems
<1>4. batch'[k] = Rest(b) /\ \A l \in Keys \ {k} : batch'[l] = batch[l]
  BY <1>1, <1>3, Zenon
<1>5. \A x : (Out(x) => Out(x)') /\ (In(x, SplitOff(b)) => Out(x)')
  BY <1>3, Zenon DEF Out
<1>6. BatchesWellFormed'
  <2> SUFFICES ASSUME NEW c \in out'
               PROVE  /\ c # <<>> /\ (cfg.max > 0 => Len(c) <= cfg.max)
                      /\ cfg.metadata => \A x, y \in Range(c) : KeyOf[x[1]] = KeyOf[y[1]]
    BY Zenon DEF BatchesWellFormed
  <2>1. CASE c \in out
    BY <2>1, Zenon DEF BInv, BatchesWellFormed
  <2>2. CASE c = SplitOff(b)
    <3>4. \A x \in Range(c) : x \in Elements /\ In(x, c)
      BY <1>2, <2>2 DEF Range, In
    <3>1. \A x \in Range(c) : x \in Elements /\ In(x, b)
      BY <1>2, <2>2, <3>4, Zenon
    <3>2. cfg.metadata => \A x \in Range(c) : KeyOf[x[1]] = k
      BY <3>1, Zenon DEF BInv, InShard, Shard
    <3> QED
      BY <1>2, <2>2, <3>2, Zenon
  <2> QED
    BY <2>1, <2>2, <1>3, Zenon
<1> QED
  BY <1>1, <1>2, <1>3, <1>4, <1>5, <1>6, Zenon

-----------------------------------------------------------------------------
(* Every step keeps the invariant. *)

\* The shard of an item never changes.
LEMMA SameShard ==
  ASSUME cfg' = cfg
  PROVE  \A i \in Items : Shard(i)' = Shard(i)
BY Zenon DEF Shard

\* What is said of a shard depends only on its own part of the state.
LEMMA SameInShard ==
  ASSUME cfg' = cfg, NEW k, newItem'[k] = newItem[k], batch'[k] = batch[k], InShard(k)
  PROVE  InShard(k)'
BY SameShard, Zenon DEF InShard, Elements

\* The bound on a batch too.
LEMMA SameSmall ==
  ASSUME cfg' = cfg, NEW k, loop'[k] = loop[k], timer'[k] = timer[k], batch'[k] = batch[k], Small(k)
  PROVE  Small(k)'
BY Zenon DEF Small, hasTimer

\* Left is kept by a step in which no goroutine leaves and nothing is taken back.
LEMMA SameLeft ==
  ASSUME BInv, cfg' = cfg, down' = down, early' = early,
         \A i \in Items : call[i] = "accepted" => call'[i] = "accepted",
         \A x : Out(x) => Out(x)',
         \A k \in Keys : loop'[k] = "exit" <=> loop[k] = "exit",
         down = "up" => \A k \in Keys : loop'[k] \in {"none", "select", "process"}
  PROVE  Left'
<1>1. early \subseteq Items /\ \A i \in Items : Shard(i) \in Keys
  BY ShardFacts, Zenon DEF BInv, BatchTypeOK
<1>2. \A i \in early' : call'[i] = "accepted"
  BY <1>1, Zenon DEF BInv, Left
<1>3. \A i \in early' : loop'[Shard(i)'] = "exit" => \A n \in 1..NumElems[i] : Out(<<i, n>>)'
  BY <1>1, SameShard DEF BInv, Left
<1>4. down' = "done" => \A i \in early' : loop'[Shard(i)'] = "exit"
  BY <1>1, SameShard, Zenon DEF BInv, Left
<1> QED
  BY <1>2, <1>3, <1>4, Zenon DEF Left

\* What is kept of an item depends only on where its data is.
LEMMA SameKept ==
  ASSUME BInv, UNCHANGED <<cfg, call, newItem, batch, out>>
  PROVE  \A i \in Items : Kept(i)'
<1> TAKE i \in Items
<1>1. Shard(i)' = Shard(i) /\ Kept(i)
  BY SameShard, Zenon DEF BInv
<1>2. \A x : Out(x)' = Out(x)
  BY Zenon DEF Out
<1> QED
  BY <1>1, <1>2, Zenon DEF Kept

\* No accepted element is lost when a shard sends from its batch.
LEMMA KeptOnSend ==
  ASSUME BInv, cfg' = cfg, call' = call, newItem' = newItem, NEW k \in Keys,
         \A l \in Keys \ {k} : batch'[l] = batch[l],
         \A x : Out(x) => Out(x)',
         \A x : In(x, batch[k]) => In(x, batch'[k]) \/ Out(x)'
  PROVE  \A i \in Items : Kept(i)'
<1> TAKE i \in Items
<1>1. Shard(i) \in Keys /\ Shard(i)' = Shard(i) /\ Kept(i)
  BY ShardFacts, SameShard, Zenon DEF BInv, BatchTypeOK
<1>2. \A x : In(x, batch[Shard(i)]) \/ Out(x) => In(x, batch'[Shard(i)]) \/ Out(x)'
  BY <1>1, Zenon
<1> QED
  BY <1>1, <1>2, Zenon DEF Kept

\* What is left in the batch of a select is sent at once, and nothing stays.
LEMMA Flushing ==
  ASSUME BInv, cfg' = cfg, NEW k \in Keys, loop[k] \in {"select", "drain"},
         IF batch[k] # <<>> THEN sendItems(k) ELSE UNCHANGED <<out, batch>>
  PROVE  /\ out' \subseteq Seq(Elements) /\ batch' \in [Keys -> Seq(Elements)]
         /\ batch'[k] = <<>> /\ \A l \in Keys \ {k} : batch'[l] = batch[l]
         /\ \A x : Out(x) => Out(x)'
         /\ \A x : In(x, batch[k]) => Out(x)'
         /\ BatchesWellFormed'
<1>1. \A x : ~In(x, <<>>)
  BY DEF In
<1>2. CASE batch[k] # <<>>
  <2>1. Len(batch[k]) < cfg.size
    BY <1>2, Zenon DEF BInv, Small
  <2>2. batch'[k] = <<>>
    BY <1>2, <2>1, Sending, Zenon
  <2> QED
    BY <1>1, <1>2, <2>2, Sending, Zenon
<1>3. CASE batch[k] = <<>>
  <2>1. out' = out /\ batch' = batch
    BY <1>3, Zenon
  <2> QED
    BY <1>1, <1>3, <2>1, Zenon DEF BInv, BatchTypeOK, BatchesWellFormed, Out
<1> QED
  BY <1>2, <1>3, Zenon

\* At the start there is no data, and without metadata keys one shard.
LEMMA BInit == Init => BInv
<1> SUFFICES ASSUME Init PROVE BInv
  OBVIOUS
<1>1. cfg \in Configs /\ Single \in Keys /\ \A i \in Items : Shard(i) \in Keys
  BY ShardFacts, Zenon DEF Init
<1>2. shards = {} \/ shards = {Single}
  BY Zenon DEF Init
<1>3. BatchTypeOK
  BY <1>1, <1>2 DEF Init, BatchTypeOK, Places, startTimer
<1>4. Limited
  <2>1. IsFiniteSet(shards)
    BY Zenon, <1>2, FS_EmptySet, FS_Singleton
  <2>2. cfg.metadata => shards = {} /\ size = 0 /\ Cardinality(shards) = 0
    BY <1>1, ConfigFacts, FS_EmptySet, Zenon DEF Init
  <2>3. \A i \in Items : call[i] # "rejected"
    BY Zenon DEF Init
  <2> QED
    BY <1>1, <2>1, <2>2, <2>3, ConfigFacts DEF Limited
<1>5. Started
  BY <1>1, Zenon DEF Init, Started
<1>6. \A k \in Keys : InShard(k) /\ Small(k)
  BY DEF Init, InShard, Small, In
<1>7. (\A i \in Items : Kept(i)) /\ Left /\ BatchesWellFormed
  BY <1>1, Zenon DEF Init, Kept, Left, BatchesWellFormed
<1> QED
  BY <1>3, <1>4, <1>5, <1>6, <1>7, Zenon DEF BInv

\* Load only reads the table of shards.
LEMMA ConsumeB ==
  ASSUME BInv, NEW i \in Items, Consume(i)
  PROVE  BInv'
<1>1. UNCHANGED <<cfg, shards, size, newItem, batch, loop, sent, timer, out, down, early>>
  BY Zenon DEF Consume, shardVars
<1>2. /\ call[i] = "idle" /\ call' = [call EXCEPT ![i] = IF Shard(i) \in shards THEN "put" ELSE "store"]
  BY Zenon DEF Consume
<1>3. BatchTypeOK'
  BY <1>1, <1>2, Zenon DEF BInv, BatchTypeOK
<1>4. \A j \in Items : call'[j] \in {"accepted", "rejected"} <=> call[j] \in {"accepted", "rejected"}
  BY <1>2, Zenon DEF BInv, BatchTypeOK
<1>5. \A j \in Items : call'[j] = call[j] \/ (j = i /\ call'[j] = "put" /\ Shard(i) \in shards) \/ (j = i /\ call'[j] = "store")
  BY <1>2, Zenon DEF BInv, BatchTypeOK
<1>6. Limited'
  BY <1>1, <1>5, Zenon DEF BInv, Limited
<1>7. Started'
  BY <1>1, <1>5, SameShard DEF BInv, Started
<1>8. \A k \in Keys : InShard(k)' /\ Small(k)'
  <2> TAKE l \in Keys
  <2>1. InShard(l) /\ Small(l)
    BY Zenon DEF BInv
  <2> QED
    BY <1>1, <2>1, SameInShard, SameSmall, Zenon
<1>9. \A j \in Items : Kept(j)'
  BY <1>1, <1>5, SameShard, Zenon DEF BInv, Kept, Out
<1>10. Left'
  BY <1>1, <1>2, <1>5, SameShard DEF BInv, Left, Out, BatchTypeOK
<1>11. BatchesWellFormed'
  BY <1>1, Zenon DEF BInv, BatchesWellFormed
<1> QED
  BY <1>3, <1>6, <1>7, <1>8, <1>9, <1>10, <1>11, Zenon DEF BInv

\* The limit is checked and the shard stored under one lock.
LEMMA LoadOrStoreB ==
  ASSUME BInv, NEW i \in Items, LoadOrStore(i)
  PROVE  BInv'
<1> DEFINE k == Shard(i)
<1>1. UNCHANGED <<cfg, newItem, batch, sent, out, down, early>>
  BY Zenon DEF LoadOrStore
<1>2. /\ call[i] = "store" /\ call' = [call EXCEPT ![i] = IF AtLimit THEN "rejected" ELSE "put"]
  BY Zenon DEF LoadOrStore
<1>3. k \in Keys /\ cfg \in Configs
  BY ShardFacts, Zenon DEF BInv, BatchTypeOK
<1>4. \/ (AtLimit \/ k \in shards) /\ UNCHANGED <<shards, size, loop, timer>>
      \/ /\ ~AtLimit /\ k \notin shards /\ shards' = shards \cup {k} /\ size' = size + 1
         /\ loop' = [loop EXCEPT ![k] = "select"] /\ timer' = [timer EXCEPT ![k] = startTimer]
  BY Zenon DEF LoadOrStore
<1>5. AtLimit => UNCHANGED <<shards, size, loop, timer>>
  BY Zenon DEF LoadOrStore
<1>6. \A j \in Items : call'[j] = call[j] \/ (j = i /\ call'[j] = "put" /\ ~AtLimit) \/ (j = i /\ call'[j] = "rejected" /\ AtLimit)
  BY <1>2, Zenon DEF BInv, BatchTypeOK
<1>7. BatchTypeOK'
  <2>1. call' \in [Items -> {"idle", "store", "put", "accepted", "rejected"}]
    BY <1>2, Zenon DEF BInv, BatchTypeOK
  <2>2. /\ shards' \subseteq Keys /\ size' \in Nat /\ loop' \in [Keys -> Places]
        /\ timer' \in [Keys -> {"none", "armed", "fired", "read"}]
    <3>1. CASE UNCHANGED <<shards, size, loop, timer>>
      BY <3>1, Zenon DEF BInv, BatchTypeOK
    <3>2. CASE /\ shards' = shards \cup {k} /\ size' = size + 1
               /\ loop' = [loop EXCEPT ![k] = "select"] /\ timer' = [timer EXCEPT ![k] = startTimer]
      <4>1. startTimer \in {"none", "armed", "fired", "read"} /\ "select" \in Places
        BY Zenon DEF startTimer, Places
      <4>2. loop' \in [Keys -> Places] /\ timer' \in [Keys -> {"none", "armed", "fired", "read"}]
        BY Zenon, <3>2, <4>1 DEF BInv, BatchTypeOK
      <4> QED
        BY <3>2, <4>2, <1>3 DEF BInv, BatchTypeOK
    <3> QED
      BY <3>1, <3>2, <1>4, Zenon
  <2> QED
    BY <1>1, <2>1, <2>2, Zenon DEF BInv, BatchTypeOK
<1>8. Limited'
  <2>1. CASE UNCHANGED <<shards, size, loop, timer>>
    BY <1>1, <1>3, <1>6, <2>1, ConfigFacts DEF BInv, Limited, AtLimit, BatchTypeOK
  <2>2. CASE ~AtLimit /\ k \notin shards /\ shards' = shards \cup {k} /\ size' = size + 1
    <3>1. IsFiniteSet(shards') /\ Cardinality(shards') = Cardinality(shards) + 1
      BY <2>2, FS_AddElement, Zenon DEF BInv, Limited
    <3>2. cfg.limit # 0 => size < cfg.limit
      BY <2>2, <1>3, ConfigFacts DEF AtLimit, BInv, BatchTypeOK
    <3>3. cfg.metadata => \A j \in Items : call'[j] # "rejected"
      BY <1>3, <1>6, <2>2, <3>2, ConfigFacts DEF BInv, Limited, BatchTypeOK
    <3> QED
      BY <1>1, <1>3, <2>2, <3>1, <3>2, <3>3, ConfigFacts DEF BInv, Limited, BatchTypeOK
  <2> QED
    BY <1>4, <1>5, <2>1, <2>2, Zenon
<1>9. \A l \in Keys : (loop'[l] = loop[l] /\ timer'[l] = timer[l]) \/ (l = k /\ k \notin shards /\ k \in shards' /\ loop'[l] = "select")
  BY <1>3, <1>4, <1>5, Zenon DEF BInv, BatchTypeOK
<1>10. (shards' = shards \/ shards' = shards \cup {k}) /\ (~AtLimit => k \in shards')
  BY <1>4, <1>5, Zenon
<1>11. Started'
  <2>1. \A l \in Keys : loop'[l] = "none" <=> l \notin shards'
    <3>1. CASE shards' = shards /\ loop' = loop
      BY <3>1, Zenon DEF BInv, Started
    <3>2. CASE shards' = shards \cup {k} /\ loop' = [loop EXCEPT ![k] = "select"]
      BY <3>2, <1>3, Zenon DEF BInv, Started, BatchTypeOK
    <3> QED
      BY <3>1, <3>2, <1>4, Zenon
  <2>2. \A l \in Keys \ shards' : batch'[l] = <<>> /\ newItem'[l] = <<>>
    BY <1>1, <1>10, Zenon DEF BInv, Started
  <2>3. \A j \in Items : call'[j] \in {"put", "accepted"} => Shard(j) \in shards'
    BY <1>6, <1>10, Zenon DEF BInv, Started
  <2> QED
    BY <1>1, <2>1, <2>2, <2>3, SameShard, Zenon DEF Started
<1>12. \A l \in Keys : InShard(l)' /\ Small(l)'
  <2> TAKE l \in Keys
  <2>1. InShard(l)'
    BY <1>1, SameInShard, Zenon DEF BInv
  <2>2. CASE loop'[l] = loop[l] /\ timer'[l] = timer[l]
    BY <1>1, <2>1, <2>2, SameSmall, Zenon DEF BInv
  <2>3. CASE l = k /\ k \notin shards
    BY <1>1, <1>3, <2>1, <2>3, Zenon DEF BInv, Started, Small
  <2> QED
    BY <1>9, <2>2, <2>3, Zenon
<1>13. \A j \in Items : Kept(j)'
  BY <1>1, <1>6, SameShard, Zenon DEF BInv, Kept, Out
<1>14. Left'
  <2>1. \A j \in early : Shard(j) \in shards /\ Shard(j) \in Keys
    BY <1>3, ShardFacts, Zenon DEF BInv, Left, Started, BatchTypeOK
  <2>2. \A j \in early : loop'[Shard(j)] = loop[Shard(j)] /\ call'[j] = call[j]
    BY <2>1, <1>2, <1>6, <1>9 DEF BInv, Left
  <2> QED
    <3>1. (\A x : Out(x) => Out(x)') /\ early \subseteq Items /\ down' = down /\ early' = early
      BY <1>1, Zenon DEF Out, BInv, BatchTypeOK
    <3>2. down = "up" => \A l \in Keys : loop'[l] \in {"none", "select", "process"}
      BY <1>9, Zenon DEF BInv, Left
    <3>3. \A j \in early : call'[j] = "accepted"
      BY <2>2, Zenon DEF BInv, Left
    <3>4. \A j \in early : loop'[Shard(j)] = "exit" => \A n \in 1..NumElems[j] : Out(<<j, n>>)'
      BY <2>2, <3>1, Zenon DEF BInv, Left
    <3>5. down = "done" => \A j \in early : loop'[Shard(j)] = "exit"
      BY <2>2, Zenon DEF BInv, Left
    <3> QED
      BY <1>1, <3>1, <3>2, <3>3, <3>4, <3>5, SameShard, Zenon DEF Left
<1>15. BatchesWellFormed'
  BY <1>1, Zenon DEF BInv, BatchesWellFormed
<1> QED
  BY <1>7, <1>8, <1>11, <1>12, <1>13, <1>14, <1>15, Zenon DEF BInv

\* The item goes into the channel of its shard.
LEMMA PutB ==
  ASSUME BInv, NEW i \in Items, Put(i)
  PROVE  BInv'
<1> DEFINE k == Shard(i)
<1>1. UNCHANGED <<cfg, shards, size, batch, loop, sent, timer, out, down, early>>
  BY Zenon DEF Put
<1>2. /\ call[i] = "put" /\ call' = [call EXCEPT ![i] = "accepted"]
      /\ newItem' = [newItem EXCEPT ![k] = Append(newItem[k], i)]
  BY Zenon DEF Put
<1>3. k \in Keys /\ cfg \in Configs /\ newItem \in [Keys -> Seq(Items)] /\ newItem[k] \in Seq(Items)
  BY ShardFacts, Zenon DEF BInv, BatchTypeOK
<1>4. \A j \in Items : call'[j] = call[j] \/ (j = i /\ call'[j] = "accepted")
  BY <1>2, Zenon DEF BInv, BatchTypeOK
<1>5. /\ newItem'[k] = Append(newItem[k], i) /\ newItem' \in [Keys -> Seq(Items)]
      /\ \A l \in Keys \ {k} : newItem'[l] = newItem[l]
  BY <1>2, <1>3
<1>6. In(i, newItem'[k]) /\ \A x : In(x, newItem[k]) => In(x, newItem'[k])
  BY <1>3, <1>5, InAppend, Zenon
<1>7. \A x : In(x, newItem'[k]) => x = i \/ In(x, newItem[k])
  <2> SUFFICES ASSUME NEW j \in DOMAIN newItem'[k]
               PROVE  newItem'[k][j] = i \/ In(newItem'[k][j], newItem[k])
    BY Zenon DEF In
  <2>1. j = Len(newItem[k]) + 1 \/ (j \in DOMAIN newItem[k] /\ newItem'[k][j] = newItem[k][j])
    BY <1>3, <1>5
  <2>2. newItem'[k][Len(newItem[k]) + 1] = i
    BY <1>3, <1>5
  <2> QED
    BY <2>1, <2>2, Zenon DEF In
<1>8. BatchTypeOK'
  BY <1>1, <1>2, <1>5, Zenon DEF BInv, BatchTypeOK
<1>9. Limited'
  BY <1>1, <1>4, Zenon DEF BInv, Limited
<1>10. Started'
  <2>1. k \in shards
    BY <1>2, Zenon DEF BInv, Started
  <2> QED
    BY <1>1, <1>2, <1>4, <1>5, <2>1, SameShard DEF BInv, Started
<1>11. \A l \in Keys : InShard(l)' /\ Small(l)'
  <2> TAKE l \in Keys
  <2>1. Small(l)'
    BY <1>1, SameSmall, Zenon DEF BInv
  <2>2. CASE l # k
    BY <1>1, <1>5, <2>1, <2>2, SameInShard, Zenon DEF BInv
  <2>3. CASE l = k
    BY <1>1, <1>7, <2>1, <2>3, SameShard, Zenon DEF BInv, InShard, Elements
  <2> QED
    BY <2>2, <2>3, Zenon
<1>12. \A j \in Items : Kept(j)'
  <2> TAKE j \in Items
  <2>1. \A x : In(x, newItem[Shard(j)]) => In(x, newItem'[Shard(j)])
    BY Zenon, <1>3, <1>5, <1>6, ShardFacts
  <2>2. CASE j = i
    BY <1>1, <1>6, <2>2, SameShard, Zenon DEF Kept
  <2>3. CASE j # i
    BY <1>1, <1>4, <2>1, <2>3, SameShard, Zenon DEF BInv, Kept, Out
  <2> QED
    BY <2>2, <2>3, Zenon
<1>13. Left'
  BY <1>1, <1>2, <1>4, SameShard DEF BInv, Left, Out, BatchTypeOK
<1>14. BatchesWellFormed'
  BY <1>1, Zenon DEF BInv, BatchesWellFormed
<1> QED
  BY <1>8, <1>9, <1>10, <1>11, <1>12, <1>13, <1>14, Zenon DEF BInv

\* The elements of the item move from the channel to the batch.
LEMMA processItemB ==
  ASSUME BInv, NEW k \in Keys, processItem(k)
  PROVE  BInv'
<1> DEFINE i == Head(newItem[k])
<1>1. UNCHANGED <<cfg, call, shards, size, timer, out, down, early>>
  BY Zenon DEF processItem, callVars
<1>2. /\ loop[k] \in {"select", "drain"} /\ newItem[k] # <<>>
      /\ batch' = [batch EXCEPT ![k] = batch[k] \o Elems(i)]
      /\ newItem' = [newItem EXCEPT ![k] = Tail(newItem[k])]
      /\ loop' = [loop EXCEPT ![k] = IF loop[k] = "select" THEN "process" ELSE "drain process"]
      /\ sent' = [sent EXCEPT ![k] = FALSE]
  BY Zenon DEF processItem
<1>3. /\ cfg \in Configs /\ newItem \in [Keys -> Seq(Items)] /\ newItem[k] \in Seq(Items)
      /\ batch \in [Keys -> Seq(Elements)] /\ batch[k] \in Seq(Elements)
  BY Zenon DEF BInv, BatchTypeOK
<1>4. /\ i \in Items /\ Tail(newItem[k]) \in Seq(Items) /\ In(i, newItem[k])
      /\ \A x : In(x, newItem[k]) <=> x = i \/ In(x, Tail(newItem[k]))
  BY Zenon, <1>2, <1>3, InTail
<1>5. /\ Elems(i) \in Seq(Elements)
      /\ \A x : In(x, Elems(i)) <=> \E n \in 1..NumElems[i] : x = <<i, n>>
  BY <1>4, ElemsFacts, Zenon
<1>6. \A x : In(x, batch[k] \o Elems(i)) <=> In(x, batch[k]) \/ In(x, Elems(i))
  BY <1>3, <1>5, InConcat, Zenon
<1>7. /\ newItem'[k] = Tail(newItem[k]) /\ batch'[k] = batch[k] \o Elems(i)
      /\ \A l \in Keys \ {k} : newItem'[l] = newItem[l] /\ batch'[l] = batch[l]
  BY Zenon, <1>2, <1>3
<1>8. loop'[k] \in {"process", "drain process"} /\ \A l \in Keys \ {k} : loop'[l] = loop[l]
  BY Zenon, <1>2 DEF BInv, BatchTypeOK
<1>9. BatchTypeOK'
  <2>1. newItem' \in [Keys -> Seq(Items)]
    BY Zenon, <1>2, <1>3, <1>4
  <2>3. batch[k] \o Elems(i) \in Seq(Elements)
    BY <1>3, <1>5
  <2>4. batch' \in [Keys -> Seq(Elements)]
    BY Zenon, <1>2, <1>3, <2>3
  <2>2. loop' \in [Keys -> Places] /\ sent' \in [Keys -> BOOLEAN]
    BY Zenon, <1>2 DEF BInv, BatchTypeOK, Places
  <2> QED
    BY <1>1, <2>1, <2>2, <2>4, Zenon DEF BInv, BatchTypeOK
<1>10. Limited'
  BY <1>1, Zenon DEF BInv, Limited
<1>11. Started'
  BY Zenon, <1>1, <1>2, <1>7, <1>8, SameShard DEF BInv, Started
<1>12. \A l \in Keys : InShard(l)' /\ Small(l)'
  <2> TAKE l \in Keys
  <2>1. CASE l # k
    BY Zenon, <1>1, <1>7, <1>8, <2>1, SameInShard, SameSmall DEF BInv
  <2>2. CASE l = k
    <3>1. Shard(i) = k
      BY <1>4, Zenon DEF BInv, InShard
    <3>2. \A x \in Elements : In(x, batch'[k]) => Shard(x[1]) = k
      BY <1>5, <1>6, <1>7, <3>1 DEF BInv, InShard
    <3>3. \A j \in Items : In(j, newItem'[k]) => Shard(j) = k
      BY <1>4, <1>7, Zenon DEF BInv, InShard
    <3>4. InShard(k)'
      BY <1>1, <3>2, <3>3, SameShard, Zenon DEF InShard, Elements
    <3> QED
      BY Zenon, <2>2, <3>4, <1>8 DEF Small
  <2> QED
    BY <2>1, <2>2, Zenon
<1>13. \A j \in Items : Kept(j)'
  <2> TAKE j \in Items
  <2>1. CASE Shard(j) # k
    BY Zenon, <1>1, <1>3, <1>7, <2>1, SameShard, ShardFacts DEF BInv, Kept, Out
  <2>2. CASE Shard(j) = k /\ j = i
    BY Zenon, <1>1, <1>5, <1>6, <1>7, <2>2, SameShard DEF Kept, Out
  <2>3. CASE Shard(j) = k /\ j # i
    BY Zenon, <1>1, <1>4, <1>6, <1>7, <2>3, SameShard DEF BInv, Kept, Out
  <2> QED
    BY <2>1, <2>2, <2>3, Zenon
<1>14. Left'
  <2>1. down = "up" => loop[k] = "select"
    BY Zenon, <1>2 DEF BInv, Left
  <2>2. down = "up" => loop'[k] = "process"
    BY <1>2, <2>1, Zenon DEF BInv, BatchTypeOK
  <2>3. \A l \in Keys : loop'[l] = "exit" <=> loop[l] = "exit"
    BY Zenon, <1>2, <1>8
  <2>4. down = "up" => \A l \in Keys : loop'[l] \in {"none", "select", "process"}
    BY Zenon, <1>8, <2>2 DEF BInv, Left
  <2>5. \A x : Out(x) => Out(x)'
    BY <1>1, Zenon DEF Out
  <2> QED
    BY <1>1, <2>3, <2>4, <2>5, SameLeft, Zenon
<1>15. BatchesWellFormed'
  BY <1>1, Zenon DEF BInv, BatchesWellFormed
<1> QED
  BY <1>9, <1>10, <1>11, <1>12, <1>13, <1>14, <1>15, Zenon DEF BInv

\* A batch that is due is sent, up to send_batch_max_size.
LEMMA processSendB ==
  ASSUME BInv, NEW k \in Keys, processSend(k)
  PROVE  BInv'
<1>1. UNCHANGED <<cfg, call, shards, size, newItem, loop, timer, down, early>>
  BY Zenon DEF processSend, callVars
<1>2. /\ loop[k] \in {"process", "drain process"} /\ batch[k] # <<>> /\ sendItems(k)
      /\ sent' = [sent EXCEPT ![k] = TRUE]
  BY Zenon DEF processSend, SendMore
<1>3. /\ out' \subseteq Seq(Elements) /\ batch' \in [Keys -> Seq(Elements)]
      /\ \A l \in Keys \ {k} : batch'[l] = batch[l]
      /\ \A x : Out(x) => Out(x)'
      /\ \A x : In(x, batch[k]) => In(x, batch'[k]) \/ Out(x)'
      /\ \A x : In(x, batch'[k]) => In(x, batch[k])
      /\ BatchesWellFormed'
  BY Zenon, <1>1, <1>2, Sending
<1>4. BatchTypeOK' /\ Limited'
  BY Zenon, <1>1, <1>2, <1>3 DEF BInv, BatchTypeOK, Limited
<1>5. Started'
  BY Zenon, <1>1, <1>2, <1>3, SameShard DEF BInv, Started
<1>6. \A l \in Keys : InShard(l)' /\ Small(l)'
  <2> TAKE l \in Keys
  <2>1. CASE l # k
    BY <1>1, <1>3, <2>1, SameInShard, SameSmall, Zenon DEF BInv
  <2>2. CASE l = k
    <3>1. InShard(k)'
      BY <1>1, <1>3, SameShard DEF BInv, InShard, Elements
    <3> QED
      BY Zenon, <1>1, <1>2, <2>2, <3>1 DEF Small
  <2> QED
    BY <2>1, <2>2, Zenon
<1>7. \A i \in Items : Kept(i)'
  BY <1>1, <1>3, KeptOnSend, Zenon
<1>8. Left'
  <2>1. down = "up" => \A l \in Keys : loop[l] \in {"none", "select", "process"}
    BY Zenon DEF BInv, Left
  <2> QED
    BY <1>1, <1>3, <2>1, SameLeft, Zenon
<1> QED
  BY <1>3, <1>4, <1>5, <1>6, <1>7, <1>8, Zenon DEF BInv

\* When processItem returns, the batch is below send_batch_size.
LEMMA processReturnsB ==
  ASSUME BInv, NEW k \in Keys, processReturns(k)
  PROVE  BInv'
<1>1. UNCHANGED <<cfg, call, shards, size, newItem, batch, sent, out, down, early>>
  BY Zenon DEF processReturns, callVars
<1>2. /\ loop[k] \in {"process", "drain process"} /\ ~SendMore(k)
      /\ timer' = [timer EXCEPT ![k] = IF sent[k] /\ hasTimer(k) THEN "armed" ELSE timer[k]]
      /\ loop' = [loop EXCEPT ![k] = IF loop[k] = "process" THEN "select" ELSE "drain"]
  BY Zenon DEF processReturns
<1>3. /\ loop'[k] \in {"select", "drain"} /\ (loop[k] = "process" => loop'[k] = "select")
      /\ \A l \in Keys \ {k} : loop'[l] = loop[l] /\ timer'[l] = timer[l]
      /\ hasTimer(k) => timer'[k] # "none"
  BY Zenon, <1>2 DEF BInv, BatchTypeOK, hasTimer
<1>4. BatchTypeOK'
  <2>1. loop' \in [Keys -> Places]
    BY Zenon, <1>2 DEF BInv, BatchTypeOK, Places
  <2>2. timer' \in [Keys -> {"none", "armed", "fired", "read"}]
    BY Zenon, <1>2 DEF BInv, BatchTypeOK
  <2> QED
    BY <1>1, <2>1, <2>2, Zenon DEF BInv, BatchTypeOK
<1>5. Limited' /\ Started'
  BY Zenon, <1>1, <1>2, <1>3, SameShard DEF BInv, Limited, Started
<1>6. \A l \in Keys : InShard(l)' /\ Small(l)'
  <2> TAKE l \in Keys
  <2>1. InShard(l)'
    BY <1>1, SameInShard, Zenon DEF BInv
  <2>2. CASE l # k
    BY <1>1, <1>3, <2>1, <2>2, SameSmall, Zenon DEF BInv
  <2>3. CASE l = k
    <3>1. batch[k] = <<>> \/ (hasTimer(k) /\ Len(batch[k]) < cfg.size)
      <4>1. batch[k] \in Seq(Elements) /\ cfg.size \in Nat
        BY ConfigFacts, Zenon DEF BInv, BatchTypeOK
      <4>2. Len(batch[k]) >= cfg.size \/ Len(batch[k]) < cfg.size
        BY <4>1
      <4>3. batch[k] = <<>> \/ ~(~hasTimer(k) \/ Len(batch[k]) >= cfg.size)
        BY Zenon, <1>2 DEF SendMore
      <4> QED
        BY <4>2, <4>3, Zenon
    <3> QED
      BY <1>1, <1>3, <2>1, <2>3, <3>1, Zenon DEF Small, hasTimer
  <2> QED
    BY <2>2, <2>3, Zenon
<1>7. \A i \in Items : Kept(i)'
  BY <1>1, SameKept, Zenon
<1>8. Left'
  <2>1. \A x : Out(x) => Out(x)'
    BY <1>1, Zenon DEF Out
  <2>2. \A l \in Keys : loop'[l] = "exit" <=> loop[l] = "exit"
    BY Zenon, <1>2, <1>3
  <2>3. down = "up" => \A l \in Keys : loop'[l] \in {"none", "select", "process"}
    BY Zenon, <1>2, <1>3 DEF BInv, Left
  <2> QED
    BY <1>1, <2>1, <2>2, <2>3, SameLeft, Zenon
<1>9. BatchesWellFormed'
  BY <1>1, Zenon DEF BInv, BatchesWellFormed
<1> QED
  BY <1>4, <1>5, <1>6, <1>7, <1>8, <1>9, Zenon DEF BInv

\* The timer fires only if there is one.
LEMMA ElapsesB ==
  ASSUME BInv, NEW k \in Keys, Elapses(k)
  PROVE  BInv'
<1>1. UNCHANGED <<cfg, call, shards, size, newItem, batch, loop, sent, out, down, early>>
  BY Zenon DEF Elapses, callVars
<1>2. timer[k] = "armed" /\ timer' = [timer EXCEPT ![k] = "fired"]
  BY Zenon DEF Elapses
<1>3. BatchTypeOK' /\ Limited'
  BY <1>1, <1>2, Zenon DEF BInv, BatchTypeOK, Limited
<1>4. Started'
  BY <1>1, SameShard, Zenon DEF BInv, Started
<1>5. \A l \in Keys : InShard(l)' /\ Small(l)'
  <2>1. \A l \in Keys : hasTimer(l) => hasTimer(l)'
    BY <1>2, Zenon DEF BInv, BatchTypeOK, hasTimer
  <2> QED
    BY <1>1, <2>1, SameInShard, Zenon DEF BInv, Small
<1>6. \A i \in Items : Kept(i)'
  BY <1>1, SameKept, Zenon
<1>7. Left'
  <2>1. \A x : Out(x) => Out(x)'
    BY <1>1, Zenon DEF Out
  <2>2. down = "up" => \A l \in Keys : loop[l] \in {"none", "select", "process"}
    BY Zenon DEF BInv, Left
  <2> QED
    BY <1>1, <2>1, <2>2, SameLeft, Zenon
<1>8. BatchesWellFormed'
  BY <1>1, Zenon DEF BInv, BatchesWellFormed
<1> QED
  BY <1>3, <1>4, <1>5, <1>6, <1>7, <1>8, Zenon DEF BInv

\* A goroutine turns to draining only after Shutdown.
LEMMA drainB ==
  ASSUME BInv, NEW k \in Keys, drain(k)
  PROVE  BInv'
<1>1. UNCHANGED <<cfg, call, shards, size, newItem, batch, timer, sent, out, down, early>>
  BY Zenon DEF drain, callVars
<1>2. loop[k] = "select" /\ down # "up" /\ loop' = [loop EXCEPT ![k] = "drain"]
  BY Zenon DEF drain
<1>3. loop'[k] = "drain" /\ \A l \in Keys \ {k} : loop'[l] = loop[l]
  BY <1>2, Zenon DEF BInv, BatchTypeOK
<1>4. BatchTypeOK' /\ Limited'
  BY Zenon, <1>1, <1>2 DEF BInv, BatchTypeOK, Limited, Places
<1>5. Started'
  BY <1>1, <1>2, <1>3, SameShard, Zenon DEF BInv, Started
<1>6. \A l \in Keys : InShard(l)' /\ Small(l)'
  BY <1>1, <1>2, <1>3, SameInShard, Zenon DEF BInv, Small, hasTimer
<1>7. \A i \in Items : Kept(i)'
  BY <1>1, SameKept, Zenon
<1>8. Left'
  <2>1. \A x : Out(x) => Out(x)'
    BY <1>1, Zenon DEF Out
  <2> QED
    BY <1>1, <1>2, <1>3, <2>1, SameLeft, Zenon
<1>9. BatchesWellFormed'
  BY <1>1, Zenon DEF BInv, BatchesWellFormed
<1> QED
  BY <1>4, <1>5, <1>6, <1>7, <1>8, <1>9, Zenon DEF BInv

\* The timer sends all of the batch.
LEMMA timeoutB ==
  ASSUME BInv, NEW k \in Keys, timeout(k)
  PROVE  BInv'
<1>1. UNCHANGED <<cfg, call, shards, size, newItem, loop, sent, down, early>>
  BY Zenon DEF timeout, callVars
<1>2. /\ loop[k] = "select" /\ timer' = [timer EXCEPT ![k] = "armed"]
      /\ IF batch[k] # <<>> THEN sendItems(k) ELSE UNCHANGED <<out, batch>>
  BY Zenon DEF timeout
<1>3. /\ out' \subseteq Seq(Elements) /\ batch' \in [Keys -> Seq(Elements)]
      /\ batch'[k] = <<>> /\ \A l \in Keys \ {k} : batch'[l] = batch[l]
      /\ \A x : Out(x) => Out(x)'
      /\ \A x : In(x, batch[k]) => Out(x)'
      /\ BatchesWellFormed'
  BY <1>1, <1>2, Flushing, Zenon
<1>4. timer' \in [Keys -> {"none", "armed", "fired", "read"}] /\ \A l \in Keys \ {k} : timer'[l] = timer[l]
  BY <1>2, Zenon DEF BInv, BatchTypeOK
<1>5. BatchTypeOK' /\ Limited'
  BY <1>1, <1>3, <1>4, Zenon DEF BInv, BatchTypeOK, Limited
<1>6. Started'
  BY <1>1, <1>3, SameShard, Zenon DEF BInv, Started
<1>7. \A l \in Keys : InShard(l)' /\ Small(l)'
  <2> TAKE l \in Keys
  <2>1. CASE l # k
    BY <1>1, <1>3, <1>4, <2>1, SameInShard, SameSmall, Zenon DEF BInv
  <2>2. CASE l = k
    <3>1. \A x : ~In(x, batch'[k])
      BY <1>3 DEF In
    <3>2. InShard(k)'
      BY <1>1, <3>1, SameShard, Zenon DEF BInv, InShard, Elements
    <3> QED
      BY <1>3, <2>2, <3>2, Zenon DEF Small
  <2> QED
    BY <2>1, <2>2, Zenon
<1>8. \A i \in Items : Kept(i)'
  BY <1>1, <1>3, KeptOnSend, Zenon
<1>9. Left'
  <2>1. down = "up" => \A l \in Keys : loop[l] \in {"none", "select", "process"}
    BY Zenon DEF BInv, Left
  <2> QED
    BY <1>1, <1>3, <2>1, SameLeft, Zenon
<1> QED
  BY <1>3, <1>5, <1>6, <1>7, <1>8, <1>9, Zenon DEF BInv

\* A goroutine leaves with its channel and its batch empty.
LEMMA exitB ==
  ASSUME BInv, NEW k \in Keys, exit(k)
  PROVE  BInv'
<1>1. UNCHANGED <<cfg, call, shards, size, newItem, timer, sent, down, early>>
  BY Zenon DEF exit, callVars
<1>2. /\ loop[k] = "drain" /\ newItem[k] = <<>> /\ loop' = [loop EXCEPT ![k] = "exit"]
      /\ IF batch[k] # <<>> THEN sendItems(k) ELSE UNCHANGED <<out, batch>>
  BY Zenon DEF exit
<1>3. /\ out' \subseteq Seq(Elements) /\ batch' \in [Keys -> Seq(Elements)]
      /\ batch'[k] = <<>> /\ \A l \in Keys \ {k} : batch'[l] = batch[l]
      /\ \A x : Out(x) => Out(x)'
      /\ \A x : In(x, batch[k]) => Out(x)'
      /\ BatchesWellFormed'
  BY <1>1, <1>2, Flushing, Zenon
<1>4. loop' \in [Keys -> Places] /\ loop'[k] = "exit" /\ \A l \in Keys \ {k} : loop'[l] = loop[l]
  BY Zenon, <1>2 DEF BInv, BatchTypeOK, Places
<1>5. BatchTypeOK' /\ Limited'
  BY <1>1, <1>3, <1>4, Zenon DEF BInv, BatchTypeOK, Limited
<1>6. Started'
  BY Zenon, <1>1, <1>2, <1>3, <1>4, SameShard DEF BInv, Started
<1>7. \A l \in Keys : InShard(l)' /\ Small(l)'
  <2> TAKE l \in Keys
  <2>1. CASE l # k
    BY <1>1, <1>3, <1>4, <2>1, SameInShard, SameSmall, Zenon DEF BInv
  <2>2. CASE l = k
    <3>1. \A x : ~In(x, batch'[k])
      BY <1>3 DEF In
    <3>2. InShard(k)'
      BY <1>1, <3>1, SameShard, Zenon DEF BInv, InShard, Elements
    <3> QED
      BY <1>4, <2>2, <3>2, Zenon DEF Small
  <2> QED
    BY <2>1, <2>2, Zenon
<1>8. \A i \in Items : Kept(i)'
  BY <1>1, <1>3, KeptOnSend, Zenon
<1>9. Left'
  <2>1. early \subseteq Items /\ down # "up" /\ \A i \in Items : Shard(i) \in Keys /\ Shard(i)' = Shard(i)
    BY Zenon, <1>1, <1>2, ShardFacts, SameShard DEF BInv, BatchTypeOK, Left
  <2>2. \A i \in early : call[i] = "accepted"
    BY Zenon DEF BInv, Left
  <2>3. ASSUME NEW i \in early, Shard(i) = k, NEW n \in 1..NumElems[i]
        PROVE  Out(<<i, n>>)'
    <3>1. ~In(i, newItem[k])
      BY <1>2 DEF In
    <3>2. Kept(i)
      BY <2>1, Zenon DEF BInv
    <3>3. In(<<i, n>>, batch[k]) \/ Out(<<i, n>>)
      BY <2>2, <2>3, <3>1, <3>2, Zenon DEF Kept
    <3> QED
      BY <1>3, <3>3, Zenon
  <2>4. ASSUME NEW i \in early, Shard(i) # k, loop[Shard(i)] = "exit", NEW n \in 1..NumElems[i]
        PROVE  Out(<<i, n>>)'
    BY <1>3, <2>4, Zenon DEF BInv, Left
  <2>5. \A i \in early' : loop'[Shard(i)'] = "exit" => \A n \in 1..NumElems[i] : Out(<<i, n>>)'
    BY <1>1, <1>4, <2>1, <2>3, <2>4, Zenon
  <2>6. down' = "done" => \A i \in early' : loop'[Shard(i)'] = "exit"
    BY <1>1, <1>4, <2>1, Zenon DEF BInv, Left
  <2> QED
    BY <1>1, <2>1, <2>2, <2>5, <2>6, Zenon DEF Left
<1> QED
  BY <1>3, <1>5, <1>6, <1>7, <1>8, <1>9, Zenon DEF BInv

\* Until Shutdown is called no goroutine has left.
LEMMA ShutdownB ==
  ASSUME BInv, Shutdown
  PROVE  BInv'
<1>1. UNCHANGED <<cfg, call, shards, size, newItem, batch, loop, sent, timer, out>>
  BY Zenon DEF Shutdown, callVars, shardVars
<1>2. down = "up" /\ down' = "closed" /\ early' = {i \in Items : call[i] = "accepted"}
  BY Zenon DEF Shutdown
<1>3. BatchTypeOK' /\ Limited'
  BY <1>1, <1>2, Zenon DEF BInv, BatchTypeOK, Limited
<1>4. Started'
  BY <1>1, SameShard, Zenon DEF BInv, Started
<1>5. \A l \in Keys : InShard(l)' /\ Small(l)'
  <2> TAKE l \in Keys
  <2>1. InShard(l) /\ Small(l)
    BY Zenon DEF BInv
  <2> QED
    BY <1>1, <2>1, SameInShard, SameSmall, Zenon
<1>6. \A i \in Items : Kept(i)'
  BY <1>1, SameKept, Zenon
<1>7. Left'
  <2>1. \A i \in Items : Shard(i) \in Keys /\ Shard(i)' = Shard(i)
    BY <1>1, ShardFacts, SameShard, Zenon DEF BInv, BatchTypeOK
  <2>2. \A k \in Keys : loop'[k] # "exit"
    BY <1>1, <1>2, Zenon DEF BInv, Left
  <2> QED
    BY <1>1, <1>2, <2>1, <2>2, Zenon DEF Left
<1>8. BatchesWellFormed'
  BY <1>1, Zenon DEF BInv, BatchesWellFormed
<1> QED
  BY <1>3, <1>4, <1>5, <1>6, <1>7, <1>8, Zenon DEF BInv

\* Shutdown returns when every goroutine has left.
LEMMA ShutdownReturnsB ==
  ASSUME BInv, ShutdownReturns
  PROVE  BInv'
<1>1. UNCHANGED <<cfg, call, shards, size, newItem, batch, loop, sent, timer, out, early>>
  BY Zenon DEF ShutdownReturns, callVars, shardVars
<1>2. down' = "done" /\ \A k \in Keys : loop[k] \in {"none", "exit"}
  BY Zenon DEF ShutdownReturns
<1>3. BatchTypeOK' /\ Limited'
  BY <1>1, <1>2, Zenon DEF BInv, BatchTypeOK, Limited
<1>4. Started'
  BY <1>1, SameShard, Zenon DEF BInv, Started
<1>5. \A l \in Keys : InShard(l)' /\ Small(l)'
  <2> TAKE l \in Keys
  <2>1. InShard(l) /\ Small(l)
    BY Zenon DEF BInv
  <2> QED
    BY <1>1, <2>1, SameInShard, SameSmall, Zenon
<1>6. \A i \in Items : Kept(i)'
  BY <1>1, SameKept, Zenon
<1>7. Left'
  <2>1. early \subseteq Items /\ \A i \in Items : Shard(i) \in Keys /\ Shard(i)' = Shard(i)
    BY <1>1, ShardFacts, SameShard, Zenon DEF BInv, BatchTypeOK
  <2>2. \A i \in early : call[i] = "accepted" /\ loop[Shard(i)] = "exit"
    BY <1>2, <2>1, Zenon DEF BInv, Left, Started
  <2>3. \A i \in early : \A n \in 1..NumElems[i] : Out(<<i, n>>)'
    BY <1>1, <2>2, Zenon DEF BInv, Left, Out
  <2> QED
    BY <1>1, <1>2, <2>1, <2>2, <2>3, Zenon DEF Left
<1>8. BatchesWellFormed'
  BY <1>1, Zenon DEF BInv, BatchesWellFormed
<1> QED
  BY <1>3, <1>4, <1>5, <1>6, <1>7, <1>8, Zenon DEF BInv

\* A stuttering step changes nothing.
LEMMA StutterB ==
  ASSUME BInv, UNCHANGED vars
  PROVE  BInv'
<1>1. UNCHANGED <<cfg, call, shards, size, newItem, batch, loop, sent, timer, out, down, early>>
  BY Zenon DEF vars
<1>2. BatchTypeOK' /\ Limited'
  BY <1>1, Zenon DEF BInv, BatchTypeOK, Limited
<1>3. Started'
  BY <1>1, SameShard, Zenon DEF BInv, Started
<1>4. \A l \in Keys : InShard(l)' /\ Small(l)'
  <2> TAKE l \in Keys
  <2>1. InShard(l) /\ Small(l)
    BY Zenon DEF BInv
  <2> QED
    BY <1>1, <2>1, SameInShard, SameSmall, Zenon
<1>5. \A i \in Items : Kept(i)'
  BY <1>1, SameKept, Zenon
<1>6. Left'
  <2>1. \A x : Out(x) => Out(x)'
    BY <1>1, Zenon DEF Out
  <2>2. down = "up" => \A l \in Keys : loop[l] \in {"none", "select", "process"}
    BY Zenon DEF BInv, Left
  <2> QED
    BY <1>1, <2>1, <2>2, SameLeft, Zenon
<1>7. BatchesWellFormed'
  BY <1>1, Zenon DEF BInv, BatchesWellFormed
<1> QED
  BY <1>2, <1>3, <1>4, <1>5, <1>6, <1>7, Zenon DEF BInv

\* The invariant is inductive.
LEMMA BStep == BInv /\ [Next]_vars => BInv'
<1> SUFFICES ASSUME BInv, [Next]_vars PROVE BInv'
  OBVIOUS
<1>1. ASSUME NEW i \in Items, Consume(i) \/ CallStep(i) PROVE BInv'
  BY <1>1, ConsumeB, LoadOrStoreB, PutB, Zenon DEF CallStep
<1>2. ASSUME NEW k \in Keys, ShardStep(k) \/ Elapses(k) PROVE BInv'
  BY <1>2, processItemB, processSendB, processReturnsB, timeoutB, drainB, exitB, ElapsesB, Zenon DEF ShardStep
<1> QED
  BY <1>1, <1>2, ShutdownB, ShutdownReturnsB, StutterB, Zenon DEF Next

-----------------------------------------------------------------------------
(* Theorems. *)

\* The inductive invariant holds in every reachable state.
THEOREM BInvAlways == Spec => []BInv
BY BInit, BStep, PTL DEF Spec

\* However many calls miss in Load at once, there are never more shards than
\* metadata_cardinality_limit, mb.size counts them, and only a full table refuses.
THEOREM LimitHoldsAlways == Spec => []LimitHolds
<1>1. BInv => LimitHolds
  BY Zenon DEF BInv, Limited, LimitHolds
<1> QED
  BY <1>1, BInvAlways, PTL

\* Every batch that is sent has elements, respects send_batch_max_size and does not
\* mix metadata, for every configuration that Validate lets through.
THEOREM BatchesWellFormedAlways == Spec => []BatchesWellFormed
<1>1. BInv => BatchesWellFormed
  BY Zenon DEF BInv
<1> QED
  BY <1>1, BInvAlways, PTL

\* When Shutdown returns, everything accepted before it was called has been sent:
\* one send of what is left is enough, because the batch is below send_batch_size
\* in a select and Validate keeps send_batch_max_size from cutting it.
THEOREM SentBeforeShutdownReturnsAlways == Spec => []SentBeforeShutdownReturns
<1>1. BInv => SentBeforeShutdownReturns
  <2> SUFFICES ASSUME BInv, down = "done", NEW i \in early, NEW x \in Range(Elems(i))
               PROVE  x \in Sent
    BY Zenon DEF SentBeforeShutdownReturns, ElemsOf
  <2>1. i \in Items
    BY Zenon DEF BInv, BatchTypeOK
  <2>5. In(x, Elems(i))
    BY Zenon DEF Range, In
  <2>2. PICK n \in 1..NumElems[i] : x = <<i, n>>
    BY <2>1, <2>5, ElemsFacts, Zenon
  <2>3. Out(<<i, n>>)
    BY Zenon DEF BInv, Left
  <2>4. PICK b \in out : x \in Range(b)
    BY <2>2, <2>3, Zenon DEF Out, In, Range
  <2> QED
    BY <2>4, Zenon DEF Sent
<1> QED
  BY <1>1, BInvAlways, PTL

-----------------------------------------------------------------------------
(* Every element is in one place. *)

\* Appending something new leaves a sequence without repetitions.
LEMMA InjAppend ==
  ASSUME NEW S, NEW s \in Seq(S), NEW e \in S, IsInjective(s), ~In(e, s)
  PROVE  IsInjective(Append(s, e))
<1>1. \A j \in DOMAIN Append(s, e) :
        \/ j \in DOMAIN s /\ Append(s, e)[j] = s[j]
        \/ j = Len(s) + 1 /\ Append(s, e)[j] = e
  OBVIOUS
<1> QED
  BY <1>1, Zenon DEF IsInjective, In

\* The tail of a sequence without repetitions has none, and not the head.
LEMMA InjTail ==
  ASSUME NEW S, NEW s \in Seq(S), s # <<>>, IsInjective(s)
  PROVE  IsInjective(Tail(s)) /\ ~In(Head(s), Tail(s))
<1>1. \A j \in DOMAIN Tail(s) : j \in Nat /\ j >= 1 /\ j + 1 \in DOMAIN s /\ s[j + 1] = Tail(s)[j]
  OBVIOUS
<1>2. 1 \in DOMAIN s /\ s[1] = Head(s)
  OBVIOUS
<1>3. IsInjective(Tail(s))
  BY <1>1 DEF IsInjective
<1>4. ~In(Head(s), Tail(s))
  BY <1>1, <1>2 DEF IsInjective, In
<1> QED
  BY <1>3, <1>4, Zenon

\* Two sequences without repetitions and with nothing in common.
LEMMA InjConcat ==
  ASSUME NEW S, NEW s \in Seq(S), NEW t \in Seq(S), IsInjective(s), IsInjective(t),
         \A x : ~(In(x, s) /\ In(x, t))
  PROVE  IsInjective(s \o t)
<1>1. \A j \in DOMAIN (s \o t) :
        /\ j \in Nat
        /\ \/ j \in DOMAIN s /\ (s \o t)[j] = s[j]
           \/ j - Len(s) \in DOMAIN t /\ (s \o t)[j] = t[j - Len(s)]
  OBVIOUS
<1>2. \A j \in DOMAIN s, m \in DOMAIN t : s[j] # t[m]
  BY Zenon DEF In
<1>3. Len(s) \in Nat
  OBVIOUS
<1> QED
  BY <1>1, <1>2, <1>3 DEF IsInjective

\* The parts of a sequence without repetitions have nothing in common.
LEMMA InjCut ==
  ASSUME NEW S, NEW s \in Seq(S), NEW m \in 1..Len(s), IsInjective(s)
  PROVE  LET a == SubSeq(s, 1, m)
             b == SubSeq(s, m + 1, Len(s))
         IN  IsInjective(b) /\ \A x : ~(In(x, a) /\ In(x, b))
<1> DEFINE a == SubSeq(s, 1, m)
           b == SubSeq(s, m + 1, Len(s))
<1>1. \A j \in DOMAIN a : j \in 1..m /\ j \in DOMAIN s /\ a[j] = s[j]
  OBVIOUS
<1>2. \A j \in DOMAIN b : j \in Nat /\ j >= 1 /\ m + j \in DOMAIN s /\ b[j] = s[m + j]
  OBVIOUS
<1> HIDE DEF a, b
<1>3. IsInjective(b)
  BY <1>2 DEF IsInjective
<1>4. \A x : ~(In(x, a) /\ In(x, b))
  <2> SUFFICES ASSUME NEW j \in DOMAIN a, NEW l \in DOMAIN b, a[j] = b[l] PROVE FALSE
    BY Zenon DEF In
  <2>1. s[j] = s[m + l] /\ j \in DOMAIN s /\ m + l \in DOMAIN s
    BY <1>1, <1>2, Zenon
  <2>2. j = m + l
    BY <2>1, Zenon DEF IsInjective
  <2> QED
    BY <1>1, <1>2, <2>2
<1> QED
  BY <1>3, <1>4, Zenon DEF a, b

\* split sends no element that it keeps.
LEMMA SplitApart ==
  ASSUME cfg \in Configs, NEW b \in Seq(Elements), IsInjective(b)
  PROVE  IsInjective(Rest(b)) /\ \A x : ~(In(x, SplitOff(b)) /\ In(x, Rest(b)))
<1>1. CASE Full(b)
  <2>1. cfg.max \in 1..Len(b)
    BY <1>1, ConfigFacts DEF Full
  <2>2. SplitOff(b) = SubSeq(b, 1, cfg.max) /\ Rest(b) = SubSeq(b, cfg.max + 1, Len(b))
    BY Zenon, <1>1 DEF SplitOff, Rest
  <2> QED
    BY <2>1, <2>2, InjCut, Zenon
<1>2. CASE ~Full(b)
  <2>1. Rest(b) = <<>>
    BY <1>2, Zenon DEF Rest
  <2> QED
    BY <2>1 DEF In, IsInjective
<1> QED
  BY <1>1, <1>2, Zenon

\* A step that moves no data keeps every element where it is.
LEMMA Unmoved ==
  ASSUME OInv, UNCHANGED <<newItem, batch, out>>,
         \A i \in Items : call[i] = "accepted" => call'[i] = "accepted"
  PROVE  OInv'
<1>1. \A x : Out(x)' = Out(x)
  BY Zenon DEF Out
<1>2. \A x \in Elements : x[1] \in Items /\ (Valid(x) => Valid(x)')
  BY Zenon DEF Valid, Elements
<1>3. ASSUME NEW k \in Keys PROVE Once(k)'
  <2>1. Once(k)
    BY Zenon DEF OInv
  <2> QED
    BY <1>1, <1>2, <2>1, Zenon DEF Once, Elements
<1>4. SentOnce'
  BY <1>1, <1>2, Zenon DEF OInv, SentOnce, Elements
<1> QED
  BY <1>3, <1>4, Zenon DEF OInv, Keys

\* What sendItems puts out was in no batch that was sent before, and leaves the batch.
LEMMA SendOnceO ==
  ASSUME BInv, OInv, UNCHANGED <<cfg, call, newItem>>, NEW k \in Keys, batch[k] # <<>>, sendItems(k)
  PROVE  OInv'
<1>1. PICK b : b = batch[k]
  OBVIOUS
<1>2. b \in Seq(Elements) /\ cfg \in Configs /\ batch \in [Keys -> Seq(Elements)] /\ b # <<>> /\ IsInjective(b)
  BY <1>1, Zenon DEF BInv, BatchTypeOK, OInv, Once
<1>3. \A x : In(x, b) <=> In(x, SplitOff(b)) \/ In(x, Rest(b))
  BY <1>2, Splitting, Zenon
<1>4. IsInjective(Rest(b)) /\ \A x : ~(In(x, SplitOff(b)) /\ In(x, Rest(b)))
  BY <1>2, SplitApart, Zenon
<1>5. out' = out \cup {SplitOff(b)} /\ batch'[k] = Rest(b) /\ \A l \in Keys \ {k} : batch'[l] = batch[l]
  BY <1>1, <1>2, Zenon DEF sendItems
<1>6. \A x : Out(x)' <=> Out(x) \/ In(x, SplitOff(b))
  BY <1>5, Zenon DEF Out
<1>7. \A x \in Elements : /\ Valid(x)' <=> Valid(x)
                          /\ In(x, b) => Valid(x) /\ ~Out(x) /\ Shard(x[1]) = k /\ ~In(x[1], newItem[k])
  BY <1>1, Zenon DEF OInv, Once, BInv, InShard, Valid
<1>8. \A l \in Keys \ {k} : \A x \in Elements : In(x, b) => ~In(x, batch[l]) /\ ~In(x[1], newItem[l])
  BY <1>7, Zenon DEF BInv, InShard, Elements
<1>9. ASSUME NEW l \in Keys PROVE Once(l)'
  <2>1. Once(l)
    BY Zenon DEF OInv
  <2>2. CASE l = k
    <3>1. /\ IsInjective(newItem'[k]) /\ IsInjective(batch'[k])
          /\ \A i \in Items : In(i, newItem'[k]) => call'[i] = "accepted"
      BY <1>4, <1>5, <2>1, <2>2, Zenon DEF Once
    <3>2. \A x \in Elements : In(x[1], newItem'[k]) => ~In(x, batch'[k]) /\ ~Out(x)'
      BY <1>1, <1>3, <1>5, <1>6, <2>1, <2>2, Zenon DEF Once
    <3>3. \A x \in Elements : In(x, batch'[k]) => Valid(x)' /\ ~Out(x)'
      BY <1>3, <1>4, <1>5, <1>6, <1>7, Zenon
    <3> QED
      BY <2>2, <3>1, <3>2, <3>3, Zenon DEF Once, Elements
  <2>3. CASE l # k
    <3>1. newItem'[l] = newItem[l] /\ batch'[l] = batch[l] /\ call' = call
      BY <1>5, <2>3, Zenon
    <3>2. \A x \in Elements : In(x[1], newItem[l]) => ~In(x, batch[l]) /\ ~Out(x)'
      BY <1>3, <1>6, <1>8, <2>1, <2>3, Zenon DEF Once
    <3>3. \A x \in Elements : In(x, batch[l]) => Valid(x)' /\ ~Out(x)'
      BY <1>3, <1>6, <1>7, <1>8, <2>1, <2>3, Zenon DEF Once
    <3> QED
      BY <2>1, <3>1, <3>2, <3>3, Zenon DEF Once, Elements
  <2> QED
    BY <2>2, <2>3, Zenon
<1>10. SentOnce'
  <2>1. \A x \in Elements : Out(x)' => Valid(x)'
    BY <1>3, <1>6, <1>7, Zenon DEF OInv, SentOnce
  <2>2. \A x \in Elements : \A a \in out : ~(In(x, a) /\ In(x, SplitOff(b)))
    BY <1>3, <1>7, Zenon DEF Out
  <2>3. \A a, c \in out' : (\E x \in Elements : In(x, a) /\ In(x, c)) => a = c
    BY <1>5, <2>2 DEF OInv, SentOnce
  <2> QED
    BY <2>1, <2>3, Zenon DEF SentOnce, Elements
<1> QED
  BY <1>9, <1>10, Zenon DEF OInv, Keys

\* A call puts its item into the channel once, and no element of it was seen before.
LEMMA PutO ==
  ASSUME BInv, OInv, NEW i \in Items, Put(i)
  PROVE  OInv'
<1>1. PICK k : k = Shard(i)
  OBVIOUS
<1>2. UNCHANGED <<cfg, batch, out>> /\ call[i] = "put" /\ call' = [call EXCEPT ![i] = "accepted"]
      /\ newItem' = [newItem EXCEPT ![k] = Append(newItem[k], i)]
  BY <1>1, Zenon DEF Put
<1>3. k \in Keys /\ newItem \in [Keys -> Seq(Items)] /\ newItem[k] \in Seq(Items)
  BY <1>1, ShardFacts, Zenon DEF BInv, BatchTypeOK
<1>4. newItem'[k] = Append(newItem[k], i) /\ \A l \in Keys \ {k} : newItem'[l] = newItem[l]
  BY <1>2, <1>3, Zenon
<1>5. \A j \in Items : call'[j] = IF j = i THEN "accepted" ELSE call[j]
  BY <1>2, Zenon DEF BInv, BatchTypeOK
<1>6. \A x : In(x, newItem'[k]) => x = i \/ In(x, newItem[k])
  <2>1. \A j \in DOMAIN Append(newItem[k], i) :
          \/ j \in DOMAIN newItem[k] /\ Append(newItem[k], i)[j] = newItem[k][j]
          \/ Append(newItem[k], i)[j] = i
    BY <1>3
  <2> QED
    BY Zenon, <1>4, <2>1 DEF In
<1>7. \A l \in Keys : ~In(i, newItem[l]) /\ \A x \in Elements : x[1] = i => ~In(x, batch[l]) /\ ~Out(x)
  BY <1>2, Zenon DEF OInv, Once, SentOnce, Valid
<1>8. \A x \in Elements : x[1] \in Items /\ (Valid(x) => Valid(x)') /\ (Out(x)' <=> Out(x))
  BY <1>2, <1>5, Zenon DEF Valid, Elements, Out
<1>9. ASSUME NEW l \in Keys PROVE Once(l)'
  <2>1. Once(l) /\ batch' = batch
    BY <1>2, Zenon DEF OInv
  <2>2. IsInjective(newItem'[l])
    <3>1. CASE l = k
      BY Zenon, <1>3, <1>4, <1>7, <2>1, <3>1, InjAppend DEF Once
    <3> QED
      BY <1>4, <2>1, <3>1, Zenon DEF Once
  <2>3. \A x : In(x, newItem'[l]) => x = i \/ In(x, newItem[l])
    BY Zenon, <1>4, <1>6
  <2>4. \A j \in Items : In(j, newItem'[l]) => call'[j] = "accepted"
    BY <1>5, <2>1, <2>3, Zenon DEF Once
  <2>5. \A x \in Elements : In(x[1], newItem'[l]) => ~In(x, batch'[l]) /\ ~Out(x)'
    BY <1>7, <1>8, <2>1, <2>3, Zenon DEF Once
  <2>6. \A x \in Elements : In(x, batch'[l]) => Valid(x)' /\ ~Out(x)'
    BY <1>8, <2>1, Zenon DEF Once
  <2>7. IsInjective(batch'[l])
    BY <2>1, Zenon DEF Once
  <2> QED
    BY <2>2, <2>4, <2>5, <2>6, <2>7, Zenon DEF Once, Elements
<1>10. SentOnce'
  BY <1>2, <1>8, Zenon DEF OInv, SentOnce, Elements
<1> QED
  BY <1>9, <1>10, Zenon DEF OInv, Keys

\* An item leaves the channel when its elements come into the batch.
LEMMA processItemO ==
  ASSUME BInv, OInv, NEW k \in Keys, processItem(k)
  PROVE  OInv'
<1>1. PICK i : i = Head(newItem[k])
  OBVIOUS
<1>2. /\ UNCHANGED <<cfg, call, out>> /\ newItem[k] # <<>>
      /\ batch' = [batch EXCEPT ![k] = batch[k] \o Elems(i)]
      /\ newItem' = [newItem EXCEPT ![k] = Tail(newItem[k])]
  BY Zenon, <1>1 DEF processItem, callVars
<1>3. /\ newItem \in [Keys -> Seq(Items)] /\ newItem[k] \in Seq(Items)
      /\ batch \in [Keys -> Seq(Elements)] /\ batch[k] \in Seq(Elements) /\ Once(k)
  BY Zenon DEF BInv, BatchTypeOK, OInv
<1>4. i \in Items /\ \A x : In(x, newItem[k]) <=> x = i \/ In(x, Tail(newItem[k]))
  BY Zenon, <1>1, <1>2, <1>3, InTail
<1>5. IsInjective(Tail(newItem[k])) /\ ~In(i, Tail(newItem[k]))
  BY <1>1, <1>2, <1>3, InjTail, Zenon DEF Once
<1>6. /\ newItem'[k] = Tail(newItem[k]) /\ batch'[k] = batch[k] \o Elems(i)
      /\ \A l \in Keys \ {k} : newItem'[l] = newItem[l] /\ batch'[l] = batch[l]
  BY Zenon, <1>2, <1>3
<1>7. Elems(i) \in Seq(Elements) /\ \A x : In(x, Elems(i)) <=> \E n \in 1..NumElems[i] : x = <<i, n>>
  BY <1>4, ElemsFacts, Zenon
<1>8. /\ \A x : In(x, Elems(i)) => x \in Elements /\ x[1] = i /\ x[2] \in 1..NumElems[i]
      /\ IsInjective(Elems(i))
  <2>1. NumElems[i] \in Nat
    BY <1>4, BatchConfigOK, Zenon DEF BatchConfigOK
  <2>2. IsInjective(Elems(i))
    BY <2>1, Zenon DEF IsInjective, Elems
  <2> QED
    BY <1>4, <1>7, <2>1, <2>2 DEF Elements
<1>9. \A x \in Elements : In(x, Elems(i)) => ~In(x, batch[k]) /\ ~Out(x) /\ Valid(x)
  BY <1>3, <1>4, <1>8, Zenon DEF Once, Valid
<1>10. \A x : In(x, batch'[k]) <=> In(x, batch[k]) \/ In(x, Elems(i))
  BY <1>3, <1>6, <1>7, InConcat
<1>11. IsInjective(batch'[k])
  <2>1. \A x : ~(In(x, batch[k]) /\ In(x, Elems(i)))
    BY <1>8, <1>9, Zenon
  <2>2. IsInjective(batch[k])
    BY <1>3, Zenon DEF Once
  <2> QED
    BY <1>3, <1>6, <1>7, <1>8, <2>1, <2>2, InjConcat
<1>12. \A x \in Elements : (Valid(x)' <=> Valid(x)) /\ (Out(x)' <=> Out(x))
  BY <1>2, Zenon DEF Valid, Out
<1>13. ASSUME NEW l \in Keys PROVE Once(l)'
  <2>1. CASE l = k
    <3>1. \A j \in Items : In(j, newItem'[k]) => call'[j] = "accepted"
      BY <1>2, <1>3, <1>4, <1>6, Zenon DEF Once
    <3>2. \A x \in Elements : In(x[1], newItem'[k]) => ~In(x, batch'[k]) /\ ~Out(x)'
      BY <1>3, <1>4, <1>5, <1>6, <1>8, <1>10, <1>12, Zenon DEF Once
    <3>3. \A x \in Elements : In(x, batch'[k]) => Valid(x)' /\ ~Out(x)'
      BY <1>3, <1>9, <1>10, <1>12, Zenon DEF Once
    <3>4. IsInjective(newItem'[k])
      BY <1>5, <1>6, Zenon
    <3> QED
      BY <1>11, <2>1, <3>1, <3>2, <3>3, <3>4, Zenon DEF Once, Elements
  <2>2. CASE l # k
    <3>1. newItem'[l] = newItem[l] /\ batch'[l] = batch[l] /\ call' = call /\ Once(l)
      BY <1>2, <1>6, <2>2, Zenon DEF OInv
    <3> QED
      BY Zenon, <1>12, <3>1 DEF Once, Elements
  <2> QED
    BY <2>1, <2>2, Zenon
<1>14. SentOnce'
  BY <1>2, <1>12, Zenon DEF OInv, SentOnce, Elements
<1> QED
  BY <1>13, <1>14, Zenon DEF OInv, Keys

\* At the start nothing is anywhere.
LEMMA OInit == Init => OInv
BY DEF Init, OInv, Once, SentOnce, In, Out, IsInjective

\* The invariant is inductive, together with BInv.
LEMMA OStep == BInv /\ OInv /\ [Next]_vars => OInv'
<1> SUFFICES ASSUME BInv, OInv, [Next]_vars PROVE OInv'
  OBVIOUS
<1>1. ASSUME NEW i \in Items, Consume(i) \/ LoadOrStore(i) PROVE OInv'
  <2>1. UNCHANGED <<newItem, batch, out>>
    BY <1>1, Zenon DEF Consume, LoadOrStore, shardVars
  <2>2. \A j \in Items : call[j] = "accepted" => call'[j] = "accepted"
    BY <1>1, Zenon DEF Consume, LoadOrStore, BInv, BatchTypeOK
  <2> QED
    BY <2>1, <2>2, Unmoved, Zenon
<1>2. ASSUME NEW k \in Keys, processReturns(k) \/ drain(k) \/ Elapses(k) PROVE OInv'
  <2>1. UNCHANGED <<newItem, batch, out, call>>
    BY Zenon, <1>2 DEF processReturns, drain, Elapses, callVars
  <2> QED
    BY <2>1, Unmoved, Zenon
<1>3. ASSUME NEW k \in Keys, timeout(k) \/ exit(k) PROVE OInv'
  <2>1. UNCHANGED <<cfg, call, newItem>>
    BY <1>3, Zenon DEF timeout, exit, callVars
  <2>2. IF batch[k] # <<>> THEN sendItems(k) ELSE UNCHANGED <<out, batch>>
    BY <1>3, Zenon DEF timeout, exit
  <2> QED
    BY <2>1, <2>2, Unmoved, SendOnceO, Zenon
<1>4. ASSUME NEW k \in Keys, processSend(k) PROVE OInv'
  <2>1. UNCHANGED <<cfg, call, newItem>> /\ batch[k] # <<>> /\ sendItems(k)
    BY Zenon, <1>4 DEF processSend, SendMore, callVars
  <2> QED
    BY <2>1, SendOnceO, Zenon
<1>5. CASE Shutdown \/ ShutdownReturns \/ UNCHANGED vars
  <2>1. UNCHANGED <<newItem, batch, out, call>>
    BY <1>5, Zenon DEF Shutdown, ShutdownReturns, vars, callVars, shardVars
  <2> QED
    BY <2>1, Unmoved, Zenon
<1>6. ASSUME NEW k \in Keys, ShardStep(k) \/ Elapses(k) PROVE OInv'
  BY <1>2, <1>3, <1>4, <1>6, processItemO, Zenon DEF ShardStep
<1>7. ASSUME NEW i \in Items, Consume(i) \/ CallStep(i) PROVE OInv'
  BY <1>1, <1>7, PutO, Zenon DEF CallStep
<1> QED
  BY <1>5, <1>6, <1>7, Zenon DEF Next

\* However calls, timers, splits and Shutdown interleave, every element of an accepted
\* item is in the channel of a shard, in its batch, or in one batch that was sent:
\* split and the reset of the batch neither lose nor repeat an element.
THEOREM EachElementOnceAlways == Spec => []EachElementOnce
<1>1. Spec => [](BInv /\ OInv)
  BY BInvAlways, OInit, OStep, PTL DEF Spec
<1>2. BInv /\ OInv => EachElementOnce
  <2> SUFFICES ASSUME BInv, OInv PROVE EachElementOnce
    OBVIOUS
  <2>1. /\ newItem \in [Keys -> Seq(Items)] /\ batch \in [Keys -> Seq(Elements)] /\ out \subseteq Seq(Elements)
        /\ \A i \in Items : Shard(i) \in Keys
    BY ShardFacts, Zenon DEF BInv, BatchTypeOK
  <2>2. \A s, x : x \in Range(s) <=> In(x, s)
    BY Zenon DEF Range, In
  <2>3. \A x : x \in Sent <=> Out(x)
    BY <2>2, Zenon DEF Sent, Out
  <2>4. \A x : x \in InBatches <=> \E k \in Keys : In(x, batch[k])
    BY <2>2, Zenon DEF InBatches
  <2>5. \A i : i \in InChannels <=> \E k \in Keys : In(i, newItem[k])
    BY <2>2, Zenon DEF InChannels
  <2>6. \A k \in Keys : \A i : In(i, newItem[k]) => i \in Items
    BY <2>1 DEF In
  <2>7. \A k \in Keys : \A x : In(x, batch[k]) => x \in Elements
    BY <2>1 DEF In
  <2>8. \A x : Out(x) => x \in Elements
    BY <2>1 DEF In, Out
  <2>9. ASSUME NEW I \in SUBSET Items
        PROVE  \A x : x \in ElemsOf(I) <=> x \in Elements /\ x[1] \in I /\ x[2] \in 1..NumElems[x[1]]
    <3>1. \A x : x \in ElemsOf(I) <=> \E i \in I : In(x, Elems(i))
      BY <2>2, Zenon DEF ElemsOf
    <3>2. \A i \in I : \A x : In(x, Elems(i)) <=> \E n \in 1..NumElems[i] : x = <<i, n>>
      BY ElemsFacts, Zenon
    <3>3. \A i \in Items : NumElems[i] \in Nat
      BY BatchConfigOK, Zenon DEF BatchConfigOK
    <3> QED
      BY <3>1, <3>2, <3>3 DEF Elements
  <2>10. InChannels \subseteq Items
    BY <2>5, <2>6, Zenon
  <2>11. \A x : x \in ElemsOf(InChannels) <=> x \in Elements /\ x[1] \in InChannels /\ x[2] \in 1..NumElems[x[1]]
    BY <2>9, <2>10, Zenon
  <2>12. ElemsOf({i \in Items : call[i] = "accepted"}) \subseteq ElemsOf(InChannels) \cup InBatches \cup Sent
    <3> SUFFICES ASSUME NEW x \in Elements, x[1] \in Items, call[x[1]] = "accepted", x[2] \in 1..NumElems[x[1]],
                        x[1] \notin InChannels
                 PROVE  x \in InBatches \cup Sent
      BY <2>9, <2>11
    <3>1. x = <<x[1], x[2]>> /\ Kept(x[1])
      BY DEF Elements, BInv
    <3>2. ~In(x[1], newItem[Shard(x[1])])
      BY <2>1, <2>5, Zenon
    <3>3. In(x, batch[Shard(x[1])]) \/ Out(x)
      BY <3>1, <3>2, Zenon DEF Kept
    <3> QED
      BY <2>1, <2>3, <2>4, <3>3, Zenon
  <2>13. ElemsOf(InChannels) \cup InBatches \cup Sent \subseteq ElemsOf({i \in Items : call[i] = "accepted"})
    <3> SUFFICES ASSUME NEW x \in ElemsOf(InChannels) \cup InBatches \cup Sent
                 PROVE  x \in Elements /\ x[1] \in Items /\ Valid(x)
      BY <2>9, Zenon DEF Valid
    <3>1. CASE x \in ElemsOf(InChannels)
      BY <2>5, <2>10, <2>11, <3>1, Zenon DEF OInv, Once, Valid
    <3>2. CASE x \in InBatches \cup Sent
      <4>1. x \in Elements /\ Valid(x)
        BY <2>3, <2>4, <2>7, <2>8, <3>2, Zenon DEF OInv, Once, SentOnce
      <4> QED
        BY <4>1, Zenon DEF Elements
    <3> QED
      BY <3>1, <3>2, Zenon
  <2>14. \A a, b \in out : Range(a) \cap Range(b) # {} => a = b
    BY <2>2, <2>8, Zenon DEF OInv, SentOnce, Out
  <2>15. ElemsOf(InChannels) \cap InBatches = {}
    <3> SUFFICES ASSUME NEW x \in ElemsOf(InChannels), x \in InBatches PROVE FALSE
      OBVIOUS
    <3>1. PICK k \in Keys : In(x[1], newItem[k])
      BY <2>5, <2>11, Zenon
    <3>2. PICK l \in Keys : In(x, batch[l])
      BY <2>4, Zenon
    <3>3. x \in Elements /\ x[1] \in Items
      BY <2>7, <3>2 DEF Elements
    <3>4. Shard(x[1]) = k /\ Shard(x[1]) = l
      BY <3>1, <3>2, <3>3, Zenon DEF BInv, InShard
    <3> QED
      BY <3>1, <3>2, <3>3, <3>4, Zenon DEF OInv, Once
  <2>16. (ElemsOf(InChannels) \cup InBatches) \cap Sent = {}
    BY <2>3, <2>4, <2>5, <2>8, <2>11, Zenon DEF OInv, Once
  <2> QED
    BY <2>12, <2>13, <2>14, <2>15, <2>16, Zenon DEF EachElementOnce
<1> QED
  BY <1>1, <1>2, PTL
=============================================================================
