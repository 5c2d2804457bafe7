------------------------- MODULE BaseExporterProofs -------------------------
(***************************************************************************)
(* Proofs about the exporter around its wrapped exporter, for any requests *)
(* and keys, any number of partitions, consumers and workers, any queue,   *)
(* batches of any size and exports that are retried any number of times:   *)
(* the inductive invariant EInv, the steps that preserve it, and what      *)
(* follows from it: no request is lost or exported twice, none is left in  *)
(* a partition that was stopped, and none is left when Shutdown returned.  *)
(***************************************************************************)
EXTENDS BaseExporter, TLAPS

Places == {"read", "exit", "get", "send", "evict", "consume", "late", "flush"}
ConsType == [Consumers -> [at : Places, req : Reqs \cup {NoReq}, part : Reqs \cup {NoReq}]]

\* Types, as far as the proofs use them.
Types ==
  /\ cfg \in Configs /\ queue \in Seq(Reqs) /\ IsInjective(queue) /\ cons \in ConsType
  /\ lru \in Seq(Reqs) /\ mbLock.victim \in Reqs \cup {NoReq}
  /\ batch \in [Reqs -> SUBSET Reqs]
  /\ DOMAIN active = Reqs /\ DOMAIN tick = Reqs /\ DOMAIN stop = Reqs
  /\ evicting \subseteq evicted
FlushTypes ==
  /\ \A f \in pending : f.part \in Reqs /\ f.reqs \subseteq Reqs
  /\ \A j \in jobs : /\ j = [part |-> j.part, reqs |-> j.reqs, at |-> j.at]
                     /\ j.part \in (IF cfg.batching THEN Reqs ELSE {NoReq}) /\ j.reqs \subseteq Reqs

\* What a consumer has at each place.
Carries ==
  \A c \in Consumers :
    /\ cons[c].at \in {"read", "exit"} => cons[c].req = NoReq
    /\ cons[c].at \in {"read", "exit", "get", "send"} <=> cons[c].part = NoReq
    /\ cons[c].at \notin {"read", "exit"} => cons[c].req \in Reqs
    /\ cons[c].at = "send" => ~cfg.batching

\* Without a batcher there are no partitions, and every export has its consumer.
Unbatched ==
  ~cfg.batching =>
    /\ \A c \in Consumers : cons[c].at \in {"read", "exit", "send"}
    /\ \A p \in Reqs : batch[p] = {} /\ tick[p] = "none" /\ stop[p] = "no"
    /\ pending = {} /\ evicted = {} /\ lru = <<>> /\ mbLock = NoLock
    /\ \A j \in jobs : \E c \in Consumers : cons[c].at = "send" /\ j.reqs = {cons[c].req}

\* Who has request r: consumers, partitions, flushes and exports.
InCons(r) == {c \in Consumers : cons[c].req = r /\ cons[c].at \in {"get", "evict", "consume"}}
InBatch(r) == {p \in Reqs : r \in batch[p]}
InFlush(r) == {f \in pending : r \in f.reqs}
InJob(r) == {j \in jobs : r \in j.reqs}
Where(r, C, B, F, J) == InCons(r) = C /\ InBatch(r) = B /\ InFlush(r) = F /\ InJob(r) = J

\* OneHolder, for every request: it is queued, answered, unknown, or with one of them.
Homeless(r) == r \notin Range(queue) \cup answered
Home(r) ==
  \/ r \in Range(queue) /\ r \notin answered /\ Where(r, {}, {}, {}, {})
  \/ r \in answered /\ r \notin Range(queue) /\ Where(r, {}, {}, {}, {})
  \/ Homeless(r) /\ r \notin Range(cfg.queue) /\ Where(r, {}, {}, {}, {})
  \/ Homeless(r) /\ \E c \in InCons(r) : Where(r, {c}, {}, {}, {})
  \/ Homeless(r) /\ \E p \in InBatch(r) : Where(r, {}, {p}, {}, {})
  \/ Homeless(r) /\ \E f \in InFlush(r) : Where(r, {}, {}, {f}, {})
  \/ Homeless(r) /\ \E j \in InJob(r) : Where(r, {}, {}, {}, {j})
Homes == \A r \in Reqs : Home(r)

\* No partition has been made for r.
Unread(r) == r \in Range(queue) \/ \E c \in Consumers : cons[c].at = "get" /\ cons[c].req = r
Unmade ==
  \A r \in Reqs : Unread(r) => stop[r] = "no" /\ r \notin Range(lru) \cup evicted \cup {mbLock.victim}

\* A stopped partition is inactive, and its last data is flushed by itself or by who added it late.
Stopped ==
  \A p \in Reqs :
    /\ stop[p] # "no" => ~active[p]
    /\ stop[p] \in {"waiting", "done"} /\ batch[p] # {} => \E c \in Consumers : cons[c].part = p /\ cons[c].at = "late"

\* What is used of a partition is in the cache, or on its way out, or evicted.
Used(p) ==
  \/ batch[p] # {}
  \/ \E f \in pending \cup jobs : f.part = p
  \/ \E c \in Consumers : cons[c].part = p
Tracked == \A p \in Reqs : Used(p) => p \in Range(lru) \cup {mbLock.victim} \cup evicted

\* Shutdown: the partitions in the cache are stopped when nobody uses them any more.
Over == down \in {"batcher", "purge", "done"}
Closing ==
  /\ Over => \A c \in Consumers : cons[c].at = "exit"
  /\ Over => mbLock.victim = NoReq
  /\ down \in {"batcher", "purge"} => mbLock # NoLock
  /\ down = "purge" => \A p \in Range(lru) : stop[p] = "done"
  /\ down = "done" => lru = <<>>
  /\ \A c \in cfg.consumers : cons[c].at = "exit" => queue = <<>> \/ cfg.persistent
Finished(p) ==
  stop[p] # "no" /\ p \notin evicted =>
    /\ Over
    /\ stop[p] \in {"waiting", "done"} => batch[p] = {}
    /\ stop[p] = "done" => tick[p] \in {"none", "exit"} /\ \A f \in pending \cup jobs : f.part # p
Finishing == \A p \in Reqs : Finished(p)

EInv ==
  /\ Types /\ FlushTypes /\ Carries /\ Unbatched /\ Homes /\ Unmade
  /\ Stopped /\ Tracked /\ Closing /\ Finishing

-----------------------------------------------------------------------------
(* Who has a request. *)

\* Where the consumer, the partition, the flush or the export is that has a request.
LEMMA HomeOfCons ==
  ASSUME Homes, NEW r \in Reqs, NEW c \in InCons(r)
  PROVE  Homeless(r) /\ Where(r, {c}, {}, {}, {})
  BY Zenon DEF Homes, Home, Where
LEMMA HomeOfBatch ==
  ASSUME Homes, NEW r \in Reqs, NEW p \in InBatch(r)
  PROVE  Homeless(r) /\ Where(r, {}, {p}, {}, {})
  BY Zenon DEF Homes, Home, Where
LEMMA HomeOfFlush ==
  ASSUME Homes, NEW r \in Reqs, NEW f \in InFlush(r)
  PROVE  Homeless(r) /\ Where(r, {}, {}, {f}, {})
  BY Zenon DEF Homes, Home, Where
LEMMA HomeOfJob ==
  ASSUME Homes, NEW r \in Reqs, NEW j \in InJob(r)
  PROVE  Homeless(r) /\ Where(r, {}, {}, {}, {j})
  BY Zenon DEF Homes, Home, Where
LEMMA HomeOfQueued ==
  ASSUME Homes, NEW r \in Reqs, r \in Range(queue) \cup answered
  PROVE  Where(r, {}, {}, {}, {}) /\ ~(r \in Range(queue) /\ r \in answered)
  BY Zenon DEF Homes, Home, Homeless

\* Nothing happens to r.
LEMMA HomeSame ==
  ASSUME NEW r \in Reqs, Home(r), cfg' = cfg,
         r \in Range(queue)' <=> r \in Range(queue), r \in answered' <=> r \in answered,
         InCons(r)' = InCons(r), InBatch(r)' = InBatch(r), InFlush(r)' = InFlush(r), InJob(r)' = InJob(r)
  PROVE  Home(r)'
<1>1. Homeless(r)' <=> Homeless(r)
  BY Zenon DEF Homeless
<1>2. \A C, B, F, J : Where(r, C, B, F, J)' <=> Where(r, C, B, F, J)
  BY Zenon DEF Where
<1> QED
  BY Zenon, <1>1, <1>2 DEF Home

\* One request is the whole of what OneHolder says.
LEMMA HomeMeans ==
  ASSUME NEW r \in Reqs, r \in Range(cfg.queue), Home(r)
  PROVE  IF r \in Range(queue) \cup answered THEN Holders(r) = {} ELSE \E h \in Holders(r) : Holders(r) = {h}
<1>1. Holders(r) = {<<"consumer", c>> : c \in InCons(r)} \cup {<<"batch", p>> : p \in InBatch(r)}
                     \cup {<<"flush", f>> : f \in InFlush(r)} \cup {<<"job", j>> : j \in InJob(r)}
  BY Zenon DEF Holders, InCons, InBatch, InFlush, InJob
<1>2. CASE r \in Range(queue) \cup answered
  <2>1. Where(r, {}, {}, {}, {})
    BY <1>2, Zenon DEF Home, Homeless
  <2>2. Holders(r) = {}
    BY <1>1, <2>1, Zenon DEF Where
  <2> QED
    BY <1>2, <2>2, Zenon
<1>3. CASE r \notin Range(queue) \cup answered
  <2>1. \E x : Holders(r) = {x}
    <3>1. CASE \E c \in InCons(r) : Where(r, {c}, {}, {}, {})
      <4>1. PICK c : Where(r, {c}, {}, {}, {})
        BY Zenon, <3>1
      <4>2. Holders(r) = {<<"consumer", c>>}
        BY <1>1, <4>1, Zenon DEF Where
      <4> QED
        BY Zenon, <4>2
    <3>2. CASE \E p \in InBatch(r) : Where(r, {}, {p}, {}, {})
      <4>1. PICK p : Where(r, {}, {p}, {}, {})
        BY Zenon, <3>2
      <4>2. Holders(r) = {<<"batch", p>>}
        BY <1>1, <4>1, Zenon DEF Where
      <4> QED
        BY Zenon, <4>2
    <3>3. CASE \E f \in InFlush(r) : Where(r, {}, {}, {f}, {})
      <4>1. PICK f : Where(r, {}, {}, {f}, {})
        BY Zenon, <3>3
      <4>2. Holders(r) = {<<"flush", f>>}
        BY <1>1, <4>1, Zenon DEF Where
      <4> QED
        BY Zenon, <4>2
    <3>4. CASE \E j \in InJob(r) : Where(r, {}, {}, {}, {j})
      <4>1. PICK j : Where(r, {}, {}, {}, {j})
        BY Zenon, <3>4
      <4>2. Holders(r) = {<<"job", j>>}
        BY <1>1, <4>1, Zenon DEF Where
      <4> QED
        BY Zenon, <4>2
    <3> QED
      BY Zenon, <1>3, <3>1, <3>2, <3>3, <3>4 DEF Home
  <2> QED
    BY <1>3, <2>1, Zenon
<1> QED
  BY <1>2, <1>3, Zenon

-----------------------------------------------------------------------------
(* The queue and the cache. *)

LEMMA TailQueue ==
  ASSUME queue \in Seq(Reqs), IsInjective(queue), queue # <<>>, queue' = Tail(queue)
  PROVE  /\ queue' \in Seq(Reqs) /\ IsInjective(queue)' /\ Head(queue) \in Range(queue)
         /\ \A r : r \in Range(queue)' <=> r \in Range(queue) /\ r # Head(queue)
<1>1. /\ queue' \in Seq(Reqs) /\ Len(queue) \in Nat \ {0} /\ Len(queue') = Len(queue) - 1
      /\ Head(queue) = queue[1] /\ DOMAIN queue = 1..Len(queue) /\ DOMAIN queue' = 1..Len(queue')
      /\ \A i \in 1..Len(queue') : queue'[i] = queue[i + 1]
  OBVIOUS
<1>2. IsInjective(queue)'
  <2> SUFFICES ASSUME NEW i \in 1..Len(queue'), NEW j \in 1..Len(queue'), queue'[i] = queue'[j] PROVE i = j
    BY <1>1, Zenon DEF IsInjective
  <2>1. i + 1 \in 1..Len(queue) /\ j + 1 \in 1..Len(queue) /\ queue[i + 1] = queue[j + 1]
    BY <1>1
  <2>2. i + 1 = j + 1
    BY <1>1, <2>1, Zenon DEF IsInjective
  <2> QED
    BY <2>2
<1>3. Head(queue) \in Range(queue)
  BY <1>1 DEF Range
<1>4. ASSUME NEW r, r \in Range(queue)' PROVE r \in Range(queue) /\ r # Head(queue)
  <2>1. PICK i \in 1..Len(queue') : r = queue'[i]
    BY <1>1, <1>4, Zenon DEF Range
  <2>2. i + 1 \in 1..Len(queue) /\ 1 \in 1..Len(queue) /\ i + 1 # 1 /\ r = queue[i + 1]
    BY <1>1, <2>1
  <2> QED
    BY <1>1, <2>2, Zenon DEF Range, IsInjective
<1>5. ASSUME NEW r, r \in Range(queue), r # Head(queue) PROVE r \in Range(queue)'
  <2>1. PICK i \in 1..Len(queue) : r = queue[i]
    BY <1>1, <1>5, Zenon DEF Range
  <2>2. i # 1
    BY <1>1, <1>5, <2>1, Zenon
  <2>3. i - 1 \in 1..Len(queue') /\ r = queue'[i - 1]
    BY <1>1, <2>1, <2>2
  <2> QED
    BY Zenon, <1>1, <2>3 DEF Range
<1> QED
  BY <1>1, <1>2, <1>3, <1>4, <1>5, Zenon

\* w is s without its i-th element.
LEMMA Removed ==
  ASSUME NEW n \in Nat, NEW i \in 1..n, NEW s, NEW w, DOMAIN s = 1..n, DOMAIN w = 1..(n - 1),
         \A k \in 1..(n - 1) : w[k] = IF k < i THEN s[k] ELSE s[k + 1]
  PROVE  Range(w) \subseteq Range(s) /\ \A p \in Range(s) : p \in Range(w) \/ p = s[i]
<1>1. \A k \in 1..(n - 1) : k \in 1..n /\ k + 1 \in 1..n
  OBVIOUS
<1>2. \A k \in 1..(n - 1) : w[k] \in Range(s)
  BY <1>1, Zenon DEF Range
<1>3. ASSUME NEW k \in 1..n, k # i PROVE s[k] \in Range(w)
  <2>1. CASE k < i
    <3>1. k \in 1..(n - 1)
      BY <2>1
    <3> QED
      BY <2>1, <3>1, Zenon DEF Range
  <2>2. CASE ~(k < i)
    <3>1. k - 1 \in 1..(n - 1) /\ ~(k - 1 < i) /\ (k - 1) + 1 = k
      BY <1>3, <2>2
    <3>2. w[k - 1] = s[k]
      BY <3>1, Zenon
    <3> QED
      BY <3>1, <3>2, Zenon DEF Range
  <2> QED
    BY <2>1, <2>2, Zenon
<1> QED
  BY Zenon, <1>2, <1>3 DEF Range

LEMMA WithoutEntry ==
  ASSUME lru \in Seq(Reqs), NEW i \in DOMAIN lru
  PROVE  /\ Without(i) \in Seq(Reqs) /\ lru[i] \in Range(lru) /\ lru[i] \in Reqs
         /\ Range(Without(i)) \subseteq Range(lru)
         /\ \A p \in Range(lru) : p \in Range(Without(i)) \/ p = lru[i]
<1> DEFINE n == Len(lru)
           w == Without(i)
<1>1. /\ n \in Nat /\ i \in 1..n /\ DOMAIN lru = 1..n /\ lru[i] \in Reqs /\ lru[i] \in Range(lru)
  BY DEF Range
<1>2. w \in Seq(Reqs) /\ Len(w) = n - 1
  <2>1. /\ SubSeq(lru, 1, i - 1) \in Seq(Reqs) /\ Len(SubSeq(lru, 1, i - 1)) = i - 1
        /\ SubSeq(lru, i + 1, n) \in Seq(Reqs) /\ Len(SubSeq(lru, i + 1, n)) = n - i
    BY <1>1
  <2> QED
    BY <1>1, <2>1 DEF Without
<1>3. DOMAIN w = 1..(n - 1)
  BY <1>2
<1>4. ASSUME NEW k \in 1..(n - 1) PROVE w[k] = IF k < i THEN lru[k] ELSE lru[k + 1]
  <2> DEFINE a == SubSeq(lru, 1, i - 1)
             b == SubSeq(lru, i + 1, n)
  <2>5. a \in Seq(Reqs) /\ Len(a) = i - 1 /\ \A j \in 1..(i - 1) : a[j] = lru[j]
    BY <1>1
  <2>6. b \in Seq(Reqs) /\ Len(b) = n - i
    BY <1>1
  <2>7. \A j \in 1..(n - i) : b[j] = lru[i + j]
    BY <1>1
  <2>2. w = a \o b
    BY Zenon DEF Without
  <2> HIDE DEF a, b, w
  <2>3. CASE k < i
    BY <1>1, <2>5, <2>6, <2>7, <2>2, <2>3
  <2>4. CASE ~(k < i)
    <3>1. k - (i - 1) \in 1..(n - i) /\ i + (k - (i - 1)) = k + 1 /\ k > i - 1 /\ k <= (i - 1) + (n - i)
      BY <1>1, <2>4
    <3>2. (a \o b)[k] = b[k - (i - 1)]
      <4>1. a \in Seq(Reqs) /\ b \in Seq(Reqs) /\ k \in Nat /\ k > Len(a) /\ k <= Len(a) + Len(b)
        BY <1>1, <2>5, <2>6, <3>1
      <4>2. (a \o b)[k] = b[k - Len(a)]
        BY <4>1
      <4> QED
        BY <2>5, <4>2, Zenon
    <3> QED
      BY Zenon, <2>5, <2>6, <2>7, <2>2, <2>4, <3>1, <3>2
  <2> QED
    BY <2>3, <2>4, Zenon
<1> HIDE DEF n, w
<1>5. Range(w) \subseteq Range(lru) /\ \A p \in Range(lru) : p \in Range(w) \/ p = lru[i]
  BY <1>1, <1>3, <1>4, Removed, Zenon
<1> QED
  BY <1>1, <1>2, <1>5, Zenon DEF w

LEMMA InFront ==
  ASSUME NEW p \in Reqs, NEW s \in Seq(Reqs)
  PROVE  <<p>> \o s \in Seq(Reqs) /\ Range(<<p>> \o s) = {p} \cup Range(s)
<1>1. /\ <<p>> \o s \in Seq(Reqs) /\ Len(<<p>> \o s) = Len(s) + 1 /\ Len(s) \in Nat
      /\ (<<p>> \o s)[1] = p /\ \A k \in 1..Len(s) : (<<p>> \o s)[k + 1] = s[k]
  OBVIOUS
<1>2. DOMAIN (<<p>> \o s) = 1..(Len(s) + 1) /\ DOMAIN s = 1..Len(s)
  BY <1>1
<1>3. ASSUME NEW k \in 1..(Len(s) + 1) PROVE (<<p>> \o s)[k] \in {p} \cup Range(s)
  <2>1. CASE k # 1
    <3>1. k - 1 \in 1..Len(s) /\ (k - 1) + 1 = k
      BY <1>1, <2>1
    <3> QED
      BY <1>1, <1>2, <3>1 DEF Range
  <2> QED
    BY <1>1, <2>1, Zenon
<1>4. ASSUME NEW k \in 1..Len(s) PROVE s[k] \in Range(<<p>> \o s)
  <2>1. k + 1 \in DOMAIN (<<p>> \o s) /\ (<<p>> \o s)[k + 1] = s[k]
    BY <1>1, <1>2
  <2> QED
    BY Zenon, <2>1 DEF Range
<1>5. p \in Range(<<p>> \o s)
  <2>1. 1 \in DOMAIN (<<p>> \o s)
    BY <1>1, <1>2
  <2> QED
    BY <1>1, <2>1, Zenon DEF Range
<1>6. Range(<<p>> \o s) \subseteq {p} \cup Range(s)
  <2> SUFFICES ASSUME NEW k \in DOMAIN (<<p>> \o s) PROVE (<<p>> \o s)[k] \in {p} \cup Range(s)
    BY Zenon DEF Range
  <2> QED
    BY <1>2, <1>3, Zenon
<1>7. Range(s) \subseteq Range(<<p>> \o s)
  <2> SUFFICES ASSUME NEW k \in DOMAIN s PROVE s[k] \in Range(<<p>> \o s)
    BY Zenon DEF Range
  <2> QED
    BY <1>2, <1>4, Zenon
<1> QED
  BY <1>1, <1>5, <1>6, <1>7, Zenon

-----------------------------------------------------------------------------
(* Frames. *)

\* No request changes hands.
LEMMA SameRequests ==
  ASSUME EInv, UNCHANGED <<cfg, queue, batch, pending, jobs, answered>>, \A r \in Reqs : InCons(r)' = InCons(r)
  PROVE  FlushTypes' /\ Homes'
<1>1. FlushTypes'
  BY Zenon DEF EInv, FlushTypes
<1>2. \A r \in Reqs : InBatch(r)' = InBatch(r) /\ InFlush(r)' = InFlush(r) /\ InJob(r)' = InJob(r)
  BY Zenon DEF InBatch, InFlush, InJob
<1>3. \A r \in Reqs : Home(r)'
  BY <1>2, HomeSame, Zenon DEF EInv, Homes
<1> QED
  BY <1>1, <1>3, Zenon DEF Homes

\* A consumer takes a step in which it keeps or lacks its request.
LEMMA SameInCons ==
  ASSUME EInv, NEW c \in Consumers,
         \A k \in Consumers : k # c => cons'[k] = cons[k],
         \A r \in Reqs : c \in InCons(r)' <=> c \in InCons(r)
  PROVE  \A r \in Reqs : InCons(r)' = InCons(r)
<1>1. ASSUME NEW r \in Reqs, NEW k \in Consumers, k # c PROVE k \in InCons(r)' <=> k \in InCons(r)
  BY <1>1, Zenon DEF InCons
<1>2. \A r \in Reqs : InCons(r) \subseteq Consumers /\ InCons(r)' \subseteq Consumers
  BY Zenon DEF InCons
<1>3. \A r \in Reqs : \A k \in Consumers : k \in InCons(r)' <=> k \in InCons(r)
  BY <1>1, Zenon
<1> QED
  BY <1>2, <1>3, Zenon

\* The new place of one consumer.
LEMMA Placed ==
  ASSUME EInv, NEW c \in Consumers, NEW a \in Places, NEW r \in Reqs \cup {NoReq}, NEW p \in Reqs \cup {NoReq},
         cons' = [cons EXCEPT ![c] = At(a, r, p)]
  PROVE  /\ cons' \in ConsType /\ cons'[c].at = a /\ cons'[c].req = r /\ cons'[c].part = p
         /\ \A k \in Consumers : k # c => cons'[k] = cons[k]
  BY Zenon DEF EInv, Types, ConsType, At

LEMMA EInit == Init => EInv
<1> SUFFICES ASSUME Init PROVE EInv
  OBVIOUS
<1>1. /\ cfg \in Configs /\ cfg.queue \in Seq(Reqs) /\ IsInjective(cfg.queue) /\ cfg.consumers \subseteq Consumers
      /\ queue = cfg.queue /\ NoReq \notin Reqs
  BY ExporterConfigOK, Zenon DEF Init
<1>2. /\ cons \in ConsType
      /\ \A c \in Consumers : cons[c].at \in {"read", "exit"} /\ cons[c].req = NoReq /\ cons[c].part = NoReq
      /\ \A c \in cfg.consumers : cons[c].at = "read"
  BY <1>1, Zenon DEF Init, ConsType, Places, Reading, At
<1>3. Types /\ FlushTypes
  <2>1. Range(lru) = {}
    BY DEF Init, Range
  <2> QED
    BY <1>1, <1>2 DEF Init, Types, FlushTypes, NoLock
<1>4. Carries /\ Unbatched
  BY <1>1, <1>2, Zenon DEF Init, Carries, Unbatched
<1>5. Homes
  <2>1. \A r \in Reqs : Where(r, {}, {}, {}, {})
    BY <1>1, <1>2, Zenon DEF Init, Where, InCons, InBatch, InFlush, InJob
  <2>2. answered = {}
    BY Zenon DEF Init
  <2> QED
    BY <1>1, <2>1, <2>2, Zenon DEF Homes, Home, Homeless
<1>6. Unmade /\ Stopped /\ Tracked /\ Finishing
  <2>1. /\ lru = <<>> /\ Range(lru) = {} /\ mbLock.victim = NoReq /\ evicted = {} /\ pending = {} /\ jobs = {}
        /\ \A p \in Reqs : stop[p] = "no" /\ batch[p] = {}
    BY DEF Init, NoLock, Range
  <2> QED
    BY <1>1, <1>2, <2>1, Zenon DEF Unmade, Stopped, Tracked, Used, Finishing, Finished
<1>7. Closing
  BY Zenon, <1>2 DEF Init, Closing, Over
<1> QED
  BY <1>3, <1>4, <1>5, <1>6, <1>7, Zenon DEF EInv

-----------------------------------------------------------------------------
(* The consumers of the queue. *)

LEMMA ReadE ==
  ASSUME EInv, NEW c \in Consumers, Read(c) PROVE EInv'
<1>0. PICK r, j, a : r = Head(queue) /\ j = [part |-> NoReq, reqs |-> {r}, at |-> "push"]
                     /\ a = IF cfg.batching THEN "get" ELSE "send"
  BY Zenon
<1>1. /\ cons[c] = Reading /\ queue # <<>> /\ queue' = Tail(queue)
      /\ cons' = [cons EXCEPT ![c] = At(a, r, NoReq)]
      /\ jobs' = IF cfg.batching THEN jobs ELSE jobs \cup {j}
      /\ UNCHANGED <<cfg, lru, mbLock, batch, active, tick, armed, stop, evicting, evicted, pending, answered, down, crashed>>
  BY <1>0, Zenon DEF Read, partVars, restVars
<1>2. /\ queue' \in Seq(Reqs) /\ IsInjective(queue)' /\ r \in Range(queue) /\ r \in Reqs
      /\ \A s : s \in Range(queue)' <=> s \in Range(queue) /\ s # r
  <2>1. queue \in Seq(Reqs) /\ IsInjective(queue)
    BY Zenon DEF EInv, Types
  <2>2. r \in Reqs
    BY <1>0, <1>1, <2>1
  <2> QED
    BY <1>0, <1>1, <2>1, <2>2, TailQueue, Zenon
<1>3. j.part = NoReq /\ j.reqs = {r} /\ j = [part |-> j.part, reqs |-> j.reqs, at |-> j.at]
  BY <1>0, Zenon
<1>4. /\ cons' \in ConsType /\ cons'[c].at = IF cfg.batching THEN "get" ELSE "send"
      /\ cons'[c].req = r /\ cons'[c].part = NoReq
      /\ \A k \in Consumers : k # c => cons'[k] = cons[k]
  <2>1. a \in Places
    BY <1>0, Zenon DEF Places
  <2>2. /\ cons' \in ConsType /\ cons'[c].at = a /\ cons'[c].req = r /\ cons'[c].part = NoReq
        /\ \A k \in Consumers : k # c => cons'[k] = cons[k]
    BY Zenon, <1>1, <1>2, <2>1, Placed
  <2> QED
    BY <1>0, <2>2, Zenon
<1>5. cons[c].at = "read" /\ cons[c].req = NoReq /\ cons[c].part = NoReq
  BY <1>1 DEF Reading, At
<1>6. Types' /\ FlushTypes'
  BY <1>1, <1>2, <1>3, <1>4, Zenon DEF EInv, Types, FlushTypes
<1>7. Carries'
  BY <1>1, <1>2, <1>4, ExporterConfigOK DEF EInv, Carries
<1>8. Unbatched'
  <2> SUFFICES ASSUME ~cfg.batching PROVE Unbatched'
    BY <1>1, Zenon DEF Unbatched
  <2>1. \A k \in Consumers : cons'[k].at \in {"read", "exit", "send"}
    BY <1>4, Zenon DEF EInv, Unbatched
  <2>2. \A i \in jobs' : \E k \in Consumers : cons'[k].at = "send" /\ i.reqs = {cons'[k].req}
    BY <1>1, <1>3, <1>4, <1>5 DEF EInv, Unbatched
  <2> QED
    BY <1>1, <2>1, <2>2, Zenon DEF EInv, Unbatched
<1>9. Homes'
  <2>1. ASSUME NEW s \in Reqs, s # r PROVE Home(s)'
    <3>1. InCons(s)' = InCons(s)
      BY <1>4, <1>5, <2>1, Zenon DEF InCons
    <3>2. InJob(s)' = InJob(s) /\ InBatch(s)' = InBatch(s) /\ InFlush(s)' = InFlush(s)
      BY <1>1, <1>3, <2>1, Zenon DEF InJob, InBatch, InFlush
    <3> QED
      BY <1>1, <1>2, <2>1, <3>1, <3>2, HomeSame, Zenon DEF EInv, Homes
  <2>2. Home(r)'
    <3>1. Where(r, {}, {}, {}, {}) /\ r \notin answered
      BY <1>2, HomeOfQueued, Zenon DEF EInv
    <3>2. Homeless(r)'
      BY <1>1, <1>2, <3>1, Zenon DEF Homeless
    <3>3. InBatch(r)' = {} /\ InFlush(r)' = {}
      BY <1>1, <3>1, Zenon DEF Where, InBatch, InFlush
    <3>4. CASE cfg.batching
      <4>1. InCons(r)' = {c} /\ InJob(r)' = {}
        BY <1>1, <1>4, <3>1, <3>4, Zenon DEF Where, InCons, InJob
      <4> QED
        BY <3>2, <3>3, <4>1, Zenon DEF Home, Where
    <3>5. CASE ~cfg.batching
      <4>1. InCons(r)' = {} /\ InJob(r)' = {j}
        BY <1>1, <1>3, <1>4, <3>1, <3>5 DEF Where, InCons, InJob
      <4> QED
        BY <3>2, <3>3, <4>1, Zenon DEF Home, Where
    <3> QED
      BY <3>4, <3>5, Zenon
  <2> QED
    BY <2>1, <2>2, Zenon DEF Homes
<1>10. Unmade'
  <2>1. \A s \in Reqs : Unread(s)' => Unread(s)
    BY <1>2, <1>4, Zenon DEF Unread
  <2> QED
    BY <1>1, <2>1, Zenon DEF EInv, Unmade
<1>11. Stopped'
  BY <1>1, <1>4, <1>5 DEF EInv, Stopped
<1>12. Tracked'
  <2>1. \A p \in Reqs : Used(p)' => Used(p)
    BY <1>1, <1>3, <1>4, ExporterConfigOK DEF Used
  <2> QED
    BY <1>1, <2>1, Zenon DEF EInv, Tracked
<1>13. Closing'
  BY <1>1, <1>4, <1>5 DEF EInv, Closing, Over
<1>14. Finishing'
  BY <1>1, <1>3, ExporterConfigOK DEF EInv, Finishing, Finished, Over
<1> QED
  BY <1>6, <1>7, <1>8, <1>9, <1>10, <1>11, <1>12, <1>13, <1>14, Zenon DEF EInv

\* A step of the consumers and the batcher that moves no request and flushes nothing
\* leaves these.
LEMMA KeepFinishing ==
  ASSUME EInv, UNCHANGED <<batch, stop, evicted, pending, jobs, down>>,
         \A p \in Reqs : stop[p] = "done" /\ p \notin evicted => tick'[p] \in {tick[p], "none", "exit"}
  PROVE  Finishing'
  BY Zenon DEF EInv, Finishing, Finished, Over

LEMMA ReadEndsE ==
  ASSUME EInv, NEW c \in Consumers, ReadEnds(c) PROVE EInv'
<1>1. /\ cons[c] = Reading /\ down = "queue" /\ (queue = <<>> \/ cfg.persistent)
      /\ cons' = [cons EXCEPT ![c].at = "exit"]
      /\ UNCHANGED <<cfg, queue, lru, mbLock, batch, active, tick, armed, stop, evicting, evicted, pending, jobs, answered, down, crashed>>
  BY Zenon DEF ReadEnds, partVars, poolVars, restVars
<1>2. /\ cons' \in ConsType /\ cons'[c].at = "exit" /\ cons'[c].req = NoReq /\ cons'[c].part = NoReq
      /\ \A k \in Consumers : k # c => cons'[k] = cons[k]
  BY <1>1 DEF EInv, Types, ConsType, Reading, At, Places
<1>3. cons[c].at = "read" /\ cons[c].req = NoReq /\ cons[c].part = NoReq
  BY <1>1 DEF Reading, At
<1>4. Types'
  BY <1>1, <1>2, Zenon DEF EInv, Types
<1>5. FlushTypes' /\ Homes'
  <2>1. \A r \in Reqs : InCons(r)' = InCons(r)
    BY <1>2, <1>3, Zenon DEF InCons
  <2> QED
    BY <1>1, <2>1, SameRequests, Zenon
<1>6. Carries'
  BY <1>1, <1>2, ExporterConfigOK DEF EInv, Carries
<1>7. Unbatched'
  BY <1>1, <1>2, <1>3 DEF EInv, Unbatched
<1>8. Unmade'
  BY <1>1, <1>2 DEF EInv, Unmade, Unread
<1>9. Stopped'
  BY <1>1, <1>2, <1>3 DEF EInv, Stopped
<1>10. Tracked'
  BY <1>1, <1>2, ExporterConfigOK DEF EInv, Tracked, Used
<1>11. Closing'
  BY <1>1, <1>2, <1>3, Zenon DEF EInv, Closing, Over
<1>12. Finishing'
  BY <1>1, KeepFinishing, Zenon
<1> QED
  BY <1>4, <1>5, <1>6, <1>7, <1>8, <1>9, <1>10, <1>11, <1>12, Zenon DEF EInv

\* A consumer goes back for the next request.
LEMMA BackE ==
  ASSUME EInv, NEW c \in Consumers, cons[c].at \in {"send", "flush"}, cons[c].at = "send" => cons[c].req \in answered,
         cons' = [cons EXCEPT ![c] = Reading],
         UNCHANGED <<cfg, queue, lru, mbLock, batch, active, tick, armed, stop, evicting, evicted, pending, jobs, answered, down, crashed>>
  PROVE  EInv'
<1>2. /\ cons' \in ConsType /\ cons'[c].at = "read" /\ cons'[c].req = NoReq /\ cons'[c].part = NoReq
      /\ \A k \in Consumers : k # c => cons'[k] = cons[k]
  BY Zenon, Placed DEF Reading, Places
<1>4. Types'
  BY <1>2, Zenon DEF EInv, Types
<1>5. FlushTypes' /\ Homes'
  <2>1. \A r \in Reqs : InCons(r)' = InCons(r)
    BY <1>2, Zenon DEF InCons
  <2> QED
    BY <2>1, SameRequests, Zenon
<1>6. Carries'
  BY <1>2, ExporterConfigOK DEF EInv, Carries
<1>7. Unbatched'
  <2> SUFFICES ASSUME ~cfg.batching PROVE Unbatched'
    BY Zenon DEF Unbatched
  <2>1. cons[c].at = "send" /\ cons[c].req \in answered /\ cons[c].req \in Reqs
    BY Zenon DEF EInv, Unbatched, Carries
  <2>2. \A j \in jobs : cons[c].req \notin j.reqs
    BY <2>1, HomeOfQueued, Zenon DEF EInv, InJob, Where
  <2>3. \A j \in jobs : \E k \in Consumers : cons'[k].at = "send" /\ j.reqs = {cons'[k].req}
    BY <1>2, <2>2 DEF EInv, Unbatched
  <2>4. \A k \in Consumers : cons'[k].at \in {"read", "exit", "send"}
    BY <1>2, Zenon DEF EInv, Unbatched
  <2> QED
    BY <2>3, <2>4, Zenon DEF EInv, Unbatched
<1>8. Unmade'
  BY <1>2 DEF EInv, Unmade, Unread
<1>9. Stopped'
  BY <1>2 DEF EInv, Stopped
<1>10. Tracked'
  BY <1>2, ExporterConfigOK DEF EInv, Tracked, Used
<1>11. Closing'
  BY <1>2 DEF EInv, Closing, Over
<1>12. Finishing'
  BY KeepFinishing, Zenon
<1> QED
  BY <1>4, <1>5, <1>6, <1>7, <1>8, <1>9, <1>10, <1>11, <1>12, Zenon DEF EInv

LEMMA DisabledReturnsE ==
  ASSUME EInv, NEW c \in Consumers, DisabledReturns(c) PROVE EInv'
  BY Zenon, BackE DEF DisabledReturns, partVars, poolVars, restVars
LEMMA ConsumeReturnsE ==
  ASSUME EInv, NEW c \in Consumers, ConsumeReturns(c) PROVE EInv'
  BY Zenon, BackE DEF ConsumeReturns, partVars, poolVars, restVars

-----------------------------------------------------------------------------
(* The cache of partitions. *)

\* Until the batcher is shut down, only partitions that left the cache are stopped.
LEMMA OpenFinishing ==
  ASSUME EInv, ~Over, stop' = stop, evicted \subseteq evicted'
  PROVE  Finishing'
  BY Zenon DEF EInv, Finishing, Finished

LEMMA getPartitionHitE ==
  ASSUME EInv, NEW c \in Consumers, getPartitionHit(c) PROVE EInv'
<1>1. PICK i \in DOMAIN lru :
        /\ cons[c].at = "get" /\ mbLock = NoLock /\ lru' = <<lru[i]>> \o Without(i)
        /\ cons' = [cons EXCEPT ![c] = At("consume", @.req, lru[i])]
        /\ UNCHANGED <<cfg, queue, mbLock, batch, active, tick, armed, stop, evicting, evicted, pending, jobs, answered, down, crashed>>
  BY Zenon DEF getPartitionHit, Cached, partVars, poolVars, restVars
<1>2. lru[i] \in Range(lru) /\ lru[i] \in Reqs /\ lru' \in Seq(Reqs) /\ Range(lru)' = Range(lru)
  <2>1. /\ Without(i) \in Seq(Reqs) /\ lru[i] \in Range(lru) /\ lru[i] \in Reqs
        /\ Range(Without(i)) \subseteq Range(lru) /\ \A p \in Range(lru) : p \in Range(Without(i)) \/ p = lru[i]
    BY WithoutEntry, Zenon DEF EInv, Types
  <2>2. lru' \in Seq(Reqs) /\ Range(lru') = {lru[i]} \cup Range(Without(i))
    BY <1>1, <2>1, InFront, Zenon
  <2> QED
    BY <2>1, <2>2, Zenon
<1>3. PICK r, q : r = cons[c].req /\ r \in Reqs /\ q = lru[i]
  BY <1>1, Zenon DEF EInv, Carries
<1>4. /\ cons' \in ConsType /\ cons'[c].at = "consume" /\ cons'[c].req = r /\ cons'[c].part = q
      /\ \A k \in Consumers : k # c => cons'[k] = cons[k]
  <2>1. cons' = [cons EXCEPT ![c] = At("consume", r, q)] /\ r \in Reqs /\ q \in Reqs /\ "consume" \in Places
    BY <1>1, <1>2, <1>3, Zenon DEF EInv, Types, ConsType, Places
  <2> QED
    BY Zenon, <2>1, Placed
<1>5. Types'
  BY <1>1, <1>2, <1>4, Zenon DEF EInv, Types
<1>6. FlushTypes' /\ Homes'
  <2>1. \A s \in Reqs : c \in InCons(s)' <=> c \in InCons(s)
    BY <1>1, <1>3, <1>4, Zenon DEF InCons
  <2>2. \A s \in Reqs : InCons(s)' = InCons(s)
    BY <1>4, <2>1, SameInCons, Zenon
  <2> QED
    BY <1>1, <2>2, SameRequests, Zenon
<1>7. Carries'
  BY <1>1, <1>2, <1>3, <1>4, ExporterConfigOK DEF EInv, Carries
<1>8. Unbatched'
  BY <1>1, Zenon DEF EInv, Unbatched
<1>9. Unmade'
  <2>1. \A s \in Reqs : Unread(s)' => Unread(s)
    BY <1>1, <1>4, Zenon DEF Unread
  <2> QED
    BY <1>1, <1>2, <2>1, Zenon DEF EInv, Unmade
<1>10. Stopped'
  BY <1>1, <1>4 DEF EInv, Stopped
<1>11. Tracked'
  <2>1. \A p \in Reqs : Used(p)' => Used(p) \/ p \in Range(lru)
    BY <1>1, <1>2, <1>3, <1>4, Zenon DEF Used
  <2> QED
    BY <1>1, <1>2, <2>1, Zenon DEF EInv, Tracked
<1>12. ~Over
  BY <1>1, Zenon DEF EInv, Closing
<1>13. Closing'
  BY <1>1, <1>4, <1>12 DEF EInv, Closing, Over
<1>14. Finishing'
  BY <1>1, <1>12, OpenFinishing, Zenon
<1> QED
  BY <1>5, <1>6, <1>7, <1>8, <1>9, <1>10, <1>11, <1>13, <1>14, Zenon DEF EInv

LEMMA getPartitionMissE ==
  ASSUME EInv, NEW c \in Consumers, getPartitionMiss(c) PROVE EInv'
<1>0. PICK r, a, w, v :
        /\ r = cons[c].req
        /\ a = IF Len(lru) = MaxPartitions THEN "evict" ELSE "consume"
        /\ w = IF Len(lru) = MaxPartitions THEN Without(Len(lru)) ELSE lru
        /\ v = IF Len(lru) = MaxPartitions THEN lru[Len(lru)] ELSE NoReq
  BY Zenon
<1>1. /\ cons[c].at = "get" /\ mbLock = NoLock /\ lru' = <<r>> \o w
      /\ active' = [active EXCEPT ![r] = TRUE]
      /\ mbLock'.victim = v
      /\ tick' = tick \/ tick' = [tick EXCEPT ![r] = "select"]
      /\ cons' = [cons EXCEPT ![c] = At(a, @.req, r)]
      /\ UNCHANGED <<cfg, queue, batch, stop, evicting, evicted, pending, jobs, answered, down, crashed>>
  BY <1>0 DEF getPartitionMiss, started, poolVars, restVars, NoLock
<1>2. r \in Reqs /\ mbLock.victim = NoReq
  BY <1>0, <1>1, Zenon DEF EInv, Carries, NoLock
<1>3. /\ w \in Seq(Reqs) /\ Range(w) \subseteq Range(lru) /\ \A p \in Range(lru) : p \in Range(w) \/ p = v
      /\ v = NoReq \/ (v \in Range(lru) /\ v \in Reqs)
  <2>1. CASE Len(lru) = MaxPartitions
    <3>1. lru \in Seq(Reqs) /\ Len(lru) \in DOMAIN lru
      BY <2>1, ExporterConfigOK DEF EInv, Types
    <3> QED
      BY <1>0, <2>1, <3>1, WithoutEntry, Zenon
  <2>2. CASE Len(lru) # MaxPartitions
    BY <1>0, <2>2, Zenon DEF EInv, Types
  <2> QED
    BY <2>1, <2>2, Zenon
<1>4. lru' \in Seq(Reqs) /\ Range(lru)' = {r} \cup Range(w)
  BY <1>1, <1>2, <1>3, InFront, Zenon
<1>5. /\ cons' \in ConsType /\ cons'[c].at = a /\ cons'[c].req = r /\ cons'[c].part = r
      /\ \A k \in Consumers : k # c => cons'[k] = cons[k]
  <2>1. cons' = [cons EXCEPT ![c] = At(a, r, r)] /\ a \in Places
    BY <1>0, <1>1, Zenon DEF EInv, Types, ConsType, Places
  <2> QED
    BY Zenon, <1>2, <2>1, Placed
<1>6. a \in {"evict", "consume"}
  BY <1>0, Zenon
<1>7. stop[r] = "no"
  BY <1>0, <1>1, <1>2, Zenon DEF EInv, Unmade, Unread
<1>8. Types'
  BY <1>1, <1>2, <1>3, <1>4, <1>5, Zenon DEF EInv, Types
<1>9. FlushTypes' /\ Homes'
  <2>1. \A s \in Reqs : c \in InCons(s)' <=> c \in InCons(s)
    BY <1>0, <1>1, <1>5, <1>6, Zenon DEF InCons
  <2>2. \A s \in Reqs : InCons(s)' = InCons(s)
    BY <1>5, <2>1, SameInCons, Zenon
  <2> QED
    BY <1>1, <2>2, SameRequests, Zenon
<1>10. Carries'
  BY <1>1, <1>2, <1>5, <1>6, ExporterConfigOK DEF EInv, Carries
<1>11. Unbatched'
  BY <1>1, Zenon DEF EInv, Unbatched
<1>12. Unmade'
  <2>1. c \in InCons(r)
    BY Zenon, <1>0, <1>1 DEF InCons
  <2>2. r \notin Range(queue) /\ InCons(r) = {c}
    BY <1>2, <2>1, HomeOfCons, Zenon DEF EInv, Homeless, Where
  <2>3. \A s \in Reqs : Unread(s)' => Unread(s) /\ s # r
    BY Zenon, <1>1, <1>5, <1>6, <2>2 DEF Unread, InCons
  <2>4. \A s \in Reqs : Unread(s) => stop[s] = "no" /\ s \notin Range(lru) \cup evicted
    BY Zenon DEF EInv, Unmade
  <2>5. \A s \in Reqs : Unread(s)' => s \notin Range(lru)' \cup {v}
    BY <1>3, <1>4, <2>3, <2>4, ExporterConfigOK, Zenon
  <2> QED
    BY Zenon, <1>1, <2>3, <2>4, <2>5 DEF Unmade
<1>13. Stopped'
  BY <1>1, <1>5, <1>6, <1>7 DEF EInv, Types, Stopped
<1>14. Tracked'
  <2>1. \A p \in Reqs : Used(p)' => Used(p) \/ p = r
    BY <1>1, <1>5, Zenon DEF Used
  <2>2. \A p \in Reqs : Used(p) => p \in Range(lru) \cup evicted
    BY <1>2, ExporterConfigOK, Zenon DEF EInv, Tracked
  <2> QED
    BY <1>1, <1>3, <1>4, <2>1, <2>2, Zenon DEF Tracked
<1>15. ~Over
  BY <1>1, Zenon DEF EInv, Closing
<1>16. Closing'
  BY <1>1, <1>5, <1>6, <1>15 DEF EInv, Closing, Over
<1>17. Finishing'
  BY <1>1, <1>15, OpenFinishing, Zenon
<1> QED
  BY <1>8, <1>9, <1>10, <1>11, <1>12, <1>13, <1>14, <1>16, <1>17, Zenon DEF EInv

\* A worker takes a partition that left the cache.
LEMMA evictE ==
  ASSUME EInv, NEW t, evict(t), cons' \in ConsType, DOMAIN tick' = Reqs,
         \A c \in Consumers : /\ cons'[c].req = cons[c].req /\ cons'[c].part = cons[c].part
                              /\ cons'[c].at = cons[c].at \/ (cons[c].at = "evict" /\ cons'[c].at = "consume")
  PROVE  EInv'
<1>1. PICK v : v = mbLock.victim
  OBVIOUS
<1>2. /\ v \in Reqs /\ evicting' = evicting \cup {v} /\ evicted' = evicted \cup {v} /\ mbLock' = NoLock
      /\ UNCHANGED <<cfg, queue, lru, batch, active, stop, pending, jobs, answered, down, crashed>>
  BY <1>1, Zenon DEF evict, restVars, EInv, Types
<1>3. mbLock'.victim = NoReq
  BY <1>2, Zenon DEF NoLock
<1>4. ~Over
  BY <1>1, <1>2, ExporterConfigOK, Zenon DEF EInv, Closing
<1>5. Types'
  BY <1>2, <1>3, Zenon DEF EInv, Types
<1>6. FlushTypes' /\ Homes'
  <2>1. \A r \in Reqs : InCons(r)' = InCons(r)
    BY Zenon DEF InCons
  <2> QED
    BY Zenon, <1>2, <2>1, SameRequests
<1>7. Carries'
  BY <1>2, Zenon DEF EInv, Carries
<1>8. Unbatched'
  <2>1. cfg.batching
    BY <1>1, <1>2, ExporterConfigOK DEF EInv, Unbatched, NoLock
  <2> QED
    BY <1>2, <2>1, Zenon DEF Unbatched
<1>9. Unmade'
  <2>1. \A r \in Reqs : Unread(r)' => Unread(r)
    BY <1>2 DEF Unread
  <2> QED
    BY <1>1, <1>2, <1>3, <2>1, ExporterConfigOK, Zenon DEF EInv, Unmade
<1>10. Stopped'
  BY <1>2 DEF EInv, Stopped
<1>11. Tracked'
  <2>1. \A p \in Reqs : Used(p)' => Used(p)
    BY <1>2 DEF Used
  <2> QED
    BY <1>1, <1>2, <2>1, Zenon DEF EInv, Tracked
<1>12. Closing'
  <2>1. ~Over' /\ down' \notin {"batcher", "purge", "done"}
    BY <1>2, <1>4, Zenon DEF Over
  <2>2. \A c \in cfg'.consumers : cons'[c].at = "exit" => cons[c].at = "exit" /\ c \in cfg.consumers
    BY <1>2, ExporterConfigOK, Zenon DEF EInv, Types
  <2>3. \A c \in cfg'.consumers : cons'[c].at = "exit" => queue' = <<>> \/ cfg'.persistent
    BY <1>2, <2>2, Zenon DEF EInv, Closing
  <2> QED
    BY <2>1, <2>3, Zenon DEF Closing
<1>13. Finishing'
  BY Zenon, <1>2, <1>4, OpenFinishing
<1> QED
  BY <1>5, <1>6, <1>7, <1>8, <1>9, <1>10, <1>11, <1>12, <1>13, Zenon DEF EInv

LEMMA EvictReturnsE ==
  ASSUME EInv, NEW c \in Consumers, EvictReturns(c) PROVE EInv'
<1>1. /\ cons' \in ConsType /\ DOMAIN tick' = Reqs
      /\ \A k \in Consumers : /\ cons'[k].req = cons[k].req /\ cons'[k].part = cons[k].part
                              /\ cons'[k].at = cons[k].at \/ (cons[k].at = "evict" /\ cons'[k].at = "consume")
  BY Zenon DEF EvictReturns, started, EInv, Types, ConsType, Places
<1> QED
  BY Zenon, <1>1, evictE DEF EvictReturns

-----------------------------------------------------------------------------
(* The batch of a partition. *)

\* flushCurrentBatch moves the requests of the partition to a flush.
LEMMA flushMoves ==
  ASSUME EInv, NEW t, NEW p \in Reqs, flushCurrentBatch(t, p), cfg.batching,
         UNCHANGED <<cfg, queue, jobs, answered>>, \A r \in Reqs : InCons(r)' = InCons(r)
  PROVE  /\ FlushTypes' /\ Homes' /\ Unbatched'
         /\ batch' \in [Reqs -> SUBSET Reqs] /\ batch'[p] = {} /\ \A q \in Reqs : q # p => batch'[q] = batch[q]
         /\ \A q \in Reqs : (\E f \in (pending \cup jobs)' : f.part = q) =>
                               (\E f \in pending \cup jobs : f.part = q) \/ (q = p /\ batch[p] # {})
<1>1. PICK f : f = Flush(t, p, batch[p])
  OBVIOUS
<1>2. f.part = p /\ f.reqs = batch[p]
  BY <1>1, Zenon DEF Flush
<1>3. pending' = IF batch[p] = {} THEN pending ELSE pending \cup {f}
  BY <1>1, Zenon DEF flushCurrentBatch
<1>4. batch' \in [Reqs -> SUBSET Reqs] /\ batch'[p] = {} /\ \A q \in Reqs : q # p => batch'[q] = batch[q]
  BY Zenon DEF flushCurrentBatch, EInv, Types
<1>5. FlushTypes'
  <2>1. batch[p] \subseteq Reqs
    BY Zenon DEF EInv, Types
  <2>2. \A g \in pending' : g.part \in Reqs /\ g.reqs \subseteq Reqs
    BY <1>2, <1>3, <2>1, Zenon DEF EInv, FlushTypes
  <2> QED
    BY <2>2, Zenon DEF EInv, FlushTypes
<1>6. ASSUME NEW r \in Reqs PROVE Home(r)'
  <2>1. InJob(r)' = InJob(r)
    BY Zenon DEF InJob
  <2>2. CASE r \notin batch[p]
    <3>1. InBatch(r)' = InBatch(r)
      BY <1>4, <2>2, Zenon DEF InBatch
    <3>2. InFlush(r)' = InFlush(r)
      BY <1>2, <1>3, <2>2, Zenon DEF InFlush
    <3> QED
      BY <2>1, <3>1, <3>2, HomeSame, Zenon DEF EInv, Homes
  <2>3. CASE r \in batch[p]
    <3>1. Homeless(r) /\ Where(r, {}, {p}, {}, {})
      BY <2>3, HomeOfBatch, Zenon DEF EInv, InBatch
    <3>2. InBatch(r)' = {}
      BY <1>4, <3>1, Zenon DEF Where, InBatch
    <3>3. InFlush(r)' = {f}
      BY <1>2, <1>3, <2>3, <3>1, Zenon DEF Where, InFlush
    <3>4. Where(r, {}, {}, {f}, {})'
      BY <2>1, <3>1, <3>2, <3>3, Zenon DEF Where
    <3>5. Homeless(r)'
      BY <3>1, Zenon DEF Homeless
    <3> QED
      BY <3>3, <3>4, <3>5, Zenon DEF Home
  <2> QED
    BY <2>2, <2>3, Zenon
<1>7. \A q \in Reqs : (\E g \in (pending \cup jobs)' : g.part = q) =>
                         (\E g \in pending \cup jobs : g.part = q) \/ (q = p /\ batch[p] # {})
  BY <1>2, <1>3, Zenon
<1> QED
  BY <1>4, <1>5, <1>6, <1>7, Zenon DEF Homes, Unbatched

LEMMA ConsumeLateE ==
  ASSUME EInv, NEW c \in Consumers, ConsumeLate(c) PROVE EInv'
<1>1. PICK p : p = cons[c].part
  OBVIOUS
<1>2. /\ cons[c].at = "late" /\ flushCurrentBatch(c, p) /\ cons' = [cons EXCEPT ![c].at = "flush"]
      /\ UNCHANGED <<cfg, queue, lru, mbLock, active, tick, stop, evicting, evicted, jobs, answered, down, crashed>>
  BY <1>1, Zenon DEF ConsumeLate, restVars
<1>3. p \in Reqs /\ cfg.batching
  BY <1>1, <1>2, Zenon DEF EInv, Types, ConsType, Carries, Unbatched
<1>4. /\ cons' \in ConsType /\ cons'[c].at = "flush" /\ cons'[c].req = cons[c].req /\ cons'[c].part = p
      /\ \A k \in Consumers : k # c => cons'[k] = cons[k]
  BY Zenon, <1>1, <1>2 DEF EInv, Types, ConsType, Places
<1>5. \A r \in Reqs : InCons(r)' = InCons(r)
  BY <1>2, <1>4, Zenon DEF InCons
<1>6. /\ FlushTypes' /\ Homes' /\ Unbatched'
      /\ batch' \in [Reqs -> SUBSET Reqs] /\ batch'[p] = {} /\ \A q \in Reqs : q # p => batch'[q] = batch[q]
      /\ \A q \in Reqs : (\E f \in (pending \cup jobs)' : f.part = q) =>
                            (\E f \in pending \cup jobs : f.part = q) \/ (q = p /\ batch[p] # {})
  BY <1>2, <1>3, <1>5, flushMoves, Zenon
<1>7. Types'
  BY <1>2, <1>4, <1>6, Zenon DEF EInv, Types
<1>8. Carries'
  BY <1>1, <1>2, <1>4 DEF EInv, Carries
<1>9. Unmade'
  <2>1. \A s \in Reqs : Unread(s)' => Unread(s)
    BY <1>2, <1>4, Zenon DEF Unread
  <2> QED
    BY <1>2, <2>1, Zenon DEF EInv, Unmade
<1>10. Stopped'
  BY <1>1, <1>2, <1>4, <1>6 DEF EInv, Stopped
<1>11. Tracked'
  <2>1. \A q \in Reqs : Used(q)' => Used(q)
    BY <1>1, <1>4, <1>6 DEF Used
  <2> QED
    BY <1>2, <2>1, Zenon DEF EInv, Tracked
<1>12. ~Over
  BY <1>2, Zenon DEF EInv, Closing
<1>13. Closing'
  BY <1>2, <1>4, <1>12 DEF EInv, Closing, Over
<1>14. Finishing'
  BY <1>2, <1>12, OpenFinishing, Zenon
<1> QED
  BY <1>6, <1>7, <1>8, <1>9, <1>10, <1>11, <1>13, <1>14, Zenon DEF EInv

LEMMA ConsumeE ==
  ASSUME EInv, NEW c \in Consumers, Consume(c) PROVE EInv'
<1>0. PICK p, r, b, f, a :
        /\ p = cons[c].part /\ r = cons[c].req /\ b = batch[p] \cup {r} /\ f = Flush(c, p, b)
        /\ a = IF active[p] THEN "flush" ELSE "late"
  BY Zenon
<1>1. /\ cons[c].at = "consume"
      /\ batch' = [batch EXCEPT ![p] = IF Cardinality(b) >= MinSize THEN {} ELSE b]
      /\ pending' = IF Cardinality(b) >= MinSize THEN pending \cup {f} ELSE pending
      /\ cons' = [cons EXCEPT ![c].at = a]
      /\ UNCHANGED <<cfg, queue, lru, mbLock, active, tick, stop, evicting, evicted, jobs, answered, down, crashed>>
  BY <1>0, Zenon DEF Consume, restVars
<1>2. p \in Reqs /\ r \in Reqs /\ cfg.batching /\ b \subseteq Reqs
  BY <1>0, <1>1 DEF EInv, Types, ConsType, Carries, Unbatched
<1>3. f.part = p /\ f.reqs = b
  BY <1>0, Zenon DEF Flush
<1>4. a \in {"flush", "late"} /\ (a = "flush" => active[p])
  BY <1>0, Zenon
<1>5. /\ cons' \in ConsType /\ cons'[c].at = a /\ cons'[c].req = r /\ cons'[c].part = p
      /\ \A k \in Consumers : k # c => cons'[k] = cons[k]
  BY <1>0, <1>1, <1>4, Zenon DEF EInv, Types, ConsType, Places
<1>6. /\ batch' \in [Reqs -> SUBSET Reqs] /\ batch'[p] = IF Cardinality(b) >= MinSize THEN {} ELSE b
      /\ \A q \in Reqs : q # p => batch'[q] = batch[q]
  BY <1>1, <1>2, Zenon DEF EInv, Types
<1>7. c \in InCons(r)
  BY <1>0, <1>1, Zenon DEF InCons
<1>8. ASSUME NEW s \in Reqs PROVE Home(s)'
  <2>1. InJob(s)' = InJob(s)
    BY <1>1, Zenon DEF InJob
  <2>2. CASE s \notin b
    <3>1. InBatch(s)' = InBatch(s)
      BY <1>0, <1>6, <2>2, Zenon DEF InBatch
    <3>2. InFlush(s)' = InFlush(s)
      BY <1>1, <1>3, <2>2, Zenon DEF InFlush
    <3>3. InCons(s)' = InCons(s)
      BY <1>0, <1>4, <1>5, <2>2, Zenon DEF InCons
    <3> QED
      BY <1>1, <2>1, <3>1, <3>2, <3>3, HomeSame, Zenon DEF EInv, Homes
  <2>3. CASE s \in b
    <3>1. /\ Homeless(s) /\ InCons(s) \subseteq {c} /\ InBatch(s) \subseteq {p}
          /\ InFlush(s) = {} /\ InJob(s) = {}
      <4>1. CASE s = r
        BY <1>2, <1>7, <4>1, HomeOfCons, Zenon DEF EInv, Where
      <4>2. CASE s # r
        <5>1. p \in InBatch(s)
          BY <1>0, <1>2, <2>3, <4>2, Zenon DEF InBatch
        <5> QED
          BY <5>1, HomeOfBatch, Zenon DEF EInv, Where
      <4> QED
        BY <4>1, <4>2, Zenon
    <3>2. Homeless(s)'
      BY <1>1, <3>1, Zenon DEF Homeless
    <3>3. InCons(s)' = {}
      BY <1>4, <1>5, <3>1 DEF InCons
    <3>4. CASE Cardinality(b) >= MinSize
      <4>1. InBatch(s)' = {}
        BY <1>6, <3>1, <3>4 DEF InBatch
      <4>2. InFlush(s)' = {f}
        BY <1>1, <1>3, <2>3, <3>1, <3>4, Zenon DEF InFlush
      <4> QED
        BY <2>1, <3>1, <3>2, <3>3, <4>1, <4>2, Zenon DEF Home, Where
    <3>5. CASE ~(Cardinality(b) >= MinSize)
      <4>1. InBatch(s)' = {p}
        BY <1>2, <1>6, <2>3, <3>1, <3>5, Zenon DEF InBatch
      <4>2. InFlush(s)' = {}
        BY <1>1, <3>1, <3>5, Zenon DEF InFlush
      <4> QED
        BY <2>1, <3>1, <3>2, <3>3, <4>1, <4>2, Zenon DEF Home, Where
    <3> QED
      BY <3>4, <3>5, Zenon
  <2> QED
    BY <2>2, <2>3, Zenon
<1>9. Types' /\ FlushTypes'
  BY <1>1, <1>2, <1>3, <1>5, <1>6, Zenon DEF EInv, Types, FlushTypes
<1>10. Carries' /\ Unbatched'
  BY <1>0, <1>1, <1>2, <1>4, <1>5 DEF EInv, Carries, Unbatched
<1>11. Unmade'
  <2>1. \A s \in Reqs : Unread(s)' => Unread(s)
    BY <1>1, <1>4, <1>5, Zenon DEF Unread
  <2> QED
    BY <1>1, <2>1, Zenon DEF EInv, Unmade
<1>12. Stopped'
  <2> SUFFICES ASSUME NEW q \in Reqs
               PROVE  /\ stop[q] # "no" => ~active[q]
                      /\ stop[q] \in {"waiting", "done"} /\ batch'[q] # {} =>
                           \E k \in Consumers : cons'[k].part = q /\ cons'[k].at = "late"
    BY <1>1, Zenon DEF Stopped
  <2>1. CASE q = p
    BY <1>4, <1>5, <2>1, Zenon DEF EInv, Stopped
  <2>2. CASE q # p
    BY <1>0, <1>1, <1>5, <1>6, <2>2 DEF EInv, Stopped
  <2> QED
    BY <2>1, <2>2, Zenon
<1>13. Tracked'
  <2>1. \A q \in Reqs : Used(q)' => Used(q)
    <3>1. Used(p)
      BY <1>0, Zenon DEF Used
    <3>2. ASSUME NEW q \in Reqs, q # p, Used(q)' PROVE Used(q)
      <4>1. CASE batch'[q] # {}
        BY <1>6, <3>2, <4>1, Zenon DEF Used
      <4>2. CASE \E g \in pending' \cup jobs' : g.part = q
        BY <1>1, <1>3, <3>2, <4>2, Zenon DEF Used
      <4>3. CASE \E k \in Consumers : cons'[k].part = q
        BY <1>5, <3>2, <4>3, Zenon DEF Used
      <4> QED
        BY <3>2, <4>1, <4>2, <4>3, Zenon DEF Used
    <3> QED
      BY <3>1, <3>2, Zenon
  <2> QED
    BY <1>1, <2>1, Zenon DEF EInv, Tracked
<1>14. ~Over
  BY <1>1, Zenon DEF EInv, Closing
<1>15. Closing'
  BY <1>1, <1>4, <1>5, <1>14 DEF EInv, Closing, Over
<1>16. Finishing'
  BY <1>1, <1>14, OpenFinishing, Zenon
<1> QED
  BY <1>8, <1>9, <1>10, <1>11, <1>12, <1>13, <1>15, <1>16, Zenon DEF EInv, Homes

-----------------------------------------------------------------------------
(* The timer goroutine of a partition. *)

LEMMA TimerFiresE ==
  ASSUME EInv, NEW p \in Reqs, TimerFires(p) PROVE EInv'
<1>1. /\ tick[p] = "select" /\ flushCurrentBatch(Timer(p), p)
      /\ UNCHANGED <<cfg, queue, cons, lru, mbLock, active, tick, stop, evicting, evicted, jobs, answered, down, crashed>>
  BY Zenon DEF TimerFires, restVars
<1>2. cfg.batching
  BY <1>1, Zenon DEF EInv, Unbatched
<1>3. \A r \in Reqs : InCons(r)' = InCons(r)
  BY <1>1, Zenon DEF InCons
<1>4. /\ FlushTypes' /\ Homes' /\ Unbatched'
      /\ batch' \in [Reqs -> SUBSET Reqs] /\ batch'[p] = {} /\ \A q \in Reqs : q # p => batch'[q] = batch[q]
      /\ \A q \in Reqs : (\E f \in (pending \cup jobs)' : f.part = q) =>
                            (\E f \in pending \cup jobs : f.part = q) \/ (q = p /\ batch[p] # {})
  BY <1>1, <1>2, <1>3, flushMoves, Zenon
<1>5. Types'
  BY <1>1, <1>4, Zenon DEF EInv, Types
<1>6. Carries' /\ Unmade' /\ Closing'
  BY <1>1, Zenon DEF EInv, Carries, Unmade, Unread, Closing, Over
<1>7. Stopped'
  BY Zenon, <1>1, <1>4 DEF EInv, Stopped
<1>8. Tracked'
  <2>1. \A q \in Reqs : Used(q)' => Used(q)
    BY <1>1, <1>4, Zenon DEF Used
  <2> QED
    BY <1>1, <2>1, Zenon DEF EInv, Tracked
<1>9. Finishing'
  BY <1>1, <1>4 DEF EInv, Finishing, Finished, Over
<1> QED
  BY <1>4, <1>5, <1>6, <1>7, <1>8, <1>9, Zenon DEF EInv

\* Only the goroutine moves.
LEMMA tickE ==
  ASSUME EInv, NEW p \in Reqs, tick[p] \notin {"none", "exit"}, DOMAIN tick' = Reqs,
         \A q \in Reqs : q # p => tick'[q] = tick[q],
         UNCHANGED <<cfg, queue, cons, lru, mbLock, batch, active, stop, evicting, evicted, pending, jobs, answered, down>>
  PROVE  EInv'
<1>1. cfg.batching
  BY Zenon DEF EInv, Unbatched
<1>2. \A r \in Reqs : InCons(r)' = InCons(r)
  BY Zenon DEF InCons
<1>3. FlushTypes' /\ Homes'
  BY <1>2, SameRequests, Zenon
<1>4. Types'
  BY Zenon DEF EInv, Types
<1>5. Carries' /\ Unmade' /\ Closing' /\ Unbatched'
  BY <1>1, Zenon DEF EInv, Carries, Unmade, Unread, Closing, Over, Unbatched
<1>6. Stopped' /\ Tracked'
  BY Zenon DEF EInv, Stopped, Tracked, Used
<1>7. Finishing'
  <2>1. stop[p] = "done" => p \in evicted
    BY Zenon DEF EInv, Finishing, Finished
  <2> QED
    BY <2>1, KeepFinishing, Zenon
<1> QED
  BY <1>3, <1>4, <1>5, <1>6, <1>7, Zenon DEF EInv

LEMMA TimerIdleE ==
  ASSUME EInv, NEW p \in Reqs, TimerIdle(p) PROVE EInv'
  BY tickE, Zenon DEF TimerIdle, poolVars, restVars, EInv, Types
LEMMA onEmptyE ==
  ASSUME EInv, NEW p \in Reqs, onEmpty(p) PROVE EInv'
  BY Zenon, tickE DEF onEmpty, poolVars, EInv, Types
LEMMA TimerExitsE ==
  ASSUME EInv, NEW p \in Reqs, TimerExits(p) PROVE EInv'
  BY tickE, Zenon DEF TimerExits, poolVars, restVars, EInv, Types
LEMMA onEmptyReturnsE ==
  ASSUME EInv, NEW p \in Reqs, onEmptyReturns(p) PROVE EInv'
<1>1. cons' \in ConsType /\ DOMAIN tick' = Reqs /\ cons' = cons
  BY Zenon DEF onEmptyReturns, EInv, Types
<1> QED
  BY <1>1, evictE, Zenon DEF onEmptyReturns

LEMMA onEmptyRemoveE ==
  ASSUME EInv, NEW p \in Reqs, onEmptyRemove(p) PROVE EInv'
<1>1. CASE Cached(KeyOf[p]) = {}
  BY <1>1, tickE, Zenon DEF onEmptyRemove, poolVars, restVars, EInv, Types
<1>2. CASE Cached(KeyOf[p]) # {}
  <2>1. PICK i \in DOMAIN lru :
          /\ mbLock = NoLock /\ tick[p] = "lock" /\ lru' = Without(i)
          /\ tick' = [tick EXCEPT ![p] = "evict"] /\ mbLock' = [by |-> Timer(p), victim |-> lru[i]]
          /\ UNCHANGED <<cfg, queue, cons, batch, active, armed, stop, evicting, evicted, pending, jobs, answered, down, crashed>>
    BY <1>2, Zenon DEF onEmptyRemove, Cached, poolVars, restVars
  <2>2. PICK v : v = lru[i]
    OBVIOUS
  <2>3. /\ lru' \in Seq(Reqs) /\ v \in Range(lru) /\ v \in Reqs /\ Range(lru)' \subseteq Range(lru)
        /\ \A q \in Range(lru) : q \in Range(lru)' \/ q = v
    BY <2>1, <2>2, WithoutEntry, Zenon DEF EInv, Types
  <2>4. mbLock'.victim = v /\ mbLock.victim = NoReq
    BY <2>1, <2>2, Zenon DEF NoLock
  <2>5. ~Over /\ cfg.batching
    BY <2>1 DEF EInv, Closing, Over, Unbatched
  <2>6. Types'
    BY Zenon, <2>1, <2>3, <2>4 DEF EInv, Types
  <2>7. FlushTypes' /\ Homes'
    <3>1. \A r \in Reqs : InCons(r)' = InCons(r)
      BY Zenon, <2>1 DEF InCons
    <3> QED
      BY <2>1, <3>1, SameRequests, Zenon
  <2>8. Carries' /\ Unbatched' /\ Stopped'
    BY <2>1, <2>5 DEF EInv, Carries, Unbatched, Stopped
  <2>9. Unmade'
    <3>1. \A r \in Reqs : Unread(r)' => Unread(r)
      BY Zenon, <2>1 DEF Unread
    <3> QED
      BY Zenon, <2>1, <2>3, <2>4, <3>1 DEF EInv, Unmade
  <2>10. Tracked'
    <3>1. \A q \in Reqs : Used(q)' => Used(q)
      BY <2>1, Zenon DEF Used
    <3> QED
      BY <2>1, <2>3, <2>4, <3>1, ExporterConfigOK, Zenon DEF EInv, Tracked
  <2>11. Closing'
    BY <2>1, <2>5, Zenon DEF EInv, Closing, Over
  <2>12. Finishing'
    BY <2>1, <2>5, OpenFinishing, Zenon
  <2> QED
    BY <2>6, <2>7, <2>8, <2>9, <2>10, <2>11, <2>12, Zenon DEF EInv
<1> QED
  BY <1>1, <1>2, Zenon

-----------------------------------------------------------------------------
(* A partition is stopped. *)

LEMMA shutdownInternalE ==
  ASSUME EInv, NEW p \in Reqs, shutdownInternal(p) PROVE EInv'
<1>1. /\ stop[p] = "no" /\ (p \in evicting \/ (down = "batcher" /\ p \in Range(lru)))
      /\ stop' = [stop EXCEPT ![p] = "closed"] /\ active' = [active EXCEPT ![p] = FALSE]
      /\ UNCHANGED <<cfg, queue, cons, lru, mbLock, batch, tick, evicting, evicted, pending, jobs, answered, down, crashed>>
  BY Zenon DEF shutdownInternal, poolVars, restVars
<1>2. /\ DOMAIN stop' = Reqs /\ DOMAIN active' = Reqs /\ stop'[p] = "closed" /\ active'[p] = FALSE
      /\ \A q \in Reqs : q # p => stop'[q] = stop[q] /\ active'[q] = active[q]
  BY <1>1, Zenon DEF EInv, Types
<1>3. p \in evicted \/ (down = "batcher" /\ p \in Range(lru))
  BY <1>1, Zenon DEF EInv, Types
<1>4. cfg.batching
  <2>1. Range(<<>>) = {}
    BY DEF Range
  <2> QED
    BY <1>3, <2>1, Zenon DEF EInv, Unbatched
<1>5. Types'
  BY <1>1, <1>2, Zenon DEF EInv, Types
<1>6. FlushTypes' /\ Homes'
  <2>1. \A r \in Reqs : InCons(r)' = InCons(r)
    BY <1>1, Zenon DEF InCons
  <2> QED
    BY <1>1, <2>1, SameRequests, Zenon
<1>7. Carries' /\ Unbatched' /\ Tracked'
  BY <1>1, <1>4, Zenon DEF EInv, Carries, Unbatched, Tracked, Used
<1>8. Unmade'
  <2>1. \A r \in Reqs : Unread(r)' <=> Unread(r)
    BY Zenon, <1>1 DEF Unread
  <2> QED
    BY <1>1, <1>2, <1>3, <2>1, Zenon DEF EInv, Unmade
<1>9. Stopped'
  BY <1>1, <1>2, Zenon DEF EInv, Stopped
<1>10. Closing'
  <2>1. down = "purge" => p \notin Range(lru)
    BY <1>1, Zenon DEF EInv, Closing
  <2>2. down' = "purge" => \A q \in Range(lru)' : stop'[q] = "done"
    <3>1. \A q \in Range(lru) : q \in Reqs
      BY DEF EInv, Types, Range
    <3> QED
      BY <1>1, <1>2, <2>1, <3>1, Zenon DEF EInv, Closing
  <2> QED
    BY <1>1, <2>2, Zenon DEF EInv, Closing, Over
<1>11. Finishing'
  BY <1>1, <1>2, <1>3, Zenon DEF EInv, Finishing, Finished, Over
<1> QED
  BY <1>5, <1>6, <1>7, <1>8, <1>9, <1>10, <1>11, Zenon DEF EInv

LEMMA StopFlushE ==
  ASSUME EInv, NEW p \in Reqs, StopFlush(p) PROVE EInv'
<1>1. /\ stop[p] = "closed" /\ stop' = [stop EXCEPT ![p] = "waiting"] /\ flushCurrentBatch(Stopper(p), p)
      /\ UNCHANGED <<cfg, queue, cons, lru, mbLock, active, tick, evicting, evicted, jobs, answered, down, crashed>>
  BY Zenon DEF StopFlush, restVars
<1>2. DOMAIN stop' = Reqs /\ stop'[p] = "waiting" /\ \A q \in Reqs : q # p => stop'[q] = stop[q]
  BY <1>1, Zenon DEF EInv, Types
<1>3. cfg.batching
  BY <1>1, Zenon DEF EInv, Unbatched
<1>4. \A r \in Reqs : InCons(r)' = InCons(r)
  BY <1>1, Zenon DEF InCons
<1>5. /\ FlushTypes' /\ Homes' /\ Unbatched'
      /\ batch' \in [Reqs -> SUBSET Reqs] /\ batch'[p] = {} /\ \A q \in Reqs : q # p => batch'[q] = batch[q]
      /\ \A q \in Reqs : (\E f \in (pending \cup jobs)' : f.part = q) =>
                            (\E f \in pending \cup jobs : f.part = q) \/ (q = p /\ batch[p] # {})
  BY <1>1, <1>3, <1>4, flushMoves, Zenon
<1>6. Types'
  BY <1>1, <1>2, <1>5, Zenon DEF EInv, Types
<1>7. Carries'
  BY Zenon, <1>1 DEF EInv, Carries
<1>8. Unmade'
  <2>1. \A r \in Reqs : Unread(r)' <=> Unread(r)
    BY Zenon, <1>1 DEF Unread
  <2> QED
    BY <1>1, <1>2, <2>1, Zenon DEF EInv, Unmade
<1>9. Stopped'
  BY <1>1, <1>2, <1>5 DEF EInv, Stopped
<1>10. Tracked'
  <2>1. \A q \in Reqs : Used(q)' => Used(q)
    BY <1>1, <1>5, Zenon DEF Used
  <2> QED
    BY <1>1, <2>1, Zenon DEF EInv, Tracked
<1>11. Closing'
  <2>1. \A q \in Range(lru) : q \in Reqs
    BY DEF EInv, Types, Range
  <2>2. down' = "purge" => \A q \in Range(lru)' : stop'[q] = "done"
    BY <1>1, <1>2, <2>1, Zenon DEF EInv, Closing
  <2> QED
    BY <1>1, <2>2, Zenon DEF EInv, Closing, Over
<1>12. Finishing'
  BY <1>1, <1>2, <1>5 DEF EInv, Finishing, Finished, Over
<1> QED
  BY Zenon, <1>5, <1>6, <1>7, <1>8, <1>9, <1>10, <1>11, <1>12 DEF EInv

LEMMA StopReturnsE ==
  ASSUME EInv, NEW p \in Reqs, StopReturns(p) PROVE EInv'
<1>1. /\ stop[p] = "waiting" /\ tick[p] \in {"none", "exit"} /\ \A f \in pending \cup jobs : f.part # p
      /\ stop' = [stop EXCEPT ![p] = "done"] /\ evicting' = evicting \ {p}
      /\ UNCHANGED <<cfg, queue, cons, lru, mbLock, batch, active, tick, evicted, pending, jobs, answered, down, crashed>>
  BY Zenon DEF StopReturns, restVars
<1>2. DOMAIN stop' = Reqs /\ stop'[p] = "done" /\ \A q \in Reqs : q # p => stop'[q] = stop[q]
  BY Zenon, <1>1 DEF EInv, Types
<1>3. cfg.batching
  BY <1>1, Zenon DEF EInv, Unbatched
<1>4. Types'
  BY <1>1, <1>2, Zenon DEF EInv, Types
<1>5. FlushTypes' /\ Homes'
  <2>1. \A r \in Reqs : InCons(r)' = InCons(r)
    BY <1>1, Zenon DEF InCons
  <2> QED
    BY Zenon, <1>1, <2>1, SameRequests
<1>6. Carries' /\ Unbatched' /\ Tracked'
  BY <1>1, <1>3, Zenon DEF EInv, Carries, Unbatched, Tracked, Used
<1>7. Unmade'
  <2>1. \A r \in Reqs : Unread(r)' <=> Unread(r)
    BY Zenon, <1>1 DEF Unread
  <2> QED
    BY Zenon, <1>1, <1>2, <2>1 DEF EInv, Unmade
<1>8. Stopped'
  BY <1>1, <1>2 DEF EInv, Stopped
<1>9. Closing'
  <2>1. \A q \in Range(lru) : q \in Reqs
    BY DEF EInv, Types, Range
  <2>2. down' = "purge" => \A q \in Range(lru)' : stop'[q] = "done"
    BY <1>1, <1>2, <2>1, Zenon DEF EInv, Closing
  <2> QED
    BY <1>1, <2>2, Zenon DEF EInv, Closing, Over
<1>10. Finishing'
  BY <1>1, <1>2 DEF EInv, Finishing, Finished, Over
<1> QED
  BY <1>4, <1>5, <1>6, <1>7, <1>8, <1>9, <1>10, Zenon DEF EInv

-----------------------------------------------------------------------------
(* The workers and the retry sender. *)

\* A step of them leaves what does not mention flushes and exports.
LEMMA KeepRest ==
  ASSUME EInv, UNCHANGED <<cfg, queue, cons, lru, mbLock, batch, active, tick, stop, evicting, evicted, down>>,
         \A q \in Reqs : (\E f \in (pending \cup jobs)' : f.part = q) => \E f \in pending \cup jobs : f.part = q
  PROVE  Types' /\ Carries' /\ Unmade' /\ Stopped' /\ Tracked' /\ Closing' /\ Finishing'
<1>1. Types' /\ Carries' /\ Stopped'
  BY DEF EInv, Types, Carries, Stopped
<1>2. Unmade' /\ Closing'
  BY Zenon DEF EInv, Unmade, Unread, Closing, Over
<1>3. Tracked'
  <2>1. \A q \in Reqs : Used(q)' => Used(q)
    BY Zenon DEF Used
  <2> QED
    BY <2>1, Zenon DEF EInv, Tracked
<1>4. Finishing'
  BY DEF EInv, Finishing, Finished, Over
<1> QED
  BY <1>1, <1>2, <1>3, <1>4, Zenon

LEMMA flushE ==
  ASSUME EInv, NEW f, flush(f) PROVE EInv'
<1>0. PICK k : k = [part |-> f.part, reqs |-> f.reqs, at |-> "push"]
  BY Zenon
<1>1. /\ f \in pending /\ pending' = pending \ {f} /\ jobs' = jobs \cup {k}
      /\ UNCHANGED <<cfg, queue, cons, lru, mbLock, batch, active, tick, stop, evicting, evicted, answered, down>>
  BY <1>0, Zenon DEF flush, partVars, restVars
<1>2. k.part = f.part /\ k.reqs = f.reqs /\ k = [part |-> k.part, reqs |-> k.reqs, at |-> k.at]
  BY <1>0, Zenon
<1>3. f.part \in Reqs /\ f.reqs \subseteq Reqs /\ cfg.batching
  BY <1>1, Zenon DEF EInv, FlushTypes, Unbatched
<1>4. FlushTypes' /\ Unbatched'
  BY <1>1, <1>2, <1>3, Zenon DEF EInv, FlushTypes, Unbatched
<1>5. ASSUME NEW s \in Reqs PROVE Home(s)'
  <2>1. InCons(s)' = InCons(s) /\ InBatch(s)' = InBatch(s)
    BY <1>1, Zenon DEF InCons, InBatch
  <2>2. CASE s \notin f.reqs
    <3>1. InFlush(s)' = InFlush(s) /\ InJob(s)' = InJob(s)
      BY <1>1, <1>2, <2>2, Zenon DEF InFlush, InJob
    <3> QED
      BY <1>1, <2>1, <3>1, HomeSame, Zenon DEF EInv, Homes
  <2>3. CASE s \in f.reqs
    <3>1. Homeless(s) /\ Where(s, {}, {}, {f}, {})
      BY Zenon, <1>1, <2>3, HomeOfFlush DEF EInv, InFlush
    <3>2. InFlush(s)' = {} /\ InJob(s)' = {k}
      BY <1>1, <1>2, <2>3, <3>1, Zenon DEF Where, InFlush, InJob
    <3>3. Homeless(s)'
      BY <1>1, <3>1, Zenon DEF Homeless
    <3> QED
      BY <2>1, <3>1, <3>2, <3>3, Zenon DEF Home, Where
  <2> QED
    BY <2>2, <2>3, Zenon
<1>6. \A q \in Reqs : (\E g \in (pending \cup jobs)' : g.part = q) => \E g \in pending \cup jobs : g.part = q
  BY <1>1, <1>2, Zenon
<1> QED
  BY <1>1, <1>4, <1>5, <1>6, KeepRest, Zenon DEF EInv, Homes

LEMMA SendReturnsE ==
  ASSUME EInv, NEW j \in jobs, SendReturns(j) PROVE EInv'
<1>1. /\ jobs' = jobs \ {j} /\ answered' = answered \cup j.reqs
      /\ UNCHANGED <<cfg, queue, cons, lru, mbLock, batch, active, tick, stop, evicting, evicted, pending, down>>
  BY Zenon DEF SendReturns, partVars
<1>2. FlushTypes' /\ Unbatched'
  BY <1>1, Zenon DEF EInv, FlushTypes, Unbatched
<1>3. ASSUME NEW s \in Reqs PROVE Home(s)'
  <2>1. InCons(s)' = InCons(s) /\ InBatch(s)' = InBatch(s) /\ InFlush(s)' = InFlush(s)
    BY Zenon, <1>1 DEF InCons, InBatch, InFlush
  <2>2. CASE s \notin j.reqs
    <3>1. InJob(s)' = InJob(s)
      BY Zenon, <1>1, <2>2 DEF InJob
    <3> QED
      BY Zenon, <1>1, <2>1, <2>2, <3>1, HomeSame DEF EInv, Homes
  <2>3. CASE s \in j.reqs
    <3>1. Homeless(s) /\ Where(s, {}, {}, {}, {j})
      BY <2>3, HomeOfJob, Zenon DEF EInv, InJob
    <3>2. InJob(s)' = {}
      BY Zenon, <1>1, <3>1 DEF Where, InJob
    <3>3. s \in answered' /\ s \notin Range(queue)'
      BY Zenon, <1>1, <2>3, <3>1 DEF Homeless
    <3> QED
      BY <2>1, <3>1, <3>2, <3>3, Zenon DEF Home, Where
  <2> QED
    BY <2>2, <2>3, Zenon
<1>4. \A q \in Reqs : (\E g \in (pending \cup jobs)' : g.part = q) => \E g \in pending \cup jobs : g.part = q
  BY Zenon, <1>1
<1> QED
  BY Zenon, <1>1, <1>2, <1>3, <1>4, KeepRest DEF EInv, Homes

LEMMA MoveE ==
  ASSUME EInv, NEW j \in jobs, NEW a, Move(j, a) PROVE EInv'
<1>0. PICK k : k = [j EXCEPT !.at = a]
  BY Zenon
<1>1. /\ jobs' = (jobs \ {j}) \cup {k}
      /\ UNCHANGED <<cfg, queue, cons, lru, mbLock, batch, active, tick, stop, evicting, evicted, pending, answered, down>>
  BY <1>0, Zenon DEF Move, partVars, restVars
<1>2. k.part = j.part /\ k.reqs = j.reqs /\ k = [part |-> k.part, reqs |-> k.reqs, at |-> k.at]
  <2>1. j = [part |-> j.part, reqs |-> j.reqs, at |-> j.at]
    BY Zenon DEF EInv, FlushTypes
  <2>2. k = [part |-> j.part, reqs |-> j.reqs, at |-> a]
    BY <1>0, <2>1, Zenon
  <2> QED
    BY <2>2, Zenon
<1>3. FlushTypes' /\ Unbatched'
  BY <1>1, <1>2 DEF EInv, FlushTypes, Unbatched
<1>4. ASSUME NEW s \in Reqs PROVE Home(s)'
  <2>1. InCons(s)' = InCons(s) /\ InBatch(s)' = InBatch(s) /\ InFlush(s)' = InFlush(s)
    BY <1>1, Zenon DEF InCons, InBatch, InFlush
  <2>2. CASE s \notin j.reqs
    <3>1. InJob(s)' = InJob(s)
      BY <1>1, <1>2, <2>2, Zenon DEF InJob
    <3> QED
      BY <1>1, <2>1, <2>2, <3>1, HomeSame, Zenon DEF EInv, Homes
  <2>3. CASE s \in j.reqs
    <3>1. Homeless(s) /\ Where(s, {}, {}, {}, {j})
      BY <2>3, HomeOfJob, Zenon DEF EInv, InJob
    <3>2. InJob(s)' = {k}
      BY <1>1, <1>2, <2>3, <3>1, Zenon DEF Where, InJob
    <3>3. Homeless(s)'
      BY <1>1, <3>1, Zenon DEF Homeless
    <3> QED
      BY <2>1, <3>1, <3>2, <3>3, Zenon DEF Home, Where
  <2> QED
    BY <2>2, <2>3, Zenon
<1>5. \A q \in Reqs : (\E g \in (pending \cup jobs)' : g.part = q) => \E g \in pending \cup jobs : g.part = q
  BY <1>1, <1>2, Zenon
<1> QED
  BY <1>1, <1>3, <1>4, <1>5, KeepRest, Zenon DEF EInv, Homes

-----------------------------------------------------------------------------
(* Shutdown. *)

LEMMA StageKeeps ==
  ASSUME EInv, NEW a, NEW b, Stage(a, b), lru' = lru, mbLock'.victim = mbLock.victim
  PROVE  /\ Types' /\ FlushTypes' /\ Homes' /\ Carries' /\ Unmade' /\ Stopped' /\ Tracked'
         /\ (~Over \/ (Over /\ Over') => Finishing')
<1>1. UNCHANGED <<cfg, queue, cons, batch, active, tick, stop, evicting, evicted, pending, jobs, answered>>
  BY Zenon DEF Stage, partVars, poolVars
<1>2. \A r \in Reqs : InCons(r)' = InCons(r)
  BY <1>1, Zenon DEF InCons
<1>3. FlushTypes' /\ Homes'
  BY <1>1, <1>2, SameRequests, Zenon
<1>4. Types'
  BY Zenon, <1>1 DEF EInv, Types
<1>8. Carries'
  BY Zenon, <1>1 DEF EInv, Carries
<1>9. Stopped'
  BY <1>1, Zenon DEF EInv, Stopped
<1>5. Unmade' /\ Tracked'
  BY Zenon, <1>1 DEF EInv, Unmade, Unread, Tracked, Used
<1>6. ~Over => Finishing'
  BY Zenon, <1>1, OpenFinishing
<1>7. Over /\ Over' => Finishing'
  BY <1>1, Zenon DEF EInv, Finishing, Finished
<1> QED
  BY Zenon, <1>3, <1>4, <1>5, <1>6, <1>7, <1>8, <1>9

LEMMA ShutdownStartsE ==
  ASSUME EInv, ShutdownRetry \/ ShutdownQueue PROVE EInv'
<1>1. PICK a, b : Stage(a, b) /\ a \in {"up", "retry"} /\ b \in {"retry", "queue"} /\ lru' = lru /\ mbLock' = mbLock
  BY Zenon DEF ShutdownRetry, ShutdownQueue
<1>2. /\ ~Over /\ ~Over' /\ down' \notin {"batcher", "purge", "done"}
      /\ UNCHANGED <<cfg, queue, cons, batch, tick, stop, evicted, pending, jobs>>
  BY <1>1, Zenon DEF Stage, partVars, poolVars, Over
<1>3. /\ Types' /\ FlushTypes' /\ Homes' /\ Carries' /\ Unmade' /\ Stopped' /\ Tracked' /\ Finishing'
  BY <1>1, <1>2, StageKeeps, Zenon
<1>4. Unbatched' /\ Closing'
  BY <1>1, <1>2, Zenon DEF EInv, Unbatched, Closing
<1> QED
  BY <1>3, <1>4, Zenon DEF EInv

LEMMA ShutdownBatcherE ==
  ASSUME EInv, ShutdownBatcher PROVE EInv'
<1>1. PICK b : /\ Stage("queue", b) /\ b \in {"batcher", "done"} /\ lru' = lru
               /\ \A c \in Consumers : cons[c].at = "exit"
               /\ b = "batcher" => cfg.batching /\ mbLock = NoLock /\ mbLock' = [by |-> "shutdown", victim |-> NoReq]
               /\ b = "done" => ~cfg.batching /\ mbLock' = mbLock
  BY DEF ShutdownBatcher
<1>2. /\ ~Over /\ down' = b /\ UNCHANGED <<cfg, queue, cons, batch, tick, stop, evicted, pending, jobs>>
  BY <1>1, Zenon DEF Stage, partVars, poolVars, Over
<1>3. mbLock.victim = NoReq /\ mbLock'.victim = NoReq /\ (b = "batcher" => mbLock' # NoLock)
  <2>1. CASE b = "batcher"
    <3>1. mbLock.victim = NoReq /\ mbLock'.victim = NoReq /\ mbLock'.by = "shutdown" /\ NoLock.by = NoOne
      BY <1>1, <2>1 DEF NoLock
    <3> QED
      BY <3>1, ExporterConfigOK, Zenon
  <2>2. CASE b = "done"
    BY <1>1, <2>2 DEF EInv, Unbatched, NoLock
  <2> QED
    BY <1>1, <2>1, <2>2, Zenon
<1>4. /\ Types' /\ FlushTypes' /\ Homes' /\ Carries' /\ Unmade' /\ Stopped' /\ Tracked' /\ Finishing'
  BY <1>1, <1>2, <1>3, StageKeeps, Zenon
<1>5. Unbatched'
  BY <1>1, <1>2, Zenon DEF EInv, Unbatched
<1>6. Closing'
  BY <1>1, <1>2, <1>3, Zenon DEF EInv, Closing, Unbatched, Over
<1> QED
  BY <1>4, <1>5, <1>6, Zenon DEF EInv

LEMMA ShutdownWaitsE ==
  ASSUME EInv, ShutdownWaits PROVE EInv'
<1>1. /\ \A p \in Range(lru) : stop[p] = "done"
      /\ Stage("batcher", "purge") /\ lru' = lru /\ mbLock' = mbLock
  BY Zenon DEF ShutdownWaits
<1>2. /\ Over /\ Over' /\ down = "batcher" /\ down' = "purge"
      /\ UNCHANGED <<cfg, queue, cons, batch, tick, stop, evicted, pending, jobs>>
  BY <1>1, Zenon DEF Stage, partVars, poolVars, Over
<1>3. /\ Types' /\ FlushTypes' /\ Homes' /\ Carries' /\ Unmade' /\ Stopped' /\ Tracked' /\ Finishing'
  BY <1>1, <1>2, StageKeeps, Zenon
<1>4. Unbatched' /\ Closing'
  BY <1>1, <1>2, Zenon DEF EInv, Unbatched, Closing
<1> QED
  BY <1>3, <1>4, Zenon DEF EInv

LEMMA ShutdownReturnsE ==
  ASSUME EInv, ShutdownReturns PROVE EInv'
<1>1. lru = <<>> /\ Stage("purge", "done") /\ mbLock' = NoLock /\ lru' = lru
  BY Zenon DEF ShutdownReturns
<1>2. /\ Over /\ Over' /\ down = "purge" /\ down' = "done"
      /\ UNCHANGED <<cfg, queue, cons, batch, tick, stop, evicted, pending, jobs>>
  BY <1>1, Zenon DEF Stage, partVars, poolVars, Over
<1>3. mbLock.victim = NoReq /\ mbLock'.victim = NoReq
  BY Zenon, <1>1, <1>2 DEF EInv, Closing, NoLock
<1>4. /\ Types' /\ FlushTypes' /\ Homes' /\ Carries' /\ Unmade' /\ Stopped' /\ Tracked' /\ Finishing'
  BY <1>1, <1>2, <1>3, StageKeeps, Zenon
<1>5. Unbatched' /\ Closing'
  BY <1>1, <1>2, <1>3, Zenon DEF EInv, Unbatched, Closing
<1> QED
  BY <1>4, <1>5, Zenon DEF EInv

LEMMA PurgeE ==
  ASSUME EInv, Purge PROVE EInv'
<1>1. /\ down = "purge" /\ lru # <<>> /\ lru' = Without(Len(lru))
      /\ UNCHANGED <<cfg, queue, cons, mbLock, batch, active, tick, stop, evicting, evicted, pending, jobs, answered, down>>
  BY Zenon DEF Purge, partVars, poolVars, restVars
<1>2. PICK p : p = lru[Len(lru)]
  OBVIOUS
<1>3. /\ lru' \in Seq(Reqs) /\ p \in Range(lru) /\ p \in Reqs /\ Range(lru)' \subseteq Range(lru)
      /\ \A q \in Range(lru) : q \in Range(lru)' \/ q = p
  <2>1. lru \in Seq(Reqs) /\ Len(lru) \in DOMAIN lru
    BY <1>1 DEF EInv, Types
  <2> QED
    BY <1>1, <1>2, <2>1, WithoutEntry, Zenon
<1>4. cfg.batching
  BY <1>1, Zenon DEF EInv, Unbatched
<1>5. Types'
  BY <1>1, <1>3, Zenon DEF EInv, Types
<1>6. FlushTypes' /\ Homes'
  <2>1. \A r \in Reqs : InCons(r)' = InCons(r)
    BY <1>1, Zenon DEF InCons
  <2> QED
    BY <1>1, <2>1, SameRequests, Zenon
<1>7. Carries' /\ Unbatched' /\ Stopped'
  BY <1>1, <1>4, Zenon DEF EInv, Carries, Unbatched, Stopped
<1>8. Unmade'
  BY <1>1, <1>3, Zenon DEF EInv, Unmade, Unread
<1>9. Tracked'
  <2>1. \A q \in Reqs : Used(q)' <=> Used(q)
    BY <1>1, Zenon DEF Used
  <2>2. Used(p) => p \in evicted
    <3>1. stop[p] = "done" /\ \A c \in Consumers : cons[c].at = "exit"
      BY <1>1, <1>3, Zenon DEF EInv, Closing, Over
    <3>2. \A c \in Consumers : cons[c].part # p
      BY <1>3, <3>1, ExporterConfigOK, Zenon DEF EInv, Carries
    <3> QED
      BY <1>3, <3>1, <3>2, Zenon DEF EInv, Finishing, Finished, Used
  <2> QED
    BY <1>1, <1>3, <2>1, <2>2, Zenon DEF EInv, Tracked
<1>10. Closing'
  BY <1>1, <1>3, Zenon DEF EInv, Closing, Over
<1>11. Finishing'
  BY <1>1, KeepFinishing, Zenon
<1> QED
  BY <1>5, <1>6, <1>7, <1>8, <1>9, <1>10, <1>11, Zenon DEF EInv

-----------------------------------------------------------------------------

LEMMA EStep == EInv /\ [Next]_vars => EInv'
<1> SUFFICES ASSUME EInv, [Next]_vars PROVE EInv'
  OBVIOUS
<1>1. ASSUME NEW c \in Consumers, ConsumerStep(c) PROVE EInv'
  BY Zenon, <1>1, ReadE, ReadEndsE, DisabledReturnsE, getPartitionHitE, getPartitionMissE, EvictReturnsE,
     ConsumeE, ConsumeLateE, ConsumeReturnsE DEF ConsumerStep
<1>2. ASSUME NEW p \in Reqs, TimerStep(p) PROVE EInv'
  BY <1>2, TimerFiresE, TimerIdleE, onEmptyE, onEmptyRemoveE, onEmptyReturnsE, TimerExitsE, Zenon DEF TimerStep
<1>3. ASSUME NEW p \in Reqs, StopStep(p) PROVE EInv'
  BY <1>3, shutdownInternalE, StopFlushE, StopReturnsE, Zenon DEF StopStep
<1>4. ASSUME NEW r \in Reqs, FlushStep(r) PROVE EInv'
  BY <1>4, flushE, Zenon DEF FlushStep
<1>5. ASSUME NEW r \in Reqs, PushStep(r) PROVE EInv'
  BY <1>5, SendReturnsE, MoveE, Zenon DEF PushStep, PushEnds, PushAgain
<1>6. ASSUME NEW r \in Reqs, WaitStep(r) PROVE EInv'
  BY <1>6, SendReturnsE, MoveE, Zenon DEF WaitStep, Backoff, Interrupted, Cancelled
<1>7. CASE ShutdownRetry \/ ShutdownStep
  BY <1>7, ShutdownStartsE, ShutdownBatcherE, ShutdownWaitsE, PurgeE, ShutdownReturnsE, Zenon DEF ShutdownStep
<1>8. CASE UNCHANGED vars
  <2>1. UNCHANGED <<cfg, queue, cons, lru, mbLock, batch, active, tick, stop, evicting, evicted, pending, jobs, answered, down>>
    BY <1>8, Zenon DEF vars
  <2>2. \A r \in Reqs : InCons(r)' = InCons(r)
    BY <2>1, Zenon DEF InCons
  <2>3. FlushTypes' /\ Homes'
    BY <2>1, <2>2, SameRequests, Zenon
  <2>4. Unbatched'
    BY <2>1, Zenon DEF EInv, Unbatched
  <2> QED
    BY <2>1, <2>3, <2>4, KeepRest, Zenon DEF EInv
<1> QED
  BY <1>1, <1>2, <1>3, <1>4, <1>5, <1>6, <1>7, <1>8, Zenon DEF Next

\* The inductive invariant of the exporter: where every request is, which partitions
\* are in use, and what has been stopped by when.
THEOREM EInvAlways == Spec => []EInv
<1>1. Init => EInv
  BY EInit, Zenon
<1>2. EInv /\ [Next]_vars => EInv'
  BY EStep, Zenon
<1> QED
  BY <1>1, <1>2, PTL DEF Spec

\* Every request that was queued is in the queue, with exactly one consumer, batch,
\* flush or export, or answered: the batcher loses none and exports none twice,
\* whatever getPartition, onEmpty and Shutdown do to its partition.
THEOREM OneHolderAlways == Spec => []OneHolder
<1>1. EInv => OneHolder
  <2> SUFFICES ASSUME EInv, NEW r \in Range(cfg.queue)
               PROVE  IF r \in Range(queue) \cup answered THEN Holders(r) = {} ELSE \E h \in Holders(r) : Holders(r) = {h}
    BY Zenon DEF OneHolder
  <2>1. cfg.queue \in Seq(Reqs)
    BY ExporterConfigOK, Zenon DEF EInv, Types
  <2>2. r \in Reqs
    BY <2>1 DEF Range
  <2> QED
    BY <2>2, HomeMeans, Zenon DEF EInv, Homes
<1> QED
  BY <1>1, EInvAlways, PTL

\* A partition whose shutdownInternal returned has no request that nobody will flush:
\* consumeInternal flushes what it adds to an inactive partition.
THEOREM NothingStrandedAlways == Spec => []NothingStranded
<1>1. EInv => NothingStranded
  BY Zenon DEF EInv, Stopped, NothingStranded
<1> QED
  BY <1>1, EInvAlways, PTL

\* When Shutdown has returned nothing is left to send, except in storage and for
\* partitions that left the cache before.
THEOREM NothingBehindAlways == Spec => []NothingBehind
<1>1. EInv => NothingBehind
  <2> SUFFICES ASSUME EInv, down = "done" PROVE NothingBehind
    BY Zenon DEF NothingBehind
  <2>1. /\ \A c \in Consumers : cons[c].at = "exit"
        /\ mbLock.victim = NoReq /\ lru = <<>>
    BY Zenon DEF EInv, Closing, Over
  <2>2. queue # <<>> => cfg.persistent
    <3>1. PICK c \in cfg.consumers : c \in Consumers
      BY ExporterConfigOK, Zenon DEF EInv, Types
    <3> QED
      BY <2>1, <3>1, Zenon DEF EInv, Closing
  <2>3. \A p \in Reqs : Used(p) => p \in evicted
    <3>1. Range(lru) = {}
      BY <2>1 DEF Range
    <3> QED
      BY <2>1, <3>1, ExporterConfigOK, Zenon DEF EInv, Tracked
  <2>4. \A f \in pending \cup jobs : f.part \in Reqs
    BY <2>1, Zenon DEF EInv, FlushTypes, Unbatched
  <2> QED
    BY <2>2, <2>3, <2>4, Zenon DEF NothingBehind, Used
<1> QED
  BY <1>1, EInvAlways, PTL

=============================================================================
