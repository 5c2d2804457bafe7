----------------------- MODULE PartitionBatcherProofs -----------------------
(***************************************************************************)
(* Proofs about the batcher, for any requests, sizes, limits, consumers    *)
(* and workers.                                                            *)
(***************************************************************************)
EXTENDS PartitionBatcher, FiniteSetTheorems, WellFoundedInduction, TLAPS

-----------------------------------------------------------------------------
(* Sequences of items: what MergeSplit keeps, and how it is cut. *)

Item == Reqs \X Nat

\* A non-empty set of naturals has a least element.
LEMMA NatMin ==
  ASSUME NEW T, T \subseteq Nat, T # {} PROVE \E x \in T : \A y \in T : x <= y
<1>1. IsWellFoundedOn(OpToRel(<, Nat), Nat)
  BY NatLessThanWellFounded, Zenon
<1>2. PICK x \in T : \A y \in T : ~(<<y, x>> \in OpToRel(<, Nat))
  BY <1>1, WFMin, Zenon
<1>3. \A y \in T : ~(y < x)
  BY <1>2, Zenon DEF OpToRel
<1> QED
  BY <1>3

\* Good keeps a prefix without items that fit nowhere, and all of it if there are none.
LEMMA GoodPrefix ==
  ASSUME NEW s \in Seq(Item)
  PROVE  \E n \in 0..Len(s) :
           /\ Good(s) = SubSeq(s, 1, n)
           /\ MaxSize # 0 => \A i \in 1..n : s[i] \notin Oversize
           /\ n < Len(s) => MaxSize # 0 /\ s[n + 1] \in Oversize
<1> DEFINE I == {i \in 1..Len(s) : s[i] \in Oversize}
<1>1. Len(s) \in Nat /\ SubSeq(s, 1, Len(s)) = s
  OBVIOUS
<1>2. Good(s) = IF MaxSize = 0 \/ I = {} THEN s ELSE SubSeq(s, 1, Min(I) - 1)
  BY Zenon DEF Good
<1>3. CASE MaxSize = 0 \/ I = {}
  <2>1. Good(s) = SubSeq(s, 1, Len(s))
    BY <1>1, <1>2, <1>3, Zenon
  <2>2. MaxSize # 0 => \A i \in 1..Len(s) : s[i] \notin Oversize
    BY <1>3, Zenon
  <2>3. Len(s) \in 0..Len(s) /\ ~(Len(s) < Len(s))
    BY <1>1
  <2> QED
    BY <2>1, <2>2, <2>3, Zenon
<1>4. CASE MaxSize # 0 /\ I # {}
  <2>1. PICK m \in I : \A j \in I : m <= j
    <3>1. I \subseteq Nat
      OBVIOUS
    <3> HIDE DEF I
    <3> QED
      BY <1>4, <3>1, NatMin, Zenon
  <2>2. PICK b \in I : b = Min(I) /\ \A j \in I : b <= j
    <3>1. Min(I) = CHOOSE x \in I : \A y \in I : x <= y
      BY Zenon DEF Min
    <3> HIDE DEF I
    <3> QED
      BY <2>1, <3>1, Zenon
  <2>3. b \in 1..Len(s) /\ b # 0
    BY <2>2
  <2>4. Good(s) = SubSeq(s, 1, b - 1)
    BY <1>2, <1>4, <2>2, <2>3, Zenon
  <2>5. \A i \in 1..(b - 1) : s[i] \notin Oversize
    BY <1>1, <2>2, <2>3
  <2>6. b - 1 \in 0..Len(s) /\ s[(b - 1) + 1] \in Oversize
    BY <1>1, <2>2, <2>3
  <2> QED
    BY <1>4, <2>4, <2>5, <2>6, Zenon
<1> QED
  BY <1>3, <1>4, Zenon

\* The first and the last position of piece i of n items.
First(i) == IF MaxSize = 0 THEN 1 ELSE (i - 1) * MaxSize + 1
Final(i, n) == IF MaxSize = 0 THEN n ELSE IF i * MaxSize < n THEN i * MaxSize ELSE n
Pieces(n) == IF MaxSize = 0 THEN 1 ELSE (n + MaxSize - 1) \div MaxSize

\* Division, for a variable divisor.
LEMMA Divide ==
  ASSUME NEW a \in Nat, NEW m \in Nat \ {0}
  PROVE  a \div m \in Nat /\ (a \div m) * m <= a /\ a < (a \div m) * m + m
  OBVIOUS

LEMMA Times ==
  ASSUME NEW i \in Nat, NEW j \in Nat, NEW m \in Nat
  PROVE  i * m \in Nat /\ (i < j => i * m + m <= j * m) /\ (i + 1) * m = i * m + m
  OBVIOUS

LEMMA Limits == MaxSize \in Nat /\ MinSize \in Nat /\ (MaxSize = 0 \/ MaxSize >= MinSize)
  BY BatchConfigOK, Zenon DEF BatchConfigOK

\* The pieces of n items: none is empty, they follow each other and cover all.
LEMMA PieceBounds ==
  ASSUME NEW n \in Nat \ {0}
  PROVE  /\ Pieces(n) \in Nat \ {0}
         /\ \A i \in 1..Pieces(n) : First(i) \in 1..n /\ Final(i, n) \in First(i)..n
         /\ \A i, j \in 1..Pieces(n) : i < j => Final(i, n) < First(j)
         /\ \A k \in 1..n : \E i \in 1..Pieces(n) : k \in First(i)..Final(i, n)
         /\ First(1) = 1 /\ (MaxSize = 0 \/ n <= MaxSize => Final(1, n) = n)
         /\ MaxSize # 0 /\ MaxSize < n => Final(1, n) = MaxSize
<1> USE Limits
<1>1. CASE MaxSize = 0
  BY <1>1 DEF First, Final, Pieces
<1>2. CASE MaxSize # 0
  <2> DEFINE M == MaxSize
             p == (n + M - 1) \div M
  <2>1. M \in Nat \ {0} /\ n + M - 1 \in Nat
    BY <1>2
  <2>2. p \in Nat /\ p * M <= n + M - 1 /\ n + M - 1 < p * M + M
    BY <2>1, Divide, Zenon
  <2>3. p # 0
    BY <2>1, <2>2
  <2>4. ASSUME NEW i \in 1..p PROVE First(i) \in 1..n /\ Final(i, n) \in First(i)..n
    <3>1. i \in Nat /\ i - 1 \in Nat /\ i * M = (i - 1) * M + M /\ (i - 1) * M \in Nat
      BY <2>1, <2>2, Times
    <3>2. (i - 1) * M + M <= p * M
      BY <2>1, <2>2, <3>1, Times
    <3>3. (i - 1) * M < n
      BY <2>1, <2>2, <3>1, <3>2
    <3> QED
      BY <1>2, <2>1, <3>1, <3>3 DEF First, Final
  <2>5. ASSUME NEW i \in 1..p, NEW j \in 1..p, i < j PROVE Final(i, n) < First(j)
    <3>1. i \in Nat /\ j - 1 \in Nat /\ i * M \in Nat /\ (j - 1) * M \in Nat
      BY <2>1, <2>2, Times
    <3>2. i * M <= (j - 1) * M
      BY <2>1, <2>5, <3>1, Times
    <3> QED
      BY <1>2, <2>1, <3>1, <3>2 DEF First, Final
  <2>6. ASSUME NEW k \in 1..n PROVE \E i \in 1..p : k \in First(i)..Final(i, n)
    <3> DEFINE q == (k - 1) \div M
    <3>1. q \in Nat /\ q * M <= k - 1 /\ k - 1 < q * M + M /\ (q + 1) * M = q * M + M /\ q * M \in Nat
      BY <2>1, Divide, Times
    <3>2. q < p
      <4>1. ASSUME p <= q PROVE FALSE
        <5>1. p * M <= q * M
          BY <2>1, <2>2, <3>1, <4>1, Times
        <5> QED
          BY <2>1, <2>2, <3>1, <5>1
      <4> QED
        BY <2>2, <3>1, <4>1
    <3>3. q + 1 \in 1..p /\ (q + 1) - 1 = q
      BY <2>2, <3>1, <3>2
    <3> HIDE DEF q
    <3>4. k \in First(q + 1)..Final(q + 1, n)
      BY <1>2, <2>1, <3>1, <3>3 DEF First, Final
    <3> QED
      BY <3>3, <3>4, Zenon
  <2>7. 0 * M = 0 /\ 1 * M = M
    BY <2>1
  <2>8. First(1) = 1 /\ (n <= M => Final(1, n) = n) /\ (M < n => Final(1, n) = M)
    BY <1>2, <2>1, <2>7 DEF First, Final
  <2>9. Pieces(n) = p
    BY <1>2, Zenon DEF Pieces
  <2> HIDE DEF p
  <2> QED
    BY <1>2, <2>2, <2>3, <2>4, <2>5, <2>6, <2>8, <2>9, Zenon
<1> QED
  BY <1>1, <1>2, Zenon

\* No item twice.
Distinct(s) == \A i, j \in 1..Len(s) : s[i] = s[j] => i = j

LEMMA Part ==
  ASSUME NEW s \in Seq(Item), NEW a \in 1..Len(s), NEW b \in a..Len(s)
  PROVE  /\ SubSeq(s, a, b) \in Seq(Item) /\ SubSeq(s, a, b) # <<>> /\ Len(SubSeq(s, a, b)) = b - a + 1
         /\ Range(SubSeq(s, a, b)) = {s[k] : k \in a..b}
         /\ Distinct(s) => Distinct(SubSeq(s, a, b))
<1> DEFINE p == SubSeq(s, a, b)
<1>1. /\ p \in Seq(Item) /\ Len(p) = b - a + 1 /\ Len(s) \in Nat /\ DOMAIN p = 1..Len(p)
      /\ \A i \in 1..Len(p) : p[i] = s[i + a - 1] /\ i + a - 1 \in a..b
      /\ \A k \in a..b : k - a + 1 \in 1..Len(p) /\ k \in 1..Len(s)
  OBVIOUS
<1> HIDE DEF p
<1>2. ASSUME NEW k \in a..b PROVE s[k] = p[k - a + 1]
  <2>1. k - a + 1 \in 1..Len(p) /\ (k - a + 1) + a - 1 = k
    BY <1>1
  <2> QED
    BY <1>1, <2>1, Zenon
<1>3. Range(p) = {s[k] : k \in a..b}
  <2>1. \A i \in DOMAIN p : \E k \in a..b : p[i] = s[k]
    BY <1>1, Zenon
  <2>2. \A k \in a..b : \E i \in DOMAIN p : s[k] = p[i]
    BY <1>1, <1>2, Zenon
  <2>3. \A x \in Range(p) : x \in {s[k] : k \in a..b}
    BY <2>1, Zenon DEF Range
  <2>4. \A x \in {s[k] : k \in a..b} : x \in Range(p)
    BY <2>2, Zenon DEF Range
  <2> QED
    BY <2>3, <2>4, Zenon
<1>4. ASSUME Distinct(s), NEW i \in 1..Len(p), NEW j \in 1..Len(p), p[i] = p[j] PROVE i = j
  <2>1. i + a - 1 \in 1..Len(s) /\ j + a - 1 \in 1..Len(s) /\ s[i + a - 1] = s[j + a - 1]
    BY <1>1, <1>4, Zenon
  <2>2. i + a - 1 = j + a - 1
    BY <1>4, <2>1, Zenon DEF Distinct
  <2> QED
    BY <1>1, <2>2
<1>5. p # <<>>
  BY <1>1
<1> QED
  BY <1>1, <1>3, <1>4, <1>5, Zenon DEF p, Distinct

\* A function on 1..n is a sequence of length n.
LEMMA ListOf ==
  ASSUME NEW S, NEW n \in Nat, NEW f \in [1..n -> S] PROVE f \in Seq(S) /\ Len(f) = n
  OBVIOUS

\* What split returns ...
LEMMA SplitPieces ==
  ASSUME NEW s \in Seq(Item), s # <<>>
  PROVE  /\ split(s) \in Seq(Seq(Item)) /\ Len(split(s)) = Pieces(Len(s))
         /\ \A i \in 1..Pieces(Len(s)) : split(s)[i] = SubSeq(s, First(i), Final(i, Len(s)))
<1>1. Len(s) \in Nat \ {0} /\ SubSeq(s, 1, Len(s)) = s
  OBVIOUS
<1>2. CASE MaxSize = 0
  <2>1. split(s) = <<s>> /\ Pieces(Len(s)) = 1 /\ First(1) = 1 /\ Final(1, Len(s)) = Len(s)
    BY <1>2, Zenon DEF split, Pieces, First, Final
  <2> QED
    BY <1>1, <2>1
<1>3. CASE MaxSize # 0
  <2>1. /\ Pieces(Len(s)) \in Nat
        /\ \A i \in 1..Pieces(Len(s)) : First(i) \in 1..Len(s) /\ Final(i, Len(s)) \in First(i)..Len(s)
    BY <1>1, PieceBounds, Zenon
  <2>2. split(s) = [i \in 1..Pieces(Len(s)) |-> SubSeq(s, First(i), Final(i, Len(s)))]
    BY <1>3, Zenon DEF split, Pieces, First, Final
  <2>3. \A i \in 1..Pieces(Len(s)) : SubSeq(s, First(i), Final(i, Len(s))) \in Seq(Item)
    BY <2>1, Part, Zenon
  <2>4. split(s) \in [1..Pieces(Len(s)) -> Seq(Item)]
    BY <2>2, <2>3, Zenon
  <2>5. \A i \in 1..Pieces(Len(s)) : split(s)[i] = SubSeq(s, First(i), Final(i, Len(s)))
    BY <2>2, Zenon
  <2>6. split(s) \in Seq(Seq(Item)) /\ Len(split(s)) = Pieces(Len(s))
    BY <2>1, <2>4, ListOf, Zenon
  <2> QED
    BY <2>5, <2>6, Zenon
<1> QED
  BY <1>2, <1>3, Zenon

LEMMA SplitNothing == MaxSize # 0 => split(<<>>) = <<>>
<1> SUFFICES ASSUME MaxSize # 0 PROVE split(<<>>) = <<>>
  OBVIOUS
<1> DEFINE q == (0 + MaxSize - 1) \div MaxSize
<1>1. q \in Nat /\ q * MaxSize <= MaxSize - 1
  BY Limits, Divide
<1>2. q = 0
  <2>1. ASSUME q # 0 PROVE FALSE
    <3>1. MaxSize <= q * MaxSize
      <4>1. 0 < q /\ 0 \in Nat /\ 0 * MaxSize = 0
        BY <1>1, <2>1, Limits
      <4> QED
        BY <1>1, <4>1, Limits, Times
    <3> QED
      BY <1>1, <3>1, Limits
  <2> QED
    BY <2>1, Zenon
<1>3. Len(<<>>) = 0
  OBVIOUS
<1> QED
  BY <1>2, <1>3 DEF split

\* ... cuts the items into non-empty pieces: every item is in exactly one, and as
\* many as fit into one request are in the first.
LEMMA SplitItems ==
  ASSUME NEW s \in Seq(Item), s # <<>>, Distinct(s), NEW L, L = split(s)
  PROVE  /\ L \in Seq(Seq(Item)) /\ Len(L) \in Nat \ {0}
         /\ \A i \in 1..Len(L) : L[i] \in Seq(Item) /\ L[i] # <<>> /\ Distinct(L[i]) /\ \A x \in Range(L[i]) : x \in Range(s)
         /\ \A i, j \in 1..Len(L) : \A x : x \in Range(L[i]) /\ x \in Range(L[j]) => i = j
         /\ \A x \in Range(s) : \E i \in 1..Len(L) : x \in Range(L[i])
         /\ \A k \in 1..Len(s) : MaxSize = 0 \/ k <= MaxSize => s[k] \in Range(L[1])
<1> DEFINE n == Len(s)
<1>1. n \in Nat \ {0} /\ DOMAIN s = 1..n
  OBVIOUS
<1>2. /\ Pieces(n) \in Nat \ {0} /\ L \in Seq(Seq(Item)) /\ Len(L) = Pieces(n)
      /\ \A i \in 1..Len(L) : L[i] = SubSeq(s, First(i), Final(i, n))
      /\ \A i \in 1..Len(L) : First(i) \in 1..n /\ Final(i, n) \in First(i)..n
  BY <1>1, PieceBounds, SplitPieces, Zenon
<1>3. \A i, j \in 1..Len(L) : i < j => Final(i, n) < First(j)
  BY <1>1, <1>2, PieceBounds, Zenon
<1>4. \A k \in 1..n : \E i \in 1..Len(L) : k \in First(i)..Final(i, n)
  BY <1>1, <1>2, PieceBounds, Zenon
<1>5. ASSUME NEW i \in 1..Len(L)
      PROVE  L[i] \in Seq(Item) /\ L[i] # <<>> /\ Distinct(L[i]) /\ Range(L[i]) = {s[k] : k \in First(i)..Final(i, n)}
  <2>1. First(i) \in 1..Len(s) /\ Final(i, n) \in First(i)..Len(s) /\ L[i] = SubSeq(s, First(i), Final(i, n))
    BY <1>2, <1>5, Zenon
  <2> QED
    BY <2>1, Part, Zenon
<1>6. \A i \in 1..Len(L) : \A x \in Range(L[i]) : x \in Range(s)
  <2> TAKE i \in 1..Len(L)
  <2>1. First(i)..Final(i, n) \subseteq DOMAIN s
    BY <1>1, <1>2
  <2>2. ASSUME NEW x \in Range(L[i]) PROVE x \in Range(s)
    <3>1. PICK k \in First(i)..Final(i, n) : x = s[k]
      BY <1>5, Zenon
    <3> QED
      BY <2>1, <3>1, Zenon DEF Range
  <2> QED
    BY <2>2, Zenon
<1>7. ASSUME NEW i \in 1..Len(L), NEW j \in 1..Len(L), NEW x, x \in Range(L[i]), x \in Range(L[j]) PROVE i = j
  <2>1. PICK k \in First(i)..Final(i, n) : x = s[k]
    BY <1>5, <1>7, Zenon
  <2>2. PICK m \in First(j)..Final(j, n) : x = s[m]
    BY <1>5, <1>7, Zenon
  <2>3. k \in 1..n /\ m \in 1..n
    <3>1. /\ First(i) \in 1..n /\ Final(i, n) \in First(i)..n
          /\ First(j) \in 1..n /\ Final(j, n) \in First(j)..n
      BY <1>2, Zenon
    <3> QED
      BY <1>1, <3>1
  <2>4. k = m
    BY <2>1, <2>2, <2>3, Zenon DEF Distinct
  <2>5. (i < j => Final(i, n) < First(j)) /\ (j < i => Final(j, n) < First(i))
    BY <1>3, Zenon
  <2>6. ~(i < j) /\ ~(j < i)
    <3>1. /\ First(i) \in 1..n /\ Final(i, n) \in First(i)..n
          /\ First(j) \in 1..n /\ Final(j, n) \in First(j)..n
      BY <1>2, Zenon
    <3> QED
      BY <1>1, <2>4, <2>5, <3>1
  <2> QED
    BY <1>2, <2>6
<1>8. ASSUME NEW x \in Range(s) PROVE \E i \in 1..Len(L) : x \in Range(L[i])
  <2>1. PICK k \in 1..n : x = s[k]
    BY <1>1, Zenon DEF Range
  <2>2. PICK i \in 1..Len(L) : k \in First(i)..Final(i, n)
    BY <1>4, Zenon
  <2> QED
    BY <1>5, <2>1, <2>2, Zenon
<1>9. ASSUME NEW k \in 1..n, MaxSize = 0 \/ k <= MaxSize PROVE s[k] \in Range(L[1])
  <2>1. /\ First(1) = 1 /\ (MaxSize = 0 \/ n <= MaxSize => Final(1, n) = n)
        /\ MaxSize # 0 /\ MaxSize < n => Final(1, n) = MaxSize
    BY <1>1, PieceBounds, Zenon
  <2>2. k \in First(1)..Final(1, n)
    BY <1>1, <1>9, <2>1, Limits
  <2>3. 1 \in 1..Len(L)
    BY <1>2
  <2> QED
    BY <1>5, <2>2, <2>3, Zenon
<1> HIDE DEF n
<1> QED
  BY <1>2, <1>5, <1>6, <1>7, <1>8, <1>9, Zenon DEF n

-----------------------------------------------------------------------------
(* The invariant. *)

Bundle == [items : Seq(Item), dones : SUBSET Reqs]

\* The batches that are on their way, and those that answer for r.
Carried == InHand \ {NoBatch}
Of(r) == {b \in Carried : r \in b.dones}

Types ==
  /\ batch \in Bundle /\ working \in SUBSET Bundle /\ todo \in [Threads -> Seq(Bundle)]
  /\ rc \in [Reqs -> Nat] /\ errd \in [Reqs -> BOOLEAN] /\ called \in [Reqs -> Nat]
  /\ cons \in [Consumers -> [req : Reqs \cup {NoReq}, at : {"idle", "flush", "late"}]]

\* A consumer returns when all its flushes are started.
Returned == \A c \in Consumers : cons[c] = Idle => todo[c] = <<>>

\* A batch is in one place, and only the current one may be without items.
Places ==
  /\ \A t, u \in Threads : \A i \in 1..Len(todo[t]), j \in 1..Len(todo[u]) :
       todo[t][i] = todo[u][j] => t = u /\ i = j
  /\ \A t \in Threads : \A i \in 1..Len(todo[t]) :
       todo[t][i].items # <<>> /\ todo[t][i] \notin working /\ todo[t][i] # batch
  /\ \A b \in working : b.items # <<>> /\ b # batch
  /\ batch.items = <<>> => batch = NoBatch

\* The current batch can be completed by one request.
Fits ==
  MaxSize # 0 => Len(batch.items) <= MaxSize /\ \A x \in Range(batch.items) : x \notin Oversize

\* The items of the batches are theirs alone, and a batch answers for their requests.
Whole ==
  /\ \A b \in Carried : Distinct(b.items)
  /\ \A a, b \in Carried : \A x \in Range(a.items) : x \in Range(b.items) => a = b
  /\ \A b \in Carried : \A x \in Range(b.items) : x[1] \in b.dones /\ x \notin sent /\ x \notin lost
  /\ sent \cap lost = {}

\* What became of the items of a request.
Traced ==
  \A r \in Reqs :
    /\ Consumed(r) => \A x \in Range(Contents(r)) :
         x \in sent \/ x \in lost \/ \E b \in Carried : x \in Range(b.items)
    /\ ~Consumed(r) => \A x \in sent \cup lost : x[1] # r
    /\ Consumed(r) /\ ~errd[r] => \A x \in lost : x[1] # r

\* A reference for each batch that answers for the request, and an answer with the last.
Counted ==
  \A r \in Reqs : /\ IsFiniteSet(Of(r)) /\ rc[r] = Cardinality(Of(r))
                  /\ called[r] \in {0, 1} /\ (rc[r] > 0 => called[r] = 0)

PInv == Types /\ Returned /\ Places /\ Fits /\ Whole /\ Traced /\ Counted

LEMMA SamePlacesLess ==
  ASSUME UNCHANGED <<batch, todo>>, \A a : a \in working' => a \in working PROVE Places => Places'
<1>1. batch' = batch /\ todo' = todo
  OBVIOUS
<1>2. ASSUME Places PROVE Places'
  <2>1. \A t, u \in Threads : \A i \in 1..Len(todo'[t]), j \in 1..Len(todo'[u]) :
          todo'[t][i] = todo'[u][j] => t = u /\ i = j
    BY <1>1, <1>2 DEF Places
  <2>2. \A t \in Threads : \A i \in 1..Len(todo'[t]) :
          todo'[t][i].items # <<>> /\ todo'[t][i] \notin working' /\ todo'[t][i] # batch'
    BY <1>1, <1>2 DEF Places
  <2>3. (\A b \in working' : b.items # <<>> /\ b # batch') /\ (batch'.items = <<>> => batch' = NoBatch)
    BY <1>1, <1>2 DEF Places
  <2> QED
    BY <2>1, <2>2, <2>3, Zenon DEF Places
<1> QED
  BY <1>2

LEMMA SamePlaces ==
  ASSUME UNCHANGED <<batch, todo, working>> PROVE (Places => Places') /\ (Fits => Fits')
  BY DEF Places, Fits

LEMMA Carries ==
  ASSUME Types, NEW b
  PROVE  b \in Carried <=> b # NoBatch /\ (b = batch \/ b \in working \/ \E t \in Threads : \E i \in 1..Len(todo[t]) : b = todo[t][i])
<1>1. \A t \in Threads : DOMAIN todo[t] = 1..Len(todo[t])
  BY DEF Types
<1> QED
  BY <1>1 DEF Carried, InHand, Range

LEMMA CarriesPrimed ==
  ASSUME Types', NEW b
  PROVE  b \in Carried' <=>
           b # NoBatch /\ (b = batch' \/ b \in working' \/ \E t \in Threads : \E i \in 1..Len(todo'[t]) : b = todo'[t][i])
<1>1. \A t \in Threads : DOMAIN todo'[t] = 1..Len(todo'[t])
  BY DEF Types
<1> QED
  BY <1>1 DEF Carried, InHand, Range

LEMMA NoItems == NoBatch \in Bundle /\ NoBatch.items = <<>> /\ NoBatch.dones = {} /\ Range(<<>>) = {}
  BY DEF NoBatch, Batch, Bundle, Range

LEMMA CarriedHas ==
  ASSUME Types, Places, NEW b \in Carried PROVE b \in Bundle /\ b.items # <<>> /\ b.items \in Seq(Item) /\ b.dones \subseteq Reqs
<1>1. b \in Bundle
  <2>1. \A t \in Threads : \A i \in 1..Len(todo[t]) : todo[t][i] \in Bundle
    BY DEF Types
  <2>2. b = batch \/ b \in working \/ \E t \in Threads : \E i \in 1..Len(todo[t]) : b = todo[t][i]
    BY Carries, Zenon
  <2> QED
    BY <2>1, <2>2, Zenon DEF Types
<1>2. b.items # <<>>
  BY Carries DEF Places
<1> QED
  BY <1>1, <1>2, Zenon DEF Bundle

\* A batch changes its place.
LEMMA KeepsAll ==
  ASSUME Whole, Traced, Counted, Carried' = Carried, UNCHANGED <<rc, errd, called, sent, lost>>
  PROVE  Whole' /\ Traced' /\ Counted'
<1>1. \A r \in Reqs : Of(r)' = Of(r)
  BY Zenon DEF Of
<1>2. \A r \in Reqs : Consumed(r)' = Consumed(r)
  BY Zenon DEF Consumed
<1>3. Whole'
  BY Zenon DEF Whole
<1>4. Traced'
  BY <1>2, Zenon DEF Traced
<1>5. Counted'
  BY <1>1, Zenon DEF Counted
<1> QED
  BY <1>3, <1>4, <1>5, Zenon

LEMMA PInit == Init => PInv
<1> SUFFICES ASSUME Init PROVE PInv
  OBVIOUS
<1>1. /\ batch = NoBatch /\ working = {} /\ sent = {} /\ lost = {}
      /\ todo = [t \in Threads |-> <<>>] /\ cons = [c \in Consumers |-> Idle]
      /\ rc = [r \in Reqs |-> 0] /\ errd = [r \in Reqs |-> FALSE] /\ called = [r \in Reqs |-> 0]
  BY Zenon DEF Init
<1>2. Types
  BY <1>1, NoItems DEF Types, Idle
<1>3. \A t \in Threads : todo[t] = <<>> /\ Len(todo[t]) = 0
  BY <1>1, Zenon
<1>4. Carried = {}
  BY <1>1, <1>2, <1>3, Carries
<1>5. Returned /\ Places
  BY <1>1, <1>3 DEF Returned, Places, Threads
<1>6. Fits
  BY <1>1, NoItems, Limits DEF Fits
<1>7. Whole /\ Traced
  BY <1>1, <1>4 DEF Whole, Traced, Consumed
<1>8. Counted
  <2>1. \A r \in Reqs : Of(r) = {}
    BY <1>4, Zenon DEF Of
  <2> QED
    BY <1>1, <2>1, FS_EmptySet, Zenon DEF Counted
<1> QED
  BY <1>2, <1>5, <1>6, <1>7, <1>8, Zenon DEF PInv

\* A flush is started.
LEMMA flushP == ASSUME PInv, NEW t \in Threads, flush(t) PROVE PInv'
<1> DEFINE h == Head(todo[t])
<1>0. \A u, v \in Threads : \A i \in 1..Len(todo[u]), j \in 1..Len(todo[v]) :
        todo[u][i] = todo[v][j] => u = v /\ i = j
  BY Zenon DEF PInv, Places
<1>1. /\ todo[t] \in Seq(Bundle) /\ todo[t] # <<>> /\ working' = working \cup {h} /\ todo' = [todo EXCEPT ![t] = Tail(todo[t])]
      /\ UNCHANGED <<batch, cons, rc, errd, called, sent, lost>>
  BY Zenon DEF flush, PInv, Types
<1>2. /\ Len(todo[t]) \in Nat \ {0} /\ h = todo[t][1] /\ h \in Bundle /\ 1 \in 1..Len(todo[t])
      /\ Tail(todo[t]) \in Seq(Bundle) /\ Len(Tail(todo[t])) = Len(todo[t]) - 1
      /\ \A i \in 1..Len(Tail(todo[t])) : i + 1 \in 1..Len(todo[t]) /\ i + 1 # 1 /\ Tail(todo[t])[i] = todo[t][i + 1]
      /\ \A i \in 1..Len(todo[t]) : i = 1 \/ (i - 1 \in 1..Len(Tail(todo[t])) /\ Tail(todo[t])[i - 1] = todo[t][i])
  BY <1>1
<1>3. \A u \in Threads : todo'[u] = IF u = t THEN Tail(todo[t]) ELSE todo[u]
  BY <1>1, Zenon DEF PInv, Types
<1> HIDE DEF h
<1>4. Types'
  BY <1>1, <1>2, Zenon DEF PInv, Types
<1>5. \A u \in Threads : \A i \in 1..Len(todo'[u]) :
        \E k \in 1..Len(todo[u]) : todo'[u][i] = todo[u][k] /\ (IF u = t THEN k = i + 1 ELSE k = i)
  BY <1>2, <1>3, Zenon
<1>6. \A u \in Threads : \A i \in 1..Len(todo[u]) :
        (u = t /\ i = 1) \/ \E k \in 1..Len(todo'[u]) : todo'[u][k] = todo[u][i]
  BY <1>2, <1>3, Zenon
<1>7. Carried' = Carried
  <2>1. ASSUME NEW b \in Carried' PROVE b \in Carried
    BY <1>1, <1>2, <1>4, <1>5, <2>1, Carries, CarriesPrimed DEF PInv
  <2>2. ASSUME NEW b \in Carried PROVE b \in Carried'
    <3>1. CASE b = batch \/ b \in working
      BY <1>1, <1>4, <2>2, <3>1, Carries, CarriesPrimed, Zenon DEF PInv
    <3>2. ASSUME NEW u \in Threads, NEW i \in 1..Len(todo[u]), b = todo[u][i] PROVE b \in Carried'
      <4>1. CASE u = t /\ i = 1
        BY <1>1, <1>2, <1>4, <2>2, <3>2, <4>1, Carries, CarriesPrimed, Zenon DEF PInv
      <4>2. CASE \E k \in 1..Len(todo'[u]) : todo'[u][k] = todo[u][i]
        BY <1>4, <2>2, <3>2, <4>2, Carries, CarriesPrimed, Zenon DEF PInv
      <4> QED
        BY <1>6, <4>1, <4>2, Zenon
    <3> QED
      BY <2>2, <3>1, <3>2, Carries, Zenon DEF PInv
  <2> QED
    BY <2>1, <2>2, Zenon
<1>8. Whole' /\ Traced' /\ Counted'
  BY <1>1, <1>7, KeepsAll, Zenon DEF PInv
<1>9. Returned'
  <2>1. todo[t] = <<>> => FALSE
    BY <1>1, Zenon
  <2> QED
    BY <1>1, <1>3, <2>1, Zenon DEF PInv, Returned, Threads
<1>10. Places'
  <2>1. ASSUME NEW u \in Threads, NEW v \in Threads, NEW i \in 1..Len(todo'[u]), NEW j \in 1..Len(todo'[v]), todo'[u][i] = todo'[v][j]
        PROVE  u = v /\ i = j
    <3>1. PICK k \in 1..Len(todo[u]) : todo'[u][i] = todo[u][k] /\ (IF u = t THEN k = i + 1 ELSE k = i)
      BY <1>5, Zenon
    <3>2. PICK l \in 1..Len(todo[v]) : todo'[v][j] = todo[v][l] /\ (IF v = t THEN l = j + 1 ELSE l = j)
      BY <1>5, Zenon
    <3>3. todo[u][k] = todo[v][l]
      BY <2>1, <3>1, <3>2, Zenon
    <3>4. u = v /\ k = l
      BY <1>0, <3>3, Zenon
    <3>5. i \in Int /\ j \in Int
      OBVIOUS
    <3> QED
      BY <3>1, <3>2, <3>4, <3>5
  <2>2. ASSUME NEW u \in Threads, NEW i \in 1..Len(todo'[u])
        PROVE  todo'[u][i].items # <<>> /\ todo'[u][i] \notin working' /\ todo'[u][i] # batch'
    <3>1. PICK k \in 1..Len(todo[u]) : todo'[u][i] = todo[u][k] /\ (IF u = t THEN k = i + 1 ELSE k = i)
      BY <1>5, Zenon
    <3>2. ~(u = t /\ k = 1)
      BY <3>1
    <3>3. todo[u][k] # h
      BY <1>0, <1>2, <3>2
    <3> QED
      BY <1>1, <3>1, <3>3 DEF PInv, Places
  <2>3. \A b \in working' : b.items # <<>> /\ b # batch'
    BY <1>1, <1>2 DEF PInv, Places
  <2> QED
    BY <1>1, <2>1, <2>2, <2>3, Zenon DEF PInv, Places
<1>11. Fits'
  BY <1>1, Zenon DEF PInv, Fits
<1> QED
  BY <1>4, <1>8, <1>9, <1>10, <1>11, Zenon DEF PInv

\* The current batch becomes a flush of thread t, which has none.
LEMMA flushCurrentBatchP ==
  ASSUME PInv, NEW t \in Threads, flushCurrentBatch(t), Types', Returned',
         UNCHANGED <<working, rc, errd, called, sent, lost>>
  PROVE  PInv'
<1>1. todo[t] = <<>> /\ batch' = NoBatch /\ todo' = [todo EXCEPT ![t] = IF batch = NoBatch THEN <<>> ELSE <<batch>>]
  BY Zenon DEF flushCurrentBatch
<1>2. Fits'
  BY <1>1, NoItems, Limits DEF Fits
<1>3. CASE batch = NoBatch
  <2>1. todo' = todo
    BY <1>1, <1>3, Zenon DEF PInv, Types
  <2>2. Carried' = Carried
    BY <1>1, <1>3, <2>1, Zenon DEF Carried, InHand
  <2>3. Places'
    BY <1>1, <1>3, <2>1 DEF PInv, Places
  <2> QED
    BY <1>2, <2>2, <2>3, KeepsAll, Zenon DEF PInv
<1>4. CASE batch # NoBatch
  <2>1. \A u \in Threads : todo'[u] = IF u = t THEN <<batch>> ELSE todo[u]
    BY <1>1, <1>4, Zenon DEF PInv, Types
  <2>2. Len(todo[t]) = 0 /\ Len(todo'[t]) = 1 /\ todo'[t][1] = batch
    BY <1>1, <2>1
  <2>3. \A u \in Threads : \A i \in 1..Len(todo'[u]) :
          IF u = t THEN i = 1 /\ todo'[u][i] = batch ELSE i \in 1..Len(todo[u]) /\ todo'[u][i] = todo[u][i]
    <3>1. \A i \in 1..Len(todo'[t]) : i = 1
      BY <2>2
    <3> QED
      BY <2>1, <2>2, <3>1, Zenon
  <2>4. \A u \in Threads : \A i \in 1..Len(todo[u]) : i \in 1..Len(todo'[u]) /\ todo'[u][i] = todo[u][i]
    BY <2>1, <2>2
  <2>5. Carried' = Carried
    <3>1. ASSUME NEW b \in Carried' PROVE b \in Carried
      BY <1>1, <2>3, <3>1, Carries, CarriesPrimed DEF PInv
    <3>2. ASSUME NEW b \in Carried PROVE b \in Carried'
      <4>1. CASE b = batch
        <5>1. 1 \in 1..Len(todo'[t]) /\ b = todo'[t][1] /\ b # NoBatch
          BY <1>4, <2>2, <4>1
        <5> QED
          BY <5>1, CarriesPrimed, Zenon
      <4>2. CASE b # batch
        BY <2>4, <3>2, <4>2, Carries, CarriesPrimed DEF PInv
      <4> QED
        BY <4>1, <4>2, Zenon
    <3> QED
      BY <3>1, <3>2, Zenon
  <2>6. Places'
    <3>1. ASSUME NEW u \in Threads, NEW v \in Threads, NEW i \in 1..Len(todo'[u]), NEW j \in 1..Len(todo'[v]), todo'[u][i] = todo'[v][j]
          PROVE  u = v /\ i = j
      <4>1. \A w \in Threads : \A k \in 1..Len(todo[w]) : todo[w][k] # batch
        BY Zenon DEF PInv, Places
      <4>2. CASE u # t /\ v # t
        BY <2>3, <3>1, <4>2 DEF PInv, Places
      <4>3. CASE u = t \/ v = t
        BY <2>3, <3>1, <4>1, <4>3
      <4> QED
        BY <4>2, <4>3, Zenon
    <3>2. ASSUME NEW u \in Threads, NEW i \in 1..Len(todo'[u])
          PROVE  todo'[u][i].items # <<>> /\ todo'[u][i] \notin working' /\ todo'[u][i] # batch'
      <4>1. batch.items # <<>> /\ batch \notin working
        BY <1>4, Zenon DEF PInv, Places
      <4>2. todo'[u][i].items # <<>> /\ todo'[u][i] \notin working
        BY <2>3, <4>1 DEF PInv, Places
      <4> QED
        BY <1>1, <4>2, NoItems, Zenon
    <3>3. \A b \in working' : b.items # <<>> /\ b # batch'
      BY <1>1, NoItems, Zenon DEF PInv, Places
    <3> QED
      BY <1>1, <3>1, <3>2, <3>3, Zenon DEF Places
  <2> QED
    BY <1>2, <2>5, <2>6, KeepsAll, Zenon DEF PInv
<1> QED
  BY <1>3, <1>4, Zenon

LEMMA TodoTypes ==
  ASSUME Types, NEW t \in Threads, flushCurrentBatch(t) PROVE batch' \in Bundle /\ todo' \in [Threads -> Seq(Bundle)]
  BY NoItems DEF Types, flushCurrentBatch

LEMMA ConsumeLateP == ASSUME PInv, NEW c \in Consumers, ConsumeLate(c) PROVE PInv'
<1>1. /\ c \in Threads /\ flushCurrentBatch(c) /\ UNCHANGED <<working, rc, errd, called, sent, lost>>
      /\ cons[c].at = "late" /\ cons' = [cons EXCEPT ![c].at = "flush"]
  BY Zenon DEF ConsumeLate, Threads
<1>2. cons \in [Consumers -> [req : Reqs \cup {NoReq}, at : {"idle", "flush", "late"}]]
  BY Zenon DEF PInv, Types
<1>3. /\ cons' \in [Consumers -> [req : Reqs \cup {NoReq}, at : {"idle", "flush", "late"}]]
      /\ \A d \in Consumers : cons'[d] = Idle => d # c /\ cons[d] = Idle
  BY <1>1, <1>2, Zenon DEF Idle
<1>4. Types'
  BY <1>1, <1>3, TodoTypes, Zenon DEF PInv, Types
<1>5. Returned'
  BY <1>1, <1>3, Zenon DEF PInv, Types, Returned, flushCurrentBatch, Threads
<1> QED
  BY <1>1, <1>4, <1>5, flushCurrentBatchP, Zenon

\* The timer and Shutdown flush what is there.
LEMMA OthersFlushP == ASSUME PInv, TimerFires \/ ShutdownFlush PROVE PInv'
<1>1. PICK t \in {TimerLoop, Stopper} : flushCurrentBatch(t)
  BY Zenon DEF TimerFires, ShutdownFlush
<1>2. t \in Threads /\ t \notin Consumers
  BY BatchConfigOK, Zenon DEF BatchConfigOK, Threads
<1>3. UNCHANGED <<cons, working, rc, errd, called, sent, lost>>
  BY Zenon DEF TimerFires, ShutdownFlush
<1>4. Types'
  BY <1>1, <1>2, <1>3, TodoTypes, Zenon DEF PInv, Types
<1>5. Returned'
  BY <1>1, <1>2, <1>3, Zenon DEF PInv, Types, Returned, flushCurrentBatch, Threads
<1> QED
  BY <1>1, <1>2, <1>3, <1>4, <1>5, flushCurrentBatchP, Zenon

LEMMA QuietP ==
  ASSUME PInv, UNCHANGED <<batch, todo, working, rc, errd, called, sent, lost>>, Returned',
         cons' \in [Consumers -> [req : Reqs \cup {NoReq}, at : {"idle", "flush", "late"}]]
  PROVE  PInv'
<1>1. Types' /\ Places' /\ Fits'
  BY DEF PInv, Types, Places, Fits
<1>2. Carried' = Carried
  BY Zenon DEF Carried, InHand
<1> QED
  BY <1>1, <1>2, KeepsAll, Zenon DEF PInv

LEMMA ConsumeReturnsP == ASSUME PInv, NEW c \in Consumers, ConsumeReturns(c) PROVE PInv'
<1>1. /\ UNCHANGED <<batch, todo, working, rc, errd, called, sent, lost>>
      /\ todo[c] = <<>> /\ cons' = [cons EXCEPT ![c] = Idle]
  BY Zenon DEF ConsumeReturns
<1>2. cons' \in [Consumers -> [req : Reqs \cup {NoReq}, at : {"idle", "flush", "late"}]]
  BY <1>1, Zenon DEF PInv, Types, Idle
<1>3. Returned'
  BY <1>1, Zenon DEF PInv, Types, Returned
<1> QED
  BY <1>1, <1>2, <1>3, QuietP, Zenon

-----------------------------------------------------------------------------
(* A batch is through. *)

\* What its requests see.
LEMMA ExportCounted ==
  ASSUME PInv, NEW b \in Carried, NEW err \in BOOLEAN, Carried' = Carried \ {b}, OnDone(b.dones, err)
  PROVE  /\ Counted' /\ rc' \in [Reqs -> Nat] /\ errd' \in [Reqs -> BOOLEAN] /\ called' \in [Reqs -> Nat]
         /\ \A r \in Reqs : (Consumed(r)' <=> Consumed(r)) /\ (r \in b.dones => Consumed(r) /\ errd'[r] = (errd[r] \/ err))
         /\ \A r \in Reqs : r \notin b.dones => errd'[r] = errd[r]
<1>1. /\ rc' = [r \in Reqs |-> IF r \in b.dones THEN rc[r] - 1 ELSE rc[r]]
      /\ errd' = [r \in Reqs |-> errd[r] \/ (r \in b.dones /\ err)]
      /\ called' = [r \in Reqs |-> IF r \in b.dones /\ rc[r] = 1 THEN called[r] + 1 ELSE called[r]]
  BY Zenon DEF OnDone
<1>2. ASSUME NEW r \in Reqs
      PROVE  /\ IsFiniteSet(Of(r)') /\ rc'[r] = Cardinality(Of(r)') /\ rc'[r] \in Nat
             /\ called'[r] \in {0, 1} /\ (rc'[r] > 0 => called'[r] = 0)
             /\ (rc'[r] > 0 \/ called'[r] > 0) <=> (rc[r] > 0 \/ called[r] > 0)
             /\ r \in b.dones => rc[r] > 0
  <2>1. Of(r)' = Of(r) \ {b} /\ (b \in Of(r) <=> r \in b.dones)
    BY Zenon DEF Of
  <2>2. /\ IsFiniteSet(Of(r)) /\ rc[r] = Cardinality(Of(r)) /\ rc[r] \in Nat
        /\ called[r] \in {0, 1} /\ (rc[r] > 0 => called[r] = 0)
    BY Zenon DEF PInv, Counted, Types
  <2>3. IsFiniteSet(Of(r)') /\ Cardinality(Of(r)') = (IF r \in b.dones THEN rc[r] - 1 ELSE rc[r]) /\ Cardinality(Of(r)') \in Nat
    BY <2>1, <2>2, FS_RemoveElement, FS_CardinalityType
  <2>4. rc'[r] = IF r \in b.dones THEN rc[r] - 1 ELSE rc[r]
    BY <1>1, Zenon
  <2>5. called'[r] = IF r \in b.dones /\ rc[r] = 1 THEN called[r] + 1 ELSE called[r]
    BY <1>1, Zenon
  <2>6. r \in b.dones => rc[r] > 0
    BY <2>2, <2>3
  <2> QED
    BY <2>2, <2>3, <2>4, <2>5, <2>6
<1>3. Counted'
  BY <1>2, Zenon DEF Counted
<1>4. rc' \in [Reqs -> Nat] /\ called' \in [Reqs -> Nat]
  <2>1. \A r \in Reqs : rc'[r] \in Nat /\ called'[r] \in Nat
    BY <1>2
  <2> QED
    BY <1>1, <2>1, Zenon
<1>5. errd' \in [Reqs -> BOOLEAN] /\ \A r \in Reqs : errd'[r] = (errd[r] \/ (r \in b.dones /\ err))
  BY <1>1, Zenon
<1>6. \A r \in Reqs : (Consumed(r)' <=> Consumed(r)) /\ (r \in b.dones => Consumed(r))
  BY <1>2, Zenon DEF Consumed
<1>7. ASSUME NEW r \in Reqs
      PROVE  (r \in b.dones => errd'[r] = (errd[r] \/ err)) /\ (r \notin b.dones => errd'[r] = errd[r])
  <2>1. errd[r] \in BOOLEAN
    BY Zenon DEF PInv, Types
  <2>2. CASE r \in b.dones
    BY <1>5, <2>2, Zenon
  <2>3. CASE r \notin b.dones
    BY <1>5, <2>1, <2>3, Zenon
  <2> QED
    BY <2>2, <2>3, Zenon
<1> QED
  BY <1>3, <1>4, <1>5, <1>6, <1>7, Zenon

LEMMA exportP == ASSUME PInv, NEW b \in working, NEW ok \in BOOLEAN, export(b, ok) PROVE PInv'
<1>1. /\ working' = working \ {b} /\ OnDone(b.dones, ~ok) /\ UNCHANGED <<batch, cons, todo>>
      /\ ok => sent' = sent \cup Range(b.items) /\ lost' = lost
      /\ ~ok => lost' = lost \cup Range(b.items) /\ sent' = sent
  BY Zenon DEF export
<1>2. b # batch /\ b.items # <<>> /\ \A t \in Threads : \A i \in 1..Len(todo[t]) : todo[t][i] # b
  BY DEF PInv, Places
<1>3. b \in Carried
  BY <1>2, Carries, NoItems, Zenon DEF PInv
<1>4. Carried' = Carried \ {b}
  <2>1. Carried' = (({batch} \cup (working \ {b})) \cup UNION {Range(todo[t]) : t \in Threads}) \ {NoBatch}
    BY <1>1, Zenon DEF Carried, InHand
  <2>2. \A t \in Threads : b \notin Range(todo[t])
    <3>1. \A t \in Threads : DOMAIN todo[t] = 1..Len(todo[t])
      BY DEF PInv, Types
    <3> QED
      BY <1>2, <3>1, Zenon DEF Range
  <2> QED
    BY <1>2, <2>1, <2>2, Zenon DEF Carried, InHand
<1>5. /\ Counted' /\ rc' \in [Reqs -> Nat] /\ errd' \in [Reqs -> BOOLEAN] /\ called' \in [Reqs -> Nat]
      /\ \A r \in Reqs : (Consumed(r)' <=> Consumed(r)) /\ (r \in b.dones => Consumed(r) /\ errd'[r] = (errd[r] \/ ~ok))
      /\ \A r \in Reqs : r \notin b.dones => errd'[r] = errd[r]
  BY <1>1, <1>3, <1>4, ExportCounted, Zenon
<1>6. Types' /\ Returned' /\ Places' /\ Fits'
  <2>1. Types'
    <3>1. working' \in SUBSET Bundle
      BY <1>1 DEF PInv, Types
    <3> QED
      BY <1>1, <1>5, <3>1, Zenon DEF PInv, Types
  <2>2. Returned'
    BY <1>1, Zenon DEF PInv, Returned
  <2>3. Fits'
    BY <1>1, Zenon DEF PInv, Fits
  <2>4. Places'
    <3>1. \A a : a \in working' => a \in working
      BY <1>1, Zenon
    <3> QED
      BY <1>1, <3>1, SamePlacesLess, Zenon DEF PInv
  <2> QED
    BY <2>1, <2>2, <2>3, <2>4, Zenon
<1>7. ASSUME NEW a \in Carried', NEW x \in Range(a.items) PROVE x \notin Range(b.items)
  BY <1>3, <1>4, <1>7, Zenon DEF PInv, Whole
<1>8. \A x \in Range(b.items) : x \notin sent /\ x \notin lost /\ x[1] \in b.dones
  BY <1>3, Zenon DEF PInv, Whole
<1>9. Whole'
  <2>1. \A a \in Carried' : Distinct(a.items)
    BY <1>4, Zenon DEF PInv, Whole
  <2>2. \A a, d \in Carried' : \A x \in Range(a.items) : x \in Range(d.items) => a = d
    BY <1>4, Zenon DEF PInv, Whole
  <2>3. \A a \in Carried' : \A x \in Range(a.items) : x[1] \in a.dones /\ x \notin sent' /\ x \notin lost'
    BY <1>1, <1>4, <1>7, Zenon DEF PInv, Whole
  <2>4. sent' \cap lost' = {}
    BY <1>1, <1>8, Zenon DEF PInv, Whole
  <2> QED
    BY <2>1, <2>2, <2>3, <2>4, Zenon DEF Whole
<1>10. ASSUME NEW r \in Reqs
       PROVE  /\ Consumed(r)' => \A x \in Range(Contents(r)) : x \in sent' \/ x \in lost' \/ \E a \in Carried' : x \in Range(a.items)
              /\ ~Consumed(r)' => \A x \in sent' \cup lost' : x[1] # r
              /\ Consumed(r)' /\ ~errd'[r] => \A x \in lost' : x[1] # r
  <2>1. ASSUME Consumed(r)', NEW x \in Range(Contents(r))
        PROVE  x \in sent' \/ x \in lost' \/ \E a \in Carried' : x \in Range(a.items)
    <3>1. x \in sent \/ x \in lost \/ \E a \in Carried : x \in Range(a.items)
      BY <1>5, <2>1, Zenon DEF PInv, Traced
    <3> QED
      BY <1>1, <1>4, <3>1, Zenon
  <2>2. ASSUME ~Consumed(r)', NEW x \in sent' \cup lost' PROVE x[1] # r
    <3>1. ~Consumed(r) /\ r \notin b.dones
      BY <1>5, <2>2, Zenon
    <3>2. x \in Range(b.items) \/ x \in sent \cup lost
      BY <1>1, <2>2, Zenon
    <3> QED
      BY <1>8, <3>1, <3>2, Zenon DEF PInv, Traced
  <2>3. ASSUME Consumed(r)', ~errd'[r], NEW x \in lost' PROVE x[1] # r
    <3>1. CASE r \in b.dones
      <4>1. ok /\ ~errd[r]
        BY <1>5, <2>3, <3>1, Zenon
      <4> QED
        BY <1>1, <1>5, <2>3, <4>1, Zenon DEF PInv, Traced
    <3>2. CASE r \notin b.dones
      BY <1>1, <1>5, <1>8, <2>3, <3>2, Zenon DEF PInv, Traced
    <3> QED
      BY <3>1, <3>2, Zenon
  <2> QED
    BY <2>1, <2>2, <2>3, Zenon
<1>11. Traced'
  BY <1>10, Zenon DEF Traced
<1> QED
  BY <1>5, <1>6, <1>9, <1>11, Zenon DEF PInv

-----------------------------------------------------------------------------
(* A request is merged into the current batch. *)

\* The new batches B replace the current one: the first m go to the flushes of c, and
\* the one that is left, if any, is the new current batch.
Replaces(c, B, m) ==
  /\ todo[c] = <<>> /\ todo' = [todo EXCEPT ![c] = SubSeq(B, 1, m)]
  /\ batch' = (IF m = Len(B) THEN NoBatch ELSE B[Len(B)]) /\ working' = working
  /\ \A i, j \in 1..Len(B) : B[i] = B[j] => i = j
  /\ \A i \in 1..Len(B) : B[i].items # <<>> /\ B[i] \notin Carried

LEMMA MergedPlaces ==
  ASSUME PInv, NEW c \in Consumers, NEW B \in Seq(Bundle), Len(B) > 0, NEW m \in {Len(B) - 1, Len(B)},
         Replaces(c, B, m), Types'
  PROVE  Places' /\ Carried' = (Carried \ {batch}) \cup {B[i] : i \in 1..Len(B)}
<1>1. /\ c \in Threads /\ Len(B) \in Nat \ {0} /\ m \in Nat /\ Len(todo[c]) = 0
      /\ \A i \in 1..m : i \in 1..Len(B)
      /\ \A i \in 1..Len(B) : i \in 1..m \/ (m # Len(B) /\ i = Len(B))
      /\ m # Len(B) => Len(B) \notin 1..m
  BY DEF Threads, Replaces
<1>a. /\ \A i, j \in 1..Len(B) : B[i] = B[j] => i = j
      /\ \A i \in 1..Len(B) : B[i].items # <<>> /\ B[i] \notin Carried
      /\ working' = working
  BY Zenon DEF Replaces
<1>b. m # Len(B) => batch' = B[Len(B)]
  BY Zenon DEF Replaces
<1>2. Len(SubSeq(B, 1, m)) = m /\ \A i \in 1..m : SubSeq(B, 1, m)[i] = B[i]
  BY <1>1
<1>3. \A u \in Threads : todo'[u] = IF u = c THEN SubSeq(B, 1, m) ELSE todo[u]
  BY Zenon DEF PInv, Types, Replaces
<1>4. \A u \in Threads : \A i \in 1..Len(todo'[u]) :
        IF u = c THEN i \in 1..m /\ i \in 1..Len(B) /\ todo'[u][i] = B[i] ELSE i \in 1..Len(todo[u]) /\ todo'[u][i] = todo[u][i]
  <2>1. \A i \in 1..Len(todo'[c]) : i \in 1..m /\ i \in 1..Len(B) /\ todo'[c][i] = B[i]
    BY <1>1, <1>2, <1>3, Zenon
  <2> QED
    BY <1>3, <2>1, Zenon
<1>5. \A u \in Threads : \A i \in 1..Len(todo[u]) : u # c /\ i \in 1..Len(todo'[u]) /\ todo'[u][i] = todo[u][i]
  BY <1>1, <1>3
<1>6. \A i \in 1..m : i \in 1..Len(todo'[c]) /\ todo'[c][i] = B[i]
  BY <1>1, <1>2, <1>3, Zenon
<1>7. /\ \A u \in Threads : \A i \in 1..Len(todo[u]) : todo[u][i] \in Carried /\ todo[u][i] # batch
      /\ \A b \in working : b \in Carried /\ b # batch
  BY Carries, NoItems DEF PInv, Places
<1>8. batch' \notin Carried \ {batch} /\ (batch' = NoBatch \/ (m # Len(B) /\ batch' = B[Len(B)]))
  BY <1>1, <1>a DEF Carried, Replaces
<1>9. Places'
  <2>1. ASSUME NEW u \in Threads, NEW v \in Threads, NEW i \in 1..Len(todo'[u]), NEW j \in 1..Len(todo'[v]), todo'[u][i] = todo'[v][j]
        PROVE  u = v /\ i = j
    <3>1. CASE u = c /\ v = c
      BY <1>4, <1>a, <2>1, <3>1, Zenon
    <3>2. CASE u # c /\ v # c
      <4>1. /\ i \in 1..Len(todo[u]) /\ todo'[u][i] = todo[u][i]
            /\ j \in 1..Len(todo[v]) /\ todo'[v][j] = todo[v][j]
        BY <1>4, <3>2, Zenon
      <4> QED
        <5>1. todo[u][i] = todo[v][j]
          BY <2>1, <4>1, Zenon
        <5>2. \A t, w \in Threads : \A k \in 1..Len(todo[t]), l \in 1..Len(todo[w]) :
                todo[t][k] = todo[w][l] => t = w /\ k = l
          BY Zenon DEF PInv, Places
        <5> QED
          BY <4>1, <5>1, <5>2, ZenonT(40)
    <3>3. CASE u = c /\ v # c
      <4>1. i \in 1..Len(B) /\ todo'[u][i] = B[i] /\ j \in 1..Len(todo[v]) /\ todo'[v][j] = todo[v][j]
        BY <1>4, <3>3, Zenon
      <4> QED
        BY <1>7, <1>a, <2>1, <4>1, Zenon
    <3>4. CASE u # c /\ v = c
      <4>1. i \in 1..Len(todo[u]) /\ todo'[u][i] = todo[u][i] /\ j \in 1..Len(B) /\ todo'[v][j] = B[j]
        BY <1>4, <3>4, Zenon
      <4> QED
        BY <1>7, <1>a, <2>1, <4>1, Zenon
    <3> QED
      BY <3>1, <3>2, <3>3, <3>4, Zenon
  <2>2. ASSUME NEW u \in Threads, NEW i \in 1..Len(todo'[u])
        PROVE  todo'[u][i].items # <<>> /\ todo'[u][i] \notin working' /\ todo'[u][i] # batch'
    <3>1. CASE u = c
      <4>1. i \in 1..m /\ i \in 1..Len(B) /\ todo'[u][i] = B[i]
        BY <1>4, <3>1, Zenon
      <4>2. B[i] # batch'
        BY <1>1, <1>8, <1>a, <4>1, NoItems
      <4> QED
        BY <1>7, <1>a, <4>1, <4>2, Zenon
    <3>2. CASE u # c
      <4>1. i \in 1..Len(todo[u]) /\ todo'[u][i] = todo[u][i]
        BY <1>4, <3>2, Zenon
      <4>2. todo[u][i] # batch'
        BY <1>7, <1>8, <4>1, Zenon
      <4> QED
        BY <1>a, <4>1, <4>2, Zenon DEF PInv, Places
    <3> QED
      BY <3>1, <3>2, Zenon
  <2>3. \A b \in working' : b.items # <<>> /\ b # batch'
    BY <1>7, <1>8, <1>a DEF PInv, Places
  <2>4. batch'.items = <<>> => batch' = NoBatch
    BY <1>1, <1>8, <1>a
  <2> QED
    BY <2>1, <2>2, <2>3, <2>4, Zenon DEF Places
<1>10. ASSUME NEW b \in Carried' PROVE b \in (Carried \ {batch}) \cup {B[i] : i \in 1..Len(B)}
  <2>1. b # NoBatch /\ (b = batch' \/ b \in working' \/ \E u \in Threads : \E i \in 1..Len(todo'[u]) : b = todo'[u][i])
    <3>1. b \in Carried' <=>
            b # NoBatch /\ (b = batch' \/ b \in working' \/ \E u \in Threads : \E i \in 1..Len(todo'[u]) : b = todo'[u][i])
      BY CarriesPrimed, Zenon
    <3> QED
      BY <1>10, <3>1, Zenon
  <2>2. CASE b = batch'
    BY <1>1, <1>8, <2>1, <2>2
  <2>3. CASE b \in working'
    BY <1>7, <1>a, <2>3, Zenon
  <2>4. CASE \E u \in Threads : \E i \in 1..Len(todo'[u]) : b = todo'[u][i]
    <3>1. PICK u \in Threads : \E i \in 1..Len(todo'[u]) : b = todo'[u][i]
      BY <2>4, Zenon
    <3>2. PICK i \in 1..Len(todo'[u]) : b = todo'[u][i]
      BY <3>1, Zenon
    <3>3. CASE u = c
      BY <1>4, <3>2, <3>3, Zenon
    <3>4. CASE u # c
      BY <1>4, <1>7, <3>2, <3>4, Zenon
    <3> QED
      BY <3>3, <3>4, Zenon
  <2> QED
    BY <2>1, <2>2, <2>3, <2>4, Zenon
<1>11. ASSUME NEW b \in Carried, b # batch PROVE b \in Carried'
  <2>1. b # NoBatch /\ (b \in working \/ \E u \in Threads : \E i \in 1..Len(todo[u]) : b = todo[u][i])
    BY <1>11, Carries, Zenon DEF PInv
  <2>2. b \in working' \/ \E u \in Threads : \E i \in 1..Len(todo'[u]) : b = todo'[u][i]
    BY <1>5, <1>a, <2>1, Zenon
  <2> QED
    BY <2>1, <2>2, CarriesPrimed, Zenon
<1>12. ASSUME NEW i \in 1..Len(B) PROVE B[i] \in Carried'
  <2>1. B[i] # NoBatch
    BY <1>a, NoItems, Zenon
  <2>2. B[i] = batch' \/ \E k \in 1..Len(todo'[c]) : B[i] = todo'[c][k]
    BY <1>1, <1>6, <1>b, Zenon
  <2> QED
    BY <1>1, <2>1, <2>2, CarriesPrimed, Zenon
<1> QED
  BY <1>9, <1>10, <1>11, <1>12, Zenon

LEMMA ContentsItems ==
  ASSUME NEW r \in Reqs
  PROVE  /\ Contents(r) \in Seq(Item) /\ Len(Contents(r)) \in Nat \ {0}
         /\ Distinct(Contents(r)) /\ \A i \in 1..Len(Contents(r)) : Contents(r)[i][1] = r
<1>1. NumItems[r] \in Nat \ {0}
  BY BatchConfigOK, Zenon DEF BatchConfigOK
<1>2. /\ Contents(r) \in [1..NumItems[r] -> Item]
      /\ \A i \in 1..NumItems[r] : Contents(r)[i] = <<r, i>> /\ <<r, i>>[1] = r /\ <<r, i>>[2] = i
  BY <1>1 DEF Contents, Item
<1>3. Contents(r) \in Seq(Item) /\ Len(Contents(r)) = NumItems[r]
  BY <1>1, <1>2
<1>4. Distinct(Contents(r))
  BY <1>2, <1>3 DEF Distinct
<1> QED
  BY <1>1, <1>2, <1>3, <1>4, Zenon

LEMMA SetOf == ASSUME NEW s \in Seq(Item) PROVE Range(s) = {s[i] : i \in 1..Len(s)} /\ Range(s) \subseteq Item /\ Len(s) \in Nat
  BY DEF Range

\* A request that was not consumed is nowhere.
LEMMA Unseen ==
  ASSUME PInv, NEW r \in Reqs, rc[r] = 0, called[r] = 0
  PROVE  /\ Of(r) = {} /\ ~Consumed(r) /\ r \notin batch.dones
         /\ \A b \in Carried : \A x \in Range(b.items) : x[1] # r
         /\ \A x \in Range(batch.items) : x[1] # r
         /\ \A x \in sent \cup lost : x[1] # r
<1>1. Of(r) = {}
  BY FS_EmptySet, Zenon DEF PInv, Counted
<1>2. ~Consumed(r)
  BY DEF Consumed
<1>3. \A b \in Carried : r \notin b.dones
  BY <1>1, Zenon DEF Of
<1>4. \A b \in Carried : \A x \in Range(b.items) : x[1] # r
  BY <1>3, Zenon DEF PInv, Whole
<1>5. batch \in Carried \/ batch = NoBatch
  BY Carries, Zenon DEF PInv
<1>6. r \notin batch.dones /\ \A x \in Range(batch.items) : x[1] # r
  BY <1>3, <1>4, <1>5, NoItems, Zenon
<1>7. \A x \in sent \cup lost : x[1] # r
  BY <1>2, Zenon DEF PInv, Traced
<1> QED
  BY <1>1, <1>2, <1>4, <1>6, <1>7, Zenon

\* The items of the current batch and those of the request.
Joined(r) == batch.items \o Contents(r)

LEMMA MergedItems ==
  ASSUME PInv, NEW r \in Reqs, rc[r] = 0, called[r] = 0
  PROVE  /\ Joined(r) \in Seq(Item) /\ Joined(r) # <<>> /\ Distinct(Joined(r)) /\ Len(batch.items) \in Nat /\ Len(Joined(r)) > Len(batch.items)
         /\ \A i \in 1..Len(batch.items) : i \in 1..Len(Joined(r)) /\ Joined(r)[i] = batch.items[i] /\ Joined(r)[i] \in Range(batch.items)
         /\ \A i \in 1..Len(Joined(r)) : i > Len(batch.items) => Joined(r)[i][1] = r
         /\ Range(Joined(r)) = Range(batch.items) \cup Range(Contents(r))
<1> DEFINE a == batch.items
           d == Contents(r)
           s == Joined(r)
<1>1. a \in Seq(Item) /\ Distinct(a) /\ \A x \in Range(a) : x[1] # r
  <2>1. batch \in Carried \/ batch = NoBatch
    BY Carries, Zenon DEF PInv
  <2>2. Distinct(<<>>)
    BY DEF Distinct
  <2>3. Distinct(a)
    BY <2>1, <2>2, NoItems, Zenon DEF PInv, Whole
  <2> QED
    BY <2>3, Unseen, Zenon DEF PInv, Types, Bundle
<1>2. d \in Seq(Item) /\ Len(d) \in Nat \ {0} /\ Distinct(d) /\ \A i \in 1..Len(d) : d[i][1] = r
  BY ContentsItems, Zenon
<1>3. s = a \o d
  BY Zenon DEF Joined
<1> HIDE DEF a, d, s
<1>4. /\ s \in Seq(Item) /\ Len(s) = Len(a) + Len(d) /\ Len(a) \in Nat
      /\ \A i \in 1..Len(a) : i \in 1..Len(s) /\ s[i] = a[i]
      /\ \A i \in 1..Len(s) : i > Len(a) => i - Len(a) \in 1..Len(d) /\ s[i] = d[i - Len(a)]
      /\ \A i \in 1..Len(d) : i + Len(a) \in 1..Len(s) /\ s[i + Len(a)] = d[i]
  BY <1>1, <1>2, <1>3
<1>5. \A i \in 1..Len(a) : s[i] \in Range(a) /\ s[i][1] # r
  BY <1>1, <1>4, SetOf
<1>6. \A i \in 1..Len(s) : i > Len(a) => s[i][1] = r
  <2> SUFFICES ASSUME NEW i \in 1..Len(s), i > Len(a) PROVE s[i][1] = r
    OBVIOUS
  <2>1. i - Len(a) \in 1..Len(d) /\ s[i] = d[i - Len(a)]
    BY <1>4, Zenon
  <2> QED
    BY <1>2, <2>1, Zenon
<1>7. Distinct(s)
  <2> SUFFICES ASSUME NEW i \in 1..Len(s), NEW j \in 1..Len(s), s[i] = s[j] PROVE i = j
    BY Zenon DEF Distinct
  <2>1. CASE i \in 1..Len(a) /\ j \in 1..Len(a)
    BY <1>1, <1>4, <2>1 DEF Distinct
  <2>2. CASE i > Len(a) /\ j > Len(a)
    <3>1. i - Len(a) \in 1..Len(d) /\ j - Len(a) \in 1..Len(d) /\ d[i - Len(a)] = d[j - Len(a)]
      BY <1>4, <2>2, Zenon
    <3>2. i - Len(a) = j - Len(a)
      BY <1>2, <3>1, Zenon DEF Distinct
    <3> QED
      BY <1>4, <3>2
  <2>3. CASE (i \in 1..Len(a) /\ j > Len(a)) \/ (i > Len(a) /\ j \in 1..Len(a))
    BY <1>5, <1>6, <2>3, Zenon
  <2>4. \A k \in 1..Len(s) : k \in 1..Len(a) \/ k > Len(a)
    BY <1>4
  <2> QED
    BY <2>1, <2>2, <2>3, <2>4, Zenon
<1>8. Range(s) = Range(a) \cup Range(d)
  <2>1. \A i \in 1..Len(s) : i \in 1..Len(a) \/ i > Len(a)
    BY <1>4
  <2>2. /\ Range(s) = {s[i] : i \in 1..Len(s)} /\ Range(a) = {a[i] : i \in 1..Len(a)}
        /\ Range(d) = {d[i] : i \in 1..Len(d)}
    BY <1>1, <1>2, <1>4, SetOf, Zenon
  <2>3. \A i \in 1..Len(s) : s[i] \in Range(a) \cup Range(d)
    BY <1>4, <2>1, <2>2, Zenon
  <2>4. \A i \in 1..Len(a) : a[i] \in Range(s)
    BY <1>4, <2>2, Zenon
  <2>5. \A i \in 1..Len(d) : d[i] \in Range(s)
    BY <1>4, <2>2, Zenon
  <2> QED
    BY <2>2, <2>3, <2>4, <2>5, Zenon
<1>9. s # <<>> /\ Len(s) > Len(a)
  BY <1>2, <1>4
<1> QED
  BY <1>4, <1>5, <1>6, <1>7, <1>8, <1>9, Zenon DEF a, d, s

Kept(r) == Good(Joined(r))
Dropped(r) == {Joined(r)[i] : i \in Len(Kept(r))+1..Len(Joined(r))}
Split(r) == split(Kept(r))
Bundles(r) == [i \in 1..Len(Split(r)) |-> Batch(Split(r)[i], IF i = 1 THEN batch.dones \cup {r} ELSE {r})]
Stays(r) == Len(Split(r)) > 0 /\ Len(Split(r)[Len(Split(r))]) < MinSize

LEMMA ConsumeDoes ==
  ASSUME NEW c, NEW r, Consume(c, r)
  PROVE  /\ cons[c] = Idle /\ rc[r] = 0 /\ called[r] = 0
         /\ batch' = IF Split(r) = <<>> THEN batch ELSE IF Stays(r) THEN Bundles(r)[Len(Bundles(r))] ELSE NoBatch
         /\ todo' = [todo EXCEPT ![c] = IF Stays(r) THEN SubSeq(Bundles(r), 1, Len(Bundles(r)) - 1) ELSE Bundles(r)]
         /\ rc' = [rc EXCEPT ![r] = Len(Split(r))]
         /\ errd' = [errd EXCEPT ![r] = Len(Kept(r)) < Len(Joined(r))]
         /\ called' = [called EXCEPT ![r] = IF Split(r) = <<>> THEN 1 ELSE 0]
         /\ lost' = lost \cup Dropped(r) /\ sent' = sent /\ working' = working
         /\ cons' = [cons EXCEPT ![c] = [req |-> r, at |-> IF active THEN "flush" ELSE "late"]]
  BY Zenon DEF Consume, consumeInternal, numRefs, Joined, Kept, Dropped, Split, Bundles, Stays

\* MergeSplit keeps all of the current batch, and drops a suffix of the request.
LEMMA KeptItems ==
  ASSUME PInv, NEW r \in Reqs, rc[r] = 0, called[r] = 0
  PROVE  /\ Kept(r) \in Seq(Item) /\ Distinct(Kept(r))
         /\ Len(batch.items) \in Nat /\ Len(Kept(r)) \in Nat /\ Len(Joined(r)) \in Nat
         /\ Len(batch.items) <= Len(Kept(r)) /\ Len(Kept(r)) <= Len(Joined(r)) /\ Len(batch.items) < Len(Joined(r))
         /\ \A i \in 1..Len(batch.items) : i \in 1..Len(Kept(r)) /\ Kept(r)[i] = batch.items[i]
         /\ MaxSize # 0 => \A x \in Range(Kept(r)) : x \notin Oversize
         /\ Len(Kept(r)) < Len(Joined(r)) => MaxSize # 0
         /\ \A x \in Dropped(r) : x[1] = r /\ x \notin Range(Kept(r))
         /\ Len(Kept(r)) = Len(Joined(r)) => Dropped(r) = {}
         /\ Range(Kept(r)) \cup Dropped(r) = Range(batch.items) \cup Range(Contents(r))
<1> DEFINE s == Joined(r)
           g == Kept(r)
           k == Len(batch.items)
<1>1. /\ s \in Seq(Item) /\ Distinct(s) /\ k \in Nat /\ Len(s) > k
      /\ \A i \in 1..k : i \in 1..Len(s) /\ s[i] = batch.items[i] /\ s[i] \in Range(batch.items)
      /\ \A i \in 1..Len(s) : i > k => s[i][1] = r
      /\ Range(s) = Range(batch.items) \cup Range(Contents(r))
  BY MergedItems, Zenon
<1>2. Fits
  BY Zenon DEF PInv
<1>3. g = Good(s)
  BY Zenon DEF Kept
<1>4. Dropped(r) = {s[i] : i \in Len(g)+1..Len(s)}
  BY Zenon DEF Dropped
<1> HIDE DEF s, g, k
<1>5. PICK n \in 0..Len(s) : /\ g = SubSeq(s, 1, n) /\ (MaxSize # 0 => \A i \in 1..n : s[i] \notin Oversize)
                             /\ (n < Len(s) => MaxSize # 0 /\ s[n+1] \in Oversize)
  BY <1>1, <1>3, GoodPrefix, Zenon
<1>6. /\ g \in Seq(Item) /\ Len(g) = n /\ Len(s) \in Nat
      /\ \A i \in 1..n : i \in 1..Len(s) /\ g[i] = s[i]
  BY <1>1, <1>5
<1>7. k <= n
  <2> SUFFICES ASSUME n < k PROVE FALSE
    BY <1>1, <1>6
  <2>1. n + 1 \in 1..k /\ n < Len(s)
    BY <1>1, <1>6
  <2>2. MaxSize # 0 /\ s[n+1] \in Oversize /\ s[n+1] \in Range(batch.items)
    BY <1>1, <1>5, <2>1, Zenon
  <2> QED
    BY <1>2, <2>2, Zenon DEF Fits
<1>8. \A i \in 1..k : i \in 1..Len(g) /\ g[i] = batch.items[i]
  BY <1>1, <1>6, <1>7
<1>9. Range(g) = {g[i] : i \in 1..n} /\ Range(s) = {s[i] : i \in 1..Len(s)}
  BY <1>1, <1>6, SetOf, Zenon
<1>10. Distinct(g)
  BY <1>1, <1>6 DEF Distinct
<1>11. MaxSize # 0 => \A x \in Range(g) : x \notin Oversize
  BY <1>5, <1>6, <1>9, Zenon
<1>12. ASSUME NEW i \in Len(g)+1..Len(s) PROVE i \in 1..Len(s) /\ s[i][1] = r /\ s[i] \notin Range(g)
  <2>1. i \in 1..Len(s) /\ i > k /\ i \notin 1..n
    BY <1>1, <1>6, <1>7
  <2>2. \A j \in 1..n : g[j] # s[i]
    BY <1>1, <1>6, <2>1 DEF Distinct
  <2> QED
    BY <1>1, <1>9, <2>1, <2>2, Zenon
<1>13. Range(g) \cup Dropped(r) = Range(s)
  <2>1. \A i \in 1..Len(s) : i \in 1..n \/ i \in Len(g)+1..Len(s)
    BY <1>6
  <2> QED
    BY <1>4, <1>6, <1>9, <1>12, <2>1
<1>14. Len(g) = Len(s) => Dropped(r) = {}
  BY <1>4, <1>6
<1>15. k <= Len(g) /\ Len(g) <= Len(s) /\ k < Len(s) /\ Len(g) \in Nat /\ (Len(g) < Len(s) => MaxSize # 0)
  BY <1>1, <1>5, <1>6, <1>7
<1>16. \A x \in Dropped(r) : x[1] = r /\ x \notin Range(g)
  BY <1>4, <1>12, Zenon
<1>17. Range(g) \cup Dropped(r) = Range(batch.items) \cup Range(Contents(r)) /\ g \in Seq(Item) /\ Len(s) \in Nat /\ k \in Nat
  BY <1>1, <1>6, <1>13, Zenon
<1> QED
  BY <1>8, <1>10, <1>11, <1>14, <1>15, <1>16, <1>17, Zenon DEF s, g, k

\* The batches B take the place of the current one when r is merged into it, and the
\* items D of r are dropped.
MergedInto(r, B, D) ==
  /\ B \in Seq(Bundle) /\ Len(B) > 0
  /\ \A i \in 1..Len(B) : B[i].items # <<>> /\ Distinct(B[i].items)
  /\ \A i \in 1..Len(B) : B[i].dones = IF i = 1 THEN batch.dones \cup {r} ELSE {r}
  /\ \A i, j \in 1..Len(B) : \A x : x \in Range(B[i].items) /\ x \in Range(B[j].items) => i = j
  /\ \A x \in D : x[1] = r
  /\ \A i \in 1..Len(B) : \A x \in Range(B[i].items) :
       x \notin D /\ ((i = 1 /\ x \in Range(batch.items)) \/ x \in Range(Contents(r)))
  /\ \A x \in Range(batch.items) : \E i \in 1..Len(B) : x \in Range(B[i].items)
  /\ \A x \in Range(Contents(r)) : x \in D \/ \E i \in 1..Len(B) : x \in Range(B[i].items)

LEMMA MergedBundles ==
  ASSUME NEW r, NEW B, NEW D, MergedInto(r, B, D)
  PROVE  /\ B \in Seq(Bundle) /\ Len(B) \in Nat \ {0}
         /\ \A i \in 1..Len(B) : r \in B[i].dones /\ B[i].items # <<>>
  BY DEF MergedInto

LEMMA BundlesMerge ==
  ASSUME PInv, NEW r \in Reqs, rc[r] = 0, called[r] = 0, Kept(r) # <<>>
  PROVE  /\ MergedInto(r, Bundles(r), Dropped(r))
         /\ Split(r) # <<>> /\ Len(Split(r)) \in Nat \ {0} /\ Len(Bundles(r)) = Len(Split(r))
         /\ \A i \in 1..Len(Split(r)) : Bundles(r)[i].items = Split(r)[i] /\ Split(r)[i] \in Seq(Item)
         /\ MaxSize # 0 => \A i \in 1..Len(Split(r)) : \A x \in Range(Split(r)[i]) : x \notin Oversize
<1> DEFINE g == Kept(r)
           L == Split(r)
           B == Bundles(r)
           D == Dropped(r)
           old == Len(batch.items)
<1>1. /\ g \in Seq(Item) /\ Distinct(g) /\ old \in Nat /\ Len(g) \in Nat
      /\ \A i \in 1..old : i \in 1..Len(g) /\ g[i] = batch.items[i]
      /\ MaxSize # 0 => \A x \in Range(g) : x \notin Oversize
      /\ \A x \in D : x[1] = r /\ x \notin Range(g)
      /\ Range(g) \cup D = Range(batch.items) \cup Range(Contents(r))
  BY KeptItems, Zenon
<1>2. L = split(g)
  BY Zenon DEF Split
<1>3. B = [i \in 1..Len(L) |-> Batch(L[i], IF i = 1 THEN batch.dones \cup {r} ELSE {r})]
  BY Zenon DEF Bundles
<1>4. g # <<>>
  OBVIOUS
<1>5. batch.dones \in SUBSET Reqs /\ batch.items \in Seq(Item)
  BY Zenon DEF PInv, Types, Bundle
<1>6. MaxSize # 0 => old <= MaxSize
  BY Zenon DEF PInv, Fits
<1>7. \A x \in Range(batch.items) : x[1] # r
  BY Unseen, Zenon
<1> HIDE DEF g, L, B, D, old
<1>8. /\ L \in Seq(Seq(Item)) /\ Len(L) \in Nat \ {0}
      /\ \A i \in 1..Len(L) : L[i] \in Seq(Item) /\ L[i] # <<>> /\ Distinct(L[i]) /\ \A x \in Range(L[i]) : x \in Range(g)
      /\ \A i, j \in 1..Len(L) : \A x : x \in Range(L[i]) /\ x \in Range(L[j]) => i = j
      /\ \A x \in Range(g) : \E i \in 1..Len(L) : x \in Range(L[i])
      /\ \A j \in 1..Len(g) : MaxSize = 0 \/ j <= MaxSize => g[j] \in Range(L[1])
  <2>1. g \in Seq(Item) /\ g # <<>> /\ Distinct(g)
    BY <1>1, <1>4, Zenon
  <2>2. \A i \in 1..Len(L) : L[i] \in Seq(Item) /\ L[i] # <<>> /\ Distinct(L[i]) /\ \A x \in Range(L[i]) : x \in Range(g)
    BY <1>2, <2>1, SplitItems
  <2>3. /\ L \in Seq(Seq(Item)) /\ Len(L) \in Nat \ {0}
        /\ \A i, j \in 1..Len(L) : \A x : x \in Range(L[i]) /\ x \in Range(L[j]) => i = j
        /\ \A x \in Range(g) : \E i \in 1..Len(L) : x \in Range(L[i])
        /\ \A j \in 1..Len(g) : MaxSize = 0 \/ j <= MaxSize => g[j] \in Range(L[1])
    BY <1>2, <2>1, SplitItems, Zenon
  <2> QED
    BY <2>2, <2>3, Zenon
<1>9. /\ B \in Seq(Bundle) /\ Len(B) = Len(L)
      /\ \A i \in 1..Len(L) : B[i].items = L[i] /\ B[i].dones = IF i = 1 THEN batch.dones \cup {r} ELSE {r}
  <2>1. \A i \in 1..Len(L) : Batch(L[i], IF i = 1 THEN batch.dones \cup {r} ELSE {r}) \in Bundle
    BY <1>5, <1>8, Zenon DEF Batch, Bundle
  <2>2. B \in [1..Len(L) -> Bundle] /\ Len(L) \in Nat
    BY <1>3, <1>8, <2>1, Zenon
  <2>3. B \in Seq(Bundle) /\ Len(B) = Len(L)
    BY <2>2
  <2> QED
    BY <1>3, <2>3, Zenon DEF Batch
<1>10. ASSUME NEW x \in Range(batch.items) PROVE x \in Range(L[1]) /\ x \in Range(g)
  <2>1. PICK j \in 1..old : x = batch.items[j]
    BY <1>5, SetOf, Zenon DEF old
  <2>2. j \in 1..Len(g) /\ g[j] = x
    BY <1>1, <2>1, Zenon
  <2>3. j <= MaxSize \/ MaxSize = 0
    BY <1>1, <1>6, <2>1, Limits
  <2>4. x \in Range(g)
    BY <1>1, <2>2, SetOf, Zenon
  <2> QED
    BY <1>8, <2>2, <2>3, <2>4, Zenon
<1>11. 1 \in 1..Len(L)
  BY <1>8
<1>12. ASSUME NEW i \in 1..Len(L), NEW x \in Range(L[i])
       PROVE  x \notin D /\ ((i = 1 /\ x \in Range(batch.items)) \/ x \in Range(Contents(r)))
  <2>1. x \in Range(g)
    BY <1>8, Zenon
  <2>2. x \notin D
    BY <1>1, <2>1, Zenon
  <2>3. x \in Range(batch.items) => i = 1
    BY <1>8, <1>10, <1>11, <1>12, Zenon
  <2> QED
    BY <1>1, <2>1, <2>2, <2>3, Zenon
<1>13. \A x \in Range(Contents(r)) : x \in D \/ \E i \in 1..Len(L) : x \in Range(L[i])
  BY <1>1, <1>8, Zenon
<1>14. MergedInto(r, B, D)
  <2>1. \A i \in 1..Len(B) : B[i].items # <<>> /\ Distinct(B[i].items)
    BY <1>8, <1>9
  <2>2. \A i, j \in 1..Len(B) : \A x : x \in Range(B[i].items) /\ x \in Range(B[j].items) => i = j
    <3> SUFFICES ASSUME NEW i \in 1..Len(B), NEW j \in 1..Len(B), NEW x, x \in Range(B[i].items), x \in Range(B[j].items)
                 PROVE  i = j
      BY Zenon
    <3>1. x \in Range(L[i]) /\ x \in Range(L[j]) /\ i \in 1..Len(L) /\ j \in 1..Len(L)
      BY <1>9, Zenon
    <3> QED
      BY <1>8, <3>1, Zenon
  <2>3. \A i \in 1..Len(B) : \A x \in Range(B[i].items) :
          x \notin D /\ ((i = 1 /\ x \in Range(batch.items)) \/ x \in Range(Contents(r)))
    BY <1>9, <1>12, Zenon
  <2>4. \A x \in Range(batch.items) : \E i \in 1..Len(B) : x \in Range(B[i].items)
    BY <1>9, <1>10, <1>11, Zenon
  <2>5. \A x \in Range(Contents(r)) : x \in D \/ \E i \in 1..Len(B) : x \in Range(B[i].items)
    BY <1>9, <1>13
  <2>6. B \in Seq(Bundle) /\ Len(B) > 0 /\ \A x \in D : x[1] = r
    BY <1>1, <1>8, <1>9
  <2>7. \A i \in 1..Len(B) : B[i].dones = IF i = 1 THEN batch.dones \cup {r} ELSE {r}
    BY <1>9, Zenon
  <2> QED
    BY <2>1, <2>2, <2>3, <2>4, <2>5, <2>6, <2>7, Zenon DEF MergedInto
<1>15. MaxSize # 0 => \A i \in 1..Len(L) : \A x \in Range(L[i]) : x \notin Oversize
  BY <1>1, <1>8, Zenon
<1>16. L # <<>>
  BY <1>8, Zenon
<1> QED
  BY <1>8, <1>9, <1>14, <1>15, <1>16, Zenon DEF L, B, D

\* What the batches take over.
LEMMA MergedWhole ==
  ASSUME PInv, NEW r \in Reqs, rc[r] = 0, called[r] = 0, NEW B, NEW D, MergedInto(r, B, D),
         Carried' = (Carried \ {batch}) \cup {B[i] : i \in 1..Len(B)}, sent' = sent, lost' = lost \cup D
  PROVE  Whole'
<1>1. /\ \A x \in D : x[1] = r
      /\ \A i \in 1..Len(B) : Distinct(B[i].items)
      /\ \A i, j \in 1..Len(B) : \A x : x \in Range(B[i].items) /\ x \in Range(B[j].items) => i = j
      /\ \A i \in 1..Len(B) : \A x \in Range(B[i].items) :
           x \notin D /\ ((i = 1 /\ x \in Range(batch.items)) \/ x \in Range(Contents(r)))
  BY Zenon DEF MergedInto
<1>2. \A i \in 1..Len(B) : r \in B[i].dones /\ (i = 1 => \A q \in batch.dones : q \in B[i].dones)
  BY DEF MergedInto
<1>3. /\ \A b \in Carried : \A x \in Range(b.items) : x[1] # r
      /\ \A x \in Range(batch.items) : x[1] # r
      /\ \A x \in sent \cup lost : x[1] # r
  BY Unseen, Zenon
<1>4. \A x \in Range(Contents(r)) : x[1] = r
  BY ContentsItems, SetOf
<1>5. \A x \in Range(batch.items) : batch \in Carried
  <2>1. batch \in Carried \/ batch = NoBatch
    BY Carries, Zenon DEF PInv
  <2> QED
    BY <2>1, NoItems, Zenon
<1>6. /\ \A b \in Carried : Distinct(b.items)
      /\ \A a, b \in Carried : \A x \in Range(a.items) : x \in Range(b.items) => a = b
      /\ \A b \in Carried : \A x \in Range(b.items) : x[1] \in b.dones /\ x \notin sent /\ x \notin lost
      /\ sent \cap lost = {}
  BY Zenon DEF PInv, Whole
<1>7. \A b \in Carried' : (b \in Carried /\ b # batch) \/ \E i \in 1..Len(B) : b = B[i]
  OBVIOUS
<1>8. \A b \in Carried' : Distinct(b.items)
  BY <1>1, <1>6, <1>7, Zenon
<1>9. ASSUME NEW a \in Carried, a # batch, NEW i \in 1..Len(B), NEW x, x \in Range(a.items), x \in Range(B[i].items) PROVE FALSE
  BY <1>1, <1>3, <1>4, <1>5, <1>6, <1>9, Zenon
<1>10. ASSUME NEW a \in Carried', NEW b \in Carried', NEW x \in Range(a.items), x \in Range(b.items) PROVE a = b
  <2>1. CASE a \in Carried /\ a # batch
    <3>1. CASE b \in Carried /\ b # batch
      BY <1>6, <1>10, <2>1, <3>1, Zenon
    <3>2. CASE \E i \in 1..Len(B) : b = B[i]
      BY <1>9, <1>10, <2>1, <3>2, Zenon
    <3> QED
      BY <1>7, <3>1, <3>2, Zenon
  <2>2. CASE \E i \in 1..Len(B) : a = B[i]
    <3>1. CASE b \in Carried /\ b # batch
      BY <1>9, <1>10, <2>2, <3>1, Zenon
    <3>2. CASE \E i \in 1..Len(B) : b = B[i]
      BY <1>1, <1>10, <2>2, <3>2, Zenon
    <3> QED
      BY <1>7, <3>1, <3>2, Zenon
  <2> QED
    BY <1>7, <2>1, <2>2, Zenon
<1>11. ASSUME NEW b \in Carried', NEW x \in Range(b.items) PROVE x[1] \in b.dones /\ x \notin sent' /\ x \notin lost'
  <2>1. CASE b \in Carried /\ b # batch
    BY <1>1, <1>3, <1>6, <2>1, Zenon
  <2>2. CASE \E i \in 1..Len(B) : b = B[i]
    <3>1. PICK i \in 1..Len(B) : b = B[i]
      BY <2>2, Zenon
    <3>2. x \notin D /\ ((i = 1 /\ x \in Range(batch.items)) \/ x \in Range(Contents(r)))
      BY <1>1, <3>1, Zenon
    <3>3. CASE i = 1 /\ x \in Range(batch.items)
      <4>1. x[1] \in batch.dones /\ x \notin sent /\ x \notin lost
        BY <1>5, <1>6, <3>3, Zenon
      <4> QED
        BY <1>2, <3>1, <3>2, <3>3, <4>1, Zenon
    <3>4. CASE x \in Range(Contents(r))
      BY <1>2, <1>3, <1>4, <3>1, <3>2, <3>4, Zenon
    <3> QED
      BY <3>2, <3>3, <3>4, Zenon
  <2> QED
    BY <1>7, <2>1, <2>2, Zenon
<1>12. sent' \cap lost' = {}
  BY <1>1, <1>3, <1>6, Zenon
<1> QED
  BY <1>8, <1>10, <1>11, <1>12, Zenon DEF Whole

LEMMA MergedTraced ==
  ASSUME PInv, NEW r \in Reqs, rc[r] = 0, called[r] = 0, NEW B, NEW D, MergedInto(r, B, D),
         Carried' = (Carried \ {batch}) \cup {B[i] : i \in 1..Len(B)}, sent' = sent, lost' = lost \cup D,
         \A q \in Reqs : q # r => (Consumed(q)' <=> Consumed(q)) /\ errd'[q] = errd[q],
         Consumed(r)', ~errd'[r] => D = {}
  PROVE  Traced'
<1>1. /\ \A x \in D : x[1] = r
      /\ \A x \in Range(batch.items) : \E i \in 1..Len(B) : x \in Range(B[i].items)
      /\ \A x \in Range(Contents(r)) : x \in D \/ \E i \in 1..Len(B) : x \in Range(B[i].items)
  BY Zenon DEF MergedInto
<1>2. \A x \in sent \cup lost : x[1] # r
  BY Unseen, Zenon
<1>3. \A i \in 1..Len(B) : B[i] \in Carried'
  OBVIOUS
<1>4. \A b \in Carried : b # batch => b \in Carried'
  OBVIOUS
<1>5. ASSUME NEW x, NEW b \in Carried, x \in Range(b.items) PROVE \E a \in Carried' : x \in Range(a.items)
  BY <1>1, <1>3, <1>4, <1>5, Zenon
<1>6. ASSUME NEW q \in Reqs, q # r, Consumed(q), NEW x \in Range(Contents(q))
      PROVE  x \in sent' \/ x \in lost' \/ \E b \in Carried' : x \in Range(b.items)
  <2>1. x \in sent \/ x \in lost \/ \E b \in Carried : x \in Range(b.items)
    BY <1>6, Zenon DEF PInv, Traced
  <2> QED
    BY <1>5, <2>1, Zenon
<1>7. ASSUME NEW x \in Range(Contents(r)) PROVE x \in lost' \/ \E b \in Carried' : x \in Range(b.items)
  BY <1>1, <1>3, Zenon
<1>8. ASSUME NEW q \in Reqs, q # r, ~Consumed(q) PROVE \A x \in sent' \cup lost' : x[1] # q
  BY <1>1, <1>8, Zenon DEF PInv, Traced
<1>9. ASSUME NEW q \in Reqs, q # r, Consumed(q), ~errd[q] PROVE \A x \in lost' : x[1] # q
  BY <1>1, <1>9, Zenon DEF PInv, Traced
<1>10. ~errd'[r] => \A x \in lost' : x[1] # r
  BY <1>2, Zenon
<1> SUFFICES ASSUME NEW q \in Reqs
             PROVE  /\ Consumed(q)' => \A x \in Range(Contents(q)) :
                         x \in sent' \/ x \in lost' \/ \E b \in Carried' : x \in Range(b.items)
                    /\ ~Consumed(q)' => \A x \in sent' \cup lost' : x[1] # q
                    /\ Consumed(q)' /\ ~errd'[q] => \A x \in lost' : x[1] # q
  BY Zenon DEF Traced, Contents
<1>11. CASE q = r
  BY <1>7, <1>10, <1>11, Zenon
<1>12. CASE q # r
  BY <1>6, <1>8, <1>9, <1>12, Zenon
<1> QED
  BY <1>11, <1>12, Zenon

\* What is listed without a repetition is counted by the list.
LEMMA Listed ==
  ASSUME NEW T, NEW s \in Seq(T), Distinct(s) PROVE IsFiniteSet(Range(s)) /\ Cardinality(Range(s)) = Len(s)
<1>1. Len(s) \in Nat /\ DOMAIN s = 1..Len(s) /\ s \in [1..Len(s) -> Range(s)] /\ \A x \in Range(s) : \E i \in 1..Len(s) : s[i] = x
  BY DEF Range
<1>2. s \in Injection(1..Len(s), Range(s))
  BY <1>1, Zenon DEF Injection, IsInjective, Distinct
<1>3. s \in Surjection(1..Len(s), Range(s))
  BY <1>1, Zenon DEF Surjection
<1>4. ExistsBijection(1..Len(s), Range(s))
  BY <1>2, <1>3, Zenon DEF ExistsBijection, Bijection
<1>5. IsFiniteSet(1..Len(s))
  <2>1. 1 \in Int /\ Len(s) \in Int
    BY <1>1
  <2> QED
    BY <2>1, FS_Interval, Zenon
<1>6. IsFiniteSet(Range(s))
  BY <1>4, <1>5, FS_Bijection, Zenon
<1>7. Cardinality(Range(s)) = Len(s)
  BY <1>1, <1>4, FS_CountingElements, Zenon
<1> QED
  BY <1>6, <1>7, Zenon

LEMMA MergedCounted ==
  ASSUME PInv, NEW r \in Reqs, rc[r] = 0, called[r] = 0, NEW B, NEW D, MergedInto(r, B, D),
         Distinct(B), \A i \in 1..Len(B) : B[i] \notin Carried,
         Carried' = (Carried \ {batch}) \cup {B[i] : i \in 1..Len(B)},
         rc' = [rc EXCEPT ![r] = Len(B)], called' = [called EXCEPT ![r] = 0]
  PROVE  Counted'
<1>1. B \in Seq(Bundle) /\ Len(B) \in Nat \ {0} /\ 1 \in 1..Len(B)
  BY DEF MergedInto
<1>2. \A i \in 1..Len(B) : B[i].dones = IF i = 1 THEN batch.dones \cup {r} ELSE {r}
  BY Zenon DEF MergedInto
<1>3. Of(r) = {} /\ r \notin batch.dones
  BY Unseen, Zenon
<1>4. Of(r)' = {B[i] : i \in 1..Len(B)}
  <2>1. \A b \in Carried : r \notin b.dones
    BY <1>3, Zenon DEF Of
  <2> QED
    BY <1>2, <2>1 DEF Of
<1>5. IsFiniteSet(Of(r)') /\ Cardinality(Of(r)') = Len(B)
  <2>1. Of(r)' = Range(B)
    BY <1>1, <1>4 DEF Range
  <2> QED
    BY <1>1, <2>1, Listed, Zenon
<1>6. \A q \in Reqs : IsFiniteSet(Of(q)) /\ rc[q] = Cardinality(Of(q)) /\ called[q] \in {0, 1} /\ (rc[q] > 0 => called[q] = 0)
  BY Zenon DEF PInv, Counted
<1>7. ASSUME NEW q \in Reqs, q # r, q \notin batch.dones PROVE Of(q)' = Of(q)
  <2>1. \A i \in 1..Len(B) : q \notin B[i].dones
    BY <1>2, <1>7, Zenon
  <2> QED
    BY <1>7, <2>1, Zenon DEF Of
<1>8. ASSUME NEW q \in Reqs, q # r, q \in batch.dones PROVE IsFiniteSet(Of(q)') /\ Cardinality(Of(q)') = Cardinality(Of(q))
  <2>1. batch \in Carried
    <3>1. batch \in Carried \/ batch = NoBatch
      BY Carries, Zenon DEF PInv
    <3> QED
      BY <1>8, <3>1, NoItems, Zenon
  <2>2. batch \in Of(q)
    BY <1>8, <2>1, Zenon DEF Of
  <2>3. \A i \in 1..Len(B) : q \in B[i].dones <=> i = 1
    BY <1>2, <1>8, Zenon
  <2>4. Of(q)' = (Of(q) \ {batch}) \cup {B[1]} /\ B[1] \notin Of(q) \ {batch}
    BY <1>1, <2>3, Zenon DEF Of
  <2>5. /\ IsFiniteSet(Of(q) \ {batch}) /\ Cardinality(Of(q) \ {batch}) = Cardinality(Of(q)) - 1
        /\ Cardinality(Of(q)) \in Nat
    BY <1>6, <2>2, FS_RemoveElement, FS_CardinalityType, Zenon
  <2>6. /\ IsFiniteSet((Of(q) \ {batch}) \cup {B[1]})
        /\ Cardinality((Of(q) \ {batch}) \cup {B[1]}) = Cardinality(Of(q) \ {batch}) + 1
    BY <2>4, <2>5, FS_AddElement, Zenon
  <2> QED
    BY <2>4, <2>5, <2>6
<1>9. \A q \in Reqs : rc'[q] = (IF q = r THEN Len(B) ELSE rc[q]) /\ called'[q] = (IF q = r THEN 0 ELSE called[q])
  BY Zenon DEF PInv, Types
<1> SUFFICES ASSUME NEW q \in Reqs
             PROVE  /\ IsFiniteSet(Of(q)') /\ rc'[q] = Cardinality(Of(q)')
                    /\ called'[q] \in {0, 1} /\ (rc'[q] > 0 => called'[q] = 0)
  BY Zenon DEF Counted
<1>10. CASE q = r
  BY <1>5, <1>9, <1>10, Zenon
<1>11. CASE q # r
  BY <1>6, <1>7, <1>8, <1>9, <1>11, Zenon
<1> QED
  BY <1>10, <1>11, Zenon

LEMMA ConsumedTypes ==
  ASSUME PInv, NEW c \in Consumers, NEW r \in Reqs, NEW B \in Seq(Bundle), NEW m \in {Len(B) - 1, Len(B)}, Len(B) > 0,
         todo' = [todo EXCEPT ![c] = SubSeq(B, 1, m)], batch' \in Bundle, working' = working,
         rc' = [rc EXCEPT ![r] = Len(B)], errd' \in [Reqs -> BOOLEAN], called' = [called EXCEPT ![r] = 0],
         cons' = [cons EXCEPT ![c] = [req |-> r, at |-> IF active THEN "flush" ELSE "late"]]
  PROVE  Types' /\ Returned'
<1>1. SubSeq(B, 1, m) \in Seq(Bundle) /\ Len(B) \in Nat
  OBVIOUS
<1>2. todo' \in [Threads -> Seq(Bundle)]
  BY <1>1, Zenon DEF PInv, Types
<1>3. rc' \in [Reqs -> Nat] /\ called' \in [Reqs -> Nat]
  BY <1>1, Zenon DEF PInv, Types
<1>4. cons \in [Consumers -> [req : Reqs \cup {NoReq}, at : {"idle", "flush", "late"}]]
  BY Zenon DEF PInv, Types
<1>5. [req |-> r, at |-> IF active THEN "flush" ELSE "late"] \in [req : Reqs \cup {NoReq}, at : {"idle", "flush", "late"}]
  OBVIOUS
<1>6. cons' \in [Consumers -> [req : Reqs \cup {NoReq}, at : {"idle", "flush", "late"}]]
  BY <1>4, <1>5, Zenon
<1>7. Types'
  BY <1>2, <1>3, <1>6, Zenon DEF PInv, Types
<1>8. ASSUME NEW d \in Consumers, cons'[d] = Idle PROVE todo'[d] = <<>>
  <2>1. d # c
    <3>1. [req |-> r, at |-> IF active THEN "flush" ELSE "late"] # Idle
      BY BatchConfigOK, Zenon DEF BatchConfigOK, Idle
    <3> QED
      BY <1>4, <1>8, <3>1, Zenon
  <2>2. cons'[d] = cons[d] /\ todo'[d] = todo[d]
    BY <1>4, <2>1, Zenon DEF PInv, Types, Threads
  <2> QED
    BY <1>8, <2>2, Zenon DEF PInv, Returned
<1> QED
  BY <1>7, <1>8, Zenon DEF Returned

\* Something of the request is kept.
LEMMA consumeSome ==
  ASSUME PInv, NEW c \in Consumers, NEW r \in Reqs, Consume(c, r), Kept(r) # <<>>
  PROVE  PInv'
<1> DEFINE B == Bundles(r)
           L == Split(r)
           D == Dropped(r)
           m == IF Stays(r) THEN Len(B) - 1 ELSE Len(B)
<1>1. /\ cons[c] = Idle /\ rc[r] = 0 /\ called[r] = 0
      /\ batch' = IF L = <<>> THEN batch ELSE IF Stays(r) THEN B[Len(B)] ELSE NoBatch
      /\ todo' = [todo EXCEPT ![c] = IF Stays(r) THEN SubSeq(B, 1, Len(B) - 1) ELSE B]
      /\ rc' = [rc EXCEPT ![r] = Len(L)]
      /\ errd' = [errd EXCEPT ![r] = Len(Kept(r)) < Len(Joined(r))]
      /\ called' = [called EXCEPT ![r] = IF L = <<>> THEN 1 ELSE 0]
      /\ lost' = lost \cup D /\ sent' = sent /\ working' = working
      /\ cons' = [cons EXCEPT ![c] = [req |-> r, at |-> IF active THEN "flush" ELSE "late"]]
  <2>1. /\ cons[c] = Idle /\ rc[r] = 0 /\ called[r] = 0
        /\ rc' = [rc EXCEPT ![r] = Len(L)]
        /\ errd' = [errd EXCEPT ![r] = Len(Kept(r)) < Len(Joined(r))]
        /\ lost' = lost \cup D /\ sent' = sent /\ working' = working
        /\ cons' = [cons EXCEPT ![c] = [req |-> r, at |-> IF active THEN "flush" ELSE "late"]]
    BY ConsumeDoes
  <2>2. /\ batch' = IF L = <<>> THEN batch ELSE IF Stays(r) THEN B[Len(B)] ELSE NoBatch
        /\ called' = [called EXCEPT ![r] = IF L = <<>> THEN 1 ELSE 0]
    BY ConsumeDoes, Zenon
  <2>3. todo' = [todo EXCEPT ![c] = IF Stays(r) THEN SubSeq(B, 1, Len(B) - 1) ELSE B]
    BY ConsumeDoes
  <2> QED
    BY <2>1, <2>2, <2>3, Zenon
<1>2. /\ MergedInto(r, B, D) /\ L # <<>> /\ Len(L) \in Nat \ {0} /\ Len(B) = Len(L)
      /\ \A i \in 1..Len(L) : B[i].items = L[i] /\ L[i] \in Seq(Item)
      /\ MaxSize # 0 => \A i \in 1..Len(L) : \A x \in Range(L[i]) : x \notin Oversize
  <2>1. rc[r] = 0 /\ called[r] = 0
    BY <1>1, Zenon
  <2>2. /\ MergedInto(r, B, D) /\ Len(L) \in Nat \ {0} /\ Len(B) = Len(L)
        /\ \A i \in 1..Len(L) : B[i].items = L[i] /\ L[i] \in Seq(Item)
        /\ MaxSize # 0 => \A i \in 1..Len(L) : \A x \in Range(L[i]) : x \notin Oversize
    BY <2>1, BundlesMerge, Zenon
  <2> HIDE DEF B, L, D
  <2>3. L # <<>>
    BY <2>2
  <2> QED
    BY <2>2, <2>3, Zenon
<1>3. /\ Len(Kept(r)) \in Nat /\ Len(Joined(r)) \in Nat /\ Len(Kept(r)) <= Len(Joined(r))
      /\ Len(Kept(r)) = Len(Joined(r)) => D = {}
  BY <1>1, KeptItems, Zenon
<1>4. Stays(r) => Len(L[Len(L)]) < MinSize
  BY Zenon DEF Stays
<1> HIDE DEF B, L, D
<1>5. B \in Seq(Bundle) /\ Len(B) \in Nat \ {0} /\ m \in {Len(B) - 1, Len(B)} /\ (m = Len(B) <=> ~Stays(r))
  BY <1>2, MergedBundles
<1>6. SubSeq(B, 1, m) = IF Stays(r) THEN SubSeq(B, 1, Len(B) - 1) ELSE B
  BY <1>5
<1>7. batch' = IF m = Len(B) THEN NoBatch ELSE B[Len(B)]
  BY <1>1, <1>2, <1>5, Zenon
<1> HIDE DEF m
<1>8. todo' = [todo EXCEPT ![c] = SubSeq(B, 1, m)] /\ rc' = [rc EXCEPT ![r] = Len(B)] /\ called' = [called EXCEPT ![r] = 0]
  BY <1>1, <1>2, <1>6, Zenon
<1>9. todo[c] = <<>>
  BY <1>1, Zenon DEF PInv, Returned
<1>10. \A i \in 1..Len(B) : r \in B[i].dones /\ B[i].items # <<>>
  BY <1>2, MergedBundles, Zenon
<1>11. \A i \in 1..Len(B) : B[i] \notin Carried
  BY <1>1, <1>10, Unseen, Zenon DEF Of
<1>12. Distinct(B)
  <2>1. \A i \in 1..Len(B) : B[i].items \in Seq(Item)
    <3>1. \A i \in 1..Len(B) : B[i] \in Bundle
      BY <1>5
    <3> QED
      BY <3>1, Zenon DEF Bundle
  <2>2. \A i \in 1..Len(B) : \E x : x \in Range(B[i].items)
    <3> SUFFICES ASSUME NEW i \in 1..Len(B) PROVE \E x : x \in Range(B[i].items)
      OBVIOUS
    <3>1. B[i].items \in Seq(Item) /\ B[i].items # <<>>
      BY <1>10, <2>1, Zenon
    <3>2. 1 \in 1..Len(B[i].items)
      BY <3>1
    <3>3. B[i].items[1] \in Range(B[i].items)
      BY <3>1, <3>2 DEF Range
    <3> QED
      BY <3>3, Zenon
  <2> QED
    BY <1>2, <2>2, Zenon DEF MergedInto, Distinct
<1>13. Replaces(c, B, m)
  BY <1>1, <1>7, <1>8, <1>9, <1>10, <1>11, <1>12, Zenon DEF Replaces, Distinct
<1>14. Types' /\ Returned'
  <2>1. batch' \in Bundle
    BY <1>5, <1>7, NoItems
  <2>2. errd' \in [Reqs -> BOOLEAN]
    BY <1>1, <1>3 DEF PInv, Types
  <2> QED
    <3>1. /\ Len(B) > 0 /\ working' = working
          /\ cons' = [cons EXCEPT ![c] = [req |-> r, at |-> IF active THEN "flush" ELSE "late"]]
      BY <1>1, <1>5
    <3> QED
      BY <1>5, <1>8, <2>1, <2>2, <3>1, ConsumedTypes, Zenon
<1>15. Places' /\ Carried' = (Carried \ {batch}) \cup {B[i] : i \in 1..Len(B)}
  BY <1>5, <1>13, <1>14, MergedPlaces
<1>16. Fits'
  <2>1. CASE m = Len(B)
    BY <1>7, <2>1, NoItems, Limits DEF Fits
  <2>2. CASE m # Len(B)
    <3>1. batch' = B[Len(B)] /\ batch'.items = L[Len(L)] /\ Len(L) \in 1..Len(L) /\ L[Len(L)] \in Seq(Item)
      BY <1>2, <1>5, <1>7, <2>2
    <3>2. Len(L[Len(L)]) < MinSize /\ Len(L[Len(L)]) \in Nat
      BY <1>4, <1>5, <2>2, <3>1
    <3> QED
      BY <1>2, <3>1, <3>2, Limits DEF Fits
  <2> QED
    BY <2>1, <2>2, Zenon
<1>17. Whole'
  BY <1>1, <1>2, <1>15, MergedWhole, Zenon
<1>18. Traced'
  <2>1. \A q \in Reqs : q # r => rc'[q] = rc[q] /\ called'[q] = called[q] /\ errd'[q] = errd[q]
    BY <1>1, Zenon DEF PInv, Types
  <2>2. \A q \in Reqs : q # r => (Consumed(q)' <=> Consumed(q)) /\ errd'[q] = errd[q]
    BY <2>1, Zenon DEF Consumed
  <2>3. rc'[r] = Len(B) /\ errd'[r] = (Len(Kept(r)) < Len(Joined(r)))
    BY <1>1, <1>8, Zenon DEF PInv, Types
  <2>4. Consumed(r)'
    BY <1>5, <2>3 DEF Consumed
  <2>5. ~errd'[r] => ~(Len(Kept(r)) < Len(Joined(r)))
    BY <2>3, Zenon
  <2>6. ~errd'[r] => D = {}
    BY <1>3, <2>5
  <2> QED
    BY <1>1, <1>2, <1>15, <2>2, <2>4, <2>6, MergedTraced, Zenon
<1>19. Counted'
  BY <1>1, <1>2, <1>8, <1>11, <1>12, <1>15, MergedCounted, Zenon
<1> QED
  BY <1>14, <1>15, <1>16, <1>17, <1>18, <1>19, Zenon DEF PInv

\* Nothing of it is kept: the request is answered at once.
LEMMA consumeNone ==
  ASSUME PInv, NEW c \in Consumers, NEW r \in Reqs, Consume(c, r), Kept(r) = <<>>
  PROVE  PInv'
<1>1. /\ cons[c] = Idle /\ rc[r] = 0 /\ called[r] = 0
      /\ lost' = lost \cup Dropped(r) /\ sent' = sent /\ working' = working
      /\ errd' = [errd EXCEPT ![r] = Len(Kept(r)) < Len(Joined(r))]
      /\ rc' = [rc EXCEPT ![r] = Len(Split(r))]
      /\ cons' = [cons EXCEPT ![c] = [req |-> r, at |-> IF active THEN "flush" ELSE "late"]]
  BY ConsumeDoes
<1>2. /\ Len(Joined(r)) > 0 /\ Len(batch.items) = 0 /\ MaxSize # 0
      /\ \A x \in Dropped(r) : x[1] = r
      /\ \A x \in Range(Contents(r)) : x \in Dropped(r)
  <2>1. /\ Len(batch.items) \in Nat /\ Len(Kept(r)) \in Nat /\ Len(Joined(r)) \in Nat
        /\ Len(batch.items) <= Len(Kept(r)) /\ Len(Kept(r)) <= Len(Joined(r)) /\ Len(batch.items) < Len(Joined(r))
        /\ Len(Kept(r)) < Len(Joined(r)) => MaxSize # 0
        /\ \A x \in Dropped(r) : x[1] = r
        /\ Range(Kept(r)) \cup Dropped(r) = Range(batch.items) \cup Range(Contents(r))
    BY <1>1, KeptItems, Zenon
  <2>2. Len(Kept(r)) = 0 /\ Range(Kept(r)) = {}
    BY NoItems, Zenon
  <2> QED
    BY <2>1, <2>2
<1>3. batch = NoBatch
  BY <1>2 DEF PInv, Types, Bundle, Places
<1>4. Split(r) = <<>> /\ Len(Split(r)) = 0
  BY <1>2, SplitNothing DEF Split
<1>5. Bundles(r) = <<>> /\ ~Stays(r)
  BY <1>4 DEF Bundles, Stays
<1>6. /\ batch' = batch /\ called' = [called EXCEPT ![r] = 1] /\ todo' = [todo EXCEPT ![c] = <<>>]
  BY <1>4, <1>5, ConsumeDoes
<1>7. todo' = todo
  BY <1>1, <1>6, Zenon DEF PInv, Types, Returned, Threads
<1>8. rc' = rc
  BY <1>1, <1>4, Zenon DEF PInv, Types
<1>9. errd'[r] = TRUE
  <2>1. Len(Kept(r)) < Len(Joined(r))
    BY <1>2, Zenon
  <2> QED
    BY <1>1, <2>1, Zenon DEF PInv, Types
<1>10. \A q \in Reqs : q # r => errd'[q] = errd[q] /\ called'[q] = called[q]
  BY <1>1, <1>6, Zenon DEF PInv, Types
<1>11. called'[r] = 1 /\ called' \in [Reqs -> Nat]
  BY <1>6, Zenon DEF PInv, Types
<1>12. errd' \in [Reqs -> BOOLEAN]
  <2>1. (Len(Kept(r)) < Len(Joined(r))) \in BOOLEAN
    OBVIOUS
  <2> QED
    BY <1>1, <2>1, Zenon DEF PInv, Types
<1>13. cons \in [Consumers -> [req : Reqs \cup {NoReq}, at : {"idle", "flush", "late"}]]
  BY Zenon DEF PInv, Types
<1>14. [req |-> r, at |-> IF active THEN "flush" ELSE "late"] \in [req : Reqs \cup {NoReq}, at : {"idle", "flush", "late"}]
  OBVIOUS
<1>15. cons' \in [Consumers -> [req : Reqs \cup {NoReq}, at : {"idle", "flush", "late"}]]
  BY <1>1, <1>13, <1>14, Zenon
<1>16. Types'
  BY <1>1, <1>6, <1>7, <1>8, <1>11, <1>12, <1>15, Zenon DEF PInv, Types
<1>17. Returned'
  <2>1. \A d \in Consumers : d # c => cons'[d] = cons[d]
    BY <1>1, <1>13, Zenon
  <2>2. todo[c] = <<>>
    BY <1>1, Zenon DEF PInv, Returned
  <2> QED
    BY <1>7, <2>1, <2>2, Zenon DEF PInv, Returned
<1>18. Places' /\ Fits'
  <2>1. UNCHANGED <<batch, todo, working>>
    BY <1>1, <1>6, <1>7, Zenon
  <2> QED
    BY <2>1, SamePlaces, Zenon DEF PInv
<1>19. Carried' = Carried
  BY <1>1, <1>6, <1>7, Zenon DEF Carried, InHand
<1>20. /\ \A b \in Carried : \A x \in Range(b.items) : x[1] # r
       /\ \A x \in sent \cup lost : x[1] # r
  BY <1>1, Unseen, Zenon
<1>21. Whole'
  BY <1>1, <1>2, <1>19, <1>20, Zenon DEF PInv, Whole
<1>22. \A q \in Reqs : q # r => (Consumed(q)' <=> Consumed(q))
  BY <1>8, <1>10, Zenon DEF Consumed
<1>23. Consumed(r)'
  BY <1>11 DEF Consumed
<1>24. Traced'
  <2> SUFFICES ASSUME NEW q \in Reqs
               PROVE  /\ Consumed(q)' => \A x \in Range(Contents(q)) :
                           x \in sent' \/ x \in lost' \/ \E b \in Carried' : x \in Range(b.items)
                      /\ ~Consumed(q)' => \A x \in sent' \cup lost' : x[1] # q
                      /\ Consumed(q)' /\ ~errd'[q] => \A x \in lost' : x[1] # q
    BY Zenon DEF Traced, Contents
  <2>1. CASE q = r
    BY <1>1, <1>2, <1>9, <1>23, <2>1, Zenon
  <2>2. CASE q # r
    <3>1. /\ Consumed(q) => \A x \in Range(Contents(q)) :
               x \in sent \/ x \in lost \/ \E b \in Carried : x \in Range(b.items)
          /\ ~Consumed(q) => \A x \in sent \cup lost : x[1] # q
          /\ Consumed(q) /\ ~errd[q] => \A x \in lost : x[1] # q
      BY Zenon DEF PInv, Traced
    <3>2. (Consumed(q)' <=> Consumed(q)) /\ errd'[q] = errd[q]
      BY <1>10, <1>22, <2>2, Zenon
    <3>3. \A x \in lost' : x \in lost \/ x[1] = r
      BY <1>1, <1>2, Zenon
    <3> QED
      <4>1. sent' = sent /\ Carried' = Carried /\ \A x \in lost : x \in lost'
        BY <1>1, <1>19, Zenon
      <4>2. Consumed(q)' => \A x \in Range(Contents(q)) :
              x \in sent' \/ x \in lost' \/ \E b \in Carried' : x \in Range(b.items)
        BY <3>1, <3>2, <4>1, Zenon
      <4>3. /\ ~Consumed(q)' => \A x \in sent' \cup lost' : x[1] # q
            /\ Consumed(q)' /\ ~errd'[q] => \A x \in lost' : x[1] # q
        BY <2>2, <3>1, <3>2, <3>3, <4>1
      <4> QED
        BY <4>2, <4>3, Zenon
  <2> QED
    BY <2>1, <2>2, Zenon
<1>25. Counted'
  <2>1. \A q \in Reqs : Of(q)' = Of(q)
    BY <1>19, Zenon DEF Of
  <2> SUFFICES ASSUME NEW q \in Reqs
               PROVE  /\ IsFiniteSet(Of(q)) /\ rc[q] = Cardinality(Of(q))
                      /\ called'[q] \in {0, 1} /\ (rc[q] > 0 => called'[q] = 0)
    BY <1>8, <2>1, Zenon DEF Counted
  <2>2. /\ IsFiniteSet(Of(q)) /\ rc[q] = Cardinality(Of(q))
        /\ called[q] \in {0, 1} /\ (rc[q] > 0 => called[q] = 0)
    BY Zenon DEF PInv, Counted
  <2> QED
    BY <1>1, <1>10, <1>11, <2>2
<1> QED
  BY <1>16, <1>17, <1>18, <1>21, <1>24, <1>25, Zenon DEF PInv

LEMMA ConsumeP == ASSUME PInv, NEW c \in Consumers, NEW r \in Reqs, Consume(c, r) PROVE PInv'
  BY consumeSome, consumeNone, Zenon

-----------------------------------------------------------------------------
(* The theorems. *)

LEMMA IdleStepP ==
  ASSUME PInv, UNCHANGED <<batch, cons, todo, working, rc, errd, called, sent, lost>> PROVE PInv'
<1>1. cons' \in [Consumers -> [req : Reqs \cup {NoReq}, at : {"idle", "flush", "late"}]] /\ Returned'
  BY Zenon DEF PInv, Types, Returned
<1> QED
  BY <1>1, QuietP, Zenon

LEMMA PStep == PInv /\ [Next]_vars => PInv'
<1> SUFFICES ASSUME PInv, [Next]_vars PROVE PInv'
  OBVIOUS
<1>1. CASE \E c \in Consumers, r \in Reqs : Consume(c, r)
  BY <1>1, ConsumeP, Zenon
<1>2. ASSUME NEW t \in Threads, Step(t) PROVE PInv'
  <2>1. CASE flush(t)
    BY <2>1, flushP, Zenon
  <2>2. CASE t \in Consumers /\ (ConsumeLate(t) \/ ConsumeReturns(t))
    BY <2>2, ConsumeLateP, ConsumeReturnsP, Zenon
  <2>3. CASE TimerFires \/ ShutdownFlush
    BY <2>3, OthersFlushP, Zenon
  <2>4. CASE TimerExits \/ ShutdownReturns
    BY <2>4, IdleStepP, Zenon DEF TimerExits, ShutdownReturns
  <2> QED
    BY <1>2, <2>1, <2>2, <2>3, <2>4, Zenon DEF Step
<1>3. CASE Worker
  BY <1>3, exportP, Zenon DEF Worker
<1>4. CASE shutdownInternal
  BY <1>4, IdleStepP, Zenon DEF shutdownInternal
<1>5. CASE UNCHANGED vars
  BY <1>5, IdleStepP, Zenon DEF vars
<1> QED
  BY <1>1, <1>2, <1>3, <1>4, <1>5, Zenon DEF Next

\* The invariant: where the batches are, what is in them, and the references to them.
THEOREM PAlways == Spec => []PInv
  BY PInit, PStep, PTL DEF Spec

\* The queue is told that a request is finished once, when the last of the batches
\* that hold a part of it was exported, and never while one is on its way: whatever
\* the sizes, the number of consumers, workers and requests, and also when Shutdown
\* comes in between.
THEOREM DoneWhenFinishedAlways == Spec => []DoneWhenFinished
<1>1. PInv => DoneWhenFinished
  <2> SUFFICES ASSUME PInv, NEW r \in Reqs, Consumed(r)
               PROVE  /\ rc[r] = Cardinality({b \in InHand : r \in b.dones})
                      /\ called[r] = IF rc[r] = 0 THEN 1 ELSE 0
    BY Zenon DEF DoneWhenFinished
  <2>1. {b \in InHand : r \in b.dones} = Of(r)
    BY NoItems, Zenon DEF Of, Carried
  <2>2. rc[r] = Cardinality(Of(r)) /\ called[r] \in {0, 1} /\ (rc[r] > 0 => called[r] = 0) /\ rc[r] \in Nat
    BY Zenon DEF PInv, Types, Counted
  <2>3. rc[r] > 0 \/ called[r] > 0
    BY Zenon DEF Consumed
  <2>4. called[r] = IF rc[r] = 0 THEN 1 ELSE 0
    BY <2>2, <2>3
  <2> QED
    BY <2>1, <2>2, <2>4, Zenon
<1> QED
  BY <1>1, PAlways, PTL

\* A request that is reported as delivered had all its items exported: merging,
\* splitting, dropped items and failed exports never hide a loss.
THEOREM NoSilentLossAlways == Spec => []NoSilentLoss
<1>1. PInv => NoSilentLoss
  <2> SUFFICES ASSUME PInv, NEW r \in Reqs, called[r] = 1, ~errd[r], NEW x \in Range(Contents(r)) PROVE x \in sent
    BY Zenon DEF NoSilentLoss
  <2>1. Consumed(r)
    BY DEF Consumed
  <2>2. rc[r] = 0
    <3>1. rc[r] \in Nat /\ (rc[r] > 0 => called[r] = 0)
      BY Zenon DEF PInv, Types, Counted
    <3> QED
      BY <3>1
  <2>3. Of(r) = {}
    BY <2>2, FS_EmptySet, Zenon DEF PInv, Counted
  <2>4. x[1] = r
    BY ContentsItems, SetOf
  <2>5. \A b \in Carried : x \notin Range(b.items)
    BY <2>3, <2>4, Zenon DEF Of, PInv, Whole
  <2>6. x \notin lost
    BY <2>1, <2>4, Zenon DEF PInv, Traced
  <2> QED
    BY <2>1, <2>5, <2>6, Zenon DEF PInv, Traced
<1> QED
  BY <1>1, PAlways, PTL

\* Merging and splitting neither lose nor repeat an item.
THEOREM EachItemOnceAlways == Spec => []EachItemOnce
<1>1. PInv => EachItemOnce
  <2> SUFFICES ASSUME PInv PROVE EachItemOnce
    OBVIOUS
  <2>1. \A b \in InHand : b \in Carried \/ (b = NoBatch /\ b.items = <<>> /\ Range(b.items) = {})
    BY NoItems, Zenon DEF Carried
  <2>2. \A b \in Carried : b \in InHand
    BY Zenon DEF Carried
  <2>3. /\ \A b \in Carried : Distinct(b.items)
        /\ \A a, b \in Carried : \A x \in Range(a.items) : x \in Range(b.items) => a = b
        /\ \A b \in Carried : \A x \in Range(b.items) : x \notin sent /\ x \notin lost
        /\ sent \cap lost = {}
    BY Zenon DEF PInv, Whole
  <2>4. \A a, b \in InHand : Range(a.items) \cap Range(b.items) # {} => a = b
    BY <2>1, <2>3, Zenon
  <2>5. ASSUME NEW b \in InHand PROVE Cardinality(Range(b.items)) = Len(b.items)
    <3>1. CASE b \in Carried
      <4>1. b.items \in Seq(Item) /\ Distinct(b.items)
        BY <2>3, <3>1, CarriedHas, Zenon DEF PInv
      <4> QED
        BY <4>1, Listed, Zenon
    <3>2. CASE b.items = <<>> /\ Range(b.items) = {}
      BY <3>2, FS_EmptySet, Zenon
    <3> QED
      BY <2>1, <3>1, <3>2, Zenon
  <2>6. Pending \cap (sent \cup lost) = {}
    BY <2>1, <2>3, Zenon DEF Pending
  <2>7. ASSUME NEW r \in Reqs, Consumed(r), NEW x \in Range(Contents(r)) PROVE x \in Pending \cup sent \cup lost
    <3>1. x \in sent \/ x \in lost \/ \E b \in Carried : x \in Range(b.items)
      BY <2>7, Zenon DEF PInv, Traced
    <3> QED
      BY <2>2, <3>1, Zenon DEF Pending
  <2> QED
    BY <2>3, <2>4, <2>5, <2>6, <2>7, Zenon DEF EachItemOnce
<1> QED
  BY <1>1, PAlways, PTL
=============================================================================
