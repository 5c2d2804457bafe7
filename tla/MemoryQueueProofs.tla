------------------------- MODULE MemoryQueueProofs -------------------------
(***************************************************************************)
(* Proofs about the in-memory queue, for any requests, sizes, capacity,    *)
(* consumers and configurations.                                           *)
(***************************************************************************)
EXTENDS MemoryQueue, FiniteSetTheorems, FunctionTheorems, WellFoundedInduction, TLAPS

\* Types, as far as the proofs use them.
Types ==
  /\ cfg \in Configs /\ DOMAIN at = Threads
  /\ items \in Seq(Element) /\ flight \subseteq Element
  /\ DOMAIN offer = Reqs /\ DOMAIN result = Reqs /\ refs \in [Reqs -> Int]
  /\ cons \in [Consumers -> [at : {"awake", "waiting", "busy", "exited"}, req : Reqs \cup {NoOne}]]
  /\ mine \in [Reqs -> Slots \cup {NoOne}] /\ pool \subseteq Slots
  /\ bd \in [Slots -> [elSize : Nat, ch : Reqs \cup {NoOne}]]

Elements == Queued \cup flight
Pushed(r) == offer[r] \in {"awaiting", "accepted", "timeout"}

\* Only a caller in add waits for space, and only if the queue blocks on overflow.
Waits ==
  \A r \in Reqs : at[r] \in {"select", "got", "done", "recv"} => offer[r] = "adding" /\ cfg.blockOnOverflow

\* A request is queued once, and then in one consumer at most; its element is
\* queued or in flight, with the instance that add gave the caller.
Apart ==
  /\ \A i, j \in 1..Len(items) : items[i].req = items[j].req => i = j
  /\ \A e \in Elements : Pushed(e.req) /\ mine[e.req] = e.done
  /\ \A e \in Queued, f \in flight : e.req # f.req
Held ==
  /\ \A c \in Consumers : cons[c].at # "busy" => cons[c].req = NoOne
  /\ \A c \in Consumers : cons[c].at = "busy" =>
       /\ cons[c].req \in Reqs /\ Pushed(cons[c].req)
       /\ \A e \in Queued : e.req # cons[c].req
  /\ \A c, d \in Consumers : cons[c].at = "busy" /\ cons[d].at = "busy" /\ cons[c].req = cons[d].req => c = d

\* The instances of callers that wait, or gave up waiting, are theirs: not in the pool,
\* not another caller's, and empty or with their own result. While the element is
\* on its way the result is not there.
Expecting(r) == offer[r] \in {"awaiting", "timeout"}
Owned ==
  /\ ~cfg.waitForResult => \A r \in Reqs : ~Expecting(r)
  /\ cfg.waitForResult =>
       /\ \A d \in pool : bd[d].ch = NoOne
       /\ \A r \in Reqs : Expecting(r) => mine[r] \in Slots \ pool /\ bd[mine[r]].ch \in {NoOne, r}
       /\ \A r, s \in Reqs : Expecting(r) /\ Expecting(s) /\ mine[r] = mine[s] => r = s
       /\ \A e \in Elements : Expecting(e.req) /\ bd[e.done].ch = NoOne

\* A consumer goes only when nothing is queued after Shutdown; then only late requests come.
Drained ==
  \A c \in cfg.consumers : cons[c].at = "exited" => stopped /\ \A e \in Queued : e.req \in late

MInv == Types /\ Waits /\ Apart /\ Held /\ Owned /\ Drained /\ ResultMatches /\ RefsHeld

-----------------------------------------------------------------------------
(* The queue of items. *)

LEMMA Callers == Reqs \subseteq Threads /\ (\A r \in Reqs : Completer(r) \in Threads) /\ NoOne \notin Reqs
  BY QueueOK, Zenon DEF Threads

LEMMA AppendItems ==
  ASSUME items \in Seq(Element), NEW e \in Element, items' = Append(items, e)
  PROVE  /\ items' \in Seq(Element) /\ Queued' = Queued \cup {e}
         /\ (\A f \in Queued : f.req # e.req) /\ (\A i, j \in 1..Len(items) : items[i].req = items[j].req => i = j)
              => \A i, j \in 1..Len(items') : items'[i].req = items'[j].req => i = j
<1>1. /\ items' \in Seq(Element) /\ Len(items') = Len(items) + 1 /\ Len(items) \in Nat
      /\ items'[Len(items) + 1] = e
      /\ \A i \in 1..Len(items) : items'[i] = items[i]
  OBVIOUS
<1>2. Queued' = Queued \cup {e}
  <2>1. \A f \in Queued' : f \in Queued \cup {e}
    BY <1>1 DEF Queued
  <2>2. \A f \in Queued : f \in Queued'
    BY <1>1 DEF Queued
  <2>3. e \in Queued'
    <3>1. Len(items) + 1 \in 1..Len(items')
      BY <1>1
    <3> QED
      BY <1>1, <3>1, Zenon DEF Queued
  <2> QED
    BY <2>1, <2>2, <2>3, Zenon
<1>3. ASSUME \A f \in Queued : f.req # e.req, \A i, j \in 1..Len(items) : items[i].req = items[j].req => i = j,
             NEW i \in 1..Len(items'), NEW j \in 1..Len(items'), items'[i].req = items'[j].req
      PROVE  i = j
  <2>1. \A k \in 1..Len(items) : items[k].req # e.req
    BY <1>3, Zenon DEF Queued
  <2>2. CASE i \in 1..Len(items) /\ j \in 1..Len(items)
    BY <1>1, <1>3, <2>2, Zenon
  <2>3. CASE i = Len(items) + 1 \/ j = Len(items) + 1
    BY <1>1, <1>3, <2>1, <2>3
  <2> QED
    BY <1>1, <2>2, <2>3
<1> QED
  BY <1>1, <1>2, <1>3, Zenon

LEMMA TailItems ==
  ASSUME items \in Seq(Element), items # <<>>, items' = Tail(items),
         \A i, j \in 1..Len(items) : items[i].req = items[j].req => i = j
  PROVE  /\ items' \in Seq(Element) /\ Head(items) \in Queued /\ Queued' \subseteq Queued
         /\ \A e \in Queued' : e.req # Head(items).req
         /\ \A i, j \in 1..Len(items') : items'[i].req = items'[j].req => i = j
<1>1. /\ items' \in Seq(Element) /\ Len(items) \in Nat \ {0} /\ Len(items') = Len(items) - 1
      /\ Head(items) = items[1] /\ 1 \in 1..Len(items)
      /\ \A i \in 1..Len(items') : i + 1 \in 1..Len(items) /\ items'[i] = items[i + 1]
  OBVIOUS
<1>2. Head(items) \in Queued /\ Queued' \subseteq Queued
  BY <1>1 DEF Queued
<1>3. \A e \in Queued' : e.req # Head(items).req
  <2>1. \A i \in 1..Len(items') : i + 1 # 1
    BY <1>1
  <2> QED
    BY <1>1, <2>1 DEF Queued
<1>4. \A i, j \in 1..Len(items') : items'[i].req = items'[j].req => i = j
  <2> TAKE i, j \in 1..Len(items')
  <2>1. items'[i].req = items'[j].req => i + 1 = j + 1
    BY <1>1
  <2> QED
    BY <1>1, <2>1
<1> QED
  BY <1>1, <1>2, <1>3, <1>4, Zenon

\* Elements keep their requests and instances.
LEMMA ElementFields == \A e \in Element : e.req \in Reqs /\ e.done \in Slots /\ e = [req |-> e.req, done |-> e.done]
  BY DEF Element

LEMMA QueuedElements == items \in Seq(Element) => Queued \subseteq Element
  BY DEF Queued

-----------------------------------------------------------------------------
(* The steps that only concern the callers. *)

LEMMA MInit == Init => MInv
<1> SUFFICES ASSUME Init PROVE MInv
  OBVIOUS
<1>1. /\ cfg \in Configs /\ items = <<>> /\ flight = {} /\ Queued = {} /\ Elements = {}
      /\ \A r \in Reqs : at[r] = "out" /\ offer[r] = "new" /\ result[r] = NoOne /\ refs[r] = 0
      /\ \A c \in Consumers : cons[c].req = NoOne /\ cons[c].at \in {"awake", "exited"}
      /\ \A c \in cfg.consumers : cons[c].at = "awake"
  <2>1. \A f \in Configs : f.consumers \subseteq Consumers
    BY Zenon, QueueOK
  <2> QED
    BY <2>1, Callers DEF Init, Space!CondInit, Idle, Queued, Elements
<1>2. Types
  BY <1>1 DEF Init, Types, Idle, Space!CondInit
<1>3. Waits /\ Apart /\ Held /\ Drained /\ ResultMatches /\ RefsHeld
  BY <1>1, Callers DEF Waits, Apart, Held, Drained, ResultMatches, RefsHeld
<1>4. Owned
  BY <1>1, Zenon DEF Init, Owned, Expecting
<1> QED
  BY <1>2, <1>3, <1>4, Zenon DEF MInv

\* A step of the condition variable and of nothing else.
LEMMA SpaceOnly ==
  ASSUME MInv, UNCHANGED <<cfg, queue, offer, cons, flight, dones, refs, late>>,
         DOMAIN at' = Threads, Waits'
  PROVE  MInv'
<1>1. UNCHANGED <<cfg, items, size, stopped, offer, cons, flight, mine, pool, bd, result, refs, late>>
      /\ Queued' = Queued /\ Elements' = Elements
  BY Zenon DEF queue, dones, Queued, Elements
<1>2. Types' /\ Apart'
  BY <1>1, Zenon DEF MInv, Types, Apart, Pushed
<1>3. Held' /\ Drained' /\ ResultMatches' /\ RefsHeld'
  BY <1>1 DEF MInv, Held, Pushed, Drained, ResultMatches, RefsHeld
<1>4. Owned'
  BY <1>1, Zenon DEF MInv, Owned, Expecting
<1> QED
  BY <1>2, <1>3, <1>4, Zenon DEF MInv

\* A caller that has nothing pushed, before and after the step, takes or gives back its reference.
LEMMA CallerOnly ==
  ASSUME MInv, NEW r \in Reqs, UNCHANGED <<cfg, queue, cons, flight, dones, late>>,
         DOMAIN at' = Threads, Waits',
         ~Pushed(r), NEW how \in {"ignored", "failed", "adding"}, offer' = [offer EXCEPT ![r] = how],
         refs' = [refs EXCEPT ![r] = IF how = "adding" THEN 1 ELSE 0]
  PROVE  MInv'
<1>1. UNCHANGED <<cfg, items, size, stopped, cons, flight, mine, pool, bd, result, late>>
      /\ Queued' = Queued /\ Elements' = Elements
  BY Zenon DEF queue, dones, Queued, Elements
<1>2. /\ offer'[r] = how /\ refs'[r] = IF how = "adding" THEN 1 ELSE 0
      /\ \A s \in Reqs : s # r => offer'[s] = offer[s] /\ refs'[s] = refs[s]
      /\ DOMAIN offer' = Reqs /\ refs' \in [Reqs -> Int]
  BY DEF MInv, Types
<1>3. /\ \A s \in Reqs : (Pushed(s)' <=> Pushed(s)) /\ (Expecting(s)' <=> Expecting(s))
      /\ \A e \in Elements : e \in Element
  BY <1>2, QueuedElements, Zenon DEF Pushed, Expecting, MInv, Types, Elements
<1>4. Types'
  BY <1>1, <1>2, Zenon DEF MInv, Types
<1>5. Apart' /\ Held'
  BY <1>1, <1>3, ElementFields, Zenon DEF MInv, Apart, Held
<1>6. Owned'
  BY <1>1, <1>3, ElementFields DEF MInv, Owned
<1>7. Drained' /\ ResultMatches'
  BY <1>1, Zenon DEF MInv, Drained, ResultMatches
<1>8. RefsHeld'
  <2>1. /\ \A e \in Queued : e.req # r
        /\ \A c \in Consumers : cons[c].req # r
    BY Callers DEF MInv, Apart, Held, Elements
  <2> QED
    BY <1>1, <1>2, <2>1 DEF MInv, RefsHeld
<1> QED
  BY <1>4, <1>5, <1>6, <1>7, <1>8, Zenon DEF MInv

\* Who adds has one reference, and who is before it none.
LEMMA RefsOfCaller ==
  ASSUME MInv, NEW r \in Reqs, offer[r] \in {"new", "adding"}
  PROVE  ~Pushed(r) /\ refs[r] = IF offer[r] = "adding" THEN 1 ELSE 0
<1>1. /\ ~Pushed(r)
      /\ \A e \in Queued : e.req # r
      /\ \A c \in Consumers : cons[c].req # r
  BY Callers, Zenon DEF MInv, Apart, Held, Elements, Pushed
<1> QED
  BY <1>1, Zenon DEF MInv, RefsHeld

LEMMA OfferM ==
  ASSUME MInv, NEW r \in Reqs, Offer(r) PROVE MInv'
<1>1. offer[r] = "new" /\ ~Pushed(r) /\ refs[r] = 0
  BY RefsOfCaller, Zenon DEF Offer
<1>2. UNCHANGED <<cfg, queue, cons, flight, dones, late>> /\ at' = at /\ DOMAIN at' = Threads
  BY Zenon DEF Offer, space, MInv, Types
<1>3. PICK how \in {"ignored", "failed", "adding"} :
        /\ offer' = [offer EXCEPT ![r] = how]
        /\ refs' = [refs EXCEPT ![r] = IF how = "adding" THEN 1 ELSE 0]
  BY <1>1 DEF Offer, Return, MInv, Types
<1>4. Waits'
  BY <1>1, <1>2, <1>3, Zenon DEF MInv, Waits, Types
<1> QED
  BY Zenon, <1>1, <1>2, <1>3, <1>4, CallerOnly

LEMMA AddFullM ==
  ASSUME MInv, NEW r \in Reqs, AddFull(r) PROVE MInv'
<1>1. offer[r] = "adding" /\ ~Pushed(r) /\ refs[r] = 1 /\ at[r] \in {"out", "got"}
  BY RefsOfCaller, Zenon DEF AddFull, Adding
<1>2. UNCHANGED <<cfg, queue, cons, flight, dones, late>>
  BY Zenon DEF AddFull
<1>3. CASE cfg.blockOnOverflow
  <2>1. at' = [at EXCEPT ![r] = "select"] /\ UNCHANGED <<offer, refs>>
    BY <1>3, Zenon DEF AddFull, Space!Wait
  <2>2. DOMAIN at' = Threads /\ Waits'
    BY <1>1, <1>2, <1>3, <2>1 DEF MInv, Types, Waits
  <2> QED
    BY <1>2, <2>1, <2>2, SpaceOnly, Zenon
<1>4. CASE ~cfg.blockOnOverflow
  <2>1. /\ offer' = [offer EXCEPT ![r] = "failed"] /\ refs' = [refs EXCEPT ![r] = 0] /\ at' = at
    BY <1>1, <1>4 DEF AddFull, Return, Unref, space
  <2>2. at[r] = "out"
    BY <1>1, <1>4, Zenon DEF MInv, Waits
  <2>3. DOMAIN at' = Threads /\ Waits'
    BY <1>2, <2>1, <2>2, Zenon DEF MInv, Types, Waits
  <2> QED
    BY Zenon, <1>1, <1>2, <2>1, <2>3, CallerOnly
<1> QED
  BY <1>3, <1>4, Zenon

LEMMA AddWaitsM ==
  ASSUME MInv, NEW r \in Reqs, AddSignalled(r) \/ AddCtxDone(r) PROVE MInv'
<1>1. /\ UNCHANGED <<cfg, queue, offer, cons, flight, dones, refs, late>>
      /\ at[r] = "select" /\ (at' = [at EXCEPT ![r] = "got"] \/ at' = [at EXCEPT ![r] = "done"])
  BY Zenon DEF AddSignalled, AddCtxDone, Space!Receive, Space!CtxDone
<1>2. DOMAIN at' = Threads /\ Waits'
  BY <1>1, Callers DEF MInv, Types, Waits
<1> QED
  BY <1>1, <1>2, SpaceOnly, Zenon

LEMMA AddCancelledM ==
  ASSUME MInv, NEW r \in Reqs, AddCancelled(r) PROVE MInv'
<1>1. /\ UNCHANGED <<cfg, queue, cons, flight, dones, late>>
      /\ at[r] = "done" /\ \/ at' = [at EXCEPT ![r] = "out"]
                           \/ at' = [at EXCEPT ![r] = "recv"]
  BY Zenon DEF AddCancelled, Space!Cancelled
<1>2. offer[r] = "adding" /\ ~Pushed(r) /\ refs[r] = 1 /\ cfg.blockOnOverflow
  BY <1>1, RefsOfCaller, Zenon DEF MInv, Waits
<1>3. DOMAIN at' = Threads /\ (at'[r] = "out" \/ at'[r] = "recv") /\ \A s \in Reqs : s # r => at'[s] = at[s]
  BY <1>1, Callers, Zenon DEF MInv, Types
<1>4. CASE at'[r] = "out"
  <2>1. offer' = [offer EXCEPT ![r] = "failed"] /\ refs' = [refs EXCEPT ![r] = 0]
    BY <1>2, <1>4 DEF AddCancelled, Return, Unref
  <2>2. Waits'
    BY <1>1, <1>3, <1>4, <2>1, Zenon DEF MInv, Waits, Types
  <2> QED
    BY Zenon, <1>1, <1>2, <1>3, <2>1, <2>2, CallerOnly
<1>5. CASE at'[r] = "recv"
  <2>1. UNCHANGED <<offer, refs>>
    BY <1>5, Zenon DEF AddCancelled
  <2>2. Waits'
    BY <1>1, <1>2, <1>3, <2>1 DEF MInv, Waits
  <2> QED
    BY <1>1, <1>3, <2>1, <2>2, SpaceOnly, Zenon
<1> QED
  BY <1>3, <1>4, <1>5, Zenon

LEMMA AddM ==
  ASSUME MInv, NEW r \in Reqs, Add(r) PROVE MInv'
<1>1. /\ offer[r] = "adding" /\ ~Pushed(r) /\ refs[r] = 1
      /\ UNCHANGED <<cfg, stopped, flight, result, refs>>
      /\ late' = IF stopped THEN late \cup {r} ELSE late
      /\ at' = [at EXCEPT ![r] = "out"]
      /\ offer' = [offer EXCEPT ![r] = IF cfg.waitForResult THEN "awaiting" ELSE "accepted"]
  BY RefsOfCaller, Zenon DEF Add, Adding, Return
<1>2. PICK d \in pool :
        /\ pool' = pool \ {d} /\ mine' = [mine EXCEPT ![r] = d]
        /\ bd' = [bd EXCEPT ![d].elSize = SizeOf[r]]
        /\ items' = Append(items, [req |-> r, done |-> d])
  BY Zenon DEF Add, reset
<1> DEFINE e == [req |-> r, done |-> d]
<1>3. d \in Slots /\ e \in Element /\ e.req = r /\ e.done = d
  BY Zenon DEF MInv, Types, Element
<1> HIDE DEF e
<1>4. /\ \A f \in Elements : f \in Element /\ f.req \in Reqs /\ f.req # r
      /\ \A c \in Consumers : cons[c].req # r
  <2>1. \A f \in Elements : f \in Element /\ f.req \in Reqs
    BY QueuedElements, ElementFields, Zenon DEF MInv, Types, Elements
  <2>2. \A f \in Elements : f.req # r
    BY <1>1, Zenon DEF MInv, Apart
  <2>3. \A c \in Consumers : cons[c].req # r
    BY <1>1, Callers, Zenon DEF MInv, Held
  <2> QED
    BY <2>1, <2>2, <2>3, Zenon
<1>5. /\ items' \in Seq(Element) /\ Queued' = Queued \cup {e} /\ Elements' = Elements \cup {e}
      /\ \A i, j \in 1..Len(items') : items'[i].req = items'[j].req => i = j
  <2>1. items' = Append(items, e)
    BY <1>2, Zenon DEF e
  <2>2. \A f \in Queued : f.req # e.req
    BY <1>3, <1>4, Zenon DEF Elements
  <2> QED
    BY Zenon, <1>1, <1>3, <2>1, <2>2, AppendItems DEF MInv, Types, Apart, Elements
<1>6. /\ \A c \in Consumers : /\ cons'[c].req = cons[c].req
                              /\ cons'[c].at = cons[c].at \/ (cons[c].at = "waiting" /\ cons'[c].at = "awake")
      /\ cons' \in [Consumers -> [at : {"awake", "waiting", "busy", "exited"}, req : Reqs \cup {NoOne}]]
  <2>1. cons \in [Consumers -> [at : {"awake", "waiting", "busy", "exited"}, req : Reqs \cup {NoOne}]]
    BY Zenon DEF MInv, Types
  <2>2. CASE cons' = cons
    BY <2>1, <2>2, Zenon
  <2>3. CASE \E c \in Consumers : cons[c].at = "waiting" /\ cons' = [cons EXCEPT ![c].at = "awake"]
    BY <2>1, <2>3
  <2> QED
    BY <2>2, <2>3, Zenon DEF Add, SignalElements
<1>7. /\ offer'[r] = IF cfg.waitForResult THEN "awaiting" ELSE "accepted"
      /\ mine'[r] = d
      /\ \A s \in Reqs : s # r => offer'[s] = offer[s] /\ mine'[s] = mine[s]
      /\ \A s \in Reqs : Pushed(s) => Pushed(s)'
      /\ Pushed(r)'
  BY <1>1, <1>2, Zenon DEF MInv, Types, Pushed
<1>8. \A x \in Slots : bd'[x].ch = bd[x].ch
  BY <1>2, <1>3 DEF MInv, Types
<1>9. Types'
  <2>1. SizeOf[r] \in Nat
    BY Zenon, QueueOK DEF MInv, Types, SizeOf
  <2>2. bd' \in [Slots -> [elSize : Nat, ch : Reqs \cup {NoOne}]]
    BY Zenon, <1>2, <1>3, <2>1 DEF MInv, Types
  <2>3. DOMAIN at' = Threads /\ DOMAIN offer' = Reqs /\ mine' \in [Reqs -> Slots \cup {NoOne}] /\ pool' \subseteq Slots
    BY <1>1, <1>2, <1>3, Zenon DEF MInv, Types
  <2> QED
    BY <1>1, <1>5, <1>6, <2>2, <2>3, Zenon DEF MInv, Types
<1>10. Waits'
  BY <1>1, <1>7, Callers, Zenon DEF MInv, Waits, Types
<1>11. Apart'
  BY <1>1, <1>3, <1>4, <1>5, <1>7 DEF MInv, Apart, Elements
<1>12. Held'
  BY <1>3, <1>4, <1>5, <1>6, <1>7 DEF MInv, Held
<1>13. Owned'
  <2>1. CASE ~cfg.waitForResult
    BY <1>1, <1>7, <2>1 DEF MInv, Owned, Expecting
  <2>2. CASE cfg.waitForResult
    <3>1. /\ Expecting(r)' /\ bd[d].ch = NoOne
          /\ \A s \in Reqs : s # r => (Expecting(s)' <=> Expecting(s)) /\ (Expecting(s) => mine'[s] # d)
      BY <1>7, <2>2 DEF MInv, Owned, Expecting
    <3>2. \A s \in Reqs : Expecting(s)' => mine'[s] \in Slots \ pool' /\ bd'[mine'[s]].ch \in {NoOne, s}
      BY <1>2, <1>3, <1>7, <1>8, <2>2, <3>1 DEF MInv, Owned
    <3>3. \A s, t \in Reqs : Expecting(s)' /\ Expecting(t)' /\ mine'[s] = mine'[t] => s = t
      BY <1>7, <2>2, <3>1 DEF MInv, Owned
    <3>4. \A x \in pool' : bd'[x].ch = NoOne
      BY <1>2, <1>8, <2>2, Zenon DEF MInv, Owned, Types
    <3>5. \A f \in Elements' : Expecting(f.req)' /\ bd'[f.done].ch = NoOne
      <4>1. \A f \in Elements : f.done \in Slots
        BY <1>4, ElementFields, Zenon
      <4> QED
        BY <1>3, <1>4, <1>5, <1>8, <2>2, <3>1, <4>1, Zenon DEF MInv, Owned
    <3> QED
      BY <1>1, <2>2, <3>2, <3>3, <3>4, <3>5, Zenon DEF Owned
  <2> QED
    BY <2>1, <2>2, Zenon DEF MInv, Types
<1>14. Drained'
  <2>1. \A c \in cfg.consumers : c \in Consumers
    BY Zenon, QueueOK DEF MInv, Types
  <2> QED
    BY <1>1, <1>3, <1>5, <1>6, <2>1, Zenon DEF MInv, Drained
<1>15. ResultMatches'
  BY <1>1, Zenon DEF MInv, ResultMatches
<1>16. RefsHeld'
  BY <1>1, <1>3, <1>5, <1>6, <1>7 DEF MInv, RefsHeld
<1> QED
  BY <1>9, <1>10, <1>11, <1>12, <1>13, <1>14, <1>15, <1>16 DEF MInv

\* The elements that are queued or in flight.
LEMMA ElementsM ==
  MInv => \A e \in Elements : e \in Element /\ e.req \in Reqs /\ e.done \in Slots
  BY QueuedElements, ElementFields, Zenon DEF MInv, Types, Elements

LEMMA GetResultM ==
  ASSUME MInv, NEW r \in Reqs, GetResult(r) PROVE MInv'
<1> DEFINE d == mine[r]
<1>1. /\ offer[r] = "awaiting" /\ bd[d].ch # NoOne
      /\ result' = [result EXCEPT ![r] = bd[d].ch]
      /\ bd' = [bd EXCEPT ![d].ch = NoOne]
      /\ pool' = pool \cup {d}
      /\ offer' = [offer EXCEPT ![r] = "accepted"]
      /\ UNCHANGED <<cfg, at, items, stopped, cons, flight, mine, refs, late>>
      /\ Queued' = Queued /\ Elements' = Elements
  BY Zenon DEF GetResult, Return, space, queue, Queued, Elements
<1>2. Expecting(r) /\ cfg.waitForResult /\ d \in Slots \ pool /\ bd[d].ch = r
  BY <1>1, Zenon DEF Expecting, MInv, Owned
<1> HIDE DEF d
<1>3. /\ offer'[r] = "accepted" /\ result'[r] = r /\ bd'[d].ch = NoOne
      /\ \A s \in Reqs : s # r => offer'[s] = offer[s] /\ result'[s] = result[s]
      /\ \A x \in Slots : x # d => bd'[x] = bd[x]
  BY <1>1, <1>2, Zenon DEF MInv, Types
<1>4. /\ \A s \in Reqs : Pushed(s)' <=> Pushed(s)
      /\ \A s \in Reqs : Expecting(s)' <=> Expecting(s) /\ s # r
      /\ \A s \in Reqs : Expecting(s)' => mine[s] # d
      /\ \A e \in Elements : e.done # d
  <2>1. \A s \in Reqs : (Pushed(s)' <=> Pushed(s)) /\ (Expecting(s)' <=> Expecting(s) /\ s # r)
    BY <1>1, <1>3, Zenon DEF Pushed, Expecting
  <2>2. \A s \in Reqs : Expecting(s)' => mine[s] # d
    BY <1>2, <2>1, Zenon DEF MInv, Owned, d
  <2>3. \A e \in Elements : e.done # d
    BY <1>1, <1>2 DEF MInv, Owned
  <2> QED
    BY <2>1, <2>2, <2>3, Zenon
<1>5. Types'
  <2>1. bd' \in [Slots -> [elSize : Nat, ch : Reqs \cup {NoOne}]]
    BY Zenon, <1>1, <1>2 DEF MInv, Types
  <2>2. DOMAIN offer' = Reqs /\ DOMAIN result' = Reqs /\ pool' \subseteq Slots
    BY <1>1, <1>2, Zenon DEF MInv, Types
  <2> QED
    BY <1>1, <2>1, <2>2, Zenon DEF MInv, Types
<1>6. Waits' /\ Drained'
  BY <1>1, <1>3, Zenon DEF MInv, Waits, Drained
<1>7. Apart' /\ Held'
  BY <1>1, <1>4, ElementsM, Zenon DEF MInv, Apart, Held
<1>8. Owned'
  <2>1. \A s \in Reqs : Expecting(s)' => mine'[s] \in Slots \ pool' /\ bd'[mine'[s]].ch \in {NoOne, s}
    BY <1>1, <1>2, <1>3, <1>4 DEF MInv, Owned
  <2>2. \A s, t \in Reqs : Expecting(s)' /\ Expecting(t)' /\ mine'[s] = mine'[t] => s = t
    BY <1>1, <1>2, <1>4, Zenon DEF MInv, Owned
  <2>3. \A x \in pool' : bd'[x].ch = NoOne
    BY <1>1, <1>2, <1>3, Zenon DEF MInv, Owned, Types
  <2>4. \A e \in Elements' : Expecting(e.req)' /\ bd'[e.done].ch = NoOne
    <3>1. ASSUME NEW e \in Elements PROVE Expecting(e.req)' /\ bd'[e.done].ch = NoOne
      <4>1. e.req \in Reqs /\ e.done \in Slots /\ mine[e.req] = e.done /\ Expecting(e.req) /\ bd[e.done].ch = NoOne
        BY <1>2, ElementsM, Zenon DEF MInv, Apart, Owned
      <4>2. e.req # r
        BY <1>4, <4>1, Zenon DEF d
      <4> QED
        BY <1>3, <1>4, <4>1, <4>2, Zenon
    <3> QED
      BY <1>1, <3>1, Zenon
  <2> QED
    BY <1>1, <1>2, <2>1, <2>2, <2>3, <2>4, Zenon DEF Owned
<1>9. ResultMatches'
  BY <1>3, Zenon DEF MInv, ResultMatches
<1>10. RefsHeld'
  BY <1>1, <1>3 DEF MInv, RefsHeld
<1> QED
  BY <1>5, <1>6, <1>7, <1>8, <1>9, <1>10, Zenon DEF MInv

LEMMA GiveUpM ==
  ASSUME MInv, NEW r \in Reqs, GiveUp(r) PROVE MInv'
<1>1. /\ offer[r] = "awaiting" /\ offer' = [offer EXCEPT ![r] = "timeout"]
      /\ UNCHANGED <<cfg, at, items, stopped, cons, flight, mine, pool, bd, result, refs, late>>
      /\ Queued' = Queued /\ Elements' = Elements
  BY Zenon DEF GiveUp, Return, space, queue, dones, Queued, Elements
<1>2. /\ offer'[r] = "timeout" /\ DOMAIN offer' = Reqs
      /\ \A s \in Reqs : s # r => offer'[s] = offer[s]
  BY <1>1, Zenon DEF MInv, Types
<1>3. \A s \in Reqs : (Pushed(s)' <=> Pushed(s)) /\ (Expecting(s)' <=> Expecting(s))
  BY <1>1, <1>2, Zenon DEF Pushed, Expecting
<1>4. Types' /\ Waits' /\ Drained' /\ ResultMatches'
  BY <1>1, <1>2, Zenon DEF MInv, Types, Waits, Drained, ResultMatches
<1>5. Apart' /\ Held'
  BY <1>1, <1>3, ElementsM, Zenon DEF MInv, Apart, Held
<1>6. Owned'
  BY <1>1, <1>3, ElementsM, Zenon DEF MInv, Owned
<1>7. RefsHeld'
  BY <1>1, <1>2 DEF MInv, RefsHeld
<1> QED
  BY <1>4, <1>5, <1>6, <1>7, Zenon DEF MInv

-----------------------------------------------------------------------------
(* The consumers. *)

ConsType == [Consumers -> [at : {"awake", "waiting", "busy", "exited"}, req : Reqs \cup {NoOne}]]

LEMMA ReadPopM ==
  ASSUME MInv, NEW c \in Consumers, ReadPop(c) PROVE MInv'
<1> DEFINE e == Head(items)
<1>1. /\ cons[c].at = "awake" /\ items # <<>> /\ items' = Tail(items) /\ flight' = flight \cup {e}
      /\ cons' = [cons EXCEPT ![c] = [at |-> "busy", req |-> e.req]]
      /\ UNCHANGED <<cfg, at, stopped, offer, mine, pool, bd, result, refs, late>>
  BY Zenon DEF ReadPop, Reading, space, dones
<1>2. /\ items' \in Seq(Element) /\ e \in Queued /\ Queued' \subseteq Queued
      /\ \A f \in Queued' : f.req # e.req
      /\ \A i, j \in 1..Len(items') : items'[i].req = items'[j].req => i = j
  BY Zenon, <1>1, TailItems DEF MInv, Types, Apart
<1>3. \A f \in Queued : f \in Queued' \/ f = e
  <2> SUFFICES ASSUME NEW i \in 1..Len(items) PROVE items[i] \in Queued' \/ items[i] = e
    BY Zenon DEF Queued
  <2>1. items \in Seq(Element) /\ items # <<>> /\ items' = Tail(items)
    BY <1>1, Zenon DEF MInv, Types
  <2>2. CASE i = 1
    BY <2>1, <2>2
  <2>3. CASE i # 1
    <3>1. i - 1 \in 1..Len(items') /\ items'[i - 1] = items[i]
      BY <2>1, <2>3
    <3> QED
      BY <3>1, Zenon DEF Queued
  <2> QED
    BY <2>2, <2>3, Zenon
<1> HIDE DEF e
<1>4. e \in Elements /\ e \in Element /\ e.req \in Reqs /\ Elements' \subseteq Elements
  BY <1>1, <1>2, ElementsM, Zenon DEF Elements
<1>5. /\ cons'[c].at = "busy" /\ cons'[c].req = e.req /\ cons' \in ConsType
      /\ \A k \in Consumers : k # c => cons'[k] = cons[k]
      /\ cons[c].req = NoOne
  BY <1>1, <1>4, Zenon DEF MInv, Types, Held, ConsType
<1>6. Types'
  BY <1>1, <1>2, <1>4, <1>5, Zenon DEF MInv, Types, ConsType
<1>7. Waits' /\ ResultMatches'
  BY <1>1, Zenon DEF MInv, Waits, ResultMatches
<1>8. Apart'
  <2>1. \A f \in Queued', g \in flight' : f.req # g.req
    BY <1>1, <1>2 DEF MInv, Apart
  <2> QED
    BY <1>1, <1>2, <1>4, <2>1, Zenon DEF MInv, Apart, Pushed
<1>9. Held'
  <2>1. \A k \in Consumers : cons[k].at = "busy" => cons[k].req # e.req
    BY <1>2, Zenon DEF MInv, Held
  <2>2. Pushed(e.req)
    BY <1>4, Zenon DEF MInv, Apart
  <2>3. \A k \in Consumers : cons'[k].at = "busy" => cons'[k].req \in Reqs /\ Pushed(cons[k].req)'
    BY <1>1, <1>4, <1>5, <2>2, Zenon DEF MInv, Held, Pushed
  <2>4. \A k \in Consumers : cons'[k].at = "busy" => \A f \in Queued' : f.req # cons'[k].req
    BY <1>2, <1>5 DEF MInv, Held
  <2>5. \A j, k \in Consumers : cons'[j].at = "busy" /\ cons'[k].at = "busy" /\ cons'[j].req = cons'[k].req => j = k
    BY <1>5, <2>1 DEF MInv, Held
  <2>6. \A k \in Consumers : cons'[k].at # "busy" => cons'[k].req = NoOne
    BY <1>5, Zenon DEF MInv, Held
  <2> QED
    BY <2>3, <2>4, <2>5, <2>6, Zenon DEF Held
<1>10. Owned'
  BY <1>1, <1>4, Zenon DEF MInv, Owned, Expecting
<1>11. Drained'
  <2>1. cfg.consumers \subseteq Consumers
    BY Zenon, QueueOK DEF MInv, Types
  <2> QED
    BY <1>1, <1>2, <1>5, <2>1, Zenon DEF MInv, Drained
<1>12. RefsHeld'
  <2>1. ASSUME NEW r \in Reqs, r # e.req
        PROVE  /\ (\E f \in Queued' : f.req = r) <=> (\E f \in Queued : f.req = r)
               /\ (\E k \in Consumers : cons'[k].req = r) <=> (\E k \in Consumers : cons[k].req = r)
    BY <1>2, <1>3, <1>5, <2>1, Callers, Zenon
  <2>2. /\ \E f \in Queued : f.req = e.req
        /\ \E k \in Consumers : cons'[k].req = e.req
    BY <1>2, <1>5, Zenon
  <2> QED
    BY <1>1, <2>1, <2>2 DEF MInv, RefsHeld
<1> QED
  BY <1>6, <1>7, <1>8, <1>9, <1>10, <1>11, <1>12, Zenon DEF MInv

\* A step of consumers that hold nothing before and after it.
LEMMA IdleOnly ==
  ASSUME MInv, UNCHANGED <<cfg, at, items, offer, flight, mine, pool, bd, result, refs, late>>,
         cons' \in ConsType, stopped => stopped',
         \A c \in Consumers : /\ cons'[c].req = cons[c].req
                              /\ cons'[c].at = "busy" <=> cons[c].at = "busy"
                              /\ cons'[c].at = "exited" => cons[c].at = "exited" \/ (stopped /\ items = <<>>)
  PROVE  MInv'
<1>1. Queued' = Queued /\ Elements' = Elements
  BY Zenon DEF Queued, Elements
<1>2. Types' /\ Waits' /\ Apart' /\ ResultMatches'
  <2>1. Types'
    BY Zenon DEF MInv, Types, ConsType
  <2>2. Waits' /\ ResultMatches'
    BY Zenon DEF MInv, Waits, ResultMatches
  <2>3. Apart'
    BY <1>1, Zenon DEF MInv, Apart, Pushed
  <2> QED
    BY <2>1, <2>2, <2>3, Zenon
<1>3. Held' /\ RefsHeld'
  BY <1>1 DEF MInv, Held, Pushed, RefsHeld
<1>4. Owned'
  BY <1>1, Zenon DEF MInv, Owned, Expecting
<1>5. Drained'
  <2>1. cfg.consumers \subseteq Consumers
    BY Zenon, QueueOK DEF MInv, Types
  <2>2. items = <<>> => Queued = {}
    BY DEF Queued
  <2> QED
    BY <1>1, <2>1, <2>2, Zenon DEF MInv, Drained
<1> QED
  BY <1>2, <1>3, <1>4, <1>5, Zenon DEF MInv

LEMMA ReadEmptyM ==
  ASSUME MInv, NEW c \in Consumers, ReadEmpty(c) PROVE MInv'
<1>1. /\ cons[c].at = "awake" /\ items = <<>>
      /\ cons' = [cons EXCEPT ![c].at = IF stopped THEN "exited" ELSE "waiting"]
      /\ UNCHANGED <<cfg, at, items, stopped, offer, flight, mine, pool, bd, result, refs, late>>
  BY Zenon DEF ReadEmpty, Reading, space, queue, dones
<1>2. /\ cons' \in ConsType /\ cons'[c].req = cons[c].req /\ cons'[c].at = IF stopped THEN "exited" ELSE "waiting"
      /\ \A k \in Consumers : k # c => cons'[k] = cons[k]
  BY Zenon, <1>1 DEF MInv, Types, ConsType
<1>3. \A k \in Consumers : /\ cons'[k].req = cons[k].req
                           /\ cons'[k].at = "busy" <=> cons[k].at = "busy"
                           /\ cons'[k].at = "exited" => cons[k].at = "exited" \/ (stopped /\ items = <<>>)
  BY <1>1, <1>2
<1> QED
  BY <1>1, <1>2, <1>3, IdleOnly, Zenon

LEMMA ShutdownM ==
  ASSUME MInv, Shutdown PROVE MInv'
<1>1. /\ cons' = [c \in Consumers |-> IF cons[c].at = "waiting" THEN Idle ELSE cons[c]] /\ stopped'
      /\ UNCHANGED <<cfg, at, items, offer, flight, mine, pool, bd, result, refs, late>>
  BY Zenon DEF Shutdown, space, dones
<1>2. cons' \in ConsType
  BY <1>1, Zenon DEF MInv, Types, ConsType, Idle
<1>3. \A k \in Consumers : /\ cons'[k].req = cons[k].req
                           /\ cons'[k].at = "busy" <=> cons[k].at = "busy"
                           /\ cons'[k].at = "exited" => cons[k].at = "exited" \/ (stopped /\ items = <<>>)
  BY <1>1, Zenon DEF MInv, Held, Idle
<1> QED
  BY <1>1, <1>2, <1>3, IdleOnly, Zenon

LEMMA consumeFuncM ==
  ASSUME MInv, NEW c \in Consumers, consumeFunc(c) PROVE MInv'
<1> DEFINE r == cons[c].req
<1>1. /\ cons[c].at = "busy" /\ refs' = [refs EXCEPT ![r] = @ - 1] /\ cons' = [cons EXCEPT ![c] = Idle]
      /\ UNCHANGED <<cfg, at, items, stopped, offer, flight, mine, pool, bd, result, late>>
      /\ Queued' = Queued /\ Elements' = Elements
  BY Zenon DEF consumeFunc, Unref, space, queue, dones, Queued, Elements
<1>2. /\ r \in Reqs /\ Pushed(r) /\ \A e \in Queued : e.req # r
      /\ \A k \in Consumers : k # c => cons[k].req # r
  BY <1>1, Callers, Zenon DEF MInv, Held
<1>3. refs[r] = 1
  BY <1>1, <1>2, Zenon DEF MInv, RefsHeld
<1> HIDE DEF r
<1>4. /\ cons'[c].at = "awake" /\ cons'[c].req = NoOne /\ cons' \in ConsType
      /\ \A k \in Consumers : k # c => cons'[k] = cons[k]
      /\ refs'[r] = 0 /\ refs' \in [Reqs -> Int] /\ \A s \in Reqs : s # r => refs'[s] = refs[s]
  <2>1. cons \in ConsType /\ refs \in [Reqs -> Int]
    BY Zenon DEF MInv, Types, ConsType
  <2>2. /\ cons'[c].at = "awake" /\ cons'[c].req = NoOne /\ cons' \in ConsType
        /\ \A k \in Consumers : k # c => cons'[k] = cons[k]
    BY <1>1, <2>1, Zenon DEF ConsType, Idle
  <2>3. refs'[r] = 0 /\ refs' \in [Reqs -> Int] /\ \A s \in Reqs : s # r => refs'[s] = refs[s]
    BY <1>1, <1>2, <1>3, <2>1
  <2> QED
    BY <2>2, <2>3, Zenon
<1>5. Types' /\ Waits' /\ Apart' /\ ResultMatches'
  <2>1. Types'
    BY <1>1, <1>4, Zenon DEF MInv, Types, ConsType
  <2>2. Waits' /\ ResultMatches'
    BY <1>1, Zenon DEF MInv, Waits, ResultMatches
  <2>3. Apart'
    BY <1>1, Zenon DEF MInv, Apart, Pushed
  <2> QED
    BY <2>1, <2>2, <2>3, Zenon
<1>6. Held'
  BY <1>1, <1>4 DEF MInv, Held, Pushed
<1>7. Owned'
  BY <1>1, Zenon DEF MInv, Owned, Expecting
<1>8. Drained'
  <2>1. cfg.consumers \subseteq Consumers
    BY Zenon, QueueOK DEF MInv, Types
  <2> QED
    BY <1>1, <1>4, <2>1, Zenon DEF MInv, Drained
<1>9. RefsHeld'
  <2>1. offer[r] # "adding"
    BY <1>2, Zenon DEF Pushed
  <2>2. refs'[r] = IF \/ offer'[r] = "adding"
                      \/ \E e \in Queued' : e.req = r
                      \/ \E k \in Consumers : cons'[k].req = r
                   THEN 1 ELSE 0
    BY <1>1, <1>2, <1>4, <2>1, Callers
  <2>3. ASSUME NEW s \in Reqs, s # r
        PROVE  (\E k \in Consumers : cons'[k].req = s) <=> (\E k \in Consumers : cons[k].req = s)
    BY <1>2, <1>4, <2>3, Callers, Zenon DEF r
  <2> QED
    BY <1>1, <1>4, <2>2, <2>3 DEF MInv, RefsHeld
<1> QED
  BY <1>5, <1>6, <1>7, <1>8, <1>9, Zenon DEF MInv

-----------------------------------------------------------------------------
(* OnDone. *)

\* The element is finished: its instance gets the result or goes to the pool.
LEMMA FinishedM ==
  ASSUME MInv, NEW e \in flight, Finished(e), DOMAIN at' = Threads, Waits',
         UNCHANGED <<cfg, items, stopped, offer, cons, mine, result, refs, late>>
  PROVE  MInv'
<1>1. /\ flight' = flight \ {e} /\ Queued' = Queued /\ Elements' \subseteq Elements /\ e \in Elements
      /\ e \in Element /\ e.req \in Reqs /\ e.done \in Slots
  BY ElementsM, Zenon DEF Finished, Queued, Elements
<1>2. \A f \in Elements' : f.req # e.req
  <2>1. \A f \in flight : f.req = e.req => f = e
    <3>1. \A f \in flight : f \in Element /\ f \in Elements
      BY Zenon DEF MInv, Types, Elements
    <3>2. \A f \in flight : f = [req |-> f.req, done |-> f.done] /\ mine[f.req] = f.done
      BY <3>1, ElementFields, Zenon DEF MInv, Apart
    <3> QED
      BY <3>2, Zenon
  <2> QED
    BY <1>1, <2>1, Zenon DEF MInv, Apart, Elements
<1>3. Apart' /\ Held' /\ Drained' /\ ResultMatches' /\ RefsHeld'
  <2>1. Apart'
    BY <1>1, Zenon DEF MInv, Apart, Pushed
  <2>2. Held' /\ Drained'
    BY <1>1, Zenon DEF MInv, Held, Pushed, Drained
  <2> QED
    BY <1>1, <2>1, <2>2, Zenon DEF MInv, ResultMatches, RefsHeld
<1>4. CASE ~cfg.waitForResult
  <2>1. pool' = pool \cup {e.done} /\ bd' = bd
    BY <1>4, Zenon DEF Finished
  <2>2. Types'
    BY <1>1, <2>1, Zenon DEF MInv, Types
  <2>3. Owned'
    BY <1>4, Zenon DEF MInv, Owned, Expecting
  <2> QED
    BY <1>3, <2>2, <2>3, Zenon DEF MInv
<1>5. CASE cfg.waitForResult
  <2>1. bd[e.done].ch = NoOne /\ bd' = [bd EXCEPT ![e.done].ch = e.req] /\ pool' = pool
    BY <1>5, Zenon DEF Finished
  <2>2. /\ bd'[e.done].ch = e.req /\ bd' \in [Slots -> [elSize : Nat, ch : Reqs \cup {NoOne}]]
        /\ \A x \in Slots : x # e.done => bd'[x] = bd[x]
    <3>1. bd \in [Slots -> [elSize : Nat, ch : Reqs \cup {NoOne}]]
      BY Zenon DEF MInv, Types
    <3>2. ASSUME NEW d \in Slots, NEW r \in Reqs, bd' = [bd EXCEPT ![d].ch = r]
          PROVE  /\ bd'[d].ch = r /\ bd' \in [Slots -> [elSize : Nat, ch : Reqs \cup {NoOne}]]
                 /\ \A x \in Slots : x # d => bd'[x] = bd[x]
      BY <3>1, <3>2, Zenon
    <3> QED
      BY Zenon, <1>1, <2>1, <3>2
  <2>3. Types'
    BY <1>1, <2>1, <2>2, Zenon DEF MInv, Types
  <2>4. mine[e.req] = e.done /\ Expecting(e.req) /\ e.done \notin pool
    BY <1>1, <1>5, Zenon DEF MInv, Apart, Owned
  <2>5. Owned'
    <3>1. \A d \in pool' : bd'[d].ch = NoOne
      BY <1>5, <2>1, <2>2, <2>4 DEF MInv, Owned, Types
    <3>2. \A s \in Reqs : Expecting(s)' => mine'[s] \in Slots \ pool' /\ bd'[mine'[s]].ch \in {NoOne, s}
      <4> SUFFICES ASSUME NEW s \in Reqs, Expecting(s) PROVE mine[s] \in Slots \ pool /\ bd'[mine[s]].ch \in {NoOne, s}
        BY <2>1, Zenon DEF Expecting
      <4>1. mine[s] \in Slots \ pool /\ bd[mine[s]].ch \in {NoOne, s} /\ (mine[s] = e.done => s = e.req)
        BY <1>1, <1>5, <2>4, Zenon DEF MInv, Owned
      <4> QED
        BY <2>2, <4>1, Zenon
    <3>3. \A s, t \in Reqs : Expecting(s)' /\ Expecting(t)' /\ mine'[s] = mine'[t] => s = t
      BY <1>5, Zenon DEF MInv, Owned, Expecting
    <3>4. \A f \in Elements' : Expecting(f.req)' /\ bd'[f.done].ch = NoOne
      <4> SUFFICES ASSUME NEW f \in Elements' PROVE Expecting(f.req) /\ bd'[f.done].ch = NoOne
        BY Zenon DEF Expecting
      <4>1. /\ f.req \in Reqs /\ f.done \in Slots /\ mine[f.req] = f.done
            /\ Expecting(f.req) /\ bd[f.done].ch = NoOne /\ f.req # e.req
        BY <1>1, <1>2, <1>5, ElementsM, Zenon DEF MInv, Apart, Owned
      <4>2. f.done # e.done
        BY <1>1, <1>5, <2>4, <4>1, Zenon DEF MInv, Owned
      <4> QED
        BY <2>2, <4>1, <4>2, Zenon
    <3> QED
      BY <1>5, <3>1, <3>2, <3>3, <3>4, Zenon DEF Owned
  <2> QED
    BY <1>3, <2>3, <2>5, Zenon DEF MInv
<1> QED
  BY <1>4, <1>5, Zenon

LEMMA onDoneM ==
  ASSUME MInv, NEW e \in Element, onDone(e) PROVE MInv'
<1> DEFINE t == Completer(e.req)
<1>1. /\ e \in flight /\ at[t] = "out" /\ t \in Threads
      /\ at' = at \/ at' = [at EXCEPT ![t] = "send"]
      /\ UNCHANGED <<cfg, items, stopped, offer, cons, mine, result, refs, late>>
  BY ElementFields, Callers, Zenon DEF onDone, Space!Signal, Space!Send, Space!cond
<1> HIDE DEF t
<1>2. DOMAIN at' = Threads /\ Waits'
  BY <1>1, Callers, Zenon DEF MInv, Types, Waits
<1>3. CASE at'[t] = "send"
  <2>1. UNCHANGED <<flight, pool, bd>>
    BY <1>3, Zenon DEF onDone, t
  <2>2. Queued' = Queued /\ Elements' = Elements
    BY <1>1, <2>1, Zenon DEF Queued, Elements
  <2>3. Types' /\ Apart'
    BY <1>1, <1>2, <2>1, <2>2, Zenon DEF MInv, Types, Apart, Pushed
  <2>4. Held' /\ Drained' /\ ResultMatches' /\ RefsHeld'
    BY <1>1, <2>2, Zenon DEF MInv, Held, Pushed, Drained, ResultMatches, RefsHeld
  <2>5. Owned'
    BY <1>1, <2>1, <2>2, Zenon DEF MInv, Owned, Expecting
  <2> QED
    BY <1>2, <2>3, <2>4, <2>5, Zenon DEF MInv
<1>4. CASE at'[t] # "send"
  <2>1. Finished(e)
    BY <1>4, Zenon DEF onDone, t
  <2> QED
    BY <1>1, <1>2, <2>1, FinishedM, Zenon
<1> QED
  BY <1>3, <1>4, Zenon

LEMMA onDoneSentM ==
  ASSUME MInv, NEW e \in Element, onDoneSent(e) PROVE MInv'
<1> DEFINE t == Completer(e.req)
<1>1. /\ e \in flight /\ Finished(e) /\ t \in Threads /\ at' = [at EXCEPT ![t] = "out"]
      /\ UNCHANGED <<cfg, items, stopped, offer, cons, mine, result, refs, late>>
  BY ElementFields, Callers, Zenon DEF onDoneSent, Space!Sent, queue
<1> HIDE DEF t
<1>2. DOMAIN at' = Threads /\ Waits'
  BY <1>1, Callers, Zenon DEF MInv, Types, Waits
<1> QED
  BY <1>1, <1>2, FinishedM, Zenon

-----------------------------------------------------------------------------
(* The theorems. *)

\* Every step keeps MInv.
LEMMA MStep == MInv /\ [Next]_vars => MInv'
<1> SUFFICES ASSUME MInv, [Next]_vars PROVE MInv'
  OBVIOUS
<1>1. ASSUME NEW r \in Reqs, Caller(r) \/ AddCtxDone(r) \/ GiveUp(r) PROVE MInv'
  BY <1>1, OfferM, AddFullM, AddM, AddWaitsM, AddCancelledM, GetResultM, GiveUpM, Zenon DEF Caller
<1>2. ASSUME NEW r \in Reqs, Completion(r) PROVE MInv'
  <2>1. PICK d \in Slots : onDone([req |-> r, done |-> d]) \/ onDoneSent([req |-> r, done |-> d])
    BY <1>2, Zenon DEF Completion
  <2>2. [req |-> r, done |-> d] \in Element
    BY Zenon DEF Element
  <2> QED
    BY <2>1, <2>2, onDoneM, onDoneSentM, Zenon
<1>3. ASSUME NEW c \in Consumers, Consumer(c) PROVE MInv'
  BY <1>3, ReadPopM, ReadEmptyM, consumeFuncM, Zenon DEF Consumer
<1>4. CASE UNCHANGED vars
  <2>1. UNCHANGED <<cfg, queue, offer, cons, flight, dones, refs, late>> /\ at' = at
    BY <1>4, Zenon DEF vars, space
  <2> QED
    BY <2>1, SpaceOnly, Zenon DEF MInv, Types, Waits
<1> QED
  BY <1>1, <1>2, <1>3, <1>4, ShutdownM, Zenon DEF Next

\* MInv holds of every in-memory queue.
THEOREM MInvAlways == Spec => []MInv
<1>1. Init => MInv
  BY MInit, Zenon
<1>2. MInv /\ [Next]_vars => MInv'
  BY MStep, Zenon
<1> QED
  BY <1>1, <1>2, PTL DEF Spec

\* With wait_for_result a caller gets the result of its own request and never that of
\* another one, although blockingDone instances are pooled and callers give up on them.
THEOREM ResultMatchesAlways == Spec => []ResultMatches
<1>1. MInv => ResultMatches
  BY Zenon DEF MInv
<1> QED
  BY <1>1, MInvAlways, PTL

\* The queue holds one reference on the data of a request exactly from before it is
\* pushed until the consumer function has returned, and none after an error.
THEOREM RefsHeldAlways == Spec => []RefsHeld
<1>1. MInv => RefsHeld
  BY Zenon DEF MInv
<1> QED
  BY <1>1, MInvAlways, PTL

\* The consumers of asyncQueue leave nothing behind that was accepted before Shutdown.
THEOREM DrainsBeforeStopAlways == Spec => []DrainsBeforeStop
<1>1. MInv => DrainsBeforeStop
  <2> SUFFICES ASSUME MInv, Exited PROVE \A e \in Queued : e.req \in late
    BY Zenon DEF DrainsBeforeStop
  <2>1. PICK c \in cfg.consumers : c \in Consumers
    BY Zenon, QueueOK DEF MInv, Types
  <2> QED
    BY <2>1, Zenon DEF MInv, Drained, Exited
<1> QED
  BY <1>1, MInvAlways, PTL

-----------------------------------------------------------------------------
(* The total of a finite set of elements, from the fold that SizeExact uses. *)

\* The fold is the function that takes the chosen element out first.
Pick(s) == CHOOSE x \in s : TRUE
Total(z, S) == MapThenSumSet(LAMBDA e : z[e.req], S)
Sums(z, D, h) ==
  h = [s \in D |-> IF s = {} THEN 0 ELSE z[Pick(s).req] + h[s \ {Pick(s)}]]

LEMMA Picked == ASSUME NEW s, s # {} PROVE Pick(s) \in s
  BY Zenon DEF Pick

LEMMA TotalIs ==
  ASSUME NEW z, NEW S, \E h : Sums(z, SUBSET S, h)
  PROVE  \E h : Sums(z, SUBSET S, h) /\ Total(z, S) = h[S]
<1> DEFINE it == CHOOSE h : Sums(z, SUBSET S, h)
<1>1. Sums(z, SUBSET S, it)
  BY Zenon
<1>2. Total(z, S) = it[S]
  BY Zenon DEF Total, MapThenSumSet, MapThenFoldSet, Sums, Pick
<1> QED
  BY <1>1, <1>2, Zenon

\* Natural numbers have a least one; so finite sets have a smallest one.
LEMMA LeastNat ==
  ASSUME NEW T, T \subseteq Nat, T # {} PROVE \E x \in T : \A y \in T : x <= y
<1>1. IsWellFoundedOn(OpToRel(<, Nat), Nat)
  BY NatLessThanWellFounded, Zenon
<1>2. PICK x \in T : \A y \in T : ~(<<y, x>> \in OpToRel(<, Nat))
  BY <1>1, WFMin, Zenon
<1>3. \A y \in T : ~(y < x)
  BY <1>2, Zenon DEF OpToRel
<1> QED
  BY <1>3

LEMMA SmallestSet ==
  ASSUME NEW S, IsFiniteSet(S), NEW B, \A s \in B : s \subseteq S, B # {}
  PROVE  \E s \in B : IsFiniteSet(s) /\ \A x \in s : s \ {x} \notin B
<1> DEFINE T == {Cardinality(s) : s \in B}
<1>1. \A s \in B : IsFiniteSet(s) /\ Cardinality(s) \in Nat
  BY FS_Subset, FS_CardinalityType, Zenon
<1>2. PICK n \in T : \A k \in T : n <= k
  BY <1>1, LeastNat, Zenon
<1>3. PICK s \in B : n = Cardinality(s)
  BY <1>2, Zenon
<1>4. ASSUME NEW x \in s, s \ {x} \in B PROVE FALSE
  <2>1. Cardinality(s \ {x}) = Cardinality(s) - 1
    BY <1>1, <1>3, FS_RemoveElement, Zenon
  <2>2. n <= Cardinality(s \ {x})
    BY <1>2, <1>4, Zenon
  <2> QED
    BY <1>1, <1>3, <2>1, <2>2
<1> QED
  BY <1>1, <1>3, <1>4, Zenon

\* The sum over the subsets of S with at most n elements, from one over those with n - 1.
UpTo(S, n) == {s \in SUBSET S : Cardinality(s) <= n}

LEMMA SumsOne ==
  ASSUME NEW z, NEW S, IsFiniteSet(S), NEW n \in Nat, n # 0, NEW g, Sums(z, UpTo(S, n - 1), g)
  PROVE  \E h : Sums(z, UpTo(S, n), h)
<1> DEFINE h == [s \in UpTo(S, n) |-> IF s = {} THEN 0 ELSE z[Pick(s).req] + g[s \ {Pick(s)}]]
<1>1. \A s \in UpTo(S, n) : s # {} => s \ {Pick(s)} \in UpTo(S, n - 1)
  <2> SUFFICES ASSUME NEW s \in UpTo(S, n), s # {} PROVE s \ {Pick(s)} \in UpTo(S, n - 1)
    OBVIOUS
  <2>1. IsFiniteSet(s) /\ Cardinality(s) \in Nat /\ Cardinality(s) <= n /\ s \subseteq S
    BY FS_Subset, FS_CardinalityType, Zenon DEF UpTo
  <2>2. Cardinality(s \ {Pick(s)}) = Cardinality(s) - 1
    BY <2>1, Picked, FS_RemoveElement, Zenon
  <2> QED
    BY <2>1, <2>2 DEF UpTo
<1>2. \A s \in UpTo(S, n - 1) : s \in UpTo(S, n)
  <2>1. \A s \in SUBSET S : Cardinality(s) \in Nat
    BY FS_Subset, FS_CardinalityType, Zenon
  <2> QED
    BY <2>1 DEF UpTo
<1>3. \A s \in UpTo(S, n - 1) : h[s] = g[s]
  <2>1. \A s \in UpTo(S, n - 1) : g[s] = IF s = {} THEN 0 ELSE z[Pick(s).req] + g[s \ {Pick(s)}]
    BY Zenon DEF Sums
  <2>2. \A s \in UpTo(S, n - 1) : h[s] = IF s = {} THEN 0 ELSE z[Pick(s).req] + g[s \ {Pick(s)}]
    BY Zenon, <1>2
  <2> QED
    BY Zenon, <2>1, <2>2
<1>4. \A s \in UpTo(S, n) : s # {} => h[s \ {Pick(s)}] = g[s \ {Pick(s)}]
  BY Zenon, <1>1, <1>3
<1>5. Sums(z, UpTo(S, n), h)
  <2> DEFINE k == [s \in UpTo(S, n) |-> IF s = {} THEN 0 ELSE z[Pick(s).req] + h[s \ {Pick(s)}]]
  <2>1. \A s \in UpTo(S, n) : h[s] = IF s = {} THEN 0 ELSE z[Pick(s).req] + g[s \ {Pick(s)}]
    OBVIOUS
  <2>2. \A s \in UpTo(S, n) : k[s] = IF s = {} THEN 0 ELSE z[Pick(s).req] + h[s \ {Pick(s)}]
    OBVIOUS
  <2>3. DOMAIN h = UpTo(S, n) /\ DOMAIN k = UpTo(S, n) /\ h = [s \in DOMAIN h |-> h[s]] /\ k = [s \in DOMAIN k |-> k[s]]
    OBVIOUS
  <2> HIDE DEF h
  <2>4. \A s \in UpTo(S, n) : h[s] = k[s]
    BY <1>4, <2>1, <2>2, Zenon
  <2>5. h = k
    <3> HIDE DEF k
    <3> QED
      BY <2>3, <2>4, Zenon
  <2> QED
    BY <2>5, Zenon DEF Sums
<1> QED
  BY Zenon, <1>5

LEMMA SumsExist ==
  ASSUME NEW z, NEW S, IsFiniteSet(S) PROVE \E h : Sums(z, SUBSET S, h)
<1> DEFINE T == {n \in Nat : ~\E h : Sums(z, UpTo(S, n), h)}
<1>1. \A s \in SUBSET S : IsFiniteSet(s) /\ Cardinality(s) \in Nat /\ Cardinality(s) <= Cardinality(S)
  BY FS_Subset, FS_CardinalityType, Zenon
<1>2. T = {}
  <2> SUFFICES ASSUME T # {} PROVE FALSE
    OBVIOUS
  <2>1. PICK n \in T : \A k \in T : n <= k
    BY LeastNat, Zenon
  <2>2. CASE n = 0
    <3>1. \A s \in UpTo(S, 0) : s = {}
      BY <1>1, FS_EmptySet DEF UpTo
    <3>2. Sums(z, UpTo(S, 0), [s \in UpTo(S, 0) |-> 0])
      BY <3>1, Zenon DEF Sums
    <3> QED
      BY <2>2, <3>2, Zenon
  <2>3. CASE n # 0
    <3>1. n - 1 \in Nat /\ n - 1 \notin T
      BY <2>1, <2>3
    <3>2. \E g : Sums(z, UpTo(S, n - 1), g)
      BY <3>1, Zenon
    <3> QED
      BY <2>3, <3>2, SumsOne, Zenon
  <2> QED
    BY <2>2, <2>3, Zenon
<1>3. Cardinality(S) \in Nat /\ UpTo(S, Cardinality(S)) = SUBSET S
  BY <1>1, Zenon DEF UpTo
<1>4. \E h : Sums(z, UpTo(S, Cardinality(S)), h)
  BY <1>2, <1>3, Zenon
<1> QED
  BY <1>3, <1>4, Zenon

LEMMA SumsAgree ==
  ASSUME NEW z, NEW S, IsFiniteSet(S), NEW R \in SUBSET S, NEW g, NEW h,
         Sums(z, SUBSET R, g), Sums(z, SUBSET S, h)
  PROVE  g[R] = h[R]
<1> DEFINE B == {s \in SUBSET R : g[s] # h[s]}
<1> SUFFICES ASSUME B # {} PROVE FALSE
  OBVIOUS
<1>1. PICK s \in B : \A x \in s : s \ {x} \notin B
  BY SmallestSet, Zenon
<1>2. /\ g[s] = IF s = {} THEN 0 ELSE z[Pick(s).req] + g[s \ {Pick(s)}]
      /\ h[s] = IF s = {} THEN 0 ELSE z[Pick(s).req] + h[s \ {Pick(s)}]
  <2>1. s \in SUBSET R /\ s \in SUBSET S
    OBVIOUS
  <2> QED
    BY Zenon, <2>1 DEF Sums
<1>3. s # {} => g[s \ {Pick(s)}] = h[s \ {Pick(s)}]
  BY <1>1, Picked, Zenon
<1> QED
  BY <1>2, <1>3, Zenon

LEMMA TotalSums ==
  ASSUME NEW z, NEW S, IsFiniteSet(S), NEW h, Sums(z, SUBSET S, h), NEW R \in SUBSET S
  PROVE  Total(z, R) = h[R]
<1>1. IsFiniteSet(R)
  BY FS_Subset, Zenon
<1>2. \E f : Sums(z, SUBSET R, f)
  BY Zenon, <1>1, SumsExist
<1>3. PICK f : Sums(z, SUBSET R, f) /\ Total(z, R) = f[R]
  BY Zenon, <1>2, TotalIs
<1>4. Sums(z, SUBSET R, f)
  BY <1>3, Zenon
<1>5. f[R] = h[R]
  BY <1>4, SumsAgree
<1> QED
  BY <1>3, <1>5, Zenon

\* One step of the sum.
LEMMA TotalStep ==
  ASSUME NEW z, NEW S, IsFiniteSet(S)
  PROVE  Total(z, S) = IF S = {} THEN 0 ELSE z[Pick(S).req] + Total(z, S \ {Pick(S)})
<1>1. PICK f : Sums(z, SUBSET S, f)
  BY Zenon, SumsExist
<1>2. S \in SUBSET S /\ S \ {Pick(S)} \in SUBSET S
  OBVIOUS
<1>3. Total(z, S) = f[S] /\ Total(z, S \ {Pick(S)}) = f[S \ {Pick(S)}]
  BY <1>1, <1>2, TotalSums
<1>4. f[S] = IF S = {} THEN 0 ELSE z[Pick(S).req] + f[S \ {Pick(S)}]
  BY Zenon, <1>1, <1>2 DEF Sums
<1> QED
  BY Zenon, <1>3, <1>4

Sizes(z, S) == \A x \in S : z[x.req] \in Nat

LEMMA TotalNat ==
  ASSUME NEW z, NEW S, IsFiniteSet(S), Sizes(z, S) PROVE Total(z, S) \in Nat
<1> DEFINE B == {s \in SUBSET S : Total(z, s) \notin Nat}
<1> SUFFICES ASSUME B # {} PROVE FALSE
  OBVIOUS
<1>1. PICK s \in B : IsFiniteSet(s) /\ \A x \in s : s \ {x} \notin B
  BY SmallestSet, Zenon
<1>2. Total(z, s) = IF s = {} THEN 0 ELSE z[Pick(s).req] + Total(z, s \ {Pick(s)})
  BY <1>1, TotalStep, Zenon
<1>3. s # {} => Total(z, s \ {Pick(s)}) \in Nat /\ z[Pick(s).req] \in Nat
  BY <1>1, Picked, Zenon DEF Sizes
<1> QED
  BY <1>2, <1>3

\* The order does not matter.
LEMMA TotalWithout ==
  ASSUME NEW z, NEW S, IsFiniteSet(S), Sizes(z, S), NEW e \in S
  PROVE  Total(z, S) = z[e.req] + Total(z, S \ {e})
<1> DEFINE B == {s \in SUBSET S : \E x \in s : Total(z, s) # z[x.req] + Total(z, s \ {x})}
<1> SUFFICES ASSUME B # {} PROVE FALSE
  BY Zenon
<1>1. PICK s \in B : IsFiniteSet(s) /\ \A x \in s : s \ {x} \notin B
  BY SmallestSet, Zenon
<1>2. PICK x \in s : Total(z, s) # z[x.req] + Total(z, s \ {x})
  OBVIOUS
<1> DEFINE y == Pick(s)
<1>3. y \in s /\ Total(z, s) = z[y.req] + Total(z, s \ {y})
  BY <1>1, <1>2, Picked, TotalStep, Zenon
<1> HIDE DEF y
<1>4. x # y
  BY <1>2, <1>3, Zenon
<1> DEFINE R == (s \ {x}) \ {y}
<1>5. R = (s \ {y}) \ {x}
  OBVIOUS
<1>6. Total(z, s \ {y}) = z[x.req] + Total(z, R)
  <2>1. s \ {y} \in SUBSET S /\ s \ {y} \notin B /\ x \in s \ {y}
    BY <1>1, <1>3, <1>4, Zenon
  <2> QED
    BY <1>5, <2>1, Zenon
<1>7. Total(z, s \ {x}) = z[y.req] + Total(z, R)
  <2>1. s \ {x} \in SUBSET S /\ s \ {x} \notin B /\ y \in s \ {x}
    BY <1>1, <1>3, <1>4, Zenon
  <2> QED
    BY <2>1, Zenon
<1>8. z[x.req] \in Nat /\ z[y.req] \in Nat /\ Total(z, R) \in Nat
  <2>1. IsFiniteSet(R) /\ Sizes(z, R)
    BY <1>1, FS_Subset, Zenon DEF Sizes
  <2> QED
    BY <1>3, <2>1, TotalNat, Zenon DEF Sizes
<1> QED
  BY <1>2, <1>3, <1>6, <1>7, <1>8

-----------------------------------------------------------------------------
(* The size of the queue. *)

\* An instance belongs to one element while the element is queued or in flight: it is
\* not in the pool, and carries the size that add has counted.  Only the OnDone of an
\* element in flight is ever blocked in Signal.
Sizing ==
  /\ SizeExact
  /\ \A e \in Elements : e.done \notin pool /\ bd[e.done].elSize = SizeOf[e.req]
  /\ \A e, f \in Elements : e.done = f.done => e = f
  /\ \A r \in Reqs : at[Completer(r)] # "out" => \E e \in flight : e.req = r

SizeIsTotal == size = Total(SizeOf, Occupying)

LEMMA SizeTotal == SizeExact <=> SizeIsTotal
  BY Zenon DEF SizeExact, SizeIsTotal, Total

LEMMA SizeTotalNext == SizeExact' <=> SizeIsTotal'
  BY SizeTotal, PTL

\* A request has one element.
LEMMA OneElement ==
  ASSUME MInv, NEW e \in Elements, NEW f \in Elements, e.req = f.req PROVE e = f
<1>1. e = [req |-> e.req, done |-> mine[e.req]] /\ f = [req |-> f.req, done |-> mine[f.req]]
  BY ElementsM, ElementFields, Zenon DEF MInv, Apart
<1> QED
  BY <1>1, Zenon

LEMMA ElementsFinite ==
  ASSUME MInv, NEW S, S \subseteq Elements PROVE IsFiniteSet(S) /\ Sizes(SizeOf, S)
<1> DEFINE f == [e \in S |-> e.req]
<1>1. f \in [S -> Reqs] /\ \A a, b \in S : f[a] = f[b] => a = b
  BY ElementsM, OneElement, Zenon
<1>2. f \in Injection(S, Reqs)
  BY <1>1, Fun_IsInj, Zenon
<1>3. IsFiniteSet(S)
  BY <1>2, FS_Injection, QueueOK, Zenon
<1>4. SizeOf \in [Reqs -> Nat]
  BY Zenon, QueueOK DEF MInv, Types, SizeOf
<1> QED
  BY <1>3, <1>4, ElementsM, Zenon DEF Sizes

LEMMA SizingInit == Init => Sizing
<1> SUFFICES ASSUME Init PROVE Sizing
  OBVIOUS
<1>1. size = 0 /\ Elements = {} /\ Occupying = {} /\ \A r \in Reqs : at[Completer(r)] = "out"
  BY Callers DEF Init, Space!CondInit, Elements, Queued, Occupying
<1>2. Total(SizeOf, {}) = 0
  BY TotalStep, FS_EmptySet, Zenon
<1> QED
  BY <1>1, <1>2, SizeTotal, Zenon DEF Sizing, SizeIsTotal

\* Steps that add no element and finish none.
LEMMA SizingSame ==
  ASSUME MInv, Sizing, UNCHANGED <<cfg, size>>, Elements' = Elements, flight \subseteq flight',
         \A r \in Reqs : at'[Completer(r)] = at[Completer(r)],
         \A d \in Slots : bd'[d].elSize = bd[d].elSize,
         \A e \in Elements : e.done \notin pool'
  PROVE  Sizing'
<1>1. SizeOf' = SizeOf
  BY Zenon DEF SizeOf
<1>2. Occupying' = Occupying
  BY ElementsM, Zenon DEF Occupying, Elements
<1>3. SizeExact'
  <2>1. size' = Total(SizeOf', Occupying')
    BY <1>1, <1>2, SizeTotal, Zenon DEF Sizing, SizeIsTotal
  <2> QED
    BY <2>1, SizeTotalNext, Zenon DEF SizeIsTotal
<1>4. \A e \in Elements' : e.done \notin pool' /\ bd'[e.done].elSize = SizeOf'[e.req]
  BY <1>1, ElementsM, Zenon DEF Sizing
<1> QED
  BY <1>3, <1>4, Zenon DEF Sizing

LEMMA AddSizing ==
  ASSUME MInv, Sizing, NEW r \in Reqs, Add(r) PROVE Sizing'
<1>1. /\ ~Pushed(r) /\ UNCHANGED <<cfg, flight>> /\ size' = size + SizeOf[r]
      /\ at' = [at EXCEPT ![r] = "out"]
  BY RefsOfCaller, Zenon DEF Add, Adding
<1>2. PICK d \in pool :
        /\ pool' = pool \ {d}
        /\ bd' = [bd EXCEPT ![d].elSize = SizeOf[r]]
        /\ items' = Append(items, [req |-> r, done |-> d])
  BY Zenon DEF Add, reset
<1> DEFINE e == [req |-> r, done |-> d]
<1>3. d \in Slots /\ e \in Element /\ e.req = r /\ e.done = d
  BY Zenon DEF MInv, Types, Element
<1>4. items' = Append(items, e)
  BY <1>2, Zenon
<1> HIDE DEF e
<1>5. Queued' = Queued \cup {e} /\ Elements' = Elements \cup {e}
  BY <1>1, <1>3, <1>4, AppendItems, Zenon DEF MInv, Types, Elements
<1>6. \A f \in Elements : f.req \in Reqs /\ f.done \in Slots /\ f.req # r /\ f.done # d
  BY <1>1, ElementsM DEF MInv, Apart, Sizing
<1>7. /\ \A s \in Reqs : at'[Completer(s)] = at[Completer(s)]
      /\ at[Completer(r)] = "out"
  <2>1. \A s \in Reqs : Completer(s) # r
    BY QueueOK, Zenon
  <2>2. \A f \in flight : f.req # r
    BY <1>6, Zenon DEF Elements
  <2> QED
    BY <1>1, <2>1, <2>2, Callers, Zenon DEF MInv, Types, Sizing
<1>8. Occupying' = Occupying \cup {e} /\ e \notin Occupying
  <2>1. \A f \in Elements' : f.req \in Reqs
    BY <1>3, <1>5, <1>6, Zenon
  <2>2. Occupying = {f \in Elements : at[Completer(f.req)] = "out"}
    BY Zenon DEF Occupying, Elements
  <2>3. Occupying' = {f \in Elements' : at'[Completer(f.req)] = "out"}
    BY Zenon DEF Occupying, Elements
  <2> QED
    BY <1>3, <1>5, <1>6, <1>7, <2>1, <2>2, <2>3, Zenon
<1>9. SizeOf' = SizeOf
  BY <1>1, Zenon DEF SizeOf
<1>10. SizeExact'
  <2>1. IsFiniteSet(Occupying) /\ Sizes(SizeOf, Occupying)
    BY ElementsFinite, Zenon DEF Occupying, Elements
  <2>2. SizeOf[r] \in Nat
    BY Zenon, QueueOK DEF MInv, Types, SizeOf
  <2>3. IsFiniteSet(Occupying \cup {e}) /\ Sizes(SizeOf, Occupying \cup {e})
    BY <1>3, <2>1, <2>2, FS_AddElement, Zenon DEF Sizes
  <2>4. Total(SizeOf, Occupying \cup {e}) = SizeOf[r] + Total(SizeOf, (Occupying \cup {e}) \ {e})
    BY <1>3, <2>3, TotalWithout
  <2>5. (Occupying \cup {e}) \ {e} = Occupying
    BY <1>8, Zenon
  <2>6. Total(SizeOf, Occupying) \in Nat
    BY <2>1, TotalNat, Zenon
  <2>7. size' = Total(SizeOf', Occupying')
    <3>1. size = Total(SizeOf, Occupying)
      BY Zenon, SizeTotal DEF Sizing, SizeIsTotal
    <3>2. Total(SizeOf', Occupying') = SizeOf[r] + Total(SizeOf, Occupying)
      BY Zenon, <1>8, <1>9, <2>4, <2>5
    <3> QED
      BY <1>1, <2>2, <2>6, <3>1, <3>2
  <2> QED
    BY <2>7, SizeTotalNext, Zenon DEF SizeIsTotal
<1>11. \A f \in Elements' : f.done \notin pool' /\ bd'[f.done].elSize = SizeOf'[f.req]
  <2>1. bd'[d].elSize = SizeOf[r] /\ \A x \in Slots : x # d => bd'[x] = bd[x]
    BY <1>2, <1>3, Zenon DEF MInv, Types
  <2> QED
    BY <1>2, <1>3, <1>5, <1>6, <1>9, <2>1, Zenon DEF Sizing
<1>12. \A f, g \in Elements' : f.done = g.done => f = g
  BY <1>3, <1>5, <1>6, Zenon DEF Sizing
<1>13. \A s \in Reqs : at'[Completer(s)] # "out" => \E f \in flight' : f.req = s
  BY <1>1, <1>7, Zenon DEF Sizing
<1> QED
  BY <1>10, <1>11, <1>12, <1>13, Zenon DEF Sizing

\* An element whose OnDone has had the lock leaves; the others keep their instances.
LEMMA OthersStay ==
  ASSUME MInv, NEW e \in flight, Finished(e), UNCHANGED <<cfg, items>>
  PROVE  /\ Elements' = Elements \ {e} /\ flight' = flight \ {e}
         /\ \A d \in Slots : bd'[d].elSize = bd[d].elSize
         /\ \A d \in pool' : d \in pool \/ d = e.done
<1>1. flight' = flight \ {e} /\ Queued' = Queued
  BY Zenon DEF Finished, Queued
<1>2. e \notin Queued
  BY Zenon DEF MInv, Apart
<1>3. Elements' = Elements \ {e}
  BY <1>1, <1>2, Zenon DEF Elements
<1>4. e.done \in Slots
  BY ElementsM, Zenon DEF Elements
<1>5. \A d \in Slots : bd'[d].elSize = bd[d].elSize
  <2>1. bd \in [Slots -> [elSize : Nat, ch : Reqs \cup {NoOne}]]
    BY Zenon DEF MInv, Types
  <2>2. bd' = bd \/ bd' = [bd EXCEPT ![e.done].ch = e.req]
    BY Zenon DEF Finished
  <2> QED
    BY <1>4, <2>1, <2>2
<1>6. \A d \in pool' : d \in pool \/ d = e.done
  BY Zenon DEF Finished
<1> QED
  BY <1>1, <1>3, <1>5, <1>6, Zenon

LEMMA TakenOut ==
  ASSUME MInv, Sizing, NEW e \in Occupying, cfg' = cfg, size' = size - bd[e.done].elSize,
         Occupying' = Occupying \ {e}
  PROVE  SizeExact'
<1>1. e \in Elements /\ bd[e.done].elSize = SizeOf[e.req]
  BY Zenon DEF Occupying, Elements, Sizing
<1>2. IsFiniteSet(Occupying) /\ Sizes(SizeOf, Occupying)
  BY ElementsFinite, Zenon DEF Occupying, Elements
<1>3. IsFiniteSet(Occupying \ {e}) /\ Sizes(SizeOf, Occupying \ {e})
  BY <1>2, FS_RemoveElement, Zenon DEF Sizes
<1>4. Total(SizeOf, Occupying) = SizeOf[e.req] + Total(SizeOf, Occupying \ {e})
  BY <1>2, TotalWithout
<1>5. SizeOf[e.req] \in Nat /\ Total(SizeOf, Occupying \ {e}) \in Nat
  BY <1>2, <1>3, TotalNat, Zenon DEF Sizes
<1>6. size = Total(SizeOf, Occupying)
  BY Zenon, SizeTotal DEF Sizing, SizeIsTotal
<1>7. size' = Total(SizeOf, Occupying \ {e})
  BY <1>1, <1>4, <1>5, <1>6
<1>8. SizeOf' = SizeOf
  BY Zenon DEF SizeOf
<1> QED
  BY <1>7, <1>8, SizeTotalNext, Zenon DEF SizeIsTotal

LEMMA onDoneSizing ==
  ASSUME MInv, Sizing, NEW e \in Element, onDone(e) PROVE Sizing'
<1> DEFINE t == Completer(e.req)
<1>1. /\ e \in flight /\ at[t] = "out" /\ t \in Threads /\ UNCHANGED <<cfg, items>>
      /\ size' = size - bd[e.done].elSize
      /\ at' = at \/ at' = [at EXCEPT ![t] = "send"]
  BY ElementFields, Callers, Zenon DEF onDone, Space!Signal, Space!Send, Space!cond
<1>2. e \in Elements /\ e.req \in Reqs /\ e \in Occupying
  BY <1>1, ElementsM, Zenon DEF Elements, Occupying
<1>3. /\ \A f \in Elements : f # e => f.req \in Reqs /\ f.req # e.req /\ Completer(f.req) # t
      /\ \A s \in Reqs : s # e.req => at'[Completer(s)] = at[Completer(s)]
  <2>1. \A s \in Reqs : s # e.req => Completer(s) # t
    BY Zenon DEF Completer
  <2>2. \A f \in Elements : f # e => f.req \in Reqs /\ f.req # e.req
    BY <1>2, ElementsM, OneElement, Zenon
  <2> QED
    BY <1>1, <2>1, <2>2, Callers, Zenon DEF MInv, Types
<1>4. CASE at'[t] = "send"
  <2>1. UNCHANGED <<flight, pool, bd>>
    BY <1>4, Zenon DEF onDone
  <2>2. Elements' = Elements
    BY <1>1, <2>1, Zenon DEF Elements, Queued
  <2>3. Occupying' = Occupying \ {e}
    <3>1. \A f \in Elements : at'[Completer(f.req)] = "out" <=> f # e /\ at[Completer(f.req)] = "out"
      BY <1>3, <1>4, Zenon
    <3> QED
      BY <2>1, <2>2, <3>1, Zenon DEF Occupying, Elements
  <2>4. SizeExact'
    BY <1>1, <1>2, <2>3, TakenOut, Zenon
  <2>5. \A s \in Reqs : at'[Completer(s)] # "out" => \E f \in flight' : f.req = s
    BY <1>1, <1>3, <2>1, Zenon DEF Sizing
  <2>6. SizeOf' = SizeOf
    BY <1>1, Zenon DEF SizeOf
  <2> QED
    BY <2>1, <2>2, <2>4, <2>5, <2>6, Zenon DEF Sizing
<1>5. CASE at'[t] # "send"
  <2>1. Finished(e) /\ at' = at
    BY <1>1, <1>5, Zenon DEF onDone, MInv, Types
  <2>2. /\ Elements' = Elements \ {e} /\ flight' = flight \ {e}
        /\ \A d \in Slots : bd'[d].elSize = bd[d].elSize
        /\ \A d \in pool' : d \in pool \/ d = e.done
    BY <1>1, <2>1, OthersStay, Zenon
  <2>3. Occupying' = Occupying \ {e}
    BY <2>1, <2>2, Zenon DEF Occupying, Elements
  <2>4. SizeExact'
    BY <1>1, <1>2, <2>3, TakenOut, Zenon
  <2>5. \A s \in Reqs : at'[Completer(s)] # "out" => \E f \in flight' : f.req = s
    <3>1. \A s \in Reqs : at[Completer(s)] # "out" => s # e.req
      BY <1>1, Zenon
    <3> QED
      BY <2>1, <2>2, <3>1, Zenon DEF Sizing
  <2>6. SizeOf' = SizeOf
    BY <1>1, Zenon DEF SizeOf
  <2>7. \A f \in Elements' : f.done \notin pool' /\ bd'[f.done].elSize = SizeOf'[f.req]
    BY <1>2, <2>2, <2>6, ElementsM, Zenon DEF Sizing
  <2> QED
    BY <2>2, <2>4, <2>5, <2>7, Zenon DEF Sizing
<1> QED
  BY <1>4, <1>5, Zenon

LEMMA onDoneSentSizing ==
  ASSUME MInv, Sizing, NEW e \in Element, onDoneSent(e) PROVE Sizing'
<1> DEFINE t == Completer(e.req)
<1>1. /\ e \in flight /\ Finished(e) /\ t \in Threads /\ at[t] = "send" /\ at' = [at EXCEPT ![t] = "out"]
      /\ UNCHANGED <<cfg, items, size>>
  BY ElementFields, Callers, Zenon DEF onDoneSent, Space!Sent, queue
<1>2. e \in Elements /\ e.req \in Reqs
  BY <1>1, ElementsM, Zenon DEF Elements
<1>3. /\ \A f \in Elements : f # e => f.req \in Reqs /\ f.req # e.req /\ Completer(f.req) # t
      /\ \A s \in Reqs : s # e.req => at'[Completer(s)] = at[Completer(s)]
      /\ at'[t] = "out"
  <2>1. \A s \in Reqs : s # e.req => Completer(s) # t
    BY Zenon DEF Completer
  <2>2. \A f \in Elements : f # e => f.req \in Reqs /\ f.req # e.req
    BY <1>2, ElementsM, OneElement, Zenon
  <2> QED
    BY <1>1, <2>1, <2>2, Callers, Zenon DEF MInv, Types
<1>4. /\ Elements' = Elements \ {e} /\ flight' = flight \ {e}
      /\ \A d \in Slots : bd'[d].elSize = bd[d].elSize
      /\ \A d \in pool' : d \in pool \/ d = e.done
  BY <1>1, OthersStay, Zenon
<1>5. Occupying' = Occupying /\ SizeOf' = SizeOf
  <2>1. Occupying = {f \in Elements : at[Completer(f.req)] = "out"}
    BY Zenon DEF Occupying, Elements
  <2>2. Occupying' = {f \in Elements' : at'[Completer(f.req)] = "out"}
    BY Zenon DEF Occupying, Elements
  <2>3. SizeOf' = SizeOf
    BY <1>1, Zenon DEF SizeOf
  <2> QED
    BY <1>1, <1>3, <1>4, <2>1, <2>2, <2>3, Zenon
<1>6. SizeExact'
  BY <1>1, <1>5, SizeTotal, SizeTotalNext, Zenon DEF Sizing, SizeIsTotal
<1>7. \A f \in Elements' : f.done \notin pool' /\ bd'[f.done].elSize = SizeOf'[f.req]
  BY <1>2, <1>4, <1>5, ElementsM, Zenon DEF Sizing
<1>8. \A s \in Reqs : at'[Completer(s)] # "out" => \E f \in flight' : f.req = s
  BY <1>3, <1>4, Zenon DEF Sizing
<1> QED
  BY <1>4, <1>6, <1>7, <1>8, Zenon DEF Sizing

\* The callers before they push, while they wait for space and for the result.
LEMMA CallerSizing ==
  ASSUME MInv, Sizing, NEW r \in Reqs,
         \/ Offer(r) \/ AddFull(r) \/ AddSignalled(r) \/ AddCtxDone(r) \/ AddCancelled(r) \/ GiveUp(r)
  PROVE  Sizing'
<1>1. /\ UNCHANGED <<cfg, size, items, flight, pool, bd>>
      /\ at' = at \/ \E a \in {"select", "got", "done", "out", "recv"} : at' = [at EXCEPT ![r] = a]
  <2>1. CASE Offer(r) \/ AddFull(r) \/ GiveUp(r)
    BY <2>1, Zenon DEF Offer, AddFull, GiveUp, Space!Wait, space, queue, dones
  <2>2. CASE AddSignalled(r) \/ AddCtxDone(r) \/ AddCancelled(r)
    BY <2>2, Zenon DEF AddSignalled, AddCtxDone, AddCancelled, Space!Receive, Space!CtxDone, Space!Cancelled, queue, dones
  <2> QED
    BY <2>1, <2>2, Zenon
<1>2. \A s \in Reqs : at'[Completer(s)] = at[Completer(s)]
  <2>1. \A s \in Reqs : Completer(s) # r
    BY QueueOK, Zenon
  <2> QED
    BY <1>1, <2>1, Callers, Zenon DEF MInv, Types
<1>3. Elements' = Elements
  BY <1>1, Zenon DEF Elements, Queued
<1> QED
  BY <1>1, <1>2, <1>3, SizingSame, Zenon DEF Sizing

LEMMA GetResultSizing ==
  ASSUME MInv, Sizing, NEW r \in Reqs, GetResult(r) PROVE Sizing'
<1>1. /\ offer[r] = "awaiting" /\ bd[mine[r]].ch # NoOne
      /\ bd' = [bd EXCEPT ![mine[r]].ch = NoOne] /\ pool' = pool \cup {mine[r]}
      /\ UNCHANGED <<cfg, size, items, flight, at>>
  BY Zenon DEF GetResult, space, queue
<1>2. cfg.waitForResult
  BY <1>1, Zenon DEF MInv, Owned, Expecting
<1>3. \A e \in Elements : e.done # mine[r]
  BY <1>1, <1>2, Zenon DEF MInv, Owned
<1>4. \A d \in Slots : bd'[d].elSize = bd[d].elSize
  BY <1>1, Zenon DEF MInv, Types
<1>5. Elements' = Elements
  BY <1>1, Zenon DEF Elements, Queued
<1> QED
  BY <1>1, <1>3, <1>4, <1>5, SizingSame, Zenon DEF Sizing

LEMMA ConsumerSizing ==
  ASSUME MInv, Sizing, NEW c \in Consumers, Consumer(c) PROVE Sizing'
<1>1. UNCHANGED <<cfg, size, at, pool, bd>>
  BY Zenon DEF Consumer, ReadPop, ReadEmpty, consumeFunc, space, queue, dones
<1>2. Elements' = Elements /\ flight \subseteq flight'
  <2>1. CASE ReadPop(c)
    <3>1. items # <<>> /\ items' = Tail(items) /\ flight' = flight \cup {Head(items)}
      BY <2>1, Zenon DEF ReadPop
    <3>2. Queued = Queued' \cup {Head(items)}
      <4>1. /\ items \in Seq(Element) /\ items # <<>> /\ items' = Tail(items)
            /\ \A i, j \in 1..Len(items) : items[i].req = items[j].req => i = j
        BY <3>1, Zenon DEF MInv, Types, Apart
      <4>2. Head(items) \in Queued /\ Queued' \subseteq Queued
        BY <4>1, TailItems, Zenon
      <4>3. ASSUME NEW i \in 1..Len(items) PROVE items[i] \in Queued' \/ items[i] = Head(items)
        <5>1. CASE i = 1
          BY <4>1, <5>1
        <5>2. CASE i # 1
          <6>1. i - 1 \in 1..Len(items') /\ items'[i - 1] = items[i]
            BY <4>1, <5>2
          <6> QED
            BY <6>1, Zenon DEF Queued
        <5> QED
          BY <5>1, <5>2, Zenon
      <4>4. \A f \in Queued : f \in Queued' \cup {Head(items)}
        BY <4>3, Zenon DEF Queued
      <4> QED
        BY <4>2, <4>4, Zenon
    <3> QED
      BY <3>1, <3>2, Zenon DEF Elements
  <2>2. CASE ReadEmpty(c) \/ consumeFunc(c)
    BY <2>2, Zenon DEF ReadEmpty, consumeFunc, Elements, Queued, queue
  <2> QED
    BY <2>1, <2>2, Zenon DEF Consumer
<1> QED
  BY <1>1, <1>2, SizingSame, Zenon DEF Sizing

LEMMA SizingStep == MInv /\ Sizing /\ [Next]_vars => Sizing'
<1> SUFFICES ASSUME MInv, Sizing, [Next]_vars PROVE Sizing'
  OBVIOUS
<1>1. ASSUME NEW r \in Reqs, Caller(r) \/ AddCtxDone(r) \/ GiveUp(r) PROVE Sizing'
  BY <1>1, CallerSizing, AddSizing, GetResultSizing, Zenon DEF Caller
<1>2. ASSUME NEW r \in Reqs, Completion(r) PROVE Sizing'
  <2>1. PICK d \in Slots : onDone([req |-> r, done |-> d]) \/ onDoneSent([req |-> r, done |-> d])
    BY <1>2, Zenon DEF Completion
  <2>2. [req |-> r, done |-> d] \in Element
    BY Zenon DEF Element
  <2> QED
    BY <2>1, <2>2, onDoneSizing, onDoneSentSizing, Zenon
<1>3. ASSUME NEW c \in Consumers, Consumer(c) PROVE Sizing'
  BY <1>3, ConsumerSizing, Zenon
<1>4. CASE Shutdown \/ UNCHANGED vars
  <2>1. UNCHANGED <<cfg, size, at, pool, bd, items, flight>>
    BY <1>4, Zenon DEF Shutdown, vars, space, queue, dones
  <2>2. Elements' = Elements
    BY <2>1, Zenon DEF Elements, Queued
  <2> QED
    BY <2>1, <2>2, SizingSame, Zenon DEF Sizing
<1> QED
  BY <1>1, <1>2, <1>3, <1>4, Zenon DEF Next

\* The size of the queue is at every moment the total, by the configured sizer, of the
\* requests that wait in it or are being processed: pooled blockingDone instances never
\* make OnDone take off another size than the one that add has counted.
THEOREM SizeExactAlways == Spec => []SizeExact
<1>1. Init => MInv /\ Sizing
  BY MInit, SizingInit, Zenon
<1>2. (MInv /\ Sizing) /\ [Next]_vars => (MInv /\ Sizing)'
  BY MStep, SizingStep, Zenon
<1>3. MInv /\ Sizing => SizeExact
  BY Zenon DEF Sizing
<1> QED
  BY <1>1, <1>2, <1>3, PTL DEF Spec
=============================================================================
