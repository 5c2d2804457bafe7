----------------------------- MODULE CondProofs -----------------------------
(***************************************************************************)
(* Proofs about the condition variable of cond.go, for any finite set of   *)
(* threads: the balance between waiters and signals, the absence of a      *)
(* blocking receive in a cancelled wait, and that it implements CondVar.   *)
(***************************************************************************)
EXTENDS Cond, FiniteSetTheorems, TLAPS

Sleepers == In({"select", "done", "recv"})
Senders == In({"send"})

\* The lock is held by the thread that is blocked with it.
LockHeld == \A t \in Threads : at[t] \in {"send", "bcast", "recv"} => mu = t

CInv == CondTypeOK /\ LockHeld /\ CondBalance

\* The sets of threads that are counted are finite, and grow and shrink by one.
LEMMA CountFacts ==
  ASSUME NEW S \in SUBSET Threads
  PROVE  /\ IsFiniteSet(S) /\ Cardinality(S) \in Nat
         /\ \A t \in Threads : t \notin S => Cardinality(S \cup {t}) = Cardinality(S) + 1
         /\ \A t \in S : Cardinality(S \ {t}) = Cardinality(S) - 1 /\ Cardinality(S) > 0
<1>1. IsFiniteSet(S)
  BY ThreadsOK, FS_Subset DEF ThreadsOK
<1>2. Cardinality(S) \in Nat
  BY <1>1, FS_CardinalityType
<1>3. \A t \in S : Cardinality(S) > 0
  BY <1>1, <1>2, FS_EmptySet
<1> QED
  BY <1>1, <1>2, <1>3, FS_AddElement, FS_RemoveElement

\* The threads at a place form a finite set, so that they can be counted.
LEMMA Counts ==
  /\ Sleepers \in SUBSET Threads /\ Senders \in SUBSET Threads
  /\ Cardinality(Sleepers) \in Nat /\ Cardinality(Senders) \in Nat
<1>1. Sleepers \in SUBSET Threads /\ Senders \in SUBSET Threads
  BY DEF Sleepers, Senders, In
<1> QED
  BY <1>1, CountFacts

\* Nobody waits at first.
LEMMA CInit == CondInit => CInv
<1> SUFFICES ASSUME CondInit PROVE CInv
  OBVIOUS
<1>1. Sleepers = {} /\ Senders = {}
  BY DEF CondInit, Sleepers, Senders, In
<1>2. CondBalance
  BY <1>1, FS_EmptySet DEF CondBalance, CondInit, Sleepers, Senders
<1> QED
  BY <1>2 DEF CInv, CondInit, CondTypeOK, LockHeld, Room

\* What a step of a thread does to the two sets, seen from where it goes.
LEMMA Moves ==
  ASSUME CondTypeOK, NEW t \in Threads, NEW to \in {"out", "select", "got", "done", "send", "bcast", "recv"},
         at' = [at EXCEPT ![t] = to]
  PROVE  /\ at' \in [Threads -> {"out", "select", "got", "done", "send", "bcast", "recv"}]
         /\ at'[t] = to /\ \A u \in Threads \ {t} : at'[u] = at[u]
         /\ Sleepers' = IF to \in {"select", "done", "recv"} THEN Sleepers \cup {t} ELSE Sleepers \ {t}
         /\ Senders' = IF to = "send" THEN Senders \cup {t} ELSE Senders \ {t}
         /\ In({"got"})' = IF to = "got" THEN In({"got"}) \cup {t} ELSE In({"got"}) \ {t}
<1>1. /\ at' \in [Threads -> {"out", "select", "got", "done", "send", "bcast", "recv"}]
      /\ at'[t] = to /\ \A u \in Threads \ {t} : at'[u] = at[u]
  BY DEF CondTypeOK
<1> QED
  BY <1>1 DEF Sleepers, Senders, In

\* The abstract view of a state, and a step of it.
Owed == ch + Cardinality(Senders)
AbstractStep == Promise!Next \/ UNCHANGED <<Sleepers, In({"got"}), Owed>>

\* The module of the abstract specification counts in the same way.
LEMMA SameCardinality == \A S : Promise!Cardinality(S) = Cardinality(S)
  BY DEF Promise!Cardinality, Promise!IsFiniteSet, Cardinality, IsFiniteSet

\* A thread that may start an operation.
Entering(t) == mu = NoOne /\ at[t] = "out"

\* Wait counts the thread in and puts it to sleep.
LEMMA WaitStep ==
  ASSUME CInv, NEW t \in Threads, Entering(t), Wait(t) PROVE CInv' /\ AbstractStep
<1>1. /\ Sleepers' = Sleepers \cup {t} /\ Senders' = Senders /\ In({"got"})' = In({"got"})
      /\ t \notin Sleepers /\ t \notin In({"got"})
      /\ at' \in [Threads -> {"out", "select", "got", "done", "send", "bcast", "recv"}]
      /\ at'[t] = "select" /\ \A u \in Threads \ {t} : at'[u] = at[u]
  BY Zenon, Moves DEF CInv, Wait, Entering, Sleepers, Senders, In
<1>2. Cardinality(Sleepers') = Cardinality(Sleepers) + 1
  BY <1>1, Counts, CountFacts
<1>3. CondTypeOK' /\ LockHeld'
  BY <1>1 DEF CInv, CondTypeOK, LockHeld, Wait
<1>4. CondBalance'
  BY <1>1, <1>2, Counts DEF CInv, CondTypeOK, CondBalance, Wait, Sleepers, Senders
<1>5. Promise!Sleep(t)
  BY <1>1 DEF Promise!Sleep, Wait, Sleepers, Senders
<1> QED
  BY <1>3, <1>4, <1>5 DEF CInv, AbstractStep, Promise!Next

\* Signal moves one waiter from the counter to the channel, or to a send that blocks.
LEMMA SignalStep ==
  ASSUME CInv, NEW t \in Threads, Entering(t), Signal(t) PROVE CInv' /\ AbstractStep
<1>1. CASE waiting = 0
  <2>1. UNCHANGED cond
    BY <1>1 DEF Signal
  <2> QED
    BY <2>1 DEF CInv, CondTypeOK, LockHeld, CondBalance, In, cond, AbstractStep, Sleepers, Owed, Senders
<1>2. CASE waiting # 0 /\ ch < Room
  <2>1. ch' = ch + 1 /\ waiting' = waiting - 1 /\ UNCHANGED <<mu, at>>
    BY <1>2 DEF Signal, Send
  <2>2. UNCHANGED <<Sleepers, Senders, In({"got"})>>
    BY <2>1 DEF Sleepers, Senders, In
  <2>3. CondTypeOK' /\ LockHeld'
    BY <1>2, <2>1 DEF CInv, CondTypeOK, LockHeld, Room
  <2>4. CondBalance' /\ Owed < Cardinality(Sleepers) /\ Owed' = Owed + 1
    BY <1>2, <2>1, <2>2, Counts DEF CInv, CondTypeOK, CondBalance, Owed, Sleepers, Senders, Room
  <2>5. Promise!Notify
    BY <2>2, <2>4, SameCardinality DEF Promise!Notify, Owed, Sleepers, Senders
  <2> QED
    BY <2>3, <2>4, <2>5 DEF CInv, AbstractStep, Promise!Next
<1>3. CASE waiting # 0 /\ ~(ch < Room)
  <2>1. waiting' = waiting - 1 /\ mu' = t /\ at' = [at EXCEPT ![t] = "send"] /\ UNCHANGED ch
    BY <1>3 DEF Signal, Send
  <2>2. /\ Sleepers' = Sleepers /\ Senders' = Senders \cup {t} /\ In({"got"})' = In({"got"})
        /\ t \notin Senders
        /\ at' \in [Threads -> {"out", "select", "got", "done", "send", "bcast", "recv"}]
        /\ at'[t] = "send" /\ \A u \in Threads \ {t} : at'[u] = at[u]
    BY Zenon, <2>1, Moves DEF CInv, Entering, Sleepers, Senders, In
  <2>3. Cardinality(Senders') = Cardinality(Senders) + 1
    BY <2>2, Counts, CountFacts
  <2>4. CondTypeOK' /\ LockHeld'
    BY <1>3, <2>1, <2>2, ThreadsOK DEF ThreadsOK, CInv, CondTypeOK, LockHeld, Entering
  <2>5. CondBalance' /\ Owed < Cardinality(Sleepers) /\ Owed' = Owed + 1
    BY <1>3, <2>1, <2>2, <2>3, Counts DEF CInv, CondTypeOK, CondBalance, Owed, Sleepers, Senders, Room
  <2>6. Promise!Notify
    BY <2>2, <2>5, SameCardinality DEF Promise!Notify, Owed, Sleepers, Senders
  <2> QED
    BY <2>4, <2>5, <2>6 DEF CInv, AbstractStep, Promise!Next
<1> QED
  BY <1>1, <1>2, <1>3

\* So does each signal of Broadcast.
LEMMA BroadcastStep ==
  ASSUME CInv, NEW t \in Threads, Entering(t) \/ (mu = t /\ at[t] = "bcast"), Broadcast(t)
  PROVE  CInv' /\ AbstractStep
<1> DEFINE to == IF ch < Room /\ waiting = 1 THEN "out" ELSE "bcast"
<1>1. /\ at' = [at EXCEPT ![t] = to] /\ to \in {"out", "bcast"} /\ mu' \in {NoOne, t}
      /\ to = "bcast" => mu' = t
  BY DEF Broadcast
<1> HIDE DEF to
<1>2. /\ Sleepers' = Sleepers /\ Senders' = Senders /\ In({"got"})' = In({"got"})
      /\ at' \in [Threads -> {"out", "select", "got", "done", "send", "bcast", "recv"}]
      /\ at'[t] = to /\ \A u \in Threads \ {t} : at'[u] = at[u]
  BY Zenon, <1>1, Moves DEF CInv, Entering, Sleepers, Senders, In
<1>3. CondTypeOK'
  BY <1>1, <1>2 DEF Broadcast, CInv, CondTypeOK, Room
<1>4. LockHeld'
  BY <1>1, <1>2, ThreadsOK DEF ThreadsOK, CInv, LockHeld, Entering
<1>5. CASE ch < Room
  <2>1. ch' = ch + 1 /\ waiting' = waiting - 1 /\ waiting > 0
    BY <1>5 DEF Broadcast
  <2>2. CondBalance' /\ Owed < Cardinality(Sleepers) /\ Owed' = Owed + 1
    BY <1>2, <2>1, Counts DEF CInv, CondTypeOK, CondBalance, Owed, Sleepers, Senders, Room
  <2>3. Promise!Notify
    BY <1>2, <2>2, SameCardinality DEF Promise!Notify, Owed, Sleepers, Senders
  <2> QED
    BY <1>3, <1>4, <2>2, <2>3 DEF CInv, AbstractStep, Promise!Next
<1>6. CASE ~(ch < Room)
  <2>1. UNCHANGED <<ch, waiting>>
    BY <1>6 DEF Broadcast
  <2> QED
    BY <1>2, <1>3, <1>4, <2>1 DEF CInv, CondBalance, Sleepers, Senders, AbstractStep, Owed
<1> QED
  BY <1>5, <1>6

\* A blocked send ends when the channel has room.
LEMMA SentStep ==
  ASSUME CInv, NEW t \in Threads, Sent(t) PROVE CInv' /\ AbstractStep
<1>1. /\ Sleepers' = Sleepers /\ Senders' = Senders \ {t} /\ In({"got"})' = In({"got"})
      /\ t \in Senders
      /\ at' \in [Threads -> {"out", "select", "got", "done", "send", "bcast", "recv"}]
      /\ at'[t] = "out" /\ \A u \in Threads \ {t} : at'[u] = at[u]
  BY Zenon, Moves DEF CInv, Sent, Sleepers, Senders, In
<1>2. Cardinality(Senders') = Cardinality(Senders) - 1
  BY <1>1, Counts, CountFacts
<1>3. CondTypeOK' /\ LockHeld'
  BY <1>1 DEF CInv, CondTypeOK, LockHeld, Sent, Room
<1>4. CondBalance' /\ Owed' = Owed
  BY <1>1, <1>2, Counts DEF CInv, CondTypeOK, CondBalance, Sent, Owed, Sleepers, Senders, Room
<1> QED
  BY <1>1, <1>3, <1>4 DEF CInv, AbstractStep

\* A waiter takes a signal from the channel.
LEMMA ReceiveStep ==
  ASSUME CInv, NEW t \in Threads, Receive(t) PROVE CInv' /\ AbstractStep
<1>1. /\ Sleepers' = Sleepers \ {t} /\ Senders' = Senders /\ In({"got"})' = In({"got"}) \cup {t}
      /\ t \in Sleepers
      /\ at' \in [Threads -> {"out", "select", "got", "done", "send", "bcast", "recv"}]
      /\ at'[t] = "got" /\ \A u \in Threads \ {t} : at'[u] = at[u]
  BY Zenon, Moves DEF CInv, Receive, Sleepers, Senders, In
<1>2. Cardinality(Sleepers') = Cardinality(Sleepers) - 1
  BY <1>1, Counts, CountFacts
<1>3. CondTypeOK' /\ LockHeld'
  BY <1>1 DEF CInv, CondTypeOK, LockHeld, Receive, Room
<1>4. CondBalance' /\ Owed' = Owed - 1 /\ Owed > 0
  BY <1>1, <1>2, Counts DEF CInv, CondTypeOK, CondBalance, Receive, Owed, Sleepers, Senders, Room
<1>5. Promise!Wake(t)
  BY <1>1, <1>4 DEF Promise!Wake, Owed, Sleepers, Senders
<1> QED
  BY <1>3, <1>4, <1>5 DEF CInv, AbstractStep, Promise!Next

\* A waiter whose context ends stays counted.
LEMMA CtxDoneStep ==
  ASSUME CInv, NEW t \in Threads, CtxDone(t) PROVE CInv' /\ AbstractStep
<1>1. /\ Sleepers' = Sleepers /\ Senders' = Senders /\ In({"got"})' = In({"got"})
      /\ at' \in [Threads -> {"out", "select", "got", "done", "send", "bcast", "recv"}]
      /\ at'[t] = "done" /\ \A u \in Threads \ {t} : at'[u] = at[u]
  BY Zenon, Moves DEF CInv, CtxDone, Sleepers, Senders, In
<1>2. CondTypeOK' /\ LockHeld'
  BY <1>1 DEF CInv, CondTypeOK, LockHeld, CtxDone
<1>3. CondBalance' /\ Owed' = Owed
  BY <1>1 DEF CInv, CondBalance, CtxDone, Owed, Sleepers, Senders
<1> QED
  BY <1>1, <1>2, <1>3 DEF CInv, AbstractStep

\* A waiter that was signalled gets the lock and leaves.
LEMMA ResumeStep ==
  ASSUME CInv, NEW t \in Threads, Resume(t) PROVE CInv' /\ AbstractStep
<1>1. /\ Sleepers' = Sleepers /\ Senders' = Senders /\ In({"got"})' = In({"got"}) \ {t}
      /\ t \in In({"got"})
      /\ at' \in [Threads -> {"out", "select", "got", "done", "send", "bcast", "recv"}]
      /\ at'[t] = "out" /\ \A u \in Threads \ {t} : at'[u] = at[u]
  BY Zenon, Moves DEF CInv, Resume, Sleepers, Senders, In
<1>2. CondTypeOK' /\ LockHeld'
  BY <1>1 DEF CInv, CondTypeOK, LockHeld, Resume
<1>3. CondBalance' /\ Owed' = Owed
  BY <1>1 DEF CInv, CondBalance, Resume, Owed, Sleepers, Senders
<1>4. Promise!Resume(t)
  BY <1>1, <1>3 DEF Promise!Resume, Owed, Sleepers, Senders
<1> QED
  BY <1>2, <1>3, <1>4 DEF CInv, AbstractStep, Promise!Next

\* A cancelled wait finds itself counted, or a signal in the channel: with the lock
\* free nobody is sending, so the balance leaves no third case.
LEMMA CancelledStep ==
  ASSUME CInv, NEW t \in Threads, Cancelled(t) PROVE CInv' /\ AbstractStep /\ (waiting > 0 \/ ch > 0)
<1>1. t \in Sleepers /\ t \notin Senders /\ t \notin In({"got"}) /\ mu = NoOne
  BY DEF Cancelled, Sleepers, Senders, In
<1>2. Senders = {}
  BY <1>1, ThreadsOK DEF ThreadsOK, CInv, LockHeld, Senders, In
<1>3. Cardinality(Senders) = 0 /\ Cardinality(Sleepers) > 0
  BY <1>1, <1>2, Counts, CountFacts, FS_EmptySet
<1>4. waiting > 0 \/ ch > 0
  BY <1>3, Counts DEF CInv, CondTypeOK, CondBalance, Sleepers, Senders, Room
<1>5. at' = [at EXCEPT ![t] = "out"] /\ UNCHANGED mu
  BY <1>4 DEF Cancelled, CInv, CondTypeOK
<1>6. /\ Sleepers' = Sleepers \ {t} /\ Senders' = Senders /\ In({"got"})' = In({"got"})
      /\ at' \in [Threads -> {"out", "select", "got", "done", "send", "bcast", "recv"}]
      /\ at'[t] = "out" /\ \A u \in Threads \ {t} : at'[u] = at[u]
  BY Zenon, <1>1, <1>5, Moves DEF CInv, Sleepers, Senders, In
<1>7. Cardinality(Sleepers') = Cardinality(Sleepers) - 1
  BY <1>1, <1>6, Counts, CountFacts
<1>8. CondTypeOK' /\ LockHeld'
  BY <1>4, <1>5, <1>6 DEF CInv, CondTypeOK, LockHeld, Cancelled, Room
<1>9. CondBalance' /\ Owed' = IF Owed = Cardinality(Sleepers) THEN Owed - 1 ELSE Owed
  BY <1>3, <1>4, <1>6, <1>7, Counts DEF CInv, CondTypeOK, CondBalance, Cancelled, Owed, Sleepers, Senders, Room
<1>10. Promise!GiveUp(t)
  BY <1>1, <1>6, <1>9, SameCardinality DEF Promise!GiveUp, Owed, Sleepers, Senders
<1> QED
  BY <1>4, <1>8, <1>9, <1>10 DEF CInv, AbstractStep, Promise!Next

\* CInv is inductive, and every step is one of the abstract condition variable.
LEMMA CStep == CInv /\ [Next]_cond => CInv' /\ AbstractStep
<1> SUFFICES ASSUME CInv, [Next]_cond PROVE CInv' /\ AbstractStep
  OBVIOUS
<1>1. CASE UNCHANGED cond
  BY <1>1 DEF CInv, CondTypeOK, LockHeld, CondBalance, In, cond, AbstractStep, Sleepers, Owed, Senders
<1>2. ASSUME NEW t \in Threads,
             \/ Entering(t) /\ (Wait(t) \/ Signal(t) \/ Broadcast(t))
             \/ mu = t /\ at[t] = "bcast" /\ Broadcast(t)
             \/ Sent(t) \/ Receive(t) \/ CtxDone(t) \/ Resume(t) \/ Cancelled(t)
      PROVE  CInv' /\ AbstractStep
  BY <1>2, WaitStep, SignalStep, BroadcastStep, SentStep, ReceiveStep, CtxDoneStep, ResumeStep,
     CancelledStep
<1> QED
  BY <1>1, <1>2 DEF Next, Entering

\* Every thread inside Wait is counted or has a signal sent for it, for any number
\* of threads that wait, signal, broadcast and give up.
THEOREM CondBalanceAlways == Spec => []CondBalance
<1>1. CInv => CondBalance
  BY DEF CInv
<1> QED
  BY <1>1, CInit, CStep, PTL DEF Spec

\* The receive in the cancelled branch of Wait never blocks with the lock held.
THEOREM CancelNeverBlocksAlways == Spec => []CancelNeverBlocks
<1>1. CondInit => CancelNeverBlocks
  BY DEF CondInit, CancelNeverBlocks, In
<1>2. CInv /\ CancelNeverBlocks /\ [Next]_cond => CancelNeverBlocks'
  <2> SUFFICES ASSUME CInv, CancelNeverBlocks, [Next]_cond, NEW u \in Threads, at'[u] = "recv"
               PROVE  FALSE
    BY DEF CancelNeverBlocks, In
  <2>1. at[u] # "recv"
    BY DEF CancelNeverBlocks, In
  <2>2. PICK t \in Threads : Cancelled(t) /\ at'[u] = "recv"
    BY <2>1 DEF Next, cond, Wait, Signal, Send, Broadcast, Sent, Receive, CtxDone, Resume, CInv, CondTypeOK
  <2>3. waiting > 0 \/ ch > 0
    BY <2>2, CancelledStep
  <2> QED
    BY <2>1, <2>2, <2>3 DEF Cancelled, CInv, CondTypeOK
<1> QED
  BY <1>1, <1>2, CInit, CStep, PTL DEF Spec

\* The counter and the channel implement the cancellable condition variable.
THEOREM CondImplements == Spec => Implements
<1>1. CondInit => Promise!Init
  <2> SUFFICES ASSUME CondInit PROVE Promise!Init
    OBVIOUS
  <2>1. Sleepers = {} /\ Senders = {} /\ In({"got"}) = {}
    BY DEF CondInit, Sleepers, Senders, In
  <2> QED
    BY <2>1, FS_EmptySet DEF CondInit, Promise!Init, Sleepers, Senders
<1>2. CInv /\ [Next]_cond => [Promise!Next]_(Promise!vars)
  BY CStep DEF AbstractStep, Promise!vars, Sleepers, Owed, Senders
<1> QED
  BY <1>1, <1>2, CInit, CStep, PTL DEF Spec, Implements, Promise!Spec
=============================================================================
