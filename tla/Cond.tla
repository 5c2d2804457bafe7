-------------------------------- MODULE Cond --------------------------------
(***************************************************************************)
(* The condition variable of exporterhelper/internal/queue/cond.go: a      *)
(* counter of waiters and a channel with room for one signal.  Signal,     *)
(* Broadcast and Wait are called with c.L held.  A step is what a thread   *)
(* does from taking the lock to releasing it, so the lock only shows while *)
(* its holder is blocked on the channel.                                   *)
(***************************************************************************)
EXTENDS Integers, FiniteSets

CONSTANTS Threads, NoOne

ASSUME ThreadsOK == IsFiniteSet(Threads) /\ NoOne \notin Threads

VARIABLES
  mu,       \* c.L: NoOne, or the thread that is blocked while it holds it
  waiting,  \* c.waiting
  ch,       \* signals in c.ch
  at        \* where each thread stands

cond == <<mu, waiting, ch, at>>

Room == 1   \* the buffer of c.ch

CondInit ==
  /\ mu = NoOne /\ waiting = 0 /\ ch = 0
  /\ at = [t \in Threads |-> "out"]

\* c.ch <- struct{}{}, by the thread that holds the lock; next is where it is
\* when it has to block.
Send(t, next) ==
  IF ch < Room THEN ch' = ch + 1 /\ UNCHANGED <<mu, at>>
  ELSE mu' = t /\ at' = [at EXCEPT ![t] = next] /\ UNCHANGED ch

Signal(t) ==
  IF waiting = 0 THEN UNCHANGED cond
  ELSE waiting' = waiting - 1 /\ Send(t, "send")

\* One turn of the loop in Broadcast; the lock stays with t between the turns.
Broadcast(t) ==
  /\ waiting > 0
  /\ IF ch < Room
       THEN /\ ch' = ch + 1 /\ waiting' = waiting - 1
            /\ mu' = IF waiting = 1 THEN NoOne ELSE t
            /\ at' = [at EXCEPT ![t] = IF waiting = 1 THEN "out" ELSE "bcast"]
       ELSE mu' = t /\ at' = [at EXCEPT ![t] = "bcast"] /\ UNCHANGED <<waiting, ch>>

\* The blocked send goes through: Signal returns and the lock is released.
Sent(t) ==
  /\ at[t] = "send" /\ ch < Room
  /\ ch' = ch + 1 /\ mu' = NoOne /\ at' = [at EXCEPT ![t] = "out"]
  /\ UNCHANGED waiting

\* Wait up to the select.
Wait(t) ==
  /\ waiting' = waiting + 1
  /\ at' = [at EXCEPT ![t] = "select"]
  /\ UNCHANGED <<mu, ch>>

\* The select takes one of its cases; both go on to lock c.L.
ReceiveDecrements(t) ==   \* mutant: Signal and the waiter both count down
  /\ at[t] = "select" /\ ch > 0
  /\ ch' = ch - 1 /\ waiting' = IF waiting = 0 THEN 0 ELSE waiting - 1
  /\ at' = [at EXCEPT ![t] = "got"] /\ UNCHANGED mu
Receive(t) ==
  /\ at[t] = "select" /\ ch > 0
  /\ ch' = ch - 1 /\ at' = [at EXCEPT ![t] = "got"]
  /\ UNCHANGED <<mu, waiting>>

CtxDone(t) ==
  /\ at[t] = "select"
  /\ at' = [at EXCEPT ![t] = "done"]
  /\ UNCHANGED <<mu, waiting, ch>>

\* Wait returns nil, with the lock.
Resume(t) ==
  /\ at[t] = "got" /\ mu = NoOne
  /\ at' = [at EXCEPT ![t] = "out"]
  /\ UNCHANGED <<mu, waiting, ch>>

\* Wait returns the error of its context.  A thread at "recv" would be blocked in
\* <-c.ch with the lock, for ever.
CancelledAlwaysDecrements(t) ==   \* mutant: the signal is left in the channel
  /\ at[t] = "done" /\ mu = NoOne
  /\ waiting' = IF waiting = 0 THEN 0 ELSE waiting - 1
  /\ at' = [at EXCEPT ![t] = "out"] /\ UNCHANGED <<mu, ch>>
CancelledConsumes(t) ==           \* mutant: takes a signal that others wait for
  /\ at[t] = "done" /\ mu = NoOne
  /\ IF ch > 0 THEN ch' = ch - 1 /\ UNCHANGED waiting ELSE waiting' = waiting - 1 /\ UNCHANGED ch
  /\ at' = [at EXCEPT ![t] = "out"] /\ UNCHANGED mu
Cancelled(t) ==
  /\ at[t] = "done" /\ mu = NoOne
  /\ IF waiting > 0
       THEN waiting' = waiting - 1 /\ at' = [at EXCEPT ![t] = "out"] /\ UNCHANGED <<mu, ch>>
     ELSE IF ch > 0
       THEN ch' = ch - 1 /\ at' = [at EXCEPT ![t] = "out"] /\ UNCHANGED <<mu, waiting>>
     ELSE mu' = t /\ at' = [at EXCEPT ![t] = "recv"] /\ UNCHANGED <<waiting, ch>>

-----------------------------------------------------------------------------
(* The condition variable on its own: any thread waits, signals, broadcasts. *)

Next ==
  \E t \in Threads :
    \/ mu = NoOne /\ at[t] = "out" /\ (Wait(t) \/ Signal(t) \/ Broadcast(t))
    \/ mu = t /\ at[t] = "bcast" /\ Broadcast(t)
    \/ Sent(t) \/ Receive(t) \/ CtxDone(t) \/ Resume(t) \/ Cancelled(t)

Spec == CondInit /\ [][Next]_cond

-----------------------------------------------------------------------------
(* Properties. *)

\* Type invariant; the channel never holds more than its one slot.
CondTypeOK ==
  /\ mu \in Threads \cup {NoOne} /\ waiting \in Nat /\ ch \in 0..Room
  /\ at \in [Threads -> {"out", "select", "got", "done", "send", "bcast", "recv"}]

In(S) == {t \in Threads : at[t] \in S}

\* Every thread inside Wait that has not received a signal is either counted in
\* waiting or has one signal sent (or being sent) for it.
CondBalance ==
  waiting + ch + Cardinality(In({"send"})) = Cardinality(In({"select", "done", "recv"}))

\* A wait that gives up never blocks: when it finds waiting = 0 "there was a signal
\* sent", and the signal is still in the channel.
CancelNeverBlocks == In({"recv"}) = {}

\* Signal blocks, if at all, only until a waiter takes the signal before it: "we
\* don't block the producer because the channel buffer is full".
SignalNeverStuck == In({"send"}) # {} /\ ch = Room => In({"select"}) # {}

Promise == INSTANCE CondVar WITH
  asleep <- In({"select", "done", "recv"}), woken <- In({"got"}),
  owed <- ch + Cardinality(In({"send"}))

\* It is "equivalent with sync.Cond, but context.Context aware".
Implements == Promise!Spec
=============================================================================
