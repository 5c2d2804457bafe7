------------------------------- MODULE CondVar -------------------------------
(***************************************************************************)
(* What a condition variable with cancellable waits promises.  A signal is *)
(* owed to the threads that sleep, never to more of them than there are,   *)
(* and a sleeper that gives up takes a signal with it only if the others   *)
(* cannot use it.                                                          *)
(***************************************************************************)
EXTENDS Naturals, FiniteSets

CONSTANT Threads
VARIABLES asleep, woken, owed
vars == <<asleep, woken, owed>>

Sleep(t) == t \notin asleep \cup woken /\ asleep' = asleep \cup {t} /\ UNCHANGED <<woken, owed>>
Notify == owed < Cardinality(asleep) /\ owed' = owed + 1 /\ UNCHANGED <<asleep, woken>>
Wake(t) ==
  /\ t \in asleep /\ owed > 0
  /\ asleep' = asleep \ {t} /\ woken' = woken \cup {t} /\ owed' = owed - 1
Resume(t) == t \in woken /\ woken' = woken \ {t} /\ UNCHANGED <<asleep, owed>>
GiveUp(t) ==
  /\ t \in asleep
  /\ asleep' = asleep \ {t} /\ UNCHANGED woken
  /\ owed' = IF owed = Cardinality(asleep) THEN owed - 1 ELSE owed

Init == asleep = {} /\ woken = {} /\ owed = 0
Next == Notify \/ \E t \in Threads : Sleep(t) \/ Wake(t) \/ Resume(t) \/ GiveUp(t)
Spec == Init /\ [][Next]_vars
=============================================================================
