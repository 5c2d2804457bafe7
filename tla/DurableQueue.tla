---------------------------- MODULE DurableQueue ----------------------------
(***************************************************************************)
(* What a persistent sending queue promises to the callers of Offer: a     *)
(* request it accepted is kept until it was handed out and finished, and   *)
(* is handed out again after a restart if it was not (at-least-once).      *)
(***************************************************************************)
CONSTANT Reqs

VARIABLES accepted,   \* requests whose Offer returned nil
          kept,       \* requests that a restart would find
          out,        \* requests handed out by the running process
          finished    \* requests whose processing ended with a final result

dvars == <<accepted, kept, out, finished>>

Init == accepted \in SUBSET Reqs /\ kept = accepted /\ out = {} /\ finished = {}

Accept(r) ==
  /\ r \notin accepted
  /\ accepted' = accepted \cup {r} /\ kept' = kept \cup {r}
  /\ UNCHANGED <<out, finished>>

Dispatch(r) ==
  /\ r \in kept \ out
  /\ out' = out \cup {r}
  /\ UNCHANGED <<accepted, kept, finished>>

\* The exporter is shutting down: the request is given back unfinished.
GiveBack(r) ==
  /\ r \in out
  /\ out' = out \ {r}
  /\ UNCHANGED <<accepted, kept, finished>>

Finish(r) ==
  /\ r \in out
  /\ out' = out \ {r} /\ finished' = finished \cup {r}
  /\ UNCHANGED <<accepted, kept>>

Release(r) ==
  /\ r \in (kept \cap finished) \ out
  /\ kept' = kept \ {r}
  /\ UNCHANGED <<accepted, out, finished>>

ProcessEnds == out' = {} /\ UNCHANGED <<accepted, kept, finished>>

Next ==
  \/ \E r \in Reqs : Accept(r) \/ Dispatch(r) \/ GiveBack(r) \/ Finish(r) \/ Release(r)
  \/ ProcessEnds

Spec == Init /\ [][Next]_dvars
=============================================================================
