----------------------------- MODULE MCDataFlow -----------------------------
EXTENDS DataFlow

\* With data of size 3 the batcher merges two requests; and with other limits it gives one
\* to a worker as it is, splits it and keeps the rest, or merges and then splits.
Merging == [min |-> 4, max |-> 0]
OtherLimits == {[min |-> 1, max |-> 0], [min |-> 2, max |-> 2], [min |-> 5, max |-> 5]}

MCExporters == {X \in SUBSET (Exporters \cup {"connector"}) : Cardinality(X) \in 1..2}
Topology(limits) ==
  {[receiver |-> R, proc |-> f, exps |-> x, min |-> l.min, max |-> l.max] :
     R \in {S \in SUBSET Pipelines : 1 \in S}, f \in [Pipelines -> Processors],
     x \in [Pipelines -> MCExporters], l \in limits}
\* Data reaches every pipeline.
Reached(g) ==
  /\ "connector" \notin g.exps[N]
  /\ \A p \in Pipelines \ {1} : p \in g.receiver \/ "connector" \in g.exps[p - 1]
\* One branching at most: in the receiver, or in the pipelines.
Narrow(g) == g.receiver = {1} \/ \A p \in Pipelines : Cardinality(g.exps[p]) = 1

\* Every topology in which a pipeline has one or two exporters, and with the other limits
\* the narrow ones that have a batcher.
MCTopologies ==
  {g \in Topology({Merging}) : Reached(g)}
    \cup {g \in Topology(OtherLimits) :
           Reached(g) /\ Narrow(g) /\ \E p \in Pipelines : "batching" \in g.exps[p]}
=============================================================================
