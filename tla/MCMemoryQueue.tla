--------------------------- MODULE MCMemoryQueue ---------------------------
EXTENDS MemoryQueue, TLC

CONSTANTS r2, c1

\* Callers that wait for the result, with one request of size two; callers that do
\* not; and callers that do not wait for space either, with a request that is larger
\* than the queue or empty.
MCConfig(n, wait, block, C) ==
  [sizeOf |-> [r \in Reqs |-> IF r = r2 THEN n ELSE 1],
   waitForResult |-> wait, blockOnOverflow |-> block, consumers |-> C]
MCConfigs ==
  {MCConfig(2, TRUE, TRUE, {c1}), MCConfig(1, FALSE, TRUE, Consumers),
   MCConfig(3, FALSE, FALSE, {c1}), MCConfig(0, TRUE, FALSE, {c1})}

\* Interchangeable instances and callers.
FullSymmetry == Permutations(Slots) \cup Permutations(Reqs \ {r2})
=============================================================================
