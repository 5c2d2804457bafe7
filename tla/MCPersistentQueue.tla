------------------------- MODULE MCPersistentQueue -------------------------
EXTENDS PersistentQueue, TLC

CONSTANTS r1, r2, r3, r4

\* One request of two items, the others of one.
MCItemsOf == [r \in Reqs |-> IF r = r2 THEN 2 ELSE 1]
NoOldQueue == <<>>
TwoOld == <<r1, r2>>
=============================================================================
