------------------------- MODULE MCPartitionBatcher -------------------------
EXTENDS PartitionBatcher, TLC

CONSTANTS r1, r2, r3

\* Requests of one, three and five items; the fourth item of r3 fits nowhere.
MCNumItems == [r \in Reqs |-> CASE r = r2 -> 3 [] r = r3 -> 5 [] OTHER -> 1]
MCOversize == {<<r3, 4>>}
=============================================================================
