-------------------------- MODULE MCBatchProcessor --------------------------
EXTENDS BatchProcessor

CONSTANTS i1, i2, i3, i4

\* Five elements need three batches of two; i4 is empty and has a key of its own.
MCNumElems == [i \in Items |-> CASE i = i1 -> 5 [] i = i4 -> 0 [] OTHER -> 1]
MCKeyOf == [i \in Items |-> CASE i = i3 -> "b" [] i = i4 -> "c" [] OTHER -> "a"]

MCConfig(t, s, m, d, l) == [timeout |-> t, size |-> s, max |-> m, metadata |-> d, limit |-> l]
MCConfigs ==
  {MCConfig(TRUE, 2, 2, FALSE, 0), MCConfig(TRUE, 2, 3, TRUE, 1), MCConfig(TRUE, 3, 0, TRUE, 2),
   MCConfig(FALSE, 2, 2, TRUE, 0), MCConfig(TRUE, 0, 2, FALSE, 0)}
=============================================================================
