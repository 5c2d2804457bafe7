--------------------------- MODULE MCBaseExporter ---------------------------
EXTENDS BaseExporter

CONSTANTS r1, r2, r3, c1, c2

\* Two requests of one key, and one of another.
MCKeyOf == [r \in Reqs |-> IF r = r3 THEN "b" ELSE "a"]

MCConfig(b, p, C, q) == [batching |-> b, persistent |-> p, consumers |-> C, queue |-> q]
MCConfigs ==
  {MCConfig(TRUE, FALSE, {c1, c2}, <<r1, r3>>), MCConfig(TRUE, FALSE, {c1, c2}, <<r1, r2>>),
   MCConfig(TRUE, FALSE, {c1}, <<r1, r3, r2>>), MCConfig(TRUE, TRUE, {c1}, <<r1, r2, r3>>),
   MCConfig(FALSE, TRUE, {c1, c2}, <<r1, r2, r3>>), MCConfig(FALSE, FALSE, {c1}, <<r1, r2, r3>>)}
=============================================================================
