---------------------------- MODULE MCCollector ----------------------------
(* A collector with two extensions, two pipelines for traces and one for     *)
(* metrics. They end in exporter y, t1 through processor x. Receiver a is    *)
(* shared by the signals (nodes at and am), receiver b is used for traces.   *)
EXTENDS Collector

CONSTANTS e1, e2, x, y, at, am, bt, t1, t2, m1

MCExts == <<e1, e2>>
MCFixed == {x, y}
MCReceivers == {at, am, bt}
MCKey == [r \in MCReceivers |-> IF r = bt THEN "b" ELSE "a"]
MCEdges == {<<x, y>>}
MCEntry == [p \in {t1, t2, m1} |-> IF p = t1 THEN x ELSE y]

Cfg(a, b, version, rest) ==
  [pipes |-> [r \in MCReceivers |-> CASE r = at -> a [] r = am -> {m1} [] r = bt -> b],
   version |-> [r \in MCReceivers |-> IF r = bt THEN 0 ELSE version],
   rest |-> rest]
MCConfigs == {
  Cfg({t1}, {t2}, 0, 0),
  Cfg({t1}, {t2}, 1, 0),         \* other settings for a
  Cfg({}, {t1, t2}, 0, 0),       \* a receives metrics only, b takes its place
  Cfg({t1}, {t2}, 1, 1)}         \* another change, that needs a full reload
=============================================================================
