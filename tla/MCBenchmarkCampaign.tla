------------------------- MODULE MCBenchmarkCampaign -------------------------
(* Two workers, two throughput levels, four loads to double through, two levels *)
(* of comparison, the directories of two earlier searches.                       *)
EXTENDS BenchmarkCampaign

MCWorker == {"worker-1", "worker-2"}
\* Two scenarios before: 16 failed and 12 was confirmed, 8 failed and 6 was confirmed.
Confirming(u) ==
  {[name |-> n, round |-> 0, users |-> u] : n \in {"refine", "calibration"}}
    \cup {[name |-> "confirm", round |-> r, users |-> u] : r \in {1, 2}}
MCOldReports ==
  {[name |-> "search", round |-> 0, users |-> u] : u \in {4, 8, 16}}
    \cup Confirming(12) \cup Confirming(6)
MCLevels == <<4, 8>>
=============================================================================
