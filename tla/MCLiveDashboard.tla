--------------------------- MODULE MCLiveDashboard ---------------------------
(* A country with few samples beside one with many; what the feed reports of
   them varies, the rest of a snapshot does not. *)
EXTENDS LiveDashboard

CONSTANTS small, large

At == 1000

Region(status, figures, count) ==
    [status |-> status, figures |-> figures, count |-> count, updated |-> At - 40]

Reports(r) ==
    IF r = small
    THEN {Region("healthy", "f1", 3), Region("blocked", "f2", 7)}
    ELSE {Region("degraded", "f3", 130)}

SnapshotOf(threshold, regions) ==
    [threshold |-> threshold, generated |-> At, regions |-> regions,
     inside |-> [active |-> 1030, survival |-> 81, blackout |-> 12, mesh |-> 40, seeds |-> 55,
                 updated |-> At - 3],
     outside |-> [bundles |-> 13, distributed |-> 7, updated |-> At - 5],
     protocols |-> <<[protocol |-> "reality", success |-> 70, tier |-> "primary", updated |-> At - 1],
                     [protocol |-> "tuic", success |-> 70, tier |-> "fallback", updated |-> At - 2]>>,
     release |-> [latest |-> "v0.1.0", signature |-> "ok", age |-> 20, downloads |-> None,
                  artifacts |-> [linux |-> TRUE, macos |-> FALSE], updated |-> At - 9],
     helpers |-> <<[id |-> 7, label |-> "north", coords |-> 523, availability |-> "up",
                    updated |-> At - 8]>>,
     flows |-> <<[from |-> 521, to |-> -18, intensity |-> 120, ts |-> At - 11]>>,
     activity |-> <<[ts |-> At - 12, severity |-> "warn", message |-> "m1"],
                    [ts |-> At - 200, severity |-> "info", message |-> "m2"]>>]

Reported(thresholds) ==
    {SnapshotOf(t, [r \in {small, large} |-> IF r = small THEN a ELSE b]) :
       t \in thresholds, a \in Reports(small), b \in Reports(large)}

TwoThresholds == {20, 50}
AnyReport == Reported(TwoThresholds)
=============================================================================
