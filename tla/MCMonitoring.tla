---------------------------- MODULE MCMonitoring ----------------------------
(***************************************************************************)
(* Small instances of the monitoring loop: two station types, one asset    *)
(* that may move, limits lowered so that outliers, frozen values, drift    *)
(* and downsampling are met within a few readings.                         *)
(***************************************************************************)
EXTENDS SnapshotRuns

Kinds == [s1 |-> "radar", s2 |-> "radar", s3 |-> "weather"]
Reviewed ==
    [base |-> [low |-> 2000, critical |-> 500, horizon |-> 300, confidence |-> 50, composite |-> 3500, mobile |-> FALSE],
     types |-> [t \in Types |-> IF t = "weather" THEN [low |-> 2500, mobile |-> TRUE] ELSE NoOverride],
     assets |-> [a \in Assets |-> IF a = "s2" THEN [low |-> 2200] ELSE NoOverride]]
Bounds == [low |-> <<500, 2600>>, horizon |-> <<280, 1400>>, composite |-> <<1000, 6000>>]

Of(a, metric, values, flags) ==
    {[asset |-> a, metric |-> metric, value |-> v, flag |-> f] : v \in values, f \in flags}
NoDue == [a \in Assets |-> 0]

\* One battery: late and early arrivals, flags, faults, outliers, a burst.
Series == [reports |-> Of("s1", "battery", {60, 28}, {"ok"}) \cup Of("s1", "battery", {18}, {"ok", "bad"}),
           delays |-> {0, 1, -1}, landing |-> {}, completions |-> {}, dues |-> {NoDue},
           today |-> 2, days |-> 3, events |-> 4, tunes |-> 0, restarts |-> FALSE, dies |-> {}, builds |-> 0]
\* A metric that drifts or freezes, and health, with a service date near.
Signals == [reports |-> Of("s1", "moisture", {10, 13, 14, 30}, {"ok"}) \cup Of("s1", "health", {"degraded"}, {"suspect"}),
            delays |-> {0, 1}, landing |-> {}, completions |-> {}, dues |-> {[NoDue EXCEPT !["s1"] = 3]},
            today |-> 2, days |-> 2, events |-> 4, tunes |-> 0, restarts |-> FALSE, dies |-> {}, builds |-> 0]
\* Prognoses come true or not, and the policy is tuned.
Feedback == [reports |-> Of("s1", "battery", {21, 19, 4}, {"ok"}) \cup Of("s3", "battery", {24, 4}, {"ok"}),
             delays |-> {0}, landing |-> {}, completions |-> {"order", "service"}, dues |-> {[NoDue EXCEPT !["s3"] = 9]},
             today |-> 1, days |-> 2, events |-> 4, tunes |-> 2, restarts |-> FALSE, dies |-> {}, builds |-> 0]
\* Periodic plans from the data directory between sessions.
Periodic == [reports |-> Of("s2", "health", {"failed"}, {"ok"}), delays |-> {0},
             landing |-> Of("s2", "health", {"healthy", "degraded", "failed"}, {"ok"}), completions |-> {},
             dues |-> {NoDue, [NoDue EXCEPT !["s3"] = 3]}, today |-> 2, days |-> 3, events |-> 5, tunes |-> 1,
             restarts |-> TRUE, dies |-> BOOLEAN, builds |-> 0]
\* Snapshot builds while bad readings pile up in the data directory.
Builds == [reports |-> {}, delays |-> {0},
           landing |-> Of("s1", "battery", {60}, {"ok", "bad"}), completions |-> {},
           dues |-> {NoDue}, today |-> 2, days |-> 2, events |-> 3, tunes |-> 0,
           restarts |-> FALSE, dies |-> {}, builds |-> 3]
AllMenus == {Series, Signals, Feedback, Periodic, Builds}
=============================================================================
