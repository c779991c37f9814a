----------------------------- MODULE Assessment -----------------------------
(***************************************************************************)
(* snapshot/assessment.py: what a snapshot keeps of a station's readings   *)
(* and how far it trusts them.  A reading is [asset, metric, at, value,    *)
(* flag]; a sequence of readings is in arrival order.  Times are days,     *)
(* levels and confidences are percentages.  Medians and means are kept as  *)
(* integers by scaling, so every comparison is exact.                      *)
(***************************************************************************)
EXTENDS Integers, Sequences, SequencesExt, FiniteSets, FiniteSetsExt, Functions

CONSTANTS
    Skew,           \* CLOCK_SKEW_TOLERANCE_S, in days
    Retention,      \* OBSERVATION_RETENTION_DAYS
    MaxSeries,      \* OBSERVATION_MAX_SERIES_READINGS
    OutlierMin,     \* OUTLIER_MIN_SERIES_READINGS
    FrozenMin,      \* FROZEN_SERIES_MIN_READINGS
    DriftMin,       \* DRIFT_MIN_SERIES_READINGS
    DriftMultiplier,
    RiseFault       \* BATTERY_RISE_FAULT_PCT

\* Some readings of a burst are kept.
ASSUME AssessmentAssumption == MaxSeries \in Nat \ {0}

At(s, indexes) == [k \in DOMAIN indexes |-> s[indexes[k]]]
\* A finite set in order: an element has as many before it as precede it.
Sorted(S, before(_, _)) ==
    [r \in 1 .. Cardinality(S) |-> CHOOSE x \in S : Cardinality({y \in S : before(y, x)}) = r - 1]
\* The elements of a sequence at the indexes of S.
Those(s, S) == At(s, Sorted(S, <))
ValuesOf(s) == [k \in DOMAIN s |-> s[k].value]
Total(s) == FoldFunction(+, 0, s)
Abs(x) == IF x < 0 THEN -x ELSE x

\* Mutant of History: readings stay in arrival order.
HistoryByArrival(obs, asset, metric) == SelectSeq(obs, LAMBDA o : o.asset = asset /\ o.metric = metric)
(* observation_history: a stable sort by observed time.                   *)
History(obs, asset, metric) ==
    LET mine == {i \in DOMAIN obs : obs[i].asset = asset /\ obs[i].metric = metric}
    IN  At(obs, Sorted(mine, LAMBDA i, j : obs[i].at < obs[j].at \/ (obs[i].at = obs[j].at /\ i < j)))

(* _skew_excluded, _retained                                              *)
Trusted(series, asOf) == Those(series, {k \in DOMAIN series : series[k].at <= asOf + Skew})
InWindow(series, asOf) == Those(series, {k \in DOMAIN series : series[k].at >= asOf - Retention})

\* Mutant of Representative: a window keeps its first reading.
RepresentativeFirst(window) == Head(window)
\* _window_representative: the last reading of a window.
Representative(window) == Last(window)

Downsampled(series) ==
    LET start == series[1].at
        span == Last(series).at - start
        Bucket(o) == Min({((o.at - start) * MaxSeries) \div span, MaxSeries - 1})
        filled == Sorted({Bucket(series[k]) : k \in DOMAIN series}, <)
        kept == [b \in DOMAIN filled |-> Representative(Those(series, {k \in DOMAIN series : Bucket(series[k]) = filled[b]}))]
    IN  IF span <= 0 THEN SubSeq(series, Len(series) - MaxSeries + 1, Len(series))
        ELSE IF kept[1] = series[1] THEN kept ELSE <<series[1]>> \o kept
Retained(series, asOf) ==
    LET recent == InWindow(series, asOf)
    IN  IF Len(recent) <= MaxSeries THEN recent ELSE Downsampled(recent)

(* QUALITY_FLAG_CONFIDENCE                                                *)
FlagFactor(o) == CASE o.flag = "bad" -> 0 [] o.flag = "suspect" -> 50 [] OTHER -> 100
Unflagged(series) == Those(series, {k \in DOMAIN series : FlagFactor(series[k]) > 0})

(* Twice the median of a sequence of integers.                            *)
TwiceMedian(values) ==
    LET sorted == SortSeq(values, <)
        n == Len(values)
    IN  sorted[(n + 1) \div 2] + sorted[(n + 2) \div 2]
(* Four times the median absolute deviation.                              *)
Mad4(values) == TwiceMedian([k \in DOMAIN values |-> Abs(2 * values[k] - TwiceMedian(values))])

(* _outlier_flags: 0.6745 * |v - median| / MAD > 3.5, never with MAD 0.   *)
IsOutlier(values, k) ==
    /\ Len(values) >= OutlierMin /\ Mad4(values) > 0
    /\ 6745 * 2 * Abs(2 * values[k] - TwiceMedian(values)) > 35000 * Mad4(values)
Outliers(values) == {k \in DOMAIN values : IsOutlier(values, k)}
Without(s, drop) == Those(s, DOMAIN s \ drop)

(* _fault_reason: a battery that rises, a value that does not move.       *)
Faulty(metric, values) ==
    \/ metric = "battery" /\ \E k \in 1 .. Len(values) - 1 : values[k + 1] - values[k] > RiseFault
    \/ Len(values) >= FrozenMin /\ values[1] # 0 /\ \A k \in DOMAIN values : values[k] = values[1]

(* _drift_reason: the mean of the second half has left the first's noise. *)
Drifting(metric, values) ==
    LET half == Len(values) \div 2
        base == SubSeq(values, 1, half)
        rest == SubSeq(values, half + 1, Len(values))
        mad == IF Mad4(base) > 0 THEN Mad4(base) ELSE Mad4(values)
    IN  /\ metric # "battery" /\ Len(values) >= DriftMin /\ mad > 0
        /\ 4 * Abs(Total(rest) * Len(base) - Total(base) * Len(rest)) > DriftMultiplier * mad * Len(base) * Len(rest)

(* assess_observations, for one series: the readings that survive with    *)
(* their confidence, and whether the metric drifts.                       *)
Usable(obs, asset, metric, asOf) == Unflagged(Retained(Trusted(History(obs, asset, metric), asOf), asOf))
Weighed(metric, series, kept) ==
    LET fault == Faulty(metric, ValuesOf(kept))
        confidence == IF fault THEN 0 ELSE (100 * Len(kept)) \div Len(series)
        out == Len(series) - Len(kept)
    IN  IF kept = <<>> THEN [readings |-> <<>>, drifts |-> FALSE, bad |-> out, total |-> Len(series)]
        ELSE [readings |-> [k \in DOMAIN kept |-> [at |-> kept[k].at, value |-> kept[k].value,
                                                   confidence |-> Min({confidence, FlagFactor(kept[k])})]],
              drifts |-> ~fault /\ Drifting(metric, ValuesOf(kept)),
              bad |-> IF fault THEN Len(series) ELSE out,
              total |-> Len(series)]
WithoutOutliers(series) == Without(series, Outliers(ValuesOf(series)))
AssessedSeries(metric, series) == Weighed(metric, series, WithoutOutliers(series))
Assessed(obs, asset, metric, asOf) == AssessedSeries(metric, Usable(obs, asset, metric, asOf))

(* A series of states passes through, each at the confidence of its flag.  *)
Passed(obs, asset, metric, asOf) ==
    LET series == Usable(obs, asset, metric, asOf)
    IN  [k \in DOMAIN series |-> [at |-> series[k].at, value |-> series[k].value, confidence |-> FlagFactor(series[k])]]
=============================================================================
