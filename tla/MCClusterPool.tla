---------------------------- MODULE MCClusterPool ----------------------------
(* ClusterPool for TLC: four clusters, two kinds of work, two backup       *)
(* operators.                                                              *)
EXTENDS ClusterPool

CONSTANTS c1, c2, c3, c4, plough, spray, o1, o2

\* o1 is certified for ploughing only.
MCCertified == [k \in Operations |-> IF k = plough THEN {o1, o2} ELSE {o2}]

\* A demand pattern: what cluster c needs a plough backup for, and what c3
\* needs a spray backup for.
Pattern(p1, p2, p3, p4, s3) ==
    [n \in Needs |->
        CASE n = <<c1, plough>> -> p1
          [] n = <<c2, plough>> -> p2
          [] n = <<c3, plough>> -> p3
          [] n = <<c4, plough>> -> p4
          [] n = <<c3, spray>> -> s3
          [] OTHER -> {}]

\* A pair that contends, two pairs, and a chain of
\* three that contend for two operators.
MCDemands ==
    {Pattern({1, 2}, {1, 2}, {1, 2}, {}, {}),
     Pattern({1}, {1}, {1}, {1}, {}),
     Pattern({1}, {1}, {1}, {2}, {1})}

=============================================================================
