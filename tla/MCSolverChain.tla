---------------------------- MODULE MCSolverChain ----------------------------
(* SolverChain for TLC: four tasks in four planning inputs.                *)
EXTENDS SolverChain

CONSTANTS a, b, c, d, g, k1, k2, d1, d2

MCDepotOf == [k \in Clusters |-> IF k = k1 THEN d1 ELSE d2]
MCInventory == [x \in Depots |-> IF x = d1 THEN 2 ELSE 1]

Pred(pb, pc_, pd) ==
    [t \in Tasks |-> CASE t = b -> pb [] t = c -> pc_ [] t = d -> pd [] OTHER -> NoTask]

Alt(S) == [t \in Tasks |-> IF t \in S THEN g ELSE NoGroup]

Need(S) == [t \in Tasks |-> IF t \in S THEN 1 ELSE 0]

\* A chain of three beside a task, all but its head consuming material.
Chain == [pred |-> Pred(a, b, NoTask), alt |-> Alt({}), sited |-> Tasks, need |-> Need({b, c, d})]

\* Two alternatives, one with a predecessor, one with a dependent.
Alternatives ==
    [pred |-> Pred(a, NoTask, c), alt |-> Alt({b, c}), sited |-> Tasks, need |-> Need({b, c})]

\* A chain whose head has no known location.
Unsited ==
    [pred |-> Pred(a, b, NoTask), alt |-> Alt({c, d}), sited |-> {b, c, d}, need |-> Need({d})]

\* Two tasks that wait for each other, and one that waits for one of them.
Cycle ==
    [pred |-> [Pred(a, b, NoTask) EXCEPT ![a] = b], alt |-> Alt({}), sited |-> Tasks,
     need |-> Need({a})]

MCInputs == {Chain, Alternatives, Unsited, Cycle}

=============================================================================
