---------------------------- MODULE MCEventApply ----------------------------
EXTENDS EventApply, TLC

CONSTANTS c1, c2

\* A domain with an area column, and a task that carries its polygon.
MCRows ==
    {[work |-> 3, area |-> 2, ground |-> 0, started |-> FALSE],
     [work |-> 2, area |-> 0, ground |-> 2, started |-> FALSE]}

CellSymmetry == Permutations(Cells)

=============================================================================
