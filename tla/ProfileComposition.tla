-------------------------- MODULE ProfileComposition --------------------------
(***************************************************************************)
(* Composing the optimization profiles of the domains a snapshot spans     *)
(* (contracts/profile.py, composite_profile of contracts/registry.py): the *)
(* first domain's profile is the base, and each further one is layered     *)
(* under it.                                                               *)
(*                                                                         *)
(* A profile is a record of its contracts (a set), its planning modes      *)
(* (mode to adapter), its constraints (id to whether it is enforced, and   *)
(* its parameters), its monitoring policy (scalars, and overrides by asset *)
(* type and by asset), its weather policy (limits by dimension, the        *)
(* dimensions an operation is sensitive to, and whether a forecast is      *)
(* needed) and its material demand by operation.  The order in which lists *)
(* keep their entries is left out.                                         *)
(***************************************************************************)
EXTENDS Integers, Sequences, SequencesExt

CONSTANTS
    Dimensions,     \* weather dimensions that have a limit
    Ids, Values     \* keys and entries of the other sections

\* Any functions whose keys are among Ids.
Sections == UNION {[S -> Values] : S \in SUBSET Ids}
Constraints == UNION {[S -> [enforced : BOOLEAN, rest : Values]] : S \in SUBSET Ids}
Profiles ==
    [contracts : SUBSET Ids, modes : Sections, constraints : Constraints,
     monitoring : [base : Values, types : Sections, assets : Sections],
     weather : [limits : [Dimensions -> Int], sensitivity : Sections, coverage : BOOLEAN],
     demand : Sections]

\* {**secondary, **primary}
Over(primary, secondary) ==
    [k \in DOMAIN primary \cup DOMAIN secondary |->
        IF k \in DOMAIN primary THEN primary[k] ELSE secondary[k]]

\* _merge_constraints that keeps what the base says.
MergeConstraintsBase(p, q) == Over(p, q)

\* _merge_constraints: a constraint of both is the base's, unless only the
\* other profile enforces it.
MergeConstraints(p, q) ==
    [id \in DOMAIN p \cup DOMAIN q |->
        IF id \notin DOMAIN p \/ (id \in DOMAIN q /\ q[id].enforced /\ ~p[id].enforced)
        THEN q[id] ELSE p[id]]

\* MonitoringPolicySpec.composed_with
ComposedMonitoring(p, q) ==
    [base |-> p.base, types |-> Over(p.types, q.types), assets |-> Over(p.assets, q.assets)]

\* The lower of two limits; the dimensions are the same in every policy.
Stricter(p, q) == [d \in DOMAIN p |-> IF p[d] <= q[d] THEN p[d] ELSE q[d]]

\* WeatherPolicySpec.composed_with
ComposedWeather(p, q) ==
    [limits |-> Stricter(p.limits, q.limits),
     sensitivity |-> Over(p.sensitivity, q.sensitivity),
     coverage |-> p.coverage \/ q.coverage]

\* OptimizationProfile.composed_with
Composed(p, q) ==
    [contracts |-> p.contracts \cup q.contracts,
     modes |-> Over(p.modes, q.modes),
     constraints |-> MergeConstraints(p.constraints, q.constraints),
     monitoring |-> ComposedMonitoring(p.monitoring, q.monitoring),
     weather |-> ComposedWeather(p.weather, q.weather),
     demand |-> Over(p.demand, q.demand)]

\* composite_profile: the first domain's profile is the primary one.
CompositeProfile(profiles) == FoldLeft(Composed, Head(profiles), Tail(profiles))

\* enforced_constraints
Enforced(p) == {id \in DOMAIN p.constraints : p.constraints[id].enforced}

-------------------------------------------------------------------------------
(* What composition promises *)

\* A composite enforces what any of its profiles enforces, and nothing else.
KeepsEnforced(p, q) == Enforced(Composed(p, q)) = Enforced(p) \cup Enforced(q)

\* No weather limit of whole is above the one of part, and a forecast is needed
\* when part needs it.
AsCautious(whole, part) ==
    /\ \A d \in DOMAIN part.weather.limits : whole.weather.limits[d] <= part.weather.limits[d]
    /\ part.weather.coverage => whole.weather.coverage

KeepsCautious(p, q) == AsCautious(Composed(p, q), p) /\ AsCautious(Composed(p, q), q)

\* The order of the domains counts, not how the fold over them is bracketed.
Associates(p, q, r) == Composed(Composed(p, q), r) = Composed(p, Composed(q, r))
===============================================================================
