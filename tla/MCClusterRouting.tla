--------------------------- MODULE MCClusterRouting ---------------------------
(* Small clusters, each with one kind of constraint that can be got wrong. *)
EXTENDS TimeExpanded

Job(at) == [op |-> "till", penalty |-> at, at |-> at, pickup |-> None, deadline |-> None, windows |-> {}, blocked |-> {},
            group |-> None, dependsOn |-> None, load |-> 0, material |-> None,
            service |-> 11 :> 1 @@ 12 :> 1]

\* Any number of tasks, one cluster unless size says otherwise.
Rows(tasks) ==
    [task |-> tasks, order |-> [t \in DOMAIN tasks |-> t], known |-> DOMAIN tasks, sites |-> {1, 2},
     size |-> 3, vehicles |-> {1, 2}, compat |-> {<<1, 11>>}, depotAt |-> <<[id |-> "d", at |-> 0]>>, depots |-> {"d"},
     clusters |-> <<>>, depot |-> <<>>, pairs |-> <<>>,
     score |-> [t \in DOMAIN tasks |-> [p \in {1, 2} \X {11, 12} |-> p[1] + t]],
     ops |-> [a \in {1, 2, 11, 12} |-> {"till"}],
     capacity |-> [v \in {1, 2} |-> <<>>], aggregate |-> [v \in {1, 2} |-> 0],
     held |-> [a \in {1, 2, 11, 12, 21, 22} |-> {}],
     certified |-> 21 :> {"till"} @@ 22 :> {}, base |-> 21 :> "d" @@ 22 :> "e",
     taskOperator |-> [t \in DOMAIN tasks |-> 21],
     polygons |-> {}, lns |-> FALSE, expand |-> FALSE,
     links |-> <<>>, mode |-> [v \in {1, 2} |-> "any"], opMode |-> [o \in {"till", "sow", "spray", "fly"} |-> "any"]]

TwoPairs == {<<1, 11>>, <<2, 12>>}

\* Three polygons on the arcs of two tasks; two of them timed.
Timed == [Rows(<<Job(1), Job(2)>>) EXCEPT
    !.polygons = {[arc |-> {0, 1}, extra |-> 1, windows |-> {<<-1, 1>>, <<3, 4>>}, prohibits |-> {"till"}],
                  [arc |-> {1, 2}, extra |-> 1, windows |-> {<<3, 4>>, <<20, 30>>}, prohibits |-> {"till"}],
                  [arc |-> {0, 2}, extra |-> 1, windows |-> {}, prohibits |-> {"till", "spray"}],
                  [arc |-> {0, 1}, extra |-> 3, windows |-> {<<20, 30>>}, prohibits |-> {"till"}],
                  [arc |-> {0, 1}, extra |-> 3, windows |-> {}, prohibits |-> {"spray"}]},
    !.lns = TRUE]

\* Two timed polygons on the time-expanded model, one of them for longer than a
\* leg takes and once more from the end of the horizon on, a deadline, and a
\* blocked period.
Expanded == [Rows(<<[Job(1) EXCEPT !.deadline = 5, !.blocked = {<<2, 3>>}], Job(2)>>) EXCEPT
    !.polygons = {[arc |-> {0, 1}, extra |-> 1, windows |-> {<<-1, 1>>}, prohibits |-> {"till"}],
                  [arc |-> {1, 2}, extra |-> 1, windows |-> {<<2, 6>>, <<8, 12>>}, prohibits |-> {"till"}],
                  [arc |-> {0, 2}, extra |-> 1, windows |-> {}, prohibits |-> {"till"}]},
    !.expand = TRUE]

\* One operator behind two bundles, with calendars held from an earlier plan.
Shared == [Rows(<<[Job(1) EXCEPT !.service = 11 :> 2 @@ 12 :> 1, !.windows = {<<1, 5>>}],
                  [Job(1) EXCEPT !.service = 11 :> 2 @@ 12 :> 1, !.deadline = 6,
                                 !.blocked = {<<-1, 1>>, <<5, 9>>}]>>) EXCEPT
    !.compat = TwoPairs,
    !.held = [@ EXCEPT ![21] = {<<2, 3>>}, ![1] = {<<-2, 1>>}, ![12] = {<<4, 5>>}]]

\* Loads beyond one fill, on bundles of different sizes.
Loaded == [Rows(<<[Job(1) EXCEPT !.load = 2, !.material = "seed", !.deadline = 1],
                  [Job(1) EXCEPT !.load = 1, !.material = "seed", !.windows = {<<2, 3>>, <<6, 7>>}]>>) EXCEPT
    !.compat = TwoPairs,
    !.capacity = <<"seed" :> 2, "seed" :> 3>>]

\* A pickup on the way, an alternative to it, and a third task for one vehicle.
Paired == [Rows(<<[Job(1) EXCEPT !.pickup = 2, !.load = 1, !.material = "meal", !.group = 100],
                  [Job(2) EXCEPT !.group = 100],
                  [Job(1) EXCEPT !.load = 1, !.material = "meal"]>>) EXCEPT
    !.aggregate = [v \in {1, 2} |-> 1]]

\* A chain of two tasks on a fast and a slow implement.
Chained == [Rows(<<[Job(1) EXCEPT !.service = 11 :> 2 @@ 12 :> 1],
                   [Job(1) EXCEPT !.service = 11 :> 2 @@ 12 :> 1, !.dependsOn = 1]>>) EXCEPT
    !.compat = TwoPairs, !.taskOperator = [t \in {1, 2} |-> None]]

\* Three clusters contend for two implements; one holds a chain that ends in an
\* operation no bundle serves.
Contended == [Rows(<<[Job(1) EXCEPT !.op = "sow"], Job(1), [Job(1) EXCEPT !.op = "spray", !.dependsOn = 2], Job(2)>>) EXCEPT
    !.size = 1,
    !.compat = TwoPairs \cup {<<1, 12>>},
    !.ops = [a \in {1, 2, 11, 12} |-> IF a = 2 THEN {"sow"} ELSE {"till", "sow"}],
    !.taskOperator = [t \in 1 .. 4 |-> None]]

\* Chains and groups over two depots, with nobody to do the work: every way four
\* tasks can depend on each other and be alternatives, a few of where they lie.
Fields == {<<1, 1, 1, 2>>, <<2, 1, 2, 1>>, <<3, 1, 2, 2>>}
Variants == {<<None, None, None, None>>, <<100, 100, None, None>>, <<None, 100, None, 100>>,
             <<100, 100, 101, 101>>, <<100, 101, 100, 101>>, <<100, 101, 101, 100>>}
Alike == <<"till", "till", "till", "till">>
Mixed == <<"till", "till", "spray", "till">>
Entangled ==
    {[Rows([t \in 1 .. 4 |-> [Job(at[t]) EXCEPT !.dependsOn = dep[t], !.group = grp[t], !.op = op[t]]]) EXCEPT
        !.compat = {}, !.certified = <<>>, !.size = 2, !.ops = IF op = Mixed THEN @ ELSE [a \in DOMAIN @ |-> {}],
        !.depotAt = <<[id |-> "d", at |-> 0], [id |-> "e", at |-> 3]>>, !.depots = {"d", "e"}] :
     at \in Fields, dep \in [1 .. 4 -> {None, 1, 2, 3}], grp \in Variants, op \in {Alike, Mixed}}

\* Many tasks without units.
Plenty ==
    {[Rows([t \in 1 .. n |-> Job(1 + (t % 2))]) EXCEPT
        !.compat = {}, !.certified = <<>>, !.size = k,
        !.ops = IF special THEN @ ELSE [a \in DOMAIN @ |-> {}]] :
     n \in 1 .. 7, k \in 1 .. 4, special \in BOOLEAN}

\* Links between three locations, of several modes, with and without a polyline
\* that may lead astray, one of them beyond the location the cap allows; and two
\* depots for two tasks, one of them flown.
Link(a, b, mode, s, line) == [from |-> a, to |-> b, mode |-> mode, s |-> s, line |-> line, km |-> 1]
Maybe(a, b, modes, times, lines) ==
    {<<>>} \cup {<<Link(a, b, m, s, l)>> : m \in modes, s \in times, l \in lines}
Catalogues ==
    {x \o y \o z \o w :
        x \in Maybe(0, 1, {"any", "road"}, {2}, {<<>>, <<0, 1>>}),
        y \in Maybe(1, 2, {"any", "air"}, {1}, {<<1, 1, 2>>}),
        z \in Maybe(0, 2, {"any", "air"}, {2, 3, 4}, {<<>>, <<0, 2>>}),
        w \in {<<>>, <<Link(0, 1, "air", 1, <<0, 5, 1>>)>>, <<Link(2, 3, "any", 0, <<>>)>>,
               <<Link(2, 3, "air", 1, <<3, 3>>)>>}}
Networks ==
    {[Rows(<<Job(1), [Job(2) EXCEPT !.op = "fly"]>>) EXCEPT
        !.compat = {}, !.certified = <<>>, !.links = l, !.opMode["fly"] = "air",
        !.depotAt = <<[id |-> "d", at |-> 0], [id |-> "e", at |-> 3]>>, !.depots = {"d", "e"}] : l \in Catalogues}

\* A vehicle on the road, by its links and by one of anyone's the other way, or in
\* the air, where the polyline is anyone's; two timed polygons.
Roads == <<Link(0, 1, "road", 2, <<0, 1>>), Link(1, 2, "road", 1, <<>>), Link(2, 0, "any", 2, <<2, 1, 0>>),
           Link(0, 1, "any", 3, <<0, 1>>), Link(0, 1, "air", 1, <<>>)>>
Travelling ==
    {[Rows(<<Job(1), Job(2)>>) EXCEPT
        !.links = Roads, !.mode[1] = mode, !.expand = expand,
        !.polygons = {[arc |-> {0, 1}, extra |-> 1, windows |-> {<<0, 2>>}, prohibits |-> {"till"}],
                      [arc |-> {0, 2}, extra |-> 1, windows |-> {<<4, 8>>}, prohibits |-> {"till"}]}] :
        mode \in {"road", "air"}, expand \in BOOLEAN}

AllInputs ==
    {Timed, Expanded, Shared, Loaded, Paired, Chained, Contended}
        \cup Travelling \cup Entangled \cup Plenty \cup Networks
===============================================================================
