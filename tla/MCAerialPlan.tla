---------------------------- MODULE MCAerialPlan ----------------------------
(***************************************************************************)
(* Small instances of the aerial pass: a line of ten places, hubs at both  *)
(* ends, one or two corridors, flights that meet in the middle.            *)
(***************************************************************************)
EXTENDS RevisionDiff

Drone(hub, parked, speed) ==
    [mode |-> "UAV", hub |-> hub, parked |-> parked, speed |-> speed, rate |-> 1, capacity |-> 4, mover |-> TRUE]
Fleet == <<Drone(1, 0, 2), Drone(1, 0, 0), Drone(2, 9, 3), Drone(9, 5, 1),
           [mode |-> "UGV", hub |-> 2, parked |-> Nowhere, speed |-> 1, rate |-> 2, capacity |-> 0, mover |-> TRUE],
           Drone(1, 0, 2)>>
Stations == <<[at |-> 0, slots |-> 1, power |-> 1], [at |-> 8, slots |-> 0, power |-> 0]>>

Delivery(mode, pickup, site, deadline) == [mode |-> mode, pickup |-> pickup, site |-> site, deadline |-> deadline]
Fly(assets, starts, length) ==
    {[asset |-> a, start |-> s, finish |-> s + length, frozen |-> FALSE] : a \in assets, s \in starts}
Quiet == [at |-> 4, gone |-> {}, joins |-> {}, lost |-> {}]
Calm == [forecasts |-> <<>>, sensitive |-> {}, zones |-> {}]
Plans(corridors, tasks, options, first, events, weather) ==
    [corridors |-> corridors, tasks |-> tasks, options |-> options, first |-> first, events |-> events,
     forecasts |-> weather.forecasts, sensitive |-> weather.sensitive, zones |-> weather.zones,
     orders |-> {}, slots |-> {}, reschedules |-> 0]

\* Six flights over one place, more than there are corridors.
Crowded ==
    Plans(2, <<Delivery("UAV", Nowhere, 4, 20), Delivery("UAV", 0, 4, 18), Delivery("UAV", Nowhere, 5, Forever),
            Delivery("UAV", Nowhere, 4, 9), Delivery("UAV", Nowhere, 4, Forever), Delivery("UAV", Nowhere, 5, 30)>>,
          <<Fly({1}, {6}, 3), Fly({2}, {6}, 3), Fly({3}, {5, 8}, 2), Fly({4}, {6}, 3), Fly({6}, {6}, 3), Fly({1}, {10}, 2)>>,
          1 .. 6, <<>>,
          [forecasts |-> <<[at |-> 2, windows |-> <<{"wind"}, {}>>], [at |-> 6, windows |-> <<{"wind", "rain"}>>]>>,
           sensitive |-> {"wind"}, zones |-> {<<5, 9>>}])
\* Revisions: flights frozen, carried, cancelled and new, a drone lost.
Rolling ==
    Plans(1, <<Delivery("UAV", Nowhere, 3, 14), Delivery("UAV", Nowhere, 3, 16), Delivery("UAV", Nowhere, 3, 25),
            Delivery("UAV", Nowhere, 2, 16), Delivery("UAV", Nowhere, 3, 30)>>,
          <<Fly({1}, {3, 8}, 3), Fly({2, 3}, {5, 9}, 3), Fly({6}, {9}, 2), Fly({1, 4}, {5, 9}, 3), Fly({4}, {7}, 4)>>,
          {1, 2, 3}, <<[Quiet EXCEPT !.joins = {4}, !.gone = {1}], [Quiet EXCEPT !.at = 5, !.joins = {5}, !.lost = {3}]>>, Calm)
\* A queue for one bay, and ground vehicles beside the drones.
Queue ==
    Plans(2, <<Delivery("UAV", Nowhere, 2, Forever), Delivery("UAV", Nowhere, 7, 12), Delivery("UGV", Nowhere, 7, 5),
            Delivery("UAV", Nowhere, 2, Forever), Delivery("UAV", Nowhere, Nowhere, 9)>>,
          <<Fly({1}, {1, 3}, 2), Fly({3, 6}, {4}, 4), Fly({5}, {1, 4}, 3), Fly({1, 2}, {4, 6}, 1), Fly({2, 4}, {6}, 2)>>,
          1 .. 5, <<>>, Calm)
\* Batch reschedules of two orders whose rows change between the runs.
Batch ==
    [Plans(2, <<Delivery("UGV", Nowhere, 7, 9)>>, <<Fly({5}, {1}, 3)>>, {1}, <<>>, Calm)
        EXCEPT !.orders = {1, 2}, !.slots = {[asset |-> 1, start |-> 2], [asset |-> 1, start |-> 4]}, !.reschedules = 2]
AllMenus == {Batch, Crowded, Rolling, Queue}
=============================================================================
