--------------------------- MODULE MCPlanServing ---------------------------
(***************************************************************************)
(* Small instances of the serving API.                                     *)
(***************************************************************************)
EXTENDS PlanServing

Call(route, mode, run, number, schedule) ==
    [route |-> route, mode |-> mode, run |-> run, number |-> number, schedule |-> schedule]
Publication(dir, run, files) == [dir |-> dir, run |-> run, files |-> files]
Caller(subject, client, token, scopes) ==
    [subject |-> subject, client |-> client, token |-> token, scopes |-> scopes]
Client == Caller("ops", "h1", "t1", {})
Open == [mode |-> "", issuer |-> FALSE, tokens |-> {}]
Static == [mode |-> "", issuer |-> FALSE, tokens |-> {"t1", "t2"}]
Oidc == [mode |-> "", issuer |-> TRUE, tokens |-> {}]
NoJobs == [w \in {"w1"} |-> <<>>]

(* A rolling run grows by a revision; a second run follows.               *)
Rolling ==
    [jobs |-> [w \in {"w1"} |->
        <<Publication(<<"plan-rolling", 1, "revisions">>, 0, <<"plan">>),
          Publication(<<"plan-rolling">>, 1, <<"summary">>),
          Publication(<<"plan-rolling", 1, "revisions">>, 1, <<"plan">>),
          Publication(<<"plan-rolling">>, 2, <<"summary">>)>>],
     callers |-> {Client}, auth |-> Open, clock |-> 0, maxCalls |-> 3, maxRequests |-> 0,
     calls |-> {Call("plan", "plan-rolling", Latest, 0, 0), Call("plan", "plan-rolling", 1, 0, 0),
                Call("revision", "plan-rolling", 1, 1, 0), Call("summary", "plan-rolling", Latest, 0, 0)}]

(* Periodic runs of two files, from two writers.                          *)
Periodic ==
    [jobs |-> [w \in {"w1", "w2"} |->
        IF w = "w1" THEN <<Publication(<<"plan-periodic">>, 1, <<"kpis", "plan">>)>>
                    ELSE <<Publication(<<"plan-periodic">>, 2, <<"plan">>)>>],
     callers |-> {Client}, auth |-> Open, clock |-> 0, maxCalls |-> 3, maxRequests |-> 0,
     calls |-> {Call("list", "plan-periodic", Latest, 0, 0), Call("plan", "plan-periodic", Latest, 0, 0),
                Call("plan", "plan-periodic", 1, 0, 0), Call("plan", "plan-periodic", Invalid, 0, 0)}]

(* A dataset and the schedule solved from it; requests for the newest and *)
(* for the runs by id.                                                    *)
Dataset(calls) ==
    [jobs |-> [w \in {"w1", "w2"} |->
        IF w = "w1" THEN <<Publication(<<"generate-data">>, 1, <<"metadata", "vehicles">>)>>
                    ELSE <<Publication(<<"solve">>, 1, <<"schedule">>)>>],
     callers |-> {Client}, auth |-> Open, clock |-> 0, maxCalls |-> 3, maxRequests |-> 0, calls |-> calls]
Feasibility == {Call("feasibility", "", Latest, 0, Latest), Call("feasibility", "", 1, 0, 1)}
FeasibilityMixed == {Call("feasibility", "", 1, 0, 1), Call("feasibility", "", Invalid, 0, 1)}

(* Callers of every kind against the limiter.                             *)
Throttled(auth) ==
    [jobs |-> NoJobs, auth |-> auth, clock |-> 4, maxCalls |-> 5, maxRequests |-> 2,
     callers |-> {Client, Caller(None, "h2", "t2", {})},
     calls |-> {Call("list", "plan-periodic", Latest, 0, 0)}]
Refused ==
    [jobs |-> NoJobs, auth |-> Oidc, clock |-> 0, maxCalls |-> 3, maxRequests |-> 0,
     callers |-> {Caller("ops", "h1", "jwt", {"plans:read"}), Caller(None, "h2", "jwt", {"*"}), Caller(None, "h2", "other", {}), Caller(None, "h2", "fails", {})},
     calls |-> {Call("list", "plan-rolling", Latest, 0, 0), Call("feasibility", "", Latest, 0, Latest)}]

On(backend, s) == [backend |-> backend] @@ s
AllSetups ==
    {On(b, s) : b \in {"object-store", "filesystem"}, s \in {Rolling, Periodic, Dataset(Feasibility)}}
        \cup {On("filesystem", s) : s \in {Dataset(FeasibilityMixed), Throttled(Open), Throttled(Static), Refused}}
=============================================================================
