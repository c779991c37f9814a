------------------------ MODULE MCContractEvolution ------------------------
EXTENDS ContractEvolution

\* Physical schemas: a key column, an optional column added, one removed.
Base == [id |-> [type |-> "string", required |-> TRUE]]
Wider == [id |-> [type |-> "string", required |-> TRUE],
          area |-> [type |-> "double", required |-> FALSE]]
Other == [id |-> [type |-> "string", required |-> TRUE],
          area |-> [type |-> "string", required |-> FALSE]]

Block(unit, target) == [unit |-> unit, uses |-> {"solve"}, target |-> target, rest |-> 0]
Mapping(ver, uses, unit, target) ==
    [ver |-> ver,
     contract |-> [uses |-> uses, codes |-> [k \in {} |-> 0], rest |-> 0],
     fields |-> [id |-> Block(unit, target)]]

Plain == Mapping(<<1, 0, 0>>, {"plan"}, None, "asset.id")
Unit == Mapping(<<1, 1, 0>>, {"plan", "audit"}, "kW", "asset.id")
Moved == Mapping(<<1, 1, 1>>, {"plan"}, None, "asset.name")

Doc(ver, fields, map) == [ver |-> ver, fields |-> fields, map |-> map]

MCDocs ==
    [c1 |-> {Doc(<<1, 0, 0>>, Base, Plain), Doc(<<1, 1, 0>>, Wider, Plain),
             Doc(<<1, 1, 0>>, Wider, Unit), Doc(<<1, 1, 1>>, Base, Plain),
             Doc(<<2, 0, 0>>, Other, Unit), Doc(<<2, 0, 0>>, Base, Moved),
             Doc(<<1, 1, 0>>, Base, None)},
     c2 |-> {Doc(<<1, 0, 0>>, Base, Plain)},
     c3 |-> {Doc(<<1, 0, 0>>, Base, None)},
     c4 |-> {Doc(<<1, 0, 0>>, Wider, None)}]

MCKeys == {"c1", "c2", "c3", "c4"}

\* Two domains that call a contract the same.
MCFileIndex ==
    [domains |-> {"d1", "d3"},
     contracts |-> [c1 |-> EntryOf("d1", "a", None), c2 |-> EntryOf("d3", "a", None)],
     profiles |-> {"p1", "p3"}]

\* Two packs of one domain name.  The first brings a contract that is called
\* like c2 and publishes under a name of its own: the validation finds no fault
\* with that.  The second brings one that publishes under the name of c2.
MCPacks ==
    {[domain |-> "d2", contracts |-> [c3 |-> EntryOf("d3", "a", <<"d3", "y">>)], profiles |-> {"p2"}],
     [domain |-> "d2", contracts |-> [c4 |-> EntryOf("d3", "z", <<"d3", "a">>)], profiles |-> {}]}

MCProfileRefs == {<<"a", "d1">>}

Profile(constraints, weather, coverage) ==
    [contracts |-> {}, modes |-> <<>>, constraints |-> constraints,
     monitoring |-> [base |-> 0, types |-> <<>>, assets |-> <<>>],
     weather |-> [limits |-> weather, sensitivity |-> <<>>, coverage |-> coverage], demand |-> <<>>]
MCDimensions == {"wind", "rain"}
MCIds == {"wind", "crew", "stock"}
MCValues == 0 .. 3
Enforce(b, n) == [enforced |-> b, rest |-> n]

\* Three profiles that share constraints, declared and enforced.
MCProfileDocs ==
    [p1 |-> Profile([wind |-> Enforce(FALSE, 1), crew |-> Enforce(TRUE, 1)], [wind |-> 4, rain |-> 2], FALSE),
     p2 |-> Profile([wind |-> Enforce(TRUE, 2), crew |-> Enforce(FALSE, 2)], [wind |-> 3, rain |-> 3], TRUE),
     p3 |-> Profile([wind |-> Enforce(TRUE, 3), stock |-> Enforce(FALSE, 3)], [wind |-> 5, rain |-> 1], FALSE)]
=============================================================================
