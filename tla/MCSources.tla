------------------------------ MODULE MCSources ------------------------------
(* Small instances of every source: of each kind of row the fewest that let    *)
(* rows of that kind be reused, be waited for, or be missing.                   *)
EXTENDS Sources

\* Disaster Charter: one activation with two files, and one that is known to be broken.
MCCatalog == <<"a", "e">>
MCAreas == [a |-> <<"a1">>]
MCVaps == [a |-> <<>>]
MCDatasets == [a |-> <<"a2">>]

\* GDACS: one event of two episodes, of which one has an impact.
MCListed == <<"v">>
MCEpisodes == [v |-> <<"p1", "p2">>]
MCShapeOf == [p1 |-> "g1", p2 |-> "g2"]
MCImpactOf == [p1 |-> <<"m1">>, p2 |-> <<>>]

\* USGS: one earthquake with a file of either kind.
MCQuakes == <<"v">>
MCProducts == [v |-> <<[type |-> "LOSSE", item |-> "p1"], [type |-> "ALERTS", item |-> "p2"]>>]

\* PDC: two pages, and one hazard with one exposure.
MCPages == <<"q1", "q2">>
MCHazards == [q1 |-> <<"h1">>, q2 |-> <<>>]
MCExposures == [h1 |-> <<"x1">>]

\* CEMS and IFRC: two pages; the others one.
MCCemsPages == <<"q1", "q2">>
MCCodes == [q1 |-> <<"c1">>, q2 |-> <<>>]
MCIfrcPages == <<"q1", "q2">>
MCOnePage == <<"q1">>

MCItems == {"catalog", "a", "e", "a1", "a2", "history", "query", "v", "p1", "p2", "g1", "g2", "m1",
            "q1", "q2", "h1", "x1", "c1"}
==============================================================================
