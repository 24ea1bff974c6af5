--------------------------- MODULE MCStacPipeline ---------------------------
EXTENDS StacPipeline, TLC

CONSTANTS j1, j2, j3

\* Two transforms write the same item; the first one may write another one as well.
MCTransforms == {"old", "new"}
MCProduces == [t \in MCTransforms |-> IF t = "old" THEN <<"k1", "k2">> ELSE <<"k1">>]
MCProducesOne == [t \in MCTransforms |-> <<"k1">>]

\* One collection per key; the server lacks the first one.
MCCollections == {"c1", "c2"}
MCCollectionOf == [k \in Keys |-> IF k = "k1" THEN "c1" ELSE "c2"]

\* One delivery of each, or two of the second, at the same time.
MCJobs == {j1, j2}
MCOf == [j \in MCJobs |-> IF j = j1 THEN "old" ELSE "new"]
MCTwins == {j1, j2, j3}
MCTwinsOf == [j \in MCTwins |-> IF j = j1 THEN "old" ELSE "new"]

Symmetry == Permutations({j2, j3})
=============================================================================
