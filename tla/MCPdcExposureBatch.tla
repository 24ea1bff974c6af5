------------------------- MODULE MCPdcExposureBatch -------------------------
EXTENDS PdcExposureBatch, TLC

CONSTANTS a1, a2, b

\* Two versions with the same impact and different timestamps, one with another.
MCContents == {a1, a2, b}
MCImpact == [c \in MCContents |-> IF c = b THEN "B" ELSE "A"]

Symmetry == Permutations(Runs)
=============================================================================
