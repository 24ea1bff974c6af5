-------------------------- MODULE MCExtractionTask --------------------------
EXTENDS ExtractionTask, TLC

Symmetry == Permutations(Msgs)
=============================================================================
