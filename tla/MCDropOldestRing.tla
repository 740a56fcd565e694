------------------------- MODULE MCDropOldestRing -------------------------
\* Two producers and two consumers on a ring of two.
EXTENDS DropOldestRing, TLC

CONSTANTS p1, p2, k1, k2

MCProducers == {p1, p2}
MCConsumers == {k1, k2}
MCSymmetry == Permutations(MCProducers) \cup Permutations(MCConsumers)
=============================================================================
