--------------------------- MODULE MCUntarEngine ---------------------------
EXTENDS UntarEngine, TLC

CONSTANTS i1, i2, l1, l2, l3

\* Two images with disjoint layers, the first with two.
MCLayersDisjoint == (i1 :> {l1, l2}) @@ (i2 :> {l3})

\* Two images sharing their only layer.
MCLayersShared == (i1 :> {l1}) @@ (i2 :> {l1})
=============================================================================
