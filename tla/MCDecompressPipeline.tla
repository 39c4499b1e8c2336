------------------------ MODULE MCDecompressPipeline ------------------------
EXTENDS DecompressPipeline, TLC

CONSTANTS l1, l2

MCLayers == {l1, l2}

\* The two layers are interchangeable.
MCSymmetry == Permutations(MCLayers)
=============================================================================
