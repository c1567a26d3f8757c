---------------------------- MODULE MC_DirCollate ----------------------------
EXTENDS DirCollate, TLC

CONSTANTS d1, d2, d3, e1, e2

MCDocs == {d1, d2, d3}
MCEd == {e1, e2}
MCRsa == {1, 2}
MCSymmetry == Permutations(MCDocs) \cup Permutations(MCEd)
=============================================================================
