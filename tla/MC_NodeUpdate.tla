---------------------------- MODULE MC_NodeUpdate ----------------------------
EXTENDS NodeUpdate

CONSTANTS r1, r2

MCRefs == {r1, r2}
=============================================================================
