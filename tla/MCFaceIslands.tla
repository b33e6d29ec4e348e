---------------------------- MODULE MCFaceIslands ----------------------------
\* An anchor and five interchangeable nodes: enough for a child to be split itself.
EXTENDS FaceIslands, TLC

CONSTANTS anchor, n1, n2, n3, n4, n5

AllNodes     == {anchor, n1, n2, n3, n4, n5}
NodeSymmetry == Permutations({n1, n2, n3, n4, n5}) \cup Permutations(Blocks)
=============================================================================
