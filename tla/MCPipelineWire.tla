---------------------------- MODULE MCPipelineWire ----------------------------
\* Small PipelineWires.  For the lanes one signature is enough; for the ghost
\* table two signatures collide on slot 1, and slot 0 has only the zero signature,
\* which is never found.  The contexts are interchangeable.
EXTENDS PipelineWire, TLC

OneSig        == {1}
CollidingSigs == {0, 1, 3}
CtxSymmetry   == Permutations(Ctxs)
=============================================================================
