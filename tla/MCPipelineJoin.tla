-------------------------- MODULE MCPipelineJoin --------------------------
\* Small instances of PipelineJoin for TLC.
EXTENDS PipelineJoin, TLC

Symmetry == Permutations(Workers) \cup Permutations(Owned) \cup Permutations(Delegated)
=============================================================================
