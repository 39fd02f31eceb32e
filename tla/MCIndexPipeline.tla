--------------------------- MODULE MCIndexPipeline ---------------------------
(* Small instances of IndexPipeline for TLC. *)
EXTENDS IndexPipelineProps, TLC

Symmetric == Permutations(Novels) \cup Permutations(Names)

=============================================================================
