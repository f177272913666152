---- MODULE MCPipeline ----
(* Small instances of Pipeline for TLC. *)
EXTENDS PipelineQueue, TLC

MCSymmetry ==
    Permutations(Clips) \cup Permutations(Windows)
        \cup Permutations(Tasks) \cup Permutations(Handlers)
====
