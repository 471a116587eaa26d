-------------------------- MODULE MCQueryPipeline --------------------------
(* Instances of the query pipeline for TLC.                                *)
EXTENDS QueryPipelineProperties, TLC

CONSTANTS NoErrorHook  \* scripts without a public OnQueryError

MCPublics == Scripts \X {"user", "OnQueryError"}
             \ (NoErrorHook \X {"OnQueryError"})

\* The addresses of the handles are interchangeable.
HandleSymmetry == Permutations(Handles)
=============================================================================
