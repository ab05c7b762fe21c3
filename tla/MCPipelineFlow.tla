-------------------------- MODULE MCPipelineFlow --------------------------
(* Small pipelines for TLC: every thread and child interleaves freely. *)
EXTENDS PipelineFlow
=============================================================================
