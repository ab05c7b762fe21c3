-------------------------- MODULE MCPipelineControl --------------------------
(***************************************************************************)
(* Instances of PipelineControl for TLC.  Four modules (Last = 3) are the  *)
(* fewest with two modules that may have started before a third one fails. *)
(* The table has PROCESS_MAX_CNT entries: all four modules of the first    *)
(* and of the second pipeline find one, those of the third do not.  A      *)
(* pipeline fed by a child process is not ended by pipeline_stop: only if  *)
(* the second fails to start is there a third.                             *)
(***************************************************************************)
EXTENDS PipelineControl

MCFirstModes ==
    [k \in 1..MaxPipelines |-> IF k = 2 THEN "EXTERNAL" ELSE "INTERNAL"]
=============================================================================
