-------------------------- MODULE MCPresentPipeline --------------------------
(* Small instances of PresentPipeline. *)
EXTENDS PresentPipeline

PipelineEntries == FrameEntries
PipelineEnds == FrameEnds
=============================================================================
