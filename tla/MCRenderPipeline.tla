-------------------------- MODULE MCRenderPipeline --------------------------
(***************************************************************************)
(* The pipeline on two chunks of two tiles, the second chunk shorter than  *)
(* the first, or on three chunks of a frame.  The playhead is at the start *)
(* of a chunk, or also within the first one and at the end of the          *)
(* timeline.  The workers are alike.                                       *)
(***************************************************************************)
EXTENDS RenderPipeline, TLC

MCPlayheads == {0, 1, 2, 3}
MCChunkStarts == {0, 2}
MCFirstFrames == {0, 1}
MCViewports == {<<-1, 9>>}
MCTwoViewports == {<<-1, 9>>, <<2, 1>>}
MCNoViewport == {<<2, 1>>}
MCEdits == {<<0, 0>>}
MCNoEdits == {}
MCLeads == {0, 1}
MCNoLead == {0}

MCSymmetry == Permutations(Worker)

=============================================================================
