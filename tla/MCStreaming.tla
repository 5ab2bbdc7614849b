---------------------------- MODULE MCStreaming ----------------------------
(***************************************************************************)
(* Both halves on two chunks of two tiles: one of two frames and one of a  *)
(* single frame for safety, both of a single frame for liveness.           *)
(***************************************************************************)
EXTENDS Streaming

\* The first chunk is edited, and the second one comes into view.
MCEdits == {<<0, 0>>}
MCViewports == {<<2, 9>>}

=============================================================================
