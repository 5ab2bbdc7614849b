----------------------------- MODULE MCPlayback -----------------------------
(***************************************************************************)
(* Playback on a timeline of three audio blocks in two chunks, the last    *)
(* one shorter.  The seeks name an unaligned position and one beyond the   *)
(* end; the edits touch one chunk, and both through the context.           *)
(***************************************************************************)
EXTENDS Playback

MCSeekFrames == {-1, 3, 7}
MCEditRegions == {<<0, 1>>, <<4, 9>>}
MCOneSeek == {3}
MCOneEdit == {<<4, 9>>}

=============================================================================
