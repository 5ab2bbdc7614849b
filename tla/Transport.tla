----------------------------- MODULE Transport -----------------------------
(***************************************************************************)
(* What playback promises, without threads, generations and queues: one    *)
(* position, how far audio is published from it, and whether playback is   *)
(* requested and enabled (PlaybackController.hpp, PlaybackProtocol.hpp,    *)
(* TimelineAudioPublisher.hpp, AudioBlockProcessor.hpp).                   *)
(*                                                                         *)
(* Playback implements it with the handshake of three threads, Streaming   *)
(* with rendering behind it: what Streaming leaves out of the handshake is *)
(* not seen here either.                                                   *)
(***************************************************************************)
EXTENDS Timeline

CONSTANTS
    PrebufferBlocks,
    ReadyCapacity,      \* how far publication may lead, in blocks
    SeekFrames

VARIABLES
    requested,  \* playback is requested
    playing,    \* the permission a callback looks for
    stopping,   \* the session is being ended
    position,   \* where the current audio is heard next
    published,  \* the end of what is published
    granted     \* a callback has found the permission and will advance

vars == <<requested, playing, stopping, position, published, granted>>

Positions == {frame \in Boundaries : frame % AudioBlockFrames = 0}

Init ==
    /\ requested = FALSE
    /\ playing = FALSE
    /\ stopping = FALSE
    /\ position = 0
    /\ published = 0
    /\ granted = FALSE

-----------------------------------------------------------------------------
(***************************************************************************)
(* Requests.                                                               *)
(***************************************************************************)
Request ==
    /\ requested' = TRUE
    /\ UNCHANGED <<playing, stopping, position, published, granted>>

Withdraw ==
    /\ requested' = FALSE
    /\ playing' = FALSE
    /\ UNCHANGED <<stopping, position, published, granted>>

\* The permission alone: before a reposition, or by stop().
Suspend ==
    /\ playing' = FALSE
    /\ UNCHANGED <<requested, stopping, position, published, granted>>

RequestStop ==
    /\ stopping' = TRUE
    /\ UNCHANGED <<requested, playing, position, published, granted>>

\* A session goes on where the last one ended, with nothing published.
Restart ==
    /\ ~requested /\ ~playing /\ ~granted
    /\ stopping' = FALSE
    /\ published' = position
    /\ UNCHANGED <<requested, playing, position, granted>>

(***************************************************************************)
(* A new stream.  What an old callback still consumes is not of it.        *)
(***************************************************************************)
Reposition(frame) ==
    /\ position' = frame
    /\ published' = frame
    /\ granted' = FALSE
    /\ UNCHANGED <<requested, stopping>>

Seek(frame) ==
    /\ Reposition(SeekTarget(frame))
    /\ playing' = FALSE

\* An edit never skips audio: the stream goes on here, or at a position that
\* callbacks have meanwhile passed.
Edit(frame) ==
    /\ frame <= position
    /\ Reposition(frame)
    /\ playing' \in {FALSE, playing}

(***************************************************************************)
(* Publication and the start of playback.                                  *)
(***************************************************************************)
\* Publication moves forward, and leads by no more than the queue holds.
Reachable ==
    {end \in Positions :
        /\ published <= end
        /\ end <= Larger(published, position + ReadyCapacity * AudioBlockFrames)}

\* A callback that has begun may take one block of the prebuffer; the last
\* permission of a session counts on what was published before.
MayStart(end) ==
    /\ requested
    /\ \/ stopping
       \/ end >= TotalFrames
       \/ Larger(0, end - position) + AudioBlockFrames
             >= PrebufferBlocks * AudioBlockFrames

Feed ==
    /\ published' \in Reachable
    /\ playing' \in {playing, playing \/ MayStart(published')}
    /\ UNCHANGED <<requested, stopping, position, granted>>

End ==
    /\ position = TotalFrames
    /\ requested' = FALSE
    /\ playing' = FALSE
    /\ published' = TotalFrames
    /\ UNCHANGED <<stopping, position, granted>>

(***************************************************************************)
(* Consumption.  A callback that was granted advances by a block even if   *)
(* the permission is withdrawn meanwhile.                                  *)
(***************************************************************************)
Grant ==
    /\ playing
    /\ position < TotalFrames
    /\ granted' = TRUE
    /\ UNCHANGED <<requested, playing, stopping, position, published>>

Advance ==
    /\ playing \/ granted
    /\ position < TotalFrames
    /\ position' = position + AudioBlockFrames
    /\ granted' = FALSE
    /\ UNCHANGED <<requested, playing, stopping, published>>

Next ==
    \/ Request \/ Withdraw \/ Suspend \/ RequestStop \/ Restart
    \/ \E frame \in SeekFrames : Seek(frame)
    \/ \E frame \in Positions : Edit(frame)
    \/ Feed \/ End
    \/ Grant \/ Advance

Spec == Init /\ [][Next]_vars

=============================================================================
