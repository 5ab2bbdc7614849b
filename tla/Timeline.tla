------------------------------ MODULE Timeline ------------------------------
(***************************************************************************)
(* The finite timeline and the arithmetic every component shares:          *)
(* PlaybackTimeline.hpp, RenderFrameUtils.hpp and the region an Edit       *)
(* invalidates.  Positions are frames; a boundary position may equal       *)
(* TotalFrames.                                                            *)
(***************************************************************************)
EXTENDS Integers

CONSTANTS
    TotalFrames,        \* length of the timeline
    AudioBlockFrames,   \* frames one audio callback consumes
    ChunkFrames,        \* CHUNK_FRAMES: the unit of rendering and caching
    ContextFrames       \* frames around an edit that rendering depends on

\* What the constructors of TimelineAudioPublisher, PlaybackProtocol,
\* AudioBlockProcessor and Scheduler check.
ASSUME TimelineAssumption ==
    /\ TotalFrames \in Nat \ {0}
    /\ AudioBlockFrames \in Nat \ {0}
    /\ ChunkFrames \in Nat \ {0}
    /\ ContextFrames \in Nat
    /\ ChunkFrames % AudioBlockFrames = 0
    /\ TotalFrames % AudioBlockFrames = 0

Larger(a, b) == IF a >= b THEN a ELSE b
Smaller(a, b) == IF a <= b THEN a ELSE b

clampTimelineFrame(frame) == Larger(0, Smaller(frame, TotalFrames - 1))
clampTimelineBoundary(frame) == Larger(0, Smaller(frame, TotalFrames))
alignFrameToAudioBlock(frame) == frame - (frame % AudioBlockFrames)

Frames == 0 .. TotalFrames - 1
Boundaries == 0 .. TotalFrames

ChunkCount == 1 + (TotalFrames - 1) \div ChunkFrames
Chunks == 0 .. ChunkCount - 1
frameToChunk(frame) == frame \div ChunkFrames
firstFrameOfChunk(chunk) == chunk * ChunkFrames

\* Where a Seek command lands.
SeekTarget(frame) == alignFrameToAudioBlock(clampTimelineFrame(frame))

\* The chunks whose content an Edit of the frames first .. last changes: those
\* of the frames and of the context around them.
firstInvalidated(first) ==
    frameToChunk(Larger(0, clampTimelineFrame(first) - ContextFrames))

lastInvalidated(first, last) ==
    LET to == clampTimelineFrame(Larger(clampTimelineFrame(first), last))
    IN  frameToChunk(to + Smaller(ContextFrames, TotalFrames - 1 - to))

InvalidatedChunks(first, last) ==
    firstInvalidated(first) .. lastInvalidated(first, last)

=============================================================================
