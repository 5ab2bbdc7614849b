----------------------------- MODULE Scheduling -----------------------------
(***************************************************************************)
(* The decisions of the scheduler that keep no state: which chunks are     *)
(* urgent (Scheduler.cpp), in which order tiles are dispatched             *)
(* (policies/), how many may wait, and when background work is held back   *)
(* (BackgroundRenderGate.cpp).                                             *)
(***************************************************************************)
EXTENDS Timeline

CONSTANTS
    Policy,                 \* policyType: "Fifo" or "Priority"
    PrebufferBlocks,
    UrgentChunks,           \* the least width of the urgent window
    TilesPerChunk,          \* TILES_PER_CHUNK
    MaxPendingTiles,
    UrgentReservedTiles,
    LowWaterBlocks,
    HighWaterBlocks

\* What the constructors of Scheduler, PlaybackController and
\* BackgroundRenderGate check.
ASSUME SchedulingAssumption ==
    /\ Policy \in {"Fifo", "Priority"}
    /\ PrebufferBlocks \in Nat
    /\ UrgentChunks \in Nat \ {0}
    /\ TilesPerChunk \in Nat \ {0}
    /\ MaxPendingTiles \in Nat
    /\ UrgentReservedTiles \in TilesPerChunk .. MaxPendingTiles
    /\ LowWaterBlocks \in Nat
    /\ HighWaterBlocks \in Nat
    /\ LowWaterBlocks <= HighWaterBlocks

Urgent == 0
Visible == 1
Background == 2

Classification == [priority : {Urgent, Visible, Background},
                   deadlineFrame : Frames \cup {-1},
                   distanceInFrames : Nat]

\* Fault: the window has the configured width only.
configuredChunkEnd(playheadFrame) ==
    IF playheadFrame = TotalFrames THEN ChunkCount
    ELSE frameToChunk(playheadFrame)
         + Smaller(UrgentChunks, ChunkCount - frameToChunk(playheadFrame))

\* Frames of the prebuffer that are left before the end of the timeline.
prebufferFrames(playheadFrame) ==
    AudioBlockFrames
    * Smaller(PrebufferBlocks, (TotalFrames - playheadFrame) \div AudioBlockFrames)

\* The end of the urgent window, which covers every chunk of the prebuffer.
urgentChunkEnd(playheadFrame) ==
    LET firstChunk == frameToChunk(playheadFrame)
        configuredEnd == firstChunk + Smaller(UrgentChunks, ChunkCount - firstChunk)
        ahead == prebufferFrames(playheadFrame)
    IN  IF playheadFrame = TotalFrames THEN ChunkCount
        ELSE IF ahead = 0 THEN configuredEnd
        ELSE Larger(configuredEnd, frameToChunk(playheadFrame + ahead - 1) + 1)

UrgentWindow(playheadFrame) ==
    IF playheadFrame >= TotalFrames THEN {}
    ELSE frameToChunk(playheadFrame) .. urgentChunkEnd(playheadFrame) - 1

\* A viewport is a half-open region <<first, last>>.
chunkIntersectsViewport(chunk, viewport) ==
    LET first == firstFrameOfChunk(chunk)
        last == first + Smaller(ChunkFrames, TotalFrames - first)
    IN  /\ viewport[1] < viewport[2]
        /\ first < viewport[2]
        /\ last > viewport[1]

classifyChunk(chunk, playheadFrame, playRequested, viewport) ==
    LET first == firstFrameOfChunk(chunk)
        distance == Larger(first - playheadFrame, playheadFrame - first)
        urgent == playRequested /\ chunk \in UrgentWindow(playheadFrame)
    IN  [priority |->
            IF urgent THEN Urgent
            ELSE IF chunkIntersectsViewport(chunk, viewport) THEN Visible
            ELSE Background,
         deadlineFrame |-> IF urgent THEN first ELSE -1,
         distanceInFrames |-> distance]

\* The comparators of the pending queue.  A tile is a record with the fields
\* classification and sequence.
submittedLater(a, b) == a.sequence > b.sequence

lessImportant(a, b) ==
    LET p == a.classification
        q == b.classification
    IN  IF p.priority # q.priority THEN p.priority > q.priority
        ELSE IF p.priority = Urgent /\ p.deadlineFrame # q.deadlineFrame
             THEN p.deadlineFrame > q.deadlineFrame
        ELSE IF p.distanceInFrames # q.distanceInFrames
             THEN p.distanceInFrames > q.distanceInFrames
        ELSE submittedLater(a, b)

hasLowerPrecedence(a, b) ==
    IF Policy = "Fifo" THEN submittedLater(a, b) ELSE lessImportant(a, b)

\* Non-urgent tiles leave room for urgent ones.
pendingTileLimit(priority) ==
    IF priority = Urgent THEN MaxPendingTiles
    ELSE MaxPendingTiles - UrgentReservedTiles

\* BackgroundRenderGate::observe: the gate keeps its position between the marks.
GateAfter(allowed, readyLeadBlocks) ==
    IF readyLeadBlocks < LowWaterBlocks THEN FALSE
    ELSE IF readyLeadBlocks >= HighWaterBlocks THEN TRUE
    ELSE allowed

=============================================================================
