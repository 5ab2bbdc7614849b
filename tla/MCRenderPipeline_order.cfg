\* One worker and room for two chunks, one of them reserved for urgent work:
\* all three passes, the gate, and positions in, between and past the chunks.
CONSTANTS
    TotalFrames = 3
    AudioBlockFrames = 1
    ChunkFrames = 2
    ContextFrames = 0
    Policy = "Priority"
    PrebufferBlocks = 2
    UrgentChunks = 1
    TilesPerChunk = 2
    MaxPendingTiles = 4
    UrgentReservedTiles = 2
    LowWaterBlocks = 1
    HighWaterBlocks = 1
    Worker = {w1}
    TaskCapacity = 2
    Playheads <- MCPlayheads
    Leads <- MCLeads
    FirstViewportEnd = 2
    Viewports <- MCTwoViewports
    EditRegions <- MCEdits
    MaxJobs = 16
    MaxVersion = 2
    MaxFailures = 0
SPECIFICATION Spec
INVARIANTS
    TypeOK
    ClassificationsAreCurrent
