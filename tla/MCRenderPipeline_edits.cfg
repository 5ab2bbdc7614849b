\* Three chunks, two of them urgent and all of them visible, with room for two:
\* the chunk that gives way may have a tile at the worker already.  The first one
\* is edited, also when all its tiles have been rendered.
CONSTANTS
    TotalFrames = 3
    AudioBlockFrames = 1
    ChunkFrames = 1
    ContextFrames = 0
    Policy = "Priority"
    PrebufferBlocks = 1
    UrgentChunks = 2
    TilesPerChunk = 2
    MaxPendingTiles = 4
    UrgentReservedTiles = 2
    LowWaterBlocks = 0
    HighWaterBlocks = 0
    Worker = {w1}
    TaskCapacity = 2
    Playheads <- MCFirstFrames
    Leads <- MCNoLead
    FirstViewportEnd = 3
    Viewports <- MCViewports
    EditRegions <- MCEdits
    MaxJobs = 20
    MaxVersion = 2
    MaxFailures = 0
SPECIFICATION Spec
INVARIANTS
    UrgentChunksAdmitted
    TilesAccounted
    CacheIsComplete
