\* Two workers and a renderer failure, stops and restarts.  There is room for one
\* chunk and a tile, so an urgent chunk takes the room of one that still waits.
CONSTANTS
    TotalFrames = 3
    AudioBlockFrames = 1
    ChunkFrames = 2
    ContextFrames = 0
    Policy = "Priority"
    PrebufferBlocks = 1
    UrgentChunks = 1
    TilesPerChunk = 2
    MaxPendingTiles = 3
    UrgentReservedTiles = 2
    LowWaterBlocks = 0
    HighWaterBlocks = 0
    Worker = {w1, w2}
    TaskCapacity = 2
    Playheads <- MCChunkStarts
    Leads <- MCNoLead
    FirstViewportEnd = 3
    Viewports <- MCViewports
    EditRegions <- MCNoEdits
    MaxJobs = 16
    MaxVersion = 2
    MaxFailures = 1
SYMMETRY MCSymmetry
SPECIFICATION Spec
INVARIANTS
    TilesAccounted
    CompletedOnce
    CacheIsComplete
