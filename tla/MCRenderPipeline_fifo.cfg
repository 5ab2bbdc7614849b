\* FIFO order, nothing visible, and a renderer failure.
CONSTANTS
    TotalFrames = 3
    AudioBlockFrames = 1
    ChunkFrames = 2
    ContextFrames = 0
    Policy = "Fifo"
    PrebufferBlocks = 1
    UrgentChunks = 1
    TilesPerChunk = 2
    MaxPendingTiles = 4
    UrgentReservedTiles = 2
    LowWaterBlocks = 1
    HighWaterBlocks = 1
    Worker = {w1}
    TaskCapacity = 2
    Playheads <- MCChunkStarts
    Leads <- MCNoLead
    FirstViewportEnd = 0
    Viewports <- MCNoViewport
    EditRegions <- MCNoEdits
    MaxJobs = 16
    MaxVersion = 2
    MaxFailures = 1
SPECIFICATION FairSpec
PROPERTIES
    UrgentChunkIsRendered
    StopTerminates
    BackgroundIsRendered
