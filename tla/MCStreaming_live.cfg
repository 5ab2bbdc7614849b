\* Chunks of one frame, a renderer failure, and a mark the lead cannot reach near the end.
CONSTANTS
    TotalFrames = 2
    AudioBlockFrames = 1
    ChunkFrames = 1
    ContextFrames = 0
    Policy = "Priority"
    PrebufferBlocks = 2
    UrgentChunks = 1
    TilesPerChunk = 2
    MaxPendingTiles = 4
    UrgentReservedTiles = 2
    LowWaterBlocks = 1
    HighWaterBlocks = 2
    Worker = {w1}
    TaskCapacity = 2
    Playheads = {0, 1, 2}
    Leads = {0, 1, 2}
    FirstViewportEnd = 0
    Viewports = {}
    EditRegions <- MCEdits
    MaxJobs = 16
    MaxVersion = 2
    MaxFailures = 1
    ReadyCapacity = 2
    SeekFrames = {1}
    RebufferOnEdit = FALSE
    MaxCommands = 2
SPECIFICATION StreamSpec
PROPERTIES
    RequestedPlaybackEnds
    BackgroundIsRendered
