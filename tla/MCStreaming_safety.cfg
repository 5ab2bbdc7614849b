\* Two chunks of two tiles, a viewport on the second one, edits of the first, a
\* renderer failure, and any two commands in a session.
CONSTANTS
    TotalFrames = 3
    AudioBlockFrames = 1
    ChunkFrames = 2
    ContextFrames = 0
    Policy = "Priority"
    PrebufferBlocks = 2
    UrgentChunks = 1
    TilesPerChunk = 2
    MaxPendingTiles = 4
    UrgentReservedTiles = 2
    LowWaterBlocks = 1
    HighWaterBlocks = 2
    Worker = {w1}
    TaskCapacity = 2
    Playheads = {0, 1, 2, 3}
    Leads = {0, 1, 2}
    FirstViewportEnd = 0
    Viewports <- MCViewports
    EditRegions <- MCEdits
    MaxJobs = 16
    MaxVersion = 2
    MaxFailures = 1
    ReadyCapacity = 2
    SeekFrames = {0, 2}
    RebufferOnEdit = FALSE
    MaxCommands = 2
SPECIFICATION StreamSpec
INVARIANTS
    ReadyAudioIsCurrent
    AwaitedChunkIsAdmitted
PROPERTIES
    ImplementsPipeline
