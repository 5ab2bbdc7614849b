CONSTANTS
    TotalFrames = 6
    AudioBlockFrames = 2
    ChunkFrames = 4
    ContextFrames = 1
    PrebufferBlocks = 2
    RebufferOnEdit = FALSE
    ReadyCapacity = 2
    SeekFrames <- MCSeekFrames
    EditRegions <- MCEditRegions
    MaxGeneration = 2
SPECIFICATION Spec
PROPERTIES
    UnderrunMeansMissing
