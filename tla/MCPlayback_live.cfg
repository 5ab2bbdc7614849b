CONSTANTS
    TotalFrames = 6
    AudioBlockFrames = 2
    ChunkFrames = 4
    ContextFrames = 1
    PrebufferBlocks = 2
    RebufferOnEdit = TRUE
    ReadyCapacity = 2
    SeekFrames <- MCOneSeek
    EditRegions <- MCOneEdit
    MaxGeneration = 2
SPECIFICATION FairSpec
PROPERTIES
    PlayEventuallyStarts
    PlaybackEventuallyEnds
