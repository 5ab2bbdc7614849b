\* Two slots for commands, four commands a session, three deadlines due at once.
CONSTANTS
    CommandSlots = 2
    MaxDue = 3
    MaxPosts = 4
SPECIFICATION FairSpec
INVARIANTS
    TypeOK
    LifecycleOrder
    CommandsKeepOrder
    OneLateCallback
PROPERTIES
    AcceptedIsHandled
    ShutdownEndsThreads
