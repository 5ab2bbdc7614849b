\* Three workers, two jobs of two tiles, and a queue that gets full.
CONSTANTS
    Worker = {w1, w2, w3}
    TaskCapacity = 2
    Job = {j1, j2}
    Tile = {1, 2}
SPECIFICATION FairSpec
INVARIANTS
    TypeOK
    NoTaskIsSleptThrough
PROPERTIES
    TaskIsServed
    StopReturns
    ImplementsPool
