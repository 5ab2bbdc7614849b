--------------------------- MODULE StreamingProofs ---------------------------
(***************************************************************************)
(* Both halves together implement RenderPipeline: the positions and the    *)
(* leads playback gets to are among those it takes, so what is proved of   *)
(* it holds while playback goes on.  From that follows what neither half   *)
(* has alone: what waits to be heard is complete and current, and the      *)
(* chunk playback waits for is rendered before any other work.             *)
(***************************************************************************)
EXTENDS Streaming, SchedulerProofs

-----------------------------------------------------------------------------
(***************************************************************************)
(* Positions: both lie on block boundaries, and publication is at most one *)
(* queue ahead of consumption.                                             *)
(***************************************************************************)
QueueFrames == ReadyCapacity * AudioBlockFrames

PositionInv ==
    /\ cursor \in Boundaries /\ Aligned(cursor)
    /\ nextFrameToPublish \in Boundaries /\ Aligned(nextFrameToPublish)
    /\ nextFrameToPublish <= cursor + QueueFrames

LEMMA QueueFacts ==
  /\ ReadyCapacity \in Nat /\ AudioBlockFrames \in Nat \ {0} /\ TotalFrames \in Nat
  /\ QueueFrames \in Nat
<1>1. ReadyCapacity \in Nat /\ AudioBlockFrames \in Nat \ {0} /\ TotalFrames \in Nat
  BY StreamingAssumption, TimelineAssumption
<1>2. QED
  BY <1>1 DEF QueueFrames

LEMMA NotBeyondQueue == \A f \in Nat : f <= f + QueueFrames
BY QueueFacts

\* What is a multiple of a block beyond a block boundary is one.
LEMMA AlignedBeyond ==
  ASSUME NEW f \in Nat, NEW g \in Nat, f <= g, Aligned(f),
         (g - f) % AudioBlockFrames = 0
  PROVE  Aligned(g)
<1> DEFINE B == AudioBlockFrames
           q == f \div B
           t == (g - f) \div B
<1>1. B \in Nat \ {0} /\ g - f \in Nat
  BY TimelineAssumption
<1>2. f = B * q /\ q \in Nat /\ g - f = B * t /\ t \in Nat
  BY <1>1, DivisionFacts DEF Aligned
<1> HIDE DEF q, t, B
<1>3. q + t \in Nat /\ B * (q + t) = B * q + B * t
  BY <1>1, <1>2
<1>4. B * q \in Nat /\ B * t \in Nat
  BY <1>1, <1>2
<1>5. g = B * (q + t)
  BY <1>2, <1>3, <1>4
<1>6. (B * (q + t)) % B = 0
  BY <1>1, <1>3, MultipleAligned
<1>7. QED
  BY <1>5, <1>6 DEF Aligned, B

\* The gap of two block boundaries is a number of blocks.
LEMMA GapInBlocks ==
  ASSUME NEW f \in Nat, NEW g \in Nat, f <= g, Aligned(f), Aligned(g)
  PROVE  /\ (g - f) \div AudioBlockFrames \in Nat
         /\ g - f = AudioBlockFrames * ((g - f) \div AudioBlockFrames)
<1> DEFINE B == AudioBlockFrames
           q == f \div B
           t == g \div B
<1>1. B \in Nat \ {0} /\ g - f \in Nat
  BY TimelineAssumption
<1>2. f = B * q /\ q \in Nat /\ g = B * t /\ t \in Nat
  BY <1>1, DivisionFacts DEF Aligned
<1>3. q <= t
  BY <1>1, DivisionMonotone
<1> HIDE DEF q, t, B
<1>4. t - q \in Nat /\ B * (t - q) = B * t - B * q
  BY <1>1, <1>2, <1>3
<1>5. g - f = B * (t - q)
  BY <1>2, <1>4
<1>6. (g - f) % B = 0
  BY <1>1, <1>4, <1>5, MultipleAligned
<1>7. g - f = B * ((g - f) \div B) + ((g - f) % B) /\ (g - f) \div B \in Nat
  BY <1>1, DivisionFacts
<1> DEFINE d == (g - f) \div B
<1> HIDE DEF d
<1>8. B * d \in Nat
  BY <1>1, <1>7 DEF d
<1>9. g - f = B * d
  BY <1>1, <1>6, <1>7, <1>8 DEF d
<1>10. QED
  BY <1>7, <1>9 DEF d, B

\* The lead the background gate sees is one the ready-audio queue can hold.
LEMMA LeadFits ==
  ASSUME cursor \in Nat, NEW f \in Nat, f <= cursor + QueueFrames
  PROVE  leadBlocks(f) \in 0 .. ReadyCapacity
<1> DEFINE B == AudioBlockFrames
           gap == Larger(0, f - cursor)
           lead == gap \div B
<1>1. B \in Nat \ {0} /\ ReadyCapacity \in Nat /\ QueueFrames \in Nat
  BY QueueFacts
<1>2. gap \in Nat /\ gap <= QueueFrames
  BY <1>1 DEF Larger
<1> HIDE DEF gap, B
<1>3. gap = B * lead + (gap % B) /\ gap % B \in 0 .. B - 1 /\ lead \in Nat
  BY <1>1, <1>2, DivisionFacts
<1> HIDE DEF lead
<1>4. B * lead \in Nat /\ B * lead <= QueueFrames
  BY <1>1, <1>2, <1>3
<1>5. QueueFrames = B * ReadyCapacity
  BY <1>1 DEF QueueFrames, B
<1>6. B * (lead - ReadyCapacity) = B * lead - B * ReadyCapacity
  BY <1>1, <1>3
<1>7. lead - ReadyCapacity >= 1 => B * (lead - ReadyCapacity) >= B
  BY <1>1, <1>3
<1>8. B * ReadyCapacity \in Nat
  BY <1>1
<1>9. lead <= ReadyCapacity
  BY <1>1, <1>3, <1>4, <1>5, <1>6, <1>7, <1>8
<1>10. leadBlocks(f) = lead
  BY DEF leadBlocks, lead, gap, B
<1>11. QED
  BY <1>1, <1>3, <1>9, <1>10

LEMMA PublishedWithin ==
  ASSUME PositionInv, Publish
  PROVE  /\ nextFrameToPublish' \in Boundaries /\ Aligned(nextFrameToPublish')
         /\ cursor <= nextFrameToPublish'
         /\ nextFrameToPublish' <= cursor + QueueFrames
<1> DEFINE from == Larger(nextFrameToPublish, cursor)
<1> PICK end \in Boundaries :
        /\ end = nextFrameToPublish'
        /\ from <= end /\ end <= Larger(from, cursor + QueueFrames)
        /\ (end - from) % AudioBlockFrames = 0
  BY DEF Publish, Publishable, QueueFrames
<1>1. /\ QueueFrames \in Nat /\ end \in Nat /\ cursor \in Nat /\ from \in Nat
      /\ cursor <= from /\ from <= cursor + QueueFrames /\ Aligned(from)
  BY QueueFacts DEF PositionInv, Boundaries, Larger
<1> HIDE DEF from
<1>2. Aligned(end)
  BY <1>1, AlignedBeyond
<1>3. end <= cursor + QueueFrames /\ cursor <= end
  BY <1>1 DEF Larger
<1>4. QED
  BY <1>2, <1>3

LEMMA PositionStep ==
  ASSUME PositionInv, [StreamNext]_streamVars
  PROVE  PositionInv'
<1> USE QueueFacts DEF playbackVars
<1>1. CASE UNCHANGED <<cursor, nextFrameToPublish>>
  BY <1>1 DEF PositionInv
<1>2. CASE nextFrameToPublish' = cursor /\ cursor' = cursor
  BY <1>2 DEF PositionInv, Boundaries
<1>3. CASE SeekCommand
  <2>1. PICK frame \in SeekFrames : cursor' = SeekTarget(frame)
    BY <1>3 DEF SeekCommand
  <2>2. cursor' \in Frames /\ Aligned(cursor') /\ nextFrameToPublish' = cursor'
    BY <1>3, <2>1, SeekLands, StreamingAssumption DEF SeekCommand
  <2>3. cursor' \in Boundaries /\ cursor' \in Nat
    BY <2>2 DEF Frames, Boundaries
  <2>4. nextFrameToPublish' <= cursor' + QueueFrames
    BY <2>2, <2>3, NotBeyondQueue
  <2>5. Aligned(nextFrameToPublish') /\ nextFrameToPublish' \in Boundaries
    BY <2>2, <2>3
  <2>6. QED
    BY <2>2, <2>3, <2>4, <2>5 DEF PositionInv
<1>4. CASE Feed
  <2>1. cursor' = cursor
    BY <1>4 DEF Feed
  <2>2. CASE ReachEnd
    BY <2>1, <2>2 DEF ReachEnd, PositionInv, Boundaries
  <2>3. CASE Publish
    BY <2>1, <2>3, PublishedWithin DEF PositionInv
  <2>4. QED
    BY <1>4, <2>2, <2>3 DEF Feed
<1>5. CASE Callback
  <2>1. cursor \in Frames /\ Aligned(cursor) /\ cursor \in Nat
    BY <1>5 DEF Callback, PositionInv, Boundaries, Frames
  <2>2. /\ cursor' = cursor + AudioBlockFrames
        /\ nextFrameToPublish' = nextFrameToPublish
    BY <1>5 DEF Callback
  <2>3. cursor' \in Boundaries /\ Aligned(cursor')
    BY <2>1, <2>2, BlockFits, NextAligned
  <2>4. nextFrameToPublish' <= cursor' + QueueFrames
    BY <2>1, <2>2 DEF PositionInv, Boundaries
  <2>5. QED
    BY <2>2, <2>3, <2>4 DEF PositionInv
<1>6. QED
  BY <1>1, <1>2, <1>3, <1>4, <1>5
     DEF StreamNext, StreamControl, StreamCommand, PlayCommand, PauseCommand,
         EditCommand, ViewportCommand, LeaveStream, EndStreamCommands, StreamLoop,
         RestartStream, StreamWorker, streamVars

-----------------------------------------------------------------------------
(***************************************************************************)
(* Each step is one of RenderPipeline's, or one it does not see.           *)
(***************************************************************************)
LEMMA StepRefines ==
  ASSUME PositionInv, [StreamNext]_streamVars
  PROVE  [Next]_vars
<1>1. CASE StreamControl
  BY <1>1 DEF StreamControl, Control, Next
<1>2. CASE StreamCommand
  <2>1. CASE PlayCommand \/ PauseCommand \/ SeekCommand
    BY <2>1 DEF PlayCommand, PauseCommand, SeekCommand, Command, Next
  <2>2. CASE EditCommand \/ ViewportCommand
    BY <2>2 DEF EditCommand, ViewportCommand, Command, Next
  <2>3. QED
    BY <1>2, <2>1, <2>2 DEF StreamCommand
<1>3. CASE LeaveStream \/ EndStreamCommands
  BY <1>3 DEF LeaveStream, EndStreamCommands, Next
<1>4. CASE StreamLoop
  <2>1. CASE EndCollect \/ RestartStream
    BY <2>1 DEF RestartStream, SchedulerLoop, Next
  <2>2. CASE Feed
    BY <2>2 DEF Feed, ReachEnd, Publish, Command, Next
  <2>3. CASE Admission
    <3>1. cursor \in Nat /\ nextFrameToPublish \in Nat
      BY QueueFacts DEF PositionInv, Boundaries
    <3>2. leadBlocks(nextFrameToPublish) \in Leads
      BY <3>1, LeadFits, StreamingAssumption DEF PositionInv
    <3>3. QED
      BY <2>3, <3>2 DEF Admission, SchedulerLoop, Next
  <2>4. CASE BeginPass(cursor)
    <3>1. cursor \in Playheads
      BY StreamingAssumption DEF PositionInv
    <3>2. QED
      BY <2>4, <3>1 DEF SchedulerLoop, Next
  <2>5. CASE Rendering /\ ~Admission /\ ~BeginPass(cursor)
    BY <2>5 DEF Rendering, SchedulerLoop, Next
  <2>6. QED
    BY <1>4, <2>1, <2>2, <2>3, <2>4, <2>5 DEF StreamLoop
<1>5. CASE Callback
  BY <1>5 DEF Callback
<1>6. CASE \E w \in Worker : StreamWorker(w)
  BY <1>6 DEF StreamWorker, Next
<1>7. CASE UNCHANGED streamVars
  BY <1>7 DEF streamVars
<1>8. QED
  BY <1>1, <1>2, <1>3, <1>4, <1>5, <1>6, <1>7 DEF StreamNext

LEMMA Positions == StreamSpec => []PositionInv
<1>1. StreamInit => PositionInv
  BY QueueFacts, EndsAligned DEF StreamInit, PositionInv, Boundaries
<1>2. PositionInv /\ [StreamNext]_streamVars => PositionInv'
  BY PositionStep
<1>3. QED
  BY <1>1, <1>2, PTL DEF StreamSpec

\* Rendering while playback goes on is rendering as RenderPipeline has it: every
\* position, lead and pause it meets is one that module takes, for any timeline,
\* queue capacity and sequence of commands and callbacks.
THEOREM PipelineRefinement == StreamSpec => ImplementsPipeline
<1>1. StreamInit => Init
  BY DEF StreamInit
<1>2. PositionInv /\ [StreamNext]_streamVars => [Next]_vars
  BY StepRefines
<1>3. QED
  BY Positions, <1>1, <1>2, PTL DEF StreamSpec, ImplementsPipeline, Spec

\* Hence the render jobs are accounted for and the urgent chunks admitted while
\* playback goes on.
LEMMA PipelineHolds == StreamSpec => []IInv /\ []UrgentChunksAdmitted
BY PipelineRefinement, Invariant, UrgentChunksAreAdmitted, PTL DEF ImplementsPipeline

-----------------------------------------------------------------------------
(***************************************************************************)
(* What waits to be heard.  Content is given up only while an Edit is      *)
(* handled, chunk by chunk; what was published until then lasts until the  *)
(* last chunk is bumped and a new stream begins.                           *)
(***************************************************************************)
Audible(c) ==
    /\ cache[c].samples = Tiles \X {cache[c].version}
    /\ \/ cacheIsCurrent(c)
       \/ /\ scheduler = "invalidate"
          /\ cache[c].version + 1 = version[c]
          /\ \A i \in DOMAIN work : work[i] # c

\* No chunk is bumped twice for one Edit.
BumpedOnce ==
    scheduler = "invalidate" =>
        \A i \in DOMAIN work, k \in DOMAIN work : work[i] = work[k] => i = k

PublishedInv ==
    /\ BumpedOnce
    /\ \A frame \in cursor .. nextFrameToPublish - 1 : Audible(frameToChunk(frame))

\* Versions grow with an Edit, and the cache changes only to what is current.
LEMMA ContentStep ==
  ASSUME [Next]_vars
  PROVE  \/ UNCHANGED <<cache, version>>
         \/ InvalidateChunk
         \/ CollectJob
<1> USE DEF sharedVars, renderVars
<1>1. CASE Control \/ Command \/ LeaveLoop \/ EndCommands
  BY <1>1 DEF Control, Start, StopScheduler, StopExecutor, JoinWorkers, Command,
              Play, Pause, Seek, SetViewport, Edit, LeaveLoop, EndCommands
<1>2. CASE SchedulerLoop
  BY <1>2 DEF SchedulerLoop, EndEdit, EndCollect, UpdateBackgroundAdmission,
              BeginPass, ScheduleChunk, EndSchedule, BeginMakeRoom, Evict, KeepTile,
              RetireTile, EndMakeRoom, ScanChunk, EndScan, DispatchTile, EndDispatch
<1>3. CASE \E w \in Worker : WorkerStep(w)
  BY <1>3 DEF WorkerStep, TakeTask, ExitWorker, BeginRender, GiveUp, EndRender,
              FailRender, FinishTile, PublishCompleted, workerOnly
<1>4. CASE UNCHANGED vars
  BY <1>4 DEF vars
<1>5. QED
  BY <1>1, <1>2, <1>3, <1>4 DEF Next

LEMMA CurrentKept ==
  ASSUME IInv, [Next]_vars, scheduler # "invalidate",
         NEW c \in Chunks, cacheIsCurrent(c)
  PROVE  cacheIsCurrent(c)'
<1>1. CASE UNCHANGED <<cache, version>>
  BY <1>1 DEF cacheIsCurrent
<1>2. CASE CollectJob
  <2> DEFINE done == jobs[Head(completed)]
             new == [cache EXCEPT ![done.chunk] =
                         [version |-> done.version, samples |-> done.samples]]
  <2>1. /\ version' = version
        /\ \/ cache' = cache
           \/ done.version = version[done.chunk] /\ cache' = new
    BY <1>2 DEF CollectJob, stored
  <2>2. CASE cache' = cache
    BY <2>1, <2>2 DEF cacheIsCurrent
  <2>3. CASE done.version = version[done.chunk] /\ cache' = new
    <3>1. CASE c = done.chunk /\ c \in Chunks
      <4>1. cache'[c] = [version |-> done.version, samples |-> done.samples]
        BY <2>3, <3>1 DEF IInv, Typed
      <4>2. QED
        BY <2>1, <2>3, <3>1, <4>1 DEF cacheIsCurrent
    <3>2. CASE c \in Chunks /\ c # done.chunk
      <4>1. cache'[c] = cache[c]
        BY <2>3, <3>2 DEF IInv, Typed
      <4>2. QED
        BY <2>1, <4>1 DEF cacheIsCurrent
    <3>3. QED
      BY <3>1, <3>2
  <2>4. QED
    BY <2>1, <2>2, <2>3
<1>3. QED
  BY <1>1, <1>2, ContentStep DEF InvalidateChunk

\* The steps that leave the published range as it is, or shorten it.
Consuming ==
    /\ nextFrameToPublish' = nextFrameToPublish
    /\ cursor' = cursor \/ cursor' = cursor + AudioBlockFrames

LEMMA StreamMoves ==
  ASSUME [StreamNext]_streamVars
  PROVE  \/ nextFrameToPublish' = cursor'
         \/ Feed
         \/ Consuming
<1> USE DEF Consuming, playbackVars
<1>1. CASE StreamControl
  BY <1>1 DEF StreamControl
<1>2. CASE StreamCommand
  BY <1>2 DEF StreamCommand, PlayCommand, PauseCommand, SeekCommand, EditCommand,
              ViewportCommand
<1>3. CASE LeaveStream \/ EndStreamCommands
  BY <1>3 DEF LeaveStream, EndStreamCommands
<1>4. CASE StreamLoop
  BY <1>4 DEF StreamLoop, RestartStream
<1>5. CASE Callback
  BY <1>5 DEF Callback
<1>6. CASE \E w \in Worker : StreamWorker(w)
  BY <1>6 DEF StreamWorker
<1>7. CASE UNCHANGED streamVars
  BY <1>7 DEF streamVars
<1>8. QED
  BY <1>1, <1>2, <1>3, <1>4, <1>5, <1>6, <1>7 DEF StreamNext

\* What begins, continues and ends the handling of an Edit.
LEMMA EditMoves ==
  ASSUME IInv, [StreamNext]_streamVars
  PROVE  \/ scheduler # "invalidate" /\ scheduler' # "invalidate"
         \/ \E region \in EditRegions : Edit(region)
         \/ InvalidateChunk
         \/ RestartStream
         \/ UNCHANGED <<scheduler, work>>
<1> USE DEF playbackVars, sharedVars, commandVars, passVars, renderVars
<1>1. CASE StreamControl
  <2>1. CASE Start
    BY <2>1 DEF Start, IInv, Phases
  <2>2. CASE StopScheduler \/ StopExecutor \/ JoinWorkers
    BY <2>2 DEF StopScheduler, StopExecutor, JoinWorkers
  <2>3. QED
    BY <1>1, <2>1, <2>2 DEF StreamControl
<1>2. CASE StreamCommand
  BY <1>2 DEF StreamCommand, PlayCommand, Play, PauseCommand, Pause, SeekCommand,
              Seek, EditCommand, ViewportCommand, SetViewport
<1>3. CASE LeaveStream \/ EndStreamCommands
  BY <1>3 DEF LeaveStream, LeaveLoop, EndStreamCommands, EndCommands
<1>4. CASE StreamLoop
  <2>1. CASE EndCollect
    BY <2>1 DEF EndCollect
  <2>2. CASE Feed
    BY <2>2 DEF Feed, ReachEnd, Pause, Publish, vars
  <2>3. CASE Rendering /\ ~InvalidateChunk
    BY <2>3 DEF Rendering, CollectJob, Admission, UpdateBackgroundAdmission,
                BeginPass, ScheduleChunk, EndSchedule, BeginMakeRoom, Evict,
                KeepTile, RetireTile, EndMakeRoom, ScanChunk, EndScan, DispatchTile,
                EndDispatch
  <2>4. QED
    BY <1>4, <2>1, <2>2, <2>3 DEF StreamLoop
<1>5. CASE Callback
  BY <1>5 DEF Callback, vars
<1>6. CASE \E w \in Worker : StreamWorker(w)
  BY <1>6 DEF StreamWorker, WorkerStep, TakeTask, ExitWorker, BeginRender, GiveUp,
              EndRender, FailRender, FinishTile, PublishCompleted, workerOnly
<1>7. CASE UNCHANGED streamVars
  BY <1>7 DEF streamVars, vars
<1>8. QED
  BY <1>1, <1>2, <1>3, <1>4, <1>5, <1>6, <1>7 DEF StreamNext

\* An interval names each chunk once.
LEMMA IntervalNamesOnce ==
  ASSUME NEW first, NEW last, first \in Int, last \in Int,
         NEW i \in DOMAIN SeqOfChunks(first, last),
         NEW k \in DOMAIN SeqOfChunks(first, last),
         SeqOfChunks(first, last)[i] = SeqOfChunks(first, last)[k]
  PROVE  i = k
BY DEF SeqOfChunks, Larger

\* What is left of the interval, once its first chunk is bumped.
LEMMA RestOfWork ==
  ASSUME work \in Seq(Chunks), work # <<>>, NEW i \in DOMAIN Tail(work)
  PROVE  /\ 1 \in DOMAIN work /\ Head(work) = work[1] /\ Head(work) \in Chunks
         /\ i + 1 \in DOMAIN work /\ i \in Nat /\ i >= 1
         /\ Tail(work)[i] = work[i + 1]
OBVIOUS

LEMMA BumpedOnceKept ==
  ASSUME IInv, BumpedOnce, [StreamNext]_streamVars
  PROVE  BumpedOnce'
<1>1. CASE scheduler' # "invalidate"
  BY <1>1 DEF BumpedOnce
<1>2. CASE UNCHANGED <<scheduler, work>>
  BY <1>2 DEF BumpedOnce
<1>3. ASSUME NEW region \in EditRegions, Edit(region)
      PROVE  BumpedOnce'
  <2>1. /\ firstInvalidated(region[1]) \in Int
        /\ lastInvalidated(region[1], region[2]) + 1 \in Int
    <3>1. region[1] \in Int /\ region[2] \in Int
      BY PipelineAssumption
    <3>2. /\ firstInvalidated(region[1]) \in Chunks
          /\ lastInvalidated(region[1], region[2]) \in Chunks
      BY <3>1, InvalidatedBounds
    <3>3. QED
      BY <3>2, ChunkFacts DEF Chunks
  <2>2. QED
    BY <1>3, <2>1, IntervalNamesOnce DEF Edit, BumpedOnce
<1>4. CASE InvalidateChunk
  <2>1. /\ scheduler = "invalidate" /\ work # <<>> /\ work' = Tail(work)
        /\ work \in Seq(Chunks)
    BY <1>4 DEF InvalidateChunk, IInv, Typed
  <2>2. ASSUME NEW i \in DOMAIN Tail(work), NEW k \in DOMAIN Tail(work),
               Tail(work)[i] = Tail(work)[k]
        PROVE  i = k
    <3>1. i + 1 = k + 1
      BY <2>1, <2>2, RestOfWork DEF BumpedOnce
    <3>2. i \in Nat /\ k \in Nat
      BY <2>1, RestOfWork
    <3>3. QED
      BY <3>1, <3>2
  <2>3. QED
    BY <2>1, <2>2 DEF BumpedOnce
<1>5. CASE RestartStream
  BY <1>5 DEF RestartStream, EndEdit, BumpedOnce
<1>6. QED
  BY <1>1, <1>2, <1>3, <1>4, <1>5, EditMoves

\* What may be heard of a chunk stays so until the new stream begins.
LEMMA AudibleKept ==
  ASSUME IInv, IInv', BumpedOnce, [StreamNext]_streamVars, ~RestartStream,
         PositionInv, NEW c \in Chunks, Audible(c)
  PROVE  Audible(c)'
<1>1. [Next]_vars
  BY StepRefines
<1>2. CASE cacheIsCurrent(c)'
  BY <1>2 DEF IInv, CacheIsSound, CacheIsComplete, Audible, cacheIsCurrent
<1>3. CASE InvalidateChunk
  <2>1. /\ scheduler = "invalidate" /\ scheduler' = scheduler /\ work # <<>>
        /\ work' = Tail(work) /\ cache' = cache
        /\ version' = [version EXCEPT ![Head(work)] = @ + 1]
        /\ work \in Seq(Chunks) /\ version \in [Chunks -> Nat]
    BY <1>3 DEF InvalidateChunk, renderVars, IInv, Typed
  <2>2. /\ 1 \in DOMAIN work /\ Head(work) = work[1]
    BY <2>1
  <2>3. CASE c = Head(work)
    <3>1. cacheIsCurrent(c)
      BY <2>2, <2>3 DEF Audible
    <3>2. version'[c] = version[c] + 1
      BY <2>1, <2>3
    <3>3. ASSUME NEW i \in DOMAIN Tail(work)
          PROVE  Tail(work)[i] # c
      <4>1. /\ i + 1 \in DOMAIN work /\ i + 1 # 1 /\ Tail(work)[i] = work[i + 1]
        BY <2>1, RestOfWork
      <4>2. QED
        BY <2>1, <2>2, <2>3, <4>1 DEF BumpedOnce
    <3>4. QED
      BY <2>1, <3>1, <3>2, <3>3 DEF Audible, cacheIsCurrent
  <2>4. CASE c # Head(work)
    <3>1. version'[c] = version[c]
      BY <2>1, <2>4
    <3>2. ASSUME NEW i \in DOMAIN Tail(work), \A k \in DOMAIN work : work[k] # c
          PROVE  Tail(work)[i] # c
      BY <2>1, <3>2, RestOfWork
    <3>3. QED
      BY <2>1, <3>1, <3>2 DEF Audible, cacheIsCurrent
  <2>5. QED
    BY <2>3, <2>4
<1>4. CASE scheduler # "invalidate"
  <2>1. cacheIsCurrent(c)
    BY <1>4 DEF Audible
  <2>2. QED
    BY <1>1, <1>2, <1>4, <2>1, CurrentKept
<1>5. CASE scheduler = "invalidate" /\ ~InvalidateChunk
  <2>1. UNCHANGED <<scheduler, work>>
    BY <1>5, EditMoves DEF Edit
  <2>2. UNCHANGED <<cache, version>>
    BY <1>1, <1>5, ContentStep DEF CollectJob
  <2>3. QED
    BY <2>1, <2>2 DEF Audible, cacheIsCurrent
<1>6. QED
  BY <1>3, <1>4, <1>5

LEMMA FrameChunk ==
  ASSUME PositionInv, NEW frame \in cursor .. nextFrameToPublish - 1
  PROVE  frame \in Nat /\ frameToChunk(frame) \in Chunks
<1>1. frame \in Frames /\ frame \in Nat
  BY QueueFacts DEF PositionInv, Boundaries, Frames
<1>2. QED
  BY <1>1, ChunkFacts

\* What is published anew is complete and current.
LEMMA PublishAudible ==
  ASSUME IInv, PositionInv, PublishedInv,
         NEW end \in Publishable(Larger(nextFrameToPublish, cursor)),
         NEW frame \in cursor .. end - 1
  PROVE  Audible(frameToChunk(frame))
<1>1. /\ end \in Nat /\ cursor \in Nat /\ nextFrameToPublish \in Nat
      /\ end \in Boundaries /\ TotalFrames \in Nat
  BY QueueFacts DEF Publishable, PositionInv, Boundaries
<1>2. CASE frame \in Larger(nextFrameToPublish, cursor) .. end - 1
  <2>1. cacheIsCurrent(frameToChunk(frame))
    BY <1>2 DEF Publishable
  <2>2. frame \in Frames
    BY <1>1 DEF Boundaries, Frames
  <2>3. frameToChunk(frame) \in Chunks
    BY <2>2, ChunkFacts
  <2>4. QED
    BY <2>1, <2>3 DEF Audible, IInv, CacheIsSound, CacheIsComplete, cacheIsCurrent
<1>3. CASE frame \in cursor .. nextFrameToPublish - 1
  BY <1>3 DEF PublishedInv
<1>4. QED
  BY <1>1, <1>2, <1>3 DEF Larger

LEMMA NothingLeft == \A f, g \in Nat : g <= f => f .. g - 1 = {}
OBVIOUS

LEMMA PublishedStep ==
  ASSUME IInv, IInv', PositionInv, PositionInv', PublishedInv,
         [StreamNext]_streamVars
  PROVE  PublishedInv'
<1>1. BumpedOnce'
  BY BumpedOnceKept DEF PublishedInv
<1>2. cursor' \in Nat /\ nextFrameToPublish' \in Nat
      /\ cursor \in Nat /\ nextFrameToPublish \in Nat
  BY QueueFacts DEF PositionInv, Boundaries
<1>3. CASE nextFrameToPublish' <= cursor'
  <2>1. cursor' .. nextFrameToPublish' - 1 = {}
    BY <1>2, <1>3, NothingLeft
  <2>2. QED
    BY <1>1, <2>1 DEF PublishedInv
<1>4. CASE Feed /\ Publish
  <2>1. UNCHANGED <<scheduler, work, cache, version, cursor>>
    BY <1>4 DEF Feed, Publish, vars, sharedVars, passVars, renderVars
  <2>2. ASSUME NEW frame \in cursor' .. nextFrameToPublish' - 1
        PROVE  Audible(frameToChunk(frame))'
    <3>1. nextFrameToPublish' \in Publishable(Larger(nextFrameToPublish, cursor))
      BY <1>4 DEF Publish
    <3>2. frame \in cursor .. nextFrameToPublish' - 1
      BY <2>1
    <3>3. Audible(frameToChunk(frame))
      BY <3>1, <3>2, PublishAudible
    <3>4. QED
      BY <2>1, <3>3 DEF Audible, cacheIsCurrent
  <2>3. QED
    BY <1>1, <2>2 DEF PublishedInv
<1>5. CASE Consuming /\ nextFrameToPublish' > cursor'
  <2>1. cursor' >= cursor /\ nextFrameToPublish' = nextFrameToPublish
    BY <1>2, <1>5, QueueFacts DEF Consuming
  <2>2. ~RestartStream
    BY <1>2, <1>5 DEF RestartStream
  <2>3. ASSUME NEW frame \in cursor' .. nextFrameToPublish' - 1
        PROVE  Audible(frameToChunk(frame))'
    <3>1. frame \in cursor .. nextFrameToPublish - 1
      BY <1>2, <2>1
    <3>2. frameToChunk(frame) \in Chunks /\ Audible(frameToChunk(frame))
      BY <3>1, FrameChunk DEF PublishedInv
    <3>3. QED
      BY <2>2, <3>2, AudibleKept DEF PublishedInv
  <2>4. QED
    BY <1>1, <2>3 DEF PublishedInv
<1>6. CASE Feed /\ ReachEnd
  <2>1. nextFrameToPublish' = cursor'
    BY <1>6 DEF Feed, ReachEnd
  <2>2. QED
    BY <1>2, <1>3, <2>1
<1>7. Feed => Publish \/ ReachEnd
  BY DEF Feed
<1>8. QED
  BY <1>2, <1>3, <1>4, <1>5, <1>6, <1>7, StreamMoves

\* A callback never consumes, and playback never starts on, a block of a render
\* that failed or was given up, or of content that was replaced before the Edit
\* being handled: outside an Edit what lies in the ready-audio queue is complete
\* and current, and while Scheduler::invalidateVersions bumps the versions, the
\* old stream not yet taken back, it is at most the one Edit behind; for any
\* queue capacity and any interleaving of edits, seeks, evictions, completions
\* and callbacks.
THEOREM ReadyAudioStaysCurrent == StreamSpec => []ReadyAudioIsCurrent
<1>1. StreamInit => PublishedInv
  BY DEF StreamInit, Init, PublishedInv, BumpedOnce
<1>2. /\ IInv /\ IInv' /\ PositionInv /\ PositionInv' /\ PublishedInv
      /\ [StreamNext]_streamVars
      => PublishedInv'
  BY PublishedStep
<1>3. PublishedInv => ReadyAudioIsCurrent
  BY DEF PublishedInv, Audible, ReadyAudioIsCurrent
<1>4. QED
  BY PipelineHolds, Positions, <1>1, <1>2, <1>3, PTL DEF StreamSpec

-----------------------------------------------------------------------------
(***************************************************************************)
(* Playback that waits.  Publication has then not got beyond the prebuffer,*)
(* so the chunk it stopped at is in the urgent window of the pass.         *)
(***************************************************************************)
AfterFeed == InPass \/ scheduler = "pass" \/ (scheduler = "admission" /\ fed)
Waits == playRequested /\ ~playing /\ AfterFeed

WaitInv ==
    Waits =>
        /\ nextFrameToPublish < TotalFrames
        /\ cursor <= nextFrameToPublish
        /\ leadBlocks(nextFrameToPublish) < PrebufferBlocks
        /\ InPass => playhead = cursor

\* The steps after which playback waits as it did before, but for those that go
\* on to the gate and begin the pass.
WaitsOn ==
    /\ UNCHANGED <<cursor, nextFrameToPublish, playhead>>
    /\ Waits' => Waits
    /\ InPass' => InPass

LEMMA WaitMoves ==
  ASSUME [StreamNext]_streamVars
  PROVE  \/ ~Waits'
         \/ WaitsOn
         \/ Feed
         \/ BeginPass(cursor) /\ UNCHANGED <<cursor, nextFrameToPublish, playing>>
<1> USE DEF WaitsOn, Waits, AfterFeed, InPass, playbackVars, sharedVars,
            commandVars, passVars, renderVars
<1>1. CASE StreamControl
  BY <1>1 DEF StreamControl, Start, StopScheduler, StopExecutor, JoinWorkers
<1>2. CASE StreamCommand
  <2>1. scheduler' \in {"commands", "invalidate"}
    BY <1>2 DEF StreamCommand, PlayCommand, Play, PauseCommand, Pause, SeekCommand,
                Seek, EditCommand, Edit, ViewportCommand, SetViewport
  <2>2. QED
    BY <2>1
<1>3. CASE LeaveStream \/ EndStreamCommands
  <2>1. scheduler' \in {"off", "collect"}
    BY <1>3 DEF LeaveStream, LeaveLoop, EndStreamCommands, EndCommands
  <2>2. QED
    BY <2>1
<1>4. CASE StreamLoop
  <2>1. CASE EndCollect /\ fed' = FALSE
    BY <2>1 DEF EndCollect
  <2>2. CASE BeginPass(cursor) /\ UNCHANGED <<playbackVars, fed, commands>>
    BY <2>2
  <2>3. CASE Rendering /\ UNCHANGED <<playbackVars, fed, commands>>
    <3>1. CASE InvalidateChunk \/ CollectJob \/ EndDispatch
      BY <3>1 DEF InvalidateChunk, CollectJob, EndDispatch
    <3>2. CASE Admission
      BY <2>3, <3>2 DEF Admission, UpdateBackgroundAdmission
    <3>3. CASE \/ ScheduleChunk \/ EndSchedule
               \/ BeginMakeRoom \/ Evict \/ KeepTile \/ RetireTile \/ EndMakeRoom
      BY <2>3, <3>3 DEF ScheduleChunk, EndSchedule, BeginMakeRoom, Evict, KeepTile,
                        RetireTile, EndMakeRoom
    <3>4. CASE ScanChunk \/ EndScan \/ DispatchTile
      BY <2>3, <3>4 DEF ScanChunk, EndScan, DispatchTile
    <3>5. QED
      BY <2>2, <2>3, <3>1, <3>2, <3>3, <3>4 DEF Rendering
  <2>4. CASE RestartStream
    BY <2>4 DEF RestartStream, EndEdit
  <2>5. CASE Feed
    BY <2>5
  <2> HIDE DEF WaitsOn, Waits, playbackVars
  <2>6. QED
    BY <1>4, <2>1, <2>3, <2>4, <2>5, Zenon DEF StreamLoop
<1>5. CASE Callback
  BY <1>5 DEF Callback
<1>6. CASE \E w \in Worker : StreamWorker(w)
  <2>1. /\ UNCHANGED <<scheduler, playRequested, playhead, playbackVars, fed>>
    BY <1>6 DEF StreamWorker, WorkerStep, TakeTask, ExitWorker, BeginRender, GiveUp,
                EndRender, FailRender, FinishTile, PublishCompleted, workerOnly
  <2>2. QED
    BY <2>1
<1>7. CASE UNCHANGED streamVars
  BY <1>7 DEF streamVars, vars
<1>8. QED
  BY <1>1, <1>2, <1>3, <1>4, <1>5, <1>6, <1>7 DEF StreamNext

LEMMA NotStarting ==
  ASSUME PositionInv, NEW f \in Boundaries, f <= cursor + QueueFrames, ~Starts(f)
  PROVE  f < TotalFrames /\ leadBlocks(f) < PrebufferBlocks
<1>1. f \in Nat /\ cursor \in Nat
  BY QueueFacts DEF PositionInv, Boundaries
<1>2. leadBlocks(f) \in Nat
  BY <1>1, LeadFits, QueueFacts
<1>3. QED
  BY <1>1, <1>2, QueueFacts, SchedulingAssumption DEF Starts

LEMMA WaitStep ==
  ASSUME PositionInv, WaitInv, [StreamNext]_streamVars
  PROVE  WaitInv'
<1> SUFFICES ASSUME Waits'
             PROVE  /\ nextFrameToPublish' < TotalFrames
                    /\ cursor' <= nextFrameToPublish'
                    /\ leadBlocks(nextFrameToPublish)' < PrebufferBlocks
                    /\ InPass' => playhead' = cursor'
  BY DEF WaitInv
<1>1. CASE WaitsOn
  BY <1>1 DEF WaitsOn, WaitInv, leadBlocks
<1>2. CASE Feed
  <2>1. scheduler' = "admission" /\ cursor' = cursor
    BY <1>2 DEF Feed, ReachEnd, Pause, Publish, vars
  <2>2. ~ReachEnd
    BY DEF Waits, ReachEnd, Pause
  <2>3. Publish
    BY <1>2, <2>2 DEF Feed
  <2>4. playRequested' = playRequested
    BY <2>3 DEF Publish, vars, commandVars
  <2>5. ~Starts(nextFrameToPublish')
    BY <2>3, <2>4 DEF Publish, Waits
  <2>6. nextFrameToPublish' < TotalFrames /\ leadBlocks(nextFrameToPublish') < PrebufferBlocks
    BY <2>3, <2>5, PublishedWithin, NotStarting
  <2>7. leadBlocks(nextFrameToPublish)' = leadBlocks(nextFrameToPublish')
    BY <2>1 DEF leadBlocks
  <2>8. ~InPass'
    BY <2>1 DEF InPass
  <2>9. cursor' <= nextFrameToPublish'
    BY <2>1, <2>3, PublishedWithin
  <2>10. QED
    BY <2>6, <2>7, <2>8, <2>9
<1>3. CASE BeginPass(cursor) /\ UNCHANGED <<cursor, nextFrameToPublish, playing>>
  <2>1. /\ scheduler = "pass" /\ playRequested' = playRequested
        /\ playhead' = cursor
    BY <1>3 DEF BeginPass
  <2>2. Waits
    BY <1>3, <2>1 DEF Waits, AfterFeed
  <2>3. QED
    BY <1>3, <2>1, <2>2 DEF WaitInv, leadBlocks
<1>4. QED
  BY <1>1, <1>2, <1>3, WaitMoves

LEMMA WaitHolds == StreamSpec => []WaitInv
<1>1. StreamInit => WaitInv
  BY DEF StreamInit, Init, WaitInv, Waits
<1>2. PositionInv /\ WaitInv /\ [StreamNext]_streamVars => WaitInv'
  BY WaitStep
<1>3. QED
  BY Positions, <1>1, <1>2, PTL DEF StreamSpec

\* A block boundary less than a prebuffer ahead is in the prebuffer.
LEMMA WithinPrebuffer ==
  ASSUME NEW f \in Boundaries, NEW g \in Boundaries, Aligned(f), Aligned(g),
         f <= g, g < TotalFrames, (g - f) \div AudioBlockFrames < PrebufferBlocks
  PROVE  g \in f .. f + prebufferFrames(f) - 1
<1> DEFINE B == AudioBlockFrames
           ahead == (g - f) \div B
           left == (TotalFrames - f) \div B
           wanted == Smaller(PrebufferBlocks, left)
<1>1. B \in Nat \ {0} /\ f \in Nat /\ g \in Nat /\ TotalFrames \in Nat
      /\ PrebufferBlocks \in Nat
  BY QueueFacts, SchedulingAssumption DEF Boundaries
<1>2. ahead \in Nat /\ g - f = B * ahead
  BY <1>1, GapInBlocks
<1>3. left \in Nat /\ TotalFrames - f = B * left
  <2>1. f <= TotalFrames
    BY <1>1 DEF Boundaries
  <2>2. QED
    BY <1>1, <2>1, GapInBlocks, EndsAligned
<1>4. ahead < PrebufferBlocks /\ prebufferFrames(f) = B * wanted
  BY DEF prebufferFrames
<1> HIDE DEF ahead, left, B
<1>5. B * ahead \in Nat /\ B * left \in Nat /\ B * (ahead - left) = B * ahead - B * left
  BY <1>1, <1>2, <1>3
<1>6. ahead - left >= 0 => B * (ahead - left) >= 0
  BY <1>1, <1>2, <1>3
<1>7. ahead < left
  BY <1>1, <1>2, <1>3, <1>5, <1>6
<1>8. wanted \in Nat /\ ahead < wanted
  BY <1>1, <1>2, <1>3, <1>4, <1>7 DEF Smaller
<1> HIDE DEF wanted
<1>9. wanted - ahead >= 1 /\ B * (wanted - ahead) = B * wanted - B * ahead
  BY <1>1, <1>2, <1>8
<1>10. B * (wanted - ahead) >= B /\ B * wanted \in Nat
  BY <1>1, <1>2, <1>8, <1>9
<1>11. B * ahead < B * wanted
  BY <1>1, <1>5, <1>9, <1>10
<1> DEFINE frames == B * wanted
<1> HIDE DEF frames
<1>12. frames \in Nat /\ g - f < frames /\ frames = prebufferFrames(f)
  BY <1>2, <1>4, <1>10, <1>11 DEF frames
<1>13. QED
  BY <1>1, <1>12

\* Playback that was requested waits for urgent work only: the chunk publication
\* stopped at is cached or being rendered after each urgent pass, or every tile
\* that is pending is urgent too (Scheduler::urgentChunkEnd and
\* makeRoomForUrgentChunk against PlaybackController::tryStart), for any
\* timeline, block size, prebuffer, window and queue limits.
THEOREM AwaitedChunkAdmitted == StreamSpec => []AwaitedChunkIsAdmitted
<1>1. PositionInv /\ WaitInv /\ UrgentChunksAdmitted => AwaitedChunkIsAdmitted
  <2> SUFFICES ASSUME PositionInv, WaitInv, UrgentChunksAdmitted,
                      failures = 0, Policy = "Priority", playRequested, ~playing,
                      scheduler \in {"scan", "dispatch"}
               PROVE  LET c == frameToChunk(nextFrameToPublish)
                      IN  /\ nextFrameToPublish < TotalFrames
                          /\ \/ cacheIsCurrent(c)
                             \/ hasCurrent(c)
                             \/ /\ scheduler = "scan" => ~HasRoom(MaxPendingTiles)
                                /\ \A i \in DOMAIN pending :
                                      /\ pending[i].classification.priority = Urgent
                                      /\ ~IsCancelled(pending[i])
    BY DEF AwaitedChunkIsAdmitted
  <2>1. /\ nextFrameToPublish < TotalFrames /\ cursor <= nextFrameToPublish
        /\ leadBlocks(nextFrameToPublish) < PrebufferBlocks
        /\ playhead = cursor
    BY DEF WaitInv, Waits, AfterFeed, InPass
  <2>2. cursor \in Nat /\ nextFrameToPublish \in Nat
    BY QueueFacts DEF PositionInv, Boundaries
  <2>3. (nextFrameToPublish - cursor) \div AudioBlockFrames < PrebufferBlocks
    <3>1. Larger(0, nextFrameToPublish - cursor) = nextFrameToPublish - cursor
      BY <2>1, <2>2 DEF Larger
    <3>2. QED
      BY <2>1, <3>1 DEF leadBlocks
  <2>4. nextFrameToPublish \in cursor .. cursor + prebufferFrames(cursor) - 1
    BY <2>1, <2>3, WithinPrebuffer DEF PositionInv
  <2>5. frameToChunk(nextFrameToPublish) \in UrgentWindow(playhead)
    BY <2>1, <2>4, WindowCoversPrebuffer DEF PositionInv
  <2>6. QED
    BY <2>1, <2>5 DEF UrgentChunksAdmitted
<1>2. QED
  BY PipelineHolds, Positions, WaitHolds, <1>1, PTL

-----------------------------------------------------------------------------
(***************************************************************************)
(* The transport.  What rendering does is not seen of it; the rest are the *)
(* moves Playback makes with its three threads.                            *)
(***************************************************************************)
SilenceInv ==
    /\ playing \in BOOLEAN /\ playRequested \in BOOLEAN
    /\ scheduler = "off" => ~playing /\ ~playRequested

\* The steps of rendering and of the threads that leave playback alone.
PlaybackKept ==
    /\ UNCHANGED <<cursor, nextFrameToPublish, playing, playRequested>>
    /\ scheduler' = "off" => scheduler = "off"

LEMMA TransportSteps ==
  ASSUME [StreamNext]_streamVars
  PROVE  \/ Start /\ nextFrameToPublish' = cursor /\ playing' = FALSE
            /\ cursor' = cursor
         \/ StopScheduler /\ UNCHANGED playbackVars
         \/ PlayCommand \/ PauseCommand \/ SeekCommand \/ RestartStream
         \/ LeaveStream \/ Feed \/ Callback
         \/ PlaybackKept
<1> USE DEF PlaybackKept, playbackVars, sharedVars, commandVars, passVars, renderVars
<1>1. CASE StreamControl
  BY <1>1 DEF StreamControl, StopExecutor, JoinWorkers
<1>2. CASE StreamCommand
  BY <1>2 DEF StreamCommand, EditCommand, Edit, ViewportCommand, SetViewport
<1>3. CASE EndStreamCommands
  BY <1>3 DEF EndStreamCommands, EndCommands
<1>4. CASE StreamLoop /\ ~Feed /\ ~RestartStream
  <2>1. UNCHANGED <<cursor, nextFrameToPublish, playing>> /\ (EndCollect \/ Rendering)
    BY <1>4 DEF StreamLoop
  <2>2. playRequested' = playRequested /\ (scheduler' = "off" => scheduler = "off")
    BY <2>1 DEF Rendering, InvalidateChunk, CollectJob, EndCollect,
                Admission, UpdateBackgroundAdmission, BeginPass, ScheduleChunk,
                EndSchedule, BeginMakeRoom, Evict, KeepTile, RetireTile, EndMakeRoom,
                ScanChunk, EndScan, DispatchTile, EndDispatch
  <2>3. QED
    BY <2>1, <2>2
<1>5. CASE \E w \in Worker : StreamWorker(w)
  BY <1>5 DEF StreamWorker, WorkerStep, TakeTask, ExitWorker, BeginRender, GiveUp,
              EndRender, FailRender, FinishTile, PublishCompleted, workerOnly
<1>6. CASE UNCHANGED streamVars
  BY <1>6 DEF streamVars, vars
<1>7. QED
  BY <1>1, <1>2, <1>3, <1>4, <1>5, <1>6 DEF StreamNext

LEMMA SilenceStep ==
  ASSUME SilenceInv, [StreamNext]_streamVars
  PROVE  SilenceInv'
<1>1. CASE Start /\ playing' = FALSE
  BY <1>1 DEF Start, SilenceInv
<1>2. CASE StopScheduler /\ UNCHANGED playbackVars
  BY <1>2 DEF StopScheduler, playbackVars, SilenceInv
<1>3. CASE PlayCommand \/ PauseCommand \/ SeekCommand \/ RestartStream
  <2>1. scheduler' # "off"
    BY <1>3 DEF PlayCommand, Play, PauseCommand, Pause, SeekCommand, Seek,
                RestartStream, EndEdit
  <2>2. playing' \in BOOLEAN
    BY <1>3 DEF PlayCommand, playbackVars, PauseCommand, SeekCommand, RestartStream,
                SilenceInv
  <2>3. playRequested' \in BOOLEAN
    BY <1>3 DEF PlayCommand, Play, PauseCommand, Pause, SeekCommand, Seek,
                RestartStream, EndEdit, commandVars, SilenceInv
  <2>4. QED
    BY <2>1, <2>2, <2>3 DEF SilenceInv
<1>4. CASE LeaveStream
  BY <1>4 DEF LeaveStream, LeaveLoop, SilenceInv
<1>5. CASE Feed
  <2>1. scheduler' # "off" /\ playing' \in BOOLEAN /\ playRequested' \in BOOLEAN
    BY <1>5 DEF Feed, ReachEnd, Pause, Publish, vars, commandVars, SilenceInv
  <2>2. QED
    BY <2>1 DEF SilenceInv
<1>6. CASE Callback
  BY <1>6 DEF Callback, vars, commandVars, SilenceInv
<1>7. CASE PlaybackKept
  BY <1>7 DEF PlaybackKept, SilenceInv
<1>8. QED
  BY <1>1, <1>2, <1>3, <1>4, <1>5, <1>6, <1>7, TransportSteps, Zenon

LEMMA InTransport ==
  ASSUME PositionInv
  PROVE  /\ cursor \in Nat /\ cursor \in Moves!Positions
         /\ nextFrameToPublish \in Nat /\ nextFrameToPublish \in Moves!Positions
BY QueueFacts DEF PositionInv, Boundaries, Moves!Positions, Moves!Boundaries, Aligned

\* A lead of so many blocks is as many blocks of frames.
LEMMA LeadHoldsPrebuffer ==
  ASSUME cursor \in Nat, NEW f \in Nat, leadBlocks(f) >= PrebufferBlocks
  PROVE  /\ Larger(0, f - cursor) \in Nat
         /\ Larger(0, f - cursor) >= PrebufferBlocks * AudioBlockFrames
<1> DEFINE B == AudioBlockFrames
           gap == Larger(0, f - cursor)
           lead == gap \div B
<1>1. B \in Nat \ {0} /\ PrebufferBlocks \in Nat
  BY QueueFacts, StreamingAssumption
<1>2. gap \in Nat
  BY DEF Larger
<1>3. lead >= PrebufferBlocks
  BY DEF leadBlocks
<1> HIDE DEF gap, B
<1>4. gap = B * lead + (gap % B) /\ gap % B \in 0 .. B - 1 /\ lead \in Nat
  BY <1>1, <1>2, DivisionFacts
<1> HIDE DEF lead
<1>5. lead - PrebufferBlocks \in Nat
  BY <1>1, <1>3, <1>4
<1>6. B * (lead - PrebufferBlocks) \in Nat
  BY <1>1, <1>5
<1>7. B * (lead - PrebufferBlocks) = B * lead - PrebufferBlocks * B
  BY <1>1, <1>4
<1>8. B * lead \in Nat /\ PrebufferBlocks * B \in Nat
  BY <1>1, <1>4
<1>9. QED
  BY <1>2, <1>4, <1>6, <1>7, <1>8 DEF gap, B

\* What is published, and the start of playback with it.
LEMMA PublishMoves ==
  ASSUME PositionInv, PositionInv', SilenceInv, Feed, Publish
  PROVE  Moves!Feed
<1>1. /\ cursor \in Nat /\ nextFrameToPublish \in Nat
      /\ nextFrameToPublish' \in Nat /\ nextFrameToPublish' \in Moves!Positions
  <2>1. (PositionInv => /\ nextFrameToPublish \in Nat
                        /\ nextFrameToPublish \in Moves!Positions)'
    BY InTransport, PTL
  <2>2. QED
    BY <2>1, InTransport
<1>2. /\ playRequested' = playRequested /\ cursor' = cursor
      /\ playing' = (playing \/ (playRequested /\ Starts(nextFrameToPublish')))
      /\ nextFrameToPublish' \in Publishable(Larger(nextFrameToPublish, cursor))
  BY DEF Publish, Feed, vars, commandVars
<1>3. /\ nextFrameToPublish <= nextFrameToPublish'
      /\ nextFrameToPublish' <= Larger(nextFrameToPublish, cursor + QueueFrames)
  <2>1. PICK end \in Boundaries :
           /\ end = nextFrameToPublish'
           /\ Larger(nextFrameToPublish, cursor) <= end
           /\ end <= Larger(Larger(nextFrameToPublish, cursor), cursor + QueueFrames)
    BY <1>2 DEF Publishable, QueueFrames
  <2>2. QED
    BY <1>1, <2>1, QueueFacts DEF Larger
<1>4. nextFrameToPublish' \in Moves!Reachable
  BY <1>1, <1>3 DEF Moves!Reachable, Moves!Larger, Larger, QueueFrames
<1>5. playRequested /\ Starts(nextFrameToPublish')
      => Moves!MayStart(nextFrameToPublish')
  <2> SUFFICES ASSUME playRequested, ~(nextFrameToPublish' >= TotalFrames),
                      leadBlocks(nextFrameToPublish') >= PrebufferBlocks
               PROVE  Moves!MayStart(nextFrameToPublish')
    BY DEF Starts, Moves!MayStart
  <2>1. /\ Larger(0, nextFrameToPublish' - cursor)
              >= PrebufferBlocks * AudioBlockFrames
        /\ Larger(0, nextFrameToPublish' - cursor) \in Nat
        /\ PrebufferBlocks * AudioBlockFrames \in Nat
        /\ AudioBlockFrames \in Nat
    <3>1. PrebufferBlocks \in Nat /\ AudioBlockFrames \in Nat
      BY QueueFacts, StreamingAssumption
    <3>2. PrebufferBlocks * AudioBlockFrames \in Nat
      BY <3>1
    <3>3. QED
      BY <1>1, <3>1, <3>2, LeadHoldsPrebuffer
  <2>2. Larger(0, nextFrameToPublish' - cursor) + AudioBlockFrames
           >= PrebufferBlocks * AudioBlockFrames
    BY <2>1
  <2>3. QED
    BY <2>2 DEF Moves!MayStart, Moves!Larger, Larger
<1>6. playing' \in {playing, playing \/ Moves!MayStart(nextFrameToPublish')}
  <2>1. CASE playRequested /\ Starts(nextFrameToPublish')
    <3>1. playing' = TRUE /\ Moves!MayStart(nextFrameToPublish')
      BY <1>2, <1>5, <2>1
    <3>2. QED
      BY <3>1, Zenon
  <2>2. CASE ~(playRequested /\ Starts(nextFrameToPublish'))
    <3>1. playing' = playing
      BY <1>2, <2>2 DEF SilenceInv
    <3>2. QED
      BY <3>1
  <2>3. QED
    BY <2>1, <2>2
<1>7. QED
  BY <1>2, <1>4, <1>6, Zenon DEF Moves!Feed

LEMMA StreamStepMoves ==
  ASSUME IInv, PositionInv, PositionInv', SilenceInv, [StreamNext]_streamVars
  PROVE  [Moves!Next]_(Moves!vars)
<1>1. CASE Start /\ nextFrameToPublish' = cursor /\ playing' = FALSE
           /\ cursor' = cursor
  <2>1. scheduler = "off" /\ playRequested' = FALSE
    BY <1>1 DEF Start, IInv, Phases
  <2>2. playing = FALSE /\ playRequested = FALSE
    BY <2>1 DEF SilenceInv
  <2>3. Moves!Restart
    BY <1>1, <2>1, <2>2, Zenon DEF Moves!Restart
  <2>4. QED
    BY <2>3 DEF Moves!Next
<1>2. CASE StopScheduler /\ UNCHANGED playbackVars
  <2>1. playRequested = FALSE /\ playRequested' = FALSE
    BY <1>2 DEF StopScheduler, SilenceInv
  <2>2. UNCHANGED <<playing, cursor, nextFrameToPublish>>
    BY <1>2 DEF playbackVars
  <2>3. UNCHANGED Moves!vars
    BY <2>1, <2>2, Zenon DEF Moves!vars
  <2>4. QED
    BY <2>3
<1>3. CASE PlayCommand
  <2>1. Moves!Request
    BY <1>3 DEF PlayCommand, Play, playbackVars, Moves!Request
  <2>2. QED
    BY <2>1 DEF Moves!Next
<1>4. CASE PauseCommand \/ LeaveStream
  <2>1. Moves!Withdraw
    BY <1>4 DEF PauseCommand, Pause, LeaveStream, LeaveLoop, Moves!Withdraw
  <2>2. QED
    BY <2>1 DEF Moves!Next
<1>5. CASE SeekCommand
  <2>1. PICK frame \in SeekFrames : cursor' = SeekTarget(frame)
    BY <1>5 DEF SeekCommand
  <2>2. cursor' = Moves!SeekTarget(frame)
    BY <2>1 DEF SeekTarget, Moves!SeekTarget, alignFrameToAudioBlock,
       Moves!alignFrameToAudioBlock, clampTimelineFrame,
       Moves!clampTimelineFrame, Larger, Smaller, Moves!Larger, Moves!Smaller
  <2>3. /\ nextFrameToPublish' = cursor' /\ playing' = FALSE
        /\ playRequested' = playRequested
    BY <1>5 DEF SeekCommand, Seek
  <2>4. Moves!Seek(frame)
    BY <2>2, <2>3, Zenon DEF Moves!Seek, Moves!Reposition
  <2>5. QED
    BY <2>4, Zenon DEF Moves!Next
<1>6. CASE RestartStream
  <2>1. /\ nextFrameToPublish' = cursor /\ cursor' = cursor
        /\ playRequested' = playRequested
        /\ playing' = (playing /\ ~(playRequested /\ RebufferOnEdit))
    BY <1>6 DEF RestartStream, EndEdit, commandVars
  <2>2. playing' \in {FALSE, playing}
    BY <2>1 DEF SilenceInv
  <2>3. cursor \in Moves!Positions /\ cursor <= cursor
    BY InTransport
  <2>4. Moves!Edit(cursor)
    BY <2>1, <2>2, <2>3, Zenon DEF Moves!Edit, Moves!Reposition
  <2>5. QED
    BY <2>3, <2>4, Zenon DEF Moves!Next
<1>7. CASE Feed
  <2>1. CASE ReachEnd
    <3>1. Moves!End
      BY <1>7, <2>1 DEF Feed, ReachEnd, Pause, Moves!End
    <3>2. QED
      BY <3>1 DEF Moves!Next
  <2>2. CASE Publish
    BY <1>7, <2>2, PublishMoves DEF Moves!Next
  <2>3. QED
    BY <1>7, <2>1, <2>2 DEF Feed
<1>8. CASE Callback
  <2>1. Moves!Advance
    BY <1>8 DEF Callback, vars, commandVars, Moves!Advance
  <2>2. QED
    BY <2>1 DEF Moves!Next
<1>9. CASE PlaybackKept
  BY <1>9 DEF PlaybackKept, Moves!vars
<1>10. QED
  BY <1>1, <1>2, <1>3, <1>4, <1>5, <1>6, <1>7, <1>8, <1>9, TransportSteps, Zenon

\* What Streaming leaves out of the handshake is not missed: it is an
\* implementation of the transport that Playback implements (TransportRefinement).
THEOREM StreamingIsTransport == StreamSpec => ImplementsTransport
<1>1. StreamInit => SilenceInv /\ Moves!Init
  BY DEF StreamInit, Init, SilenceInv, Moves!Init
<1>2. SilenceInv /\ [StreamNext]_streamVars => SilenceInv'
  BY SilenceStep
<1>3. QED
  BY PipelineHolds, Positions, <1>1, <1>2, StreamStepMoves, PTL
     DEF StreamSpec, ImplementsTransport, Moves!Spec

=============================================================================
