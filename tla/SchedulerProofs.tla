-------------------------- MODULE SchedulerProofs --------------------------
(***************************************************************************)
(* What the scheduler guarantees in every pass.  It never dispatches or    *)
(* evicts by a stale classification: a pending tile is classified when its *)
(* job is created and again only when something it depends on has changed. *)
(* An urgent chunk is admitted unless other urgent tiles have the room:    *)
(* the urgent pass makes room, and nothing after it in the same pass takes *)
(* it back.  And the jobs that exist at a time are bounded.                *)
(***************************************************************************)
EXTENDS RenderJobProofs

Items == {pending[i] : i \in DOMAIN pending} \cup {buffer[i] : i \in DOMAIN buffer}

\* The tile is classified as it would be now.
Labelled(tile) ==
    LET now == classificationOf(jobs[tile.job].chunk)
    IN  /\ tile.classification.priority = now.priority
        /\ tile.classification.deadlineFrame = now.deadlineFrame

InPass == scheduler \in {"schedule", "evict", "retire", "scan", "dispatch"}

\* What changes without the tiles being classified anew leaves the flag set, but
\* for the end of the loop.
LabelsInv ==
    /\ InPass => ~dirty
    /\ Policy = "Priority" /\ scheduler # "off" /\ ~dirty =>
          \A tile \in Items : Labelled(tile)

LEMMA ItemFacts ==
  ASSUME IInv, NEW tile \in Items
  PROVE  /\ tile \in PendingTile
         /\ tile.job \in Jobs /\ tile.job \in Referenced
         /\ jobs[tile.job] \in RenderJob /\ jobs[tile.job].chunk \in Chunks
<1>1. /\ tile \in PendingTile
      /\ tile.job \in Jobs /\ tile.job \in Referenced
      /\ jobs[tile.job] \in RenderJob
  BY PendingItems, BufferItems DEF Items
<1>2. QED
  BY <1>1 DEF RenderJob

-----------------------------------------------------------------------------
(***************************************************************************)
(* A job keeps its chunk.                                                  *)
(***************************************************************************)
ChunksKept ==
    \A j \in Jobs : j \in Referenced /\ j \in Referenced' =>
        jobs'[j].chunk = jobs[j].chunk

LEMMA ChunksWritten ==
  ASSUME IInv, NEW set, NEW k, NEW n, NEW new, NEW j \in Jobs, j \in Referenced
  PROVE  /\ Cancelling(set)[j].chunk = jobs[j].chunk
         /\ [jobs EXCEPT ![k].tilesRemaining = n][j].chunk = jobs[j].chunk
         /\ [jobs EXCEPT ![k].samples = n][j].chunk = jobs[j].chunk
         /\ k # j => [Cancelling(set) EXCEPT ![k] = new][j].chunk = jobs[j].chunk
<1>1. jobs[j] \in RenderJob /\ jobs \in [Jobs -> RenderJob \cup {Freed}]
  BY ReferencedJob, JobsAreNumbers DEF IInv, Typed
<1>2. Cancelling(set)[j].chunk = jobs[j].chunk
  BY <1>1 DEF Cancelling, RenderJob
<1>3. [jobs EXCEPT ![k].tilesRemaining = n][j].chunk = jobs[j].chunk
  BY <1>1 DEF RenderJob
<1>4. [jobs EXCEPT ![k].samples = n][j].chunk = jobs[j].chunk
  BY <1>1 DEF RenderJob
<1>5. k # j => [Cancelling(set) EXCEPT ![k] = new][j] = Cancelling(set)[j]
  BY DEF Cancelling
<1>6. QED
  BY <1>2, <1>3, <1>4, <1>5

LEMMA ChunksStay ==
  ASSUME IInv,
         \/ jobs' = jobs
         \/ JobsAre(jobs)
         \/ \E set : jobs' = Cancelling(set) \/ JobsAre(Cancelling(set))
         \/ \E k, n : \/ JobsAre([jobs EXCEPT ![k].tilesRemaining = n])
                      \/ jobs' = [jobs EXCEPT ![k].samples = n]
  PROVE  ChunksKept
<1> SUFFICES ASSUME NEW j \in Jobs, j \in Referenced, j \in Referenced'
             PROVE  jobs'[j].chunk = jobs[j].chunk
  BY DEF ChunksKept
<1>1. CASE jobs' = jobs \/ JobsAre(jobs)
  BY <1>1 DEF JobsAre
<1>2. ASSUME NEW set, jobs' = Cancelling(set) \/ JobsAre(Cancelling(set))
      PROVE  jobs'[j].chunk = jobs[j].chunk
  <2>1. jobs'[j] = Cancelling(set)[j]
    BY <1>2 DEF JobsAre
  <2>2. QED
    BY <2>1, ChunksWritten
<1>3. ASSUME NEW k, NEW n,
             \/ JobsAre([jobs EXCEPT ![k].tilesRemaining = n])
             \/ jobs' = [jobs EXCEPT ![k].samples = n]
      PROVE  jobs'[j].chunk = jobs[j].chunk
  <2>1. CASE JobsAre([jobs EXCEPT ![k].tilesRemaining = n])
    <3>1. jobs'[j] = [jobs EXCEPT ![k].tilesRemaining = n][j]
      BY <2>1 DEF JobsAre
    <3>2. [jobs EXCEPT ![k].tilesRemaining = n][j].chunk = jobs[j].chunk
      BY ChunksWritten
    <3>3. QED
      BY <3>1, <3>2
  <2>2. CASE jobs' = [jobs EXCEPT ![k].samples = n]
    <3>1. [jobs EXCEPT ![k].samples = n][j].chunk = jobs[j].chunk
      BY ChunksWritten
    <3>2. QED
      BY <2>2, <3>1
  <2>3. QED
    BY <1>3, <2>1, <2>2
<1>4. QED
  BY <1>1, <1>2, <1>3

-----------------------------------------------------------------------------
(***************************************************************************)
(* The steps that classify nothing.                                        *)
(***************************************************************************)
LEMMA LabelsKept ==
  ASSUME IInv, LabelsInv, ChunksKept, Items' \subseteq Items,
         UNCHANGED <<playRequested, viewport, playhead, dirty>>,
         scheduler' # "off" => scheduler # "off",
         InPass' => InPass
  PROVE  LabelsInv'
<1>1. ASSUME NEW tile \in Items', Labelled(tile) PROVE Labelled(tile)'
  <2>1. tile \in Items /\ tile.job \in Jobs /\ tile.job \in Referenced
    BY ItemFacts
  <2>2. tile.job \in Referenced'
    BY DEF Items, Referenced, JobsIn
  <2>3. jobs'[tile.job].chunk = jobs[tile.job].chunk
    BY <2>1, <2>2 DEF ChunksKept
  <2>4. QED
    BY <1>1, <2>3 DEF Labelled, classificationOf
<1>2. QED
  BY <1>1 DEF LabelsInv

\* A step after which the tiles will be classified anew, or after the loop.
LEMMA LabelsDirty ==
  ASSUME dirty' = TRUE \/ scheduler' = "off", ~InPass'
  PROVE  LabelsInv'
BY DEF LabelsInv

\* Where neither the chunk of the playhead nor the end of the urgent window has
\* changed, no chunk is classified differently.
LEMMA SameLabels ==
  ASSUME NEW p \in Boundaries, NEW q \in Boundaries,
         playheadChunk(p) = playheadChunk(q),
         urgentChunkEnd(p) = urgentChunkEnd(q),
         NEW c \in Chunks
  PROVE  LET a == classifyChunk(c, p, playRequested, viewport)
             b == classifyChunk(c, q, playRequested, viewport)
         IN  a.priority = b.priority /\ a.deadlineFrame = b.deadlineFrame
<1>1. ChunkCount \in Nat /\ p \in Nat /\ q \in Nat /\ TotalFrames \in Nat
  BY ChunkFacts, TimelineAssumption DEF Boundaries
<1>2. \A f \in {p, q} : f < TotalFrames => frameToChunk(f) \in 0 .. ChunkCount - 1
  BY <1>1, ChunkFacts DEF Chunks, Frames
<1>3. UrgentWindow(p) = UrgentWindow(q)
  BY <1>1, <1>2 DEF UrgentWindow, playheadChunk
<1>4. QED
  BY <1>3 DEF classifyChunk

LEMMA PassLabels ==
  ASSUME IInv, LabelsInv, NEW position \in Playheads, BeginPass(position)
  PROVE  LabelsInv'
<1> USE DEF sharedVars
<1>1. /\ scheduler = "pass" /\ scheduler' = "schedule" /\ dirty' = FALSE
      /\ playhead' = position
      /\ UNCHANGED <<control, sharedVars, playRequested, viewport, buffer>>
  BY DEF BeginPass
<1>2. buffer = <<>> /\ pending \in Seq(PendingTile) /\ playhead \in Boundaries
      /\ position \in Boundaries
  BY <1>1, PipelineAssumption DEF IInv, Phases, Typed
<1>3. Items = {pending[i] : i \in DOMAIN pending}
      /\ Items' = {pending'[i] : i \in DOMAIN pending'}
  BY <1>1, <1>2 DEF Items
<1>4. ASSUME Policy = "Priority", NEW tile \in Items' PROVE Labelled(tile)'
  <2>1. CASE ClassificationChanged(position)
    <3>1. pending' = [i \in DOMAIN pending |-> classified(pending[i], position)]
      BY <1>4, <2>1 DEF BeginPass
    <3>2. PICK i \in DOMAIN pending : tile = classified(pending[i], position)
      BY <1>3, <1>4, <3>1
    <3> DEFINE label == classifyChunk(jobs[pending[i].job].chunk, position,
                                      playRequested, viewport)
    <3>3. tile = [pending[i] EXCEPT !.classification = label]
      BY <3>2 DEF classified
    <3>4. pending[i] \in PendingTile
      BY PendingItems
    <3>5. tile.job = pending[i].job /\ tile.classification = label
      BY <3>3, <3>4 DEF PendingTile
    <3>6. QED
      BY <1>1, <3>5 DEF Labelled, classificationOf
  <2>2. CASE ~ClassificationChanged(position)
    <3>1. pending' = pending /\ ~dirty
          /\ playheadChunk(position) = playheadChunk(playhead)
          /\ urgentChunkEnd(position) = urgentChunkEnd(playhead)
      BY <2>2 DEF BeginPass, ClassificationChanged
    <3>2. tile \in Items /\ Labelled(tile)
      BY <1>1, <1>3, <1>4, <3>1 DEF LabelsInv
    <3> DEFINE c == jobs[tile.job].chunk
    <3>3. c \in Chunks
      BY <3>2, ItemFacts
    <3> HIDE DEF c
    <3>4. /\ classifyChunk(c, position, playRequested, viewport).priority
               = classifyChunk(c, playhead, playRequested, viewport).priority
          /\ classifyChunk(c, position, playRequested, viewport).deadlineFrame
               = classifyChunk(c, playhead, playRequested, viewport).deadlineFrame
      BY <1>2, <3>1, <3>3, SameLabels
    <3>5. QED
      BY <1>1, <3>2, <3>4 DEF Labelled, classificationOf, c
  <2>3. QED
    BY <2>1, <2>2
<1>5. QED
  BY <1>1, <1>4 DEF LabelsInv, InPass

\* The tiles of a new job are classified as of this pass.
LEMMA CreateLabels ==
  ASSUME IInv, LabelsInv, InPass, NEW chunk \in Chunks,
         NoNewJob \/ CreateIfRoom(chunk),
         UNCHANGED <<playRequested, viewport, playhead, dirty, buffer>>,
         scheduler' = scheduler \/ scheduler' = "schedule"
  PROVE  LabelsInv'
<1>0. InPass' /\ scheduler # "off" /\ scheduler' # "off"
  BY DEF InPass
<1>1. CASE NoNewJob
  <2>1. UNCHANGED <<jobs, pending>>
    BY <1>1 DEF NoNewJob
  <2>2. Items' = Items /\ ChunksKept
    BY <2>1 DEF Items, ChunksKept
  <2>3. QED
    BY <1>0, <2>2, LabelsKept
<1>2. CASE CreateJob(chunk)
  <2> PICK job : job = NewJob
    OBVIOUS
  <2> DEFINE old == {activeJob[chunk]}
             tiles == TilesOf(job, chunk)
             record == [chunk |-> chunk, version |-> version[chunk],
                        tilesRemaining |-> TilesPerChunk, cancelled |-> FALSE,
                        samples |-> {}]
             written == [Cancelling(old) EXCEPT ![job] = record]
  <2>1. /\ FreeJobs # {} /\ pending' = pending \o tiles /\ JobsAre(written)
    BY <1>2 DEF CreateJob
  <2>2. job \in Jobs /\ jobs[job] = Freed /\ job \notin Referenced
    BY <2>1, NewJobIsFree DEF IInv, NothingDangles
  <2>3. pending \in Seq(PendingTile) /\ tiles \in Seq(PendingTile)
    BY <2>2, TilesOfCount DEF IInv, Typed
  <2>4. written[job] = record
    BY <2>2 DEF Cancelling
  <2>5. record.chunk = chunk
    OBVIOUS
  <2>6. \A i \in DOMAIN tiles : tiles[i].job = job
                                /\ tiles[i].classification = classificationOf(chunk)
    BY DEF TilesOf
  <2> HIDE DEF old, tiles, record
  <2>7. Items' \subseteq Items \cup {tiles[i] : i \in DOMAIN tiles}
    <3>1. \A i \in DOMAIN pending' : \/ \E k \in DOMAIN pending : pending'[i] = pending[k]
                                     \/ \E k \in DOMAIN tiles : pending'[i] = tiles[k]
      <4> DEFINE n == Len(pending)
                 m == Len(tiles)
      <4>1. /\ n \in Nat /\ m \in Nat
            /\ DOMAIN pending = 1 .. n /\ DOMAIN tiles = 1 .. m
            /\ DOMAIN pending' = 1 .. n + m
            /\ \A i \in 1 .. n : pending'[i] = pending[i]
            /\ \A i \in 1 .. m : pending'[n + i] = tiles[i]
        BY <2>1, <2>3
      <4> HIDE DEF n, m
      <4>2. \A i \in 1 .. n + m : i \in 1 .. n
                                  \/ (i - n \in 1 .. m /\ pending'[i] = tiles[i - n])
        BY <4>1
      <4>3. QED
        BY <4>1, <4>2
    <3>2. QED
      BY <3>1 DEF Items
  <2>8. ASSUME NEW j \in Jobs, j \in Referenced, j \in Referenced'
        PROVE  jobs'[j].chunk = jobs[j].chunk
    <3>1. jobs'[j] = written[j] /\ job # j
      BY <2>1, <2>2, <2>8 DEF JobsAre
    <3>2. QED
      BY <2>8, <3>1, ChunksWritten
  <2>9. job \in Referenced' => jobs'[job].chunk = chunk
    BY <2>1, <2>2, <2>4, <2>5 DEF JobsAre
  <2> HIDE DEF written
  <2>10. ASSUME Policy = "Priority", NEW tile \in Items' PROVE Labelled(tile)'
    <3>1. tile.job \in Referenced'
      BY DEF Items, Referenced, JobsIn
    <3>2. CASE tile \in Items
      <4>1. tile.job \in Jobs /\ tile.job \in Referenced
        BY <3>2, ItemFacts
      <4>2. Labelled(tile)
        BY <1>0, <2>10, <3>2 DEF LabelsInv
      <4>3. QED
        BY <2>8, <3>1, <4>1, <4>2 DEF Labelled, classificationOf
    <3>3. CASE \E i \in DOMAIN tiles : tile = tiles[i]
      <4>1. tile.job = job /\ tile.classification = classificationOf(chunk)
        BY <2>6, <3>3
      <4>2. jobs'[tile.job].chunk = chunk
        BY <2>9, <3>1, <4>1
      <4>3. QED
        BY <4>1, <4>2 DEF Labelled, classificationOf
    <3>4. QED
      BY <2>7, <2>10, <3>2, <3>3
  <2>11. QED
    BY <1>0, <2>10 DEF LabelsInv
<1>3. QED
  BY <1>1, <1>2 DEF CreateIfRoom

-----------------------------------------------------------------------------
LEMMA ControlLabels ==
  ASSUME IInv, LabelsInv, Control
  PROVE  LabelsInv'
<1> USE DEF sharedVars, commandVars, passVars, renderVars
<1>1. CASE Start
  BY <1>1, LabelsDirty DEF Start, InPass
<1>2. CASE StopScheduler
  BY <1>2, LabelsDirty DEF StopScheduler, InPass
<1>3. CASE StopExecutor \/ JoinWorkers
  <2>1. scheduler = "off"
    BY <1>3 DEF StopExecutor, JoinWorkers, IInv, Phases
  <2>2. scheduler' = "off"
    BY <1>3, <2>1 DEF StopExecutor, JoinWorkers
  <2>3. QED
    BY <2>2, LabelsDirty DEF InPass
<1>4. QED
  BY <1>1, <1>2, <1>3 DEF Control

LEMMA CommandLabels ==
  ASSUME IInv, LabelsInv, Command \/ LeaveLoop \/ EndCommands \/ EndEdit
  PROVE  LabelsInv'
<1> USE DEF sharedVars, commandVars, passVars, renderVars
<1>1. CASE LeaveLoop
  BY <1>1, LabelsDirty DEF LeaveLoop, InPass
<1>2. CASE Seek \/ \E region \in Viewports : SetViewport(region)
  BY <1>2, LabelsDirty DEF Seek, SetViewport, InPass
<1>3. CASE Play \/ Pause
  <2>1. CASE dirty' = TRUE
    BY <1>3, <2>1, LabelsDirty DEF Play, Pause, InPass
  <2>2. CASE dirty' # TRUE
    <3>1. dirty \in BOOLEAN /\ playRequested \in BOOLEAN
      BY DEF IInv, Typed
    <3>2. UNCHANGED <<playRequested, viewport, playhead, dirty, jobs, scheduler,
                      pending, buffer>>
      BY <1>3, <2>2, <3>1 DEF Play, Pause
    <3>3. Items' = Items /\ ChunksKept /\ InPass' = InPass
      BY <3>2 DEF Items, ChunksKept, InPass
    <3>4. QED
      BY <3>2, <3>3, LabelsKept
  <2>3. QED
    BY <2>1, <2>2
<1>4. CASE EndCommands \/ EndEdit \/ \E region \in EditRegions : Edit(region)
  <2>1. /\ UNCHANGED <<playRequested, viewport, playhead, dirty, jobs, pending, buffer>>
        /\ scheduler # "off" /\ ~InPass'
    BY <1>4 DEF EndCommands, EndEdit, Edit, InPass
  <2>2. Items' = Items /\ ChunksKept
    BY <2>1 DEF Items, ChunksKept
  <2>3. QED
    BY <2>1, <2>2, LabelsKept
<1>5. QED
  BY <1>1, <1>2, <1>3, <1>4 DEF Command

\* Making room and dispatch add no tile.
LEMMA RetiredItems ==
  ASSUME IInv, RetireTile \/ KeepTile
  PROVE  Items' \subseteq Items
<1>1. /\ buffer' = Tail(buffer) /\ buffer # <<>>
      /\ pending' = pending \/ pending' = Append(pending, Head(buffer))
  BY DEF RetireTile, KeepTile
<1>2. pending \in Seq(PendingTile) /\ buffer \in Seq(PendingTile)
  BY DEF IInv, Typed
<1>3. \A i \in DOMAIN buffer' : i + 1 \in DOMAIN buffer
                                /\ buffer'[i] = buffer[i + 1]
  BY <1>1, <1>2
<1>4. 1 \in DOMAIN buffer /\ Head(buffer) = buffer[1]
  BY <1>1, <1>2
<1>5. \A i \in DOMAIN pending' : \/ i \in DOMAIN pending /\ pending'[i] = pending[i]
                                 \/ pending'[i] = buffer[1]
  <2>1. CASE pending' = pending
    BY <2>1
  <2>2. CASE pending' = Append(pending, Head(buffer))
    BY <1>2, <1>4, <2>2
  <2>3. QED
    BY <1>1, <2>1, <2>2
<1>6. QED
  BY <1>3, <1>4, <1>5 DEF Items

LEMMA DispatchItems ==
  ASSUME IInv, DispatchTile
  PROVE  Items' \subseteq Items
<1>1. /\ pending' = [i \in 1 .. Len(pending) - 1 |->
                       pending[IF i < Top THEN i ELSE i + 1]]
      /\ buffer' = buffer /\ pending # <<>>
  BY DEF DispatchTile, MayDispatch
<1>2. Top \in 1 .. Len(pending) /\ Len(pending) \in Nat
      /\ DOMAIN pending = 1 .. Len(pending)
  BY <1>1, TopIsPending DEF IInv, Typed
<1>3. \A i \in 1 .. Len(pending) - 1 :
         (IF i < Top THEN i ELSE i + 1) \in 1 .. Len(pending)
  BY <1>2
<1>4. \A i \in DOMAIN pending' : \E k \in DOMAIN pending : pending'[i] = pending[k]
  BY <1>1, <1>2, <1>3
<1>5. QED
  BY <1>1, <1>4 DEF Items

LEMMA SchedulerLabels ==
  ASSUME IInv, LabelsInv, SchedulerLoop
  PROVE  LabelsInv'
<1> USE DEF sharedVars, commandVars, passVars, renderVars
<1>1. CASE EndEdit
  BY <1>1, CommandLabels
<1>2. CASE \E position \in Playheads : BeginPass(position)
  BY <1>2, PassLabels
<1>3. CASE ScheduleChunk \/ EndMakeRoom
  <2>1. /\ Head(work) \in Chunks /\ InPass
        /\ NoNewJob \/ CreateIfRoom(Head(work))
        /\ UNCHANGED <<playRequested, viewport, playhead, dirty, buffer>>
        /\ scheduler' = scheduler \/ scheduler' = "schedule"
    <3>1. work # <<>> /\ work \in Seq(Chunks)
      BY <1>3 DEF ScheduleChunk, EndMakeRoom, IInv, Phases, Typed
    <3>2. Head(work) \in Chunks
      BY <3>1
    <3>3. QED
      BY <1>3, <3>2 DEF ScheduleChunk, EndMakeRoom, InPass
  <2>2. QED
    BY <2>1, CreateLabels
<1>4. CASE ScanChunk
  <2>1. scanCursor \in Chunks
    BY DEF IInv, Typed
  <2>2. /\ NoNewJob \/ CreateIfRoom(scanCursor)
        /\ UNCHANGED <<playRequested, viewport, playhead, dirty, buffer, scheduler>>
        /\ InPass
    BY <1>4 DEF ScanChunk, InPass
  <2>3. QED
    BY <2>1, <2>2, CreateLabels
<1>5. CASE \/ EndCollect \/ EndSchedule \/ EndScan \/ EndDispatch
           \/ \E lead \in Leads : UpdateBackgroundAdmission(lead)
  <2>1. /\ UNCHANGED <<playRequested, viewport, playhead, dirty, jobs, pending, buffer>>
        /\ scheduler # "off" /\ (InPass' => InPass)
    BY <1>5 DEF EndCollect, EndSchedule, EndScan, EndDispatch,
                UpdateBackgroundAdmission, InPass
  <2>2. Items' = Items /\ ChunksKept
    BY <2>1 DEF Items, ChunksKept
  <2>3. QED
    BY <2>1, <2>2, LabelsKept
<1>6. CASE InvalidateChunk \/ CollectJob \/ Evict
  <2>1. /\ UNCHANGED <<playRequested, viewport, playhead, dirty, pending, buffer>>
        /\ scheduler # "off" /\ (InPass' => InPass)
    BY <1>6 DEF InvalidateChunk, CollectJob, Evict, InPass
  <2>2. JobsAre(jobs) \/ \E set : jobs' = Cancelling(set)
    BY <1>6 DEF InvalidateChunk, CollectJob, Evict
  <2>3. Items' = Items
    BY <2>1 DEF Items
  <2>4. ChunksKept
    BY <2>2, ChunksStay
  <2>5. QED
    BY <2>1, <2>3, <2>4, LabelsKept
<1>7. CASE BeginMakeRoom \/ KeepTile \/ RetireTile \/ DispatchTile
  <2>1. /\ UNCHANGED <<playRequested, viewport, playhead, dirty>>
        /\ scheduler # "off" /\ (InPass' => InPass)
    BY <1>7 DEF BeginMakeRoom, KeepTile, RetireTile, DispatchTile, InPass
  <2>2. ChunksKept
    <3>1. jobs' = jobs \/ \E k, n : JobsAre([jobs EXCEPT ![k].tilesRemaining = n])
      BY <1>7 DEF BeginMakeRoom, KeepTile, RetireTile, DispatchTile
    <3>2. QED
      BY <3>1, ChunksStay
  <2>3. pending \in Seq(PendingTile) /\ buffer \in Seq(PendingTile)
    BY DEF IInv, Typed
  <2>4. Items' \subseteq Items
    <3>1. CASE BeginMakeRoom
      BY <3>1 DEF BeginMakeRoom, Items
    <3>2. CASE RetireTile \/ KeepTile \/ DispatchTile
      BY <3>2, RetiredItems, DispatchItems
    <3>3. QED
      BY <1>7, <3>1, <3>2
  <2>5. QED
    BY <2>1, <2>2, <2>4, LabelsKept
<1>8. QED
  BY <1>1, <1>2, <1>3, <1>4, <1>5, <1>6, <1>7 DEF SchedulerLoop

LEMMA WorkerLabels ==
  ASSUME IInv, LabelsInv, NEW w \in Worker, WorkerStep(w)
  PROVE  LabelsInv'
<1> USE DEF commandVars, passVars, renderVars
<1>1. UNCHANGED <<playRequested, viewport, playhead, dirty, scheduler, pending, buffer>>
  BY DEF WorkerStep, TakeTask, ExitWorker, BeginRender, GiveUp, EndRender,
         FailRender, FinishTile, PublishCompleted, workerOnly
<1>2. \/ jobs' = jobs
      \/ \E set : jobs' = Cancelling(set)
      \/ \E k, n : \/ JobsAre([jobs EXCEPT ![k].tilesRemaining = n])
                   \/ jobs' = [jobs EXCEPT ![k].samples = n]
  BY DEF WorkerStep, TakeTask, ExitWorker, BeginRender, GiveUp, EndRender,
         FailRender, FinishTile, PublishCompleted
<1>3. Items' = Items /\ InPass' = InPass
  BY <1>1 DEF Items, InPass
<1>4. ChunksKept
  BY <1>2, ChunksStay
<1>5. QED
  BY <1>1, <1>3, <1>4, LabelsKept

-----------------------------------------------------------------------------
LEMMA LabelsHold == Spec => []LabelsInv
<1>1. Init => LabelsInv
  BY DEF Init, LabelsInv, InPass
<1>2. IInv /\ LabelsInv /\ [Next]_vars => LabelsInv'
  <2> SUFFICES ASSUME IInv, LabelsInv, [Next]_vars PROVE LabelsInv'
    OBVIOUS
  <2>1. CASE UNCHANGED vars
    BY <2>1 DEF vars, sharedVars, commandVars, passVars, renderVars, LabelsInv,
                InPass, Items, Labelled, classificationOf
  <2>2. CASE Next
    BY <2>2, ControlLabels, CommandLabels, SchedulerLabels, WorkerLabels DEF Next
  <2>3. QED
    BY <2>1, <2>2
<1>3. QED
  BY Invariant, <1>1, <1>2, PTL DEF Spec

\* Whatever is sought, shown, played, edited or evicted, the classification by
\* which a pass dispatches and evicts is the one the tile has in this pass
\* (Scheduler::refreshPendingClassifications and its dirty flag), for every
\* timeline, window and viewport.
THEOREM ClassificationsStayCurrent == Spec => []ClassificationsAreCurrent
<1>1. IInv /\ LabelsInv => ClassificationsAreCurrent
  <2> SUFFICES ASSUME IInv, LabelsInv, Policy = "Priority", InPass,
                      NEW i \in DOMAIN (pending \o buffer)
               PROVE  Labelled((pending \o buffer)[i])
    BY DEF ClassificationsAreCurrent, InPass, Labelled
  <2>1. pending \in Seq(PendingTile) /\ buffer \in Seq(PendingTile)
    BY DEF IInv, Typed
  <2>2. (pending \o buffer)[i] \in Items
    <3> DEFINE n == Len(pending)
               m == Len(buffer)
               r == pending \o buffer
    <3>1. /\ n \in Nat /\ m \in Nat
          /\ DOMAIN pending = 1 .. n /\ DOMAIN buffer = 1 .. m
          /\ DOMAIN r = 1 .. n + m
          /\ \A k \in 1 .. n : r[k] = pending[k]
          /\ \A k \in 1 .. m : r[n + k] = buffer[k]
      BY <2>1
    <3> HIDE DEF n, m, r
    <3>2. i \in 1 .. n \/ (i - n \in 1 .. m /\ r[i] = buffer[i - n])
      BY <3>1 DEF r
    <3>3. r[i] \in Items
      BY <3>1, <3>2 DEF Items
    <3>4. QED
      BY <3>3 DEF r
  <2>3. QED
    BY <2>2 DEF LabelsInv, InPass
<1>2. QED
  BY Invariant, LabelsHold, <1>1, PTL

-----------------------------------------------------------------------------
(***************************************************************************)
(* Urgent chunks are admitted.  A job that has tiles left and was not      *)
(* cancelled has the slot of its chunk and the chunk's version.            *)
(***************************************************************************)
Live(j) == ~jobs[j].cancelled /\ jobs[j].tilesRemaining >= 1

SlotsInv ==
    /\ \A c \in Chunks : activeJob[c] # NoJob => jobs[activeJob[c]].chunk = c
    /\ \A j \in Jobs : jobs[j] # Freed /\ Live(j) =>
          /\ activeJob[jobs[j].chunk] = j
          /\ jobs[j].version = version[jobs[j].chunk]

\* What a step leaves of a job it neither creates nor revives.
Kept(j) ==
    jobs'[j] # Freed =>
        /\ jobs[j] # Freed
        /\ jobs'[j].chunk = jobs[j].chunk
        /\ jobs'[j].version = jobs[j].version
        /\ jobs[j].cancelled => jobs'[j].cancelled
        /\ jobs'[j].tilesRemaining >= 1 => jobs[j].tilesRemaining >= 1

FlagKept(j) == jobs'[j] # Freed => jobs'[j].cancelled = jobs[j].cancelled

Settled(j) ==
    jobs'[j] = Freed \/ jobs'[j].cancelled \/ ~(jobs'[j].tilesRemaining >= 1)

LEMMA KeptAsIs ==
  ASSUME jobs' = jobs \/ JobsAre(jobs), NEW j \in Jobs
  PROVE  Kept(j) /\ FlagKept(j)
<1>1. jobs'[j] = jobs[j] \/ jobs'[j] = Freed
  BY DEF JobsAre
<1>2. QED
  BY <1>1 DEF Kept, FlagKept

LEMMA KeptCancelling ==
  ASSUME IInv, NEW set, \A j \in Jobs : j \in set => jobs[j] # Freed,
         jobs' = Cancelling(set) \/ JobsAre(Cancelling(set)),
         NEW j \in Jobs
  PROVE  /\ Kept(j)
         /\ j \notin set => FlagKept(j)
         /\ j \in set /\ jobs'[j] # Freed => jobs'[j].cancelled
<1>1. jobs'[j] = Cancelling(set)[j] \/ jobs'[j] = Freed
  BY DEF JobsAre
<1>2. /\ j \notin set => Cancelling(set)[j] = jobs[j]
      /\ j \in set => Cancelling(set)[j].cancelled
      /\ jobs[j] = Freed <=> Cancelling(set)[j] = Freed
      /\ jobs[j] # Freed => KeepsJob(Cancelling(set)[j], jobs[j])
  BY CancelFacts DEF IInv
<1>3. QED
  BY <1>1, <1>2 DEF Kept, FlagKept, KeepsJob

LEMMA KeptSamples ==
  ASSUME IInv, NEW k \in Jobs, jobs[k] \in RenderJob, NEW n,
         jobs' = [jobs EXCEPT ![k].samples = n], NEW j \in Jobs
  PROVE  Kept(j) /\ FlagKept(j)
<1>1. jobs \in [Jobs -> RenderJob \cup {Freed}]
  BY DEF IInv, Typed
<1>2. CASE j # k
  <2>1. jobs'[j] = jobs[j]
    BY <1>1, <1>2
  <2>2. QED
    BY <2>1 DEF Kept, FlagKept
<1>3. CASE j = k
  <2>1. jobs'[j] = [jobs[j] EXCEPT !.samples = n] /\ jobs[j] # Freed
    BY <1>1, <1>3, FreedIsNoJob
  <2>2. /\ jobs'[j].chunk = jobs[j].chunk /\ jobs'[j].version = jobs[j].version
        /\ jobs'[j].cancelled = jobs[j].cancelled
        /\ jobs'[j].tilesRemaining = jobs[j].tilesRemaining
    BY <1>3, <2>1 DEF RenderJob
  <2>3. QED
    BY <2>1, <2>2 DEF Kept, FlagKept
<1>4. QED
  BY <1>2, <1>3

LEMMA KeptCounting ==
  ASSUME IInv, NEW k \in Jobs, jobs[k] \in RenderJob, jobs[k].tilesRemaining >= 1,
         JobsAre([jobs EXCEPT ![k].tilesRemaining = @ - 1]), NEW j \in Jobs
  PROVE  Kept(j) /\ FlagKept(j)
<1>1. jobs \in [Jobs -> RenderJob \cup {Freed}]
  BY DEF IInv, Typed
<1> DEFINE written == [jobs EXCEPT ![k].tilesRemaining = @ - 1]
<1>2. jobs'[j] = written[j] \/ jobs'[j] = Freed
  BY DEF JobsAre
<1>3. CASE j # k
  <2>1. written[j] = jobs[j]
    BY <1>1, <1>3
  <2> HIDE DEF written
  <2>2. QED
    BY <1>2, <2>1 DEF Kept, FlagKept
<1>4. CASE j = k
  <2>1. written[j] = [jobs[j] EXCEPT !.tilesRemaining = @ - 1] /\ jobs[j] # Freed
    BY <1>1, <1>4, FreedIsNoJob
  <2> HIDE DEF written
  <2>2. /\ written[j].chunk = jobs[j].chunk /\ written[j].version = jobs[j].version
        /\ written[j].cancelled = jobs[j].cancelled
    BY <1>4, <2>1 DEF RenderJob
  <2>3. QED
    BY <1>2, <1>4, <2>1, <2>2 DEF Kept, FlagKept
<1>5. QED
  BY <1>3, <1>4

LEMMA ActiveJob ==
  IInv => \A c \in Chunks : activeJob[c] # NoJob =>
             /\ activeJob[c] \in Jobs /\ activeJob[c] \in Referenced
             /\ jobs[activeJob[c]] \in RenderJob /\ jobs[activeJob[c]] # Freed
<1> SUFFICES ASSUME IInv, NEW c \in Chunks, activeJob[c] # NoJob
             PROVE  /\ activeJob[c] \in Jobs /\ activeJob[c] \in Referenced
                    /\ jobs[activeJob[c]] \in RenderJob /\ jobs[activeJob[c]] # Freed
  OBVIOUS
<1>1. activeJob[c] \in Referenced
  BY DEF Referenced
<1>2. QED
  BY <1>1, ReferencedJob DEF IInv

LEMMA ActiveJobAfter ==
  IInv' => (\A c \in Chunks : activeJob[c] # NoJob =>
               /\ activeJob[c] \in Jobs /\ activeJob[c] \in Referenced
               /\ jobs[activeJob[c]] \in RenderJob /\ jobs[activeJob[c]] # Freed)'
BY ActiveJob, PTL

LEMMA AllocatedJob ==
  ASSUME IInv, NEW j \in Jobs, jobs[j] # Freed
  PROVE  jobs[j] \in RenderJob /\ jobs[j].chunk \in Chunks
<1>1. jobs[j] \in RenderJob
  BY DEF IInv, Typed
<1>2. QED
  BY <1>1 DEF RenderJob

\* The steps that create no job.  A slot is given up only by a job with nothing
\* left to do, and a version is bumped only when the job of the chunk is
\* cancelled.
LEMMA SlotsKept ==
  ASSUME IInv, IInv', SlotsInv, \A j \in Jobs : Kept(j),
         \A c \in Chunks : \/ activeJob'[c] = activeJob[c] /\ version'[c] = version[c]
                           \/ /\ activeJob'[c] \in {activeJob[c], NoJob}
                              /\ activeJob[c] \in Jobs => Settled(activeJob[c])
  PROVE  SlotsInv'
<1>1. ASSUME NEW c \in Chunks, activeJob'[c] # NoJob
      PROVE  jobs'[activeJob'[c]].chunk = c
  <2>1. activeJob'[c] = activeJob[c]
    BY <1>1
  <2>2. activeJob[c] \in Jobs /\ jobs'[activeJob[c]] # Freed
    BY <1>1, <2>1, ActiveJobAfter
  <2>3. jobs'[activeJob[c]].chunk = jobs[activeJob[c]].chunk
    BY <2>2 DEF Kept
  <2>4. QED
    BY <1>1, <2>1, <2>3 DEF SlotsInv
<1>2. ASSUME NEW j \in Jobs, jobs'[j] # Freed, Live(j)'
      PROVE  /\ activeJob'[jobs'[j].chunk] = j
             /\ jobs'[j].version = version'[jobs'[j].chunk]
  <2>1. /\ jobs[j] # Freed /\ Live(j)
        /\ jobs'[j].chunk = jobs[j].chunk /\ jobs'[j].version = jobs[j].version
    BY <1>2 DEF Kept, Live
  <2>2. jobs[j].chunk \in Chunks
    BY <2>1, AllocatedJob
  <2>3. activeJob[jobs[j].chunk] = j /\ jobs[j].version = version[jobs[j].chunk]
    BY <2>1 DEF SlotsInv
  <2>4. ~Settled(j)
    BY <1>2 DEF Live, Settled
  <2>5. /\ activeJob'[jobs[j].chunk] = activeJob[jobs[j].chunk]
        /\ version'[jobs[j].chunk] = version[jobs[j].chunk]
    BY <2>2, <2>3, <2>4
  <2>6. QED
    BY <2>1, <2>3, <2>5
<1>3. QED
  BY <1>1, <1>2 DEF SlotsInv


\* What a new job is written as, and the job it takes the slot from.
LEMMA CreatedJob ==
  ASSUME IInv, NEW chunk \in Chunks, CreateJob(chunk)
  PROVE  /\ NewJob \in Jobs /\ jobs[NewJob] = Freed
         /\ activeJob' = [activeJob EXCEPT ![chunk] = NewJob]
         /\ activeJob'[chunk] = NewJob
         /\ \A c \in Chunks \ {chunk} : activeJob'[c] = activeJob[c]
         /\ jobs'[NewJob] # Freed =>
               /\ jobs'[NewJob].chunk = chunk
               /\ jobs'[NewJob].version = version[chunk]
               /\ ~jobs'[NewJob].cancelled
         /\ \A j \in Jobs \ {NewJob} :
               /\ Kept(j)
               /\ j # activeJob[chunk] => FlagKept(j)
               /\ j = activeJob[chunk] /\ jobs'[j] # Freed => jobs'[j].cancelled
<1> PICK job : job = NewJob
  OBVIOUS
<1> DEFINE old == {activeJob[chunk]}
           record == [chunk |-> chunk, version |-> version[chunk],
                      tilesRemaining |-> TilesPerChunk, cancelled |-> FALSE,
                      samples |-> {}]
           written == [Cancelling(old) EXCEPT ![job] = record]
<1>1. /\ FreeJobs # {} /\ activeJob' = [activeJob EXCEPT ![chunk] = job]
      /\ JobsAre(written)
  BY DEF CreateJob
<1>2. job \in Jobs /\ jobs[job] = Freed
  BY <1>1, NewJobIsFree
<1>3. activeJob \in [Chunks -> Jobs \cup {NoJob}]
  BY DEF IInv, Typed
<1>4. /\ activeJob'[chunk] = job
      /\ \A c \in Chunks \ {chunk} : activeJob'[c] = activeJob[c]
  BY <1>1, <1>3
<1>5. written[job] = record
  BY <1>2 DEF Cancelling
<1>6. /\ record.chunk = chunk /\ record.version = version[chunk]
      /\ record.cancelled = FALSE
  OBVIOUS
<1> HIDE DEF record
<1>7. \A j \in Jobs : j \in old => jobs[j] # Freed
  BY ActiveJob, JobsAreNumbers
<1>8. ASSUME NEW j \in Jobs, j # job
      PROVE  /\ Kept(j)
             /\ j # activeJob[chunk] => FlagKept(j)
             /\ j = activeJob[chunk] /\ jobs'[j] # Freed => jobs'[j].cancelled
  <2>1. written[j] = Cancelling(old)[j]
    BY <1>8 DEF Cancelling
  <2> HIDE DEF written
  <2>2. jobs'[j] = Cancelling(old)[j] \/ jobs'[j] = Freed
    BY <1>1, <2>1 DEF JobsAre
  <2>3. /\ j \notin old => Cancelling(old)[j] = jobs[j]
        /\ j \in old => Cancelling(old)[j].cancelled
        /\ jobs[j] = Freed <=> Cancelling(old)[j] = Freed
        /\ jobs[j] # Freed => KeepsJob(Cancelling(old)[j], jobs[j])
    BY <1>7, CancelFacts DEF IInv
  <2>4. QED
    BY <2>2, <2>3 DEF Kept, FlagKept, KeepsJob
<1> HIDE DEF old, written
<1>9. jobs'[job] = record \/ jobs'[job] = Freed
  BY <1>1, <1>2, <1>5 DEF JobsAre
<1>10. QED
  BY <1>1, <1>2, <1>4, <1>6, <1>8, <1>9

LEMMA SlotsCreated ==
  ASSUME IInv, IInv', SlotsInv, NEW chunk \in Chunks, CreateJob(chunk),
         version' = version
  PROVE  SlotsInv'
<1> PICK job : job = NewJob
  OBVIOUS
<1>1. /\ job \in Jobs /\ jobs[job] = Freed
      /\ activeJob'[chunk] = job
      /\ \A c \in Chunks \ {chunk} : activeJob'[c] = activeJob[c]
      /\ jobs'[job] # Freed => /\ jobs'[job].chunk = chunk
                               /\ jobs'[job].version = version[chunk]
      /\ \A j \in Jobs \ {job} :
            /\ Kept(j)
            /\ j = activeJob[chunk] /\ jobs'[j] # Freed => jobs'[j].cancelled
  BY CreatedJob
<1>2. ASSUME NEW c \in Chunks, activeJob'[c] # NoJob
      PROVE  jobs'[activeJob'[c]].chunk = c
  <2>1. activeJob'[c] \in Jobs /\ jobs'[activeJob'[c]] # Freed
    BY <1>2, ActiveJobAfter
  <2>2. CASE c = chunk
    BY <1>1, <2>1, <2>2
  <2>3. CASE c # chunk
    <3>1. activeJob'[c] = activeJob[c]
      BY <1>1, <2>3
    <3>2. jobs[activeJob[c]] # Freed /\ jobs[activeJob[c]].chunk = c
      BY <1>2, <3>1, ActiveJob DEF SlotsInv
    <3>3. jobs'[activeJob[c]].chunk = jobs[activeJob[c]].chunk
      BY <1>1, <2>1, <3>1, <3>2 DEF Kept
    <3>4. QED
      BY <3>1, <3>2, <3>3
  <2>4. QED
    BY <2>2, <2>3
<1>3. ASSUME NEW j \in Jobs, jobs'[j] # Freed, Live(j)'
      PROVE  /\ activeJob'[jobs'[j].chunk] = j
             /\ jobs'[j].version = version'[jobs'[j].chunk]
  <2>1. CASE j = job
    BY <1>1, <1>3, <2>1
  <2>2. CASE j # job
    <3>1. /\ jobs[j] # Freed /\ Live(j)
          /\ jobs'[j].chunk = jobs[j].chunk /\ jobs'[j].version = jobs[j].version
      BY <1>1, <1>3, <2>2 DEF Kept, Live
    <3>2. jobs[j].chunk \in Chunks
      BY <3>1, AllocatedJob
    <3>3. activeJob[jobs[j].chunk] = j /\ jobs[j].version = version[jobs[j].chunk]
      BY <3>1 DEF SlotsInv
    <3>4. jobs[j].chunk # chunk
      BY <1>1, <1>3, <2>2, <3>3 DEF Live
    <3>5. QED
      BY <1>1, <3>1, <3>2, <3>3, <3>4
  <2>3. QED
    BY <2>1, <2>2
<1>4. QED
  BY <1>2, <1>3 DEF SlotsInv

LEMMA SlotsStay ==
  ASSUME SlotsInv, UNCHANGED <<jobs, version, activeJob>>
  PROVE  SlotsInv'
BY DEF SlotsInv, Live

\* The evicted jobs have a tile in the buffer.
LEMMA EvictedAllocated ==
  ASSUME IInv
  PROVE  \A j \in Jobs : j \in Evicted => jobs[j] # Freed
<1> SUFFICES ASSUME NEW j \in Jobs, j \in Evicted PROVE jobs[j] # Freed
  OBVIOUS
<1>1. PICK i \in DOMAIN buffer : buffer[i].job = j
  BY DEF Evicted, Evictable
<1>2. QED
  BY <1>1, BufferItems, FreedIsNoJob

\* The job of a tile has that tile left.
LEMMA ItemOpen ==
  ASSUME IInv, NEW tile \in Items
  PROVE  jobs[tile.job].tilesRemaining >= 1 /\ jobs[tile.job] # Freed
<1> DEFINE j == tile.job
<1>1. j \in Jobs /\ jobs[j] \in RenderJob /\ jobs[j] # Freed
  BY ItemFacts, FreedIsNoJob
<1>2. j \in JobsIn(pending) \/ j \in JobsIn(buffer)
  BY DEF Items, JobsIn
<1> HIDE DEF j
<1>3. TilesIn(pending, j) # 0 \/ TilesIn(buffer, j) # 0
  BY <1>2, CountFacts DEF IInv, Typed
<1>4. Unfinished(j) >= 1
  BY <1>3, UnfinishedCounts DEF IInv
<1>5. Unfinished(j) <= jobs[j].tilesRemaining
  BY <1>1 DEF IInv, TilesAccounted, FreeJobs
<1>6. Unfinished(j) \in Nat /\ jobs[j].tilesRemaining \in Int
  BY <1>1, UnfinishedCounts DEF IInv, RenderJob
<1>7. QED
  BY <1>1, <1>4, <1>5, <1>6 DEF j

LEMMA ControlSlots ==
  ASSUME IInv, IInv', SlotsInv, Control
  PROVE  SlotsInv'
<1> USE DEF sharedVars, commandVars, passVars, renderVars
<1>1. CASE Start
  <2>1. JobsAre(jobs) /\ UNCHANGED <<version, activeJob>>
    BY <1>1 DEF Start
  <2>2. \A j \in Jobs : Kept(j)
    BY <2>1, KeptAsIs
  <2>3. QED
    BY <2>1, <2>2, SlotsKept
<1>2. CASE StopScheduler
  <2> DEFINE set == JobsIn(pending) \cup {activeJob[c] : c \in Chunks}
  <2>1. /\ JobsAre(Cancelling(set)) /\ version' = version
        /\ activeJob' = [c \in Chunks |-> NoJob]
    BY <1>2 DEF StopScheduler
  <2>2. \A j \in Jobs : j \in set => jobs[j] # Freed
    BY PendingItems, ActiveJob, FreedIsNoJob, JobsAreNumbers DEF JobsIn
  <2>3. \A c \in Chunks : activeJob[c] \in set
    OBVIOUS
  <2> HIDE DEF set
  <2>4. \A j \in Jobs : Kept(j) /\ (j \in set => Settled(j))
    BY <2>1, <2>2, KeptCancelling DEF Settled
  <2>5. QED
    BY <2>1, <2>3, <2>4, SlotsKept
<1>3. CASE StopExecutor
  <2> DEFINE set == JobsIn(tasks)
  <2>1. JobsAre(Cancelling(set)) /\ UNCHANGED <<version, activeJob>>
    BY <1>3 DEF StopExecutor
  <2>2. \A j \in Jobs : j \in set => jobs[j] # Freed
    <3>1. \A j \in set : j \in Referenced
      BY DEF Referenced
    <3>2. QED
      BY <3>1, ReferencedJob, JobsAreNumbers DEF IInv
  <2> HIDE DEF set
  <2>3. \A j \in Jobs : Kept(j)
    BY <2>1, <2>2, KeptCancelling
  <2>4. QED
    BY <2>1, <2>3, SlotsKept
<1>4. CASE JoinWorkers
  BY <1>4, SlotsStay DEF JoinWorkers
<1>5. QED
  BY <1>1, <1>2, <1>3, <1>4 DEF Control

LEMMA CommandSlots ==
  ASSUME SlotsInv, Command \/ LeaveLoop \/ EndCommands \/ EndEdit
  PROVE  SlotsInv'
<1> USE DEF sharedVars, commandVars, passVars, renderVars
<1>1. UNCHANGED <<jobs, version, activeJob>>
  BY DEF Command, Play, Pause, Seek, SetViewport, Edit, LeaveLoop, EndCommands, EndEdit
<1>2. QED
  BY <1>1, SlotsStay

LEMMA SchedulerSlots ==
  ASSUME IInv, IInv', SlotsInv, SchedulerLoop
  PROVE  SlotsInv'
<1> USE DEF sharedVars, commandVars, passVars, renderVars
<1>1. CASE InvalidateChunk
  <2> DEFINE chunk == Head(work)
             set == {activeJob[chunk]}
  <2>1. /\ work # <<>> /\ work \in Seq(Chunks)
        /\ version' = [version EXCEPT ![chunk] = @ + 1] /\ jobs' = Cancelling(set)
        /\ activeJob' = activeJob
    BY <1>1 DEF InvalidateChunk, IInv, Typed
  <2>2. chunk \in Chunks /\ version \in [Chunks -> Nat]
    BY <2>1 DEF IInv, Typed
  <2> HIDE DEF chunk
  <2>3. \A j \in Jobs : j \in set => jobs[j] # Freed
    BY <2>2, ActiveJob, JobsAreNumbers
  <2>4. \A c \in Chunks : c # chunk => version'[c] = version[c]
    BY <2>1, <2>2
  <2>5. activeJob[chunk] \in set
    OBVIOUS
  <2> HIDE DEF set
  <2>6. \A j \in Jobs : Kept(j) /\ (j \in set => Settled(j))
    BY <2>1, <2>3, KeptCancelling DEF Settled
  <2>7. QED
    BY <2>1, <2>4, <2>5, <2>6, SlotsKept
<1>2. CASE CollectJob
  <2> DEFINE job == Head(completed)
  <2>1. /\ completed # <<>> /\ completed \in Seq(Jobs)
        /\ JobsAre(jobs) /\ version' = version /\ activeJob' = finishedSlot(job)
    BY <1>2 DEF CollectJob, IInv, Typed
  <2>2. \A j \in Jobs : Kept(j)
    BY <2>1, KeptAsIs
  <2>3. 1 \in DOMAIN completed /\ job = completed[1]
    BY <2>1
  <2>4. job \in Jobs /\ jobs[job].tilesRemaining = 0
    BY <2>1, <2>3 DEF IInv, ReturnedOnce
  <2> HIDE DEF job
  <2>5. Settled(job)
    BY <2>2, <2>4 DEF Kept, Settled
  <2>6. \A c \in Chunks : \/ activeJob'[c] = activeJob[c]
                          \/ activeJob'[c] = NoJob /\ activeJob[c] = job
    BY <2>1 DEF finishedSlot
  <2>7. QED
    BY <2>1, <2>2, <2>5, <2>6, SlotsKept
<1>3. CASE ScheduleChunk \/ EndMakeRoom
  <2>1. Head(work) \in Chunks
    <3>1. work # <<>> /\ work \in Seq(Chunks)
      BY <1>3 DEF ScheduleChunk, EndMakeRoom, IInv, Phases, Typed
    <3>2. QED
      BY <3>1
  <2>2. version' = version /\ (NoNewJob \/ CreateJob(Head(work)))
    BY <1>3 DEF ScheduleChunk, EndMakeRoom, CreateIfRoom
  <2>3. QED
    BY <2>1, <2>2, SlotsCreated, SlotsStay DEF NoNewJob
<1>4. CASE ScanChunk
  <2>1. scanCursor \in Chunks
    BY DEF IInv, Typed
  <2>2. version' = version /\ (NoNewJob \/ CreateJob(scanCursor))
    BY <1>4 DEF ScanChunk, CreateIfRoom
  <2>3. QED
    BY <2>1, <2>2, SlotsCreated, SlotsStay DEF NoNewJob
<1>5. CASE Evict
  <2>1. jobs' = Cancelling(Evicted) /\ UNCHANGED <<version, activeJob>>
    BY <1>5 DEF Evict
  <2>2. \A j \in Jobs : Kept(j)
    BY <2>1, EvictedAllocated, KeptCancelling
  <2>3. QED
    BY <2>1, <2>2, SlotsKept
<1>6. CASE RetireTile
  <2> DEFINE job == Head(buffer).job
  <2>1. /\ buffer # <<>> /\ buffer \in Seq(PendingTile)
        /\ jobs[job].cancelled /\ version' = version
        /\ activeJob' = activeJob \/ activeJob' = finishedSlot(job)
        /\ JobsAre([jobs EXCEPT ![job].tilesRemaining = @ - 1])
    BY <1>6 DEF RetireTile, IsCancelled, IInv, Typed
  <2>2. 1 \in DOMAIN buffer /\ job = buffer[1].job
    BY <2>1
  <2>3. /\ job \in Jobs /\ jobs[job] \in RenderJob /\ jobs[job].tilesRemaining >= 1
    BY <2>2, BufferItems, ItemOpen DEF Items
  <2> HIDE DEF job
  <2>4. \A j \in Jobs : Kept(j)
    BY <2>1, <2>3, KeptCounting
  <2>5. Settled(job)
    BY <2>1, <2>3, <2>4 DEF Kept, Settled
  <2>6. \A c \in Chunks : \/ activeJob'[c] = activeJob[c]
                          \/ activeJob'[c] = NoJob /\ activeJob[c] = job
    BY <2>1 DEF finishedSlot
  <2>7. QED
    BY <2>1, <2>4, <2>5, <2>6, SlotsKept
<1>7. CASE \/ EndEdit \/ EndCollect \/ EndSchedule \/ EndScan \/ EndDispatch
           \/ \E lead \in Leads : UpdateBackgroundAdmission(lead)
           \/ \E position \in Playheads : BeginPass(position)
           \/ BeginMakeRoom \/ KeepTile \/ DispatchTile
  BY <1>7, SlotsStay
     DEF EndEdit, EndCollect, EndSchedule, EndScan, EndDispatch,
         UpdateBackgroundAdmission, BeginPass, BeginMakeRoom, KeepTile, DispatchTile
<1>8. QED
  BY <1>1, <1>2, <1>3, <1>4, <1>5, <1>6, <1>7 DEF SchedulerLoop

LEMMA WorkerSlots ==
  ASSUME IInv, IInv', SlotsInv, NEW w \in Worker, WorkerStep(w)
  PROVE  SlotsInv'
<1> USE DEF commandVars, passVars, renderVars
<1>1. CASE TakeTask(w) \/ ExitWorker(w) \/ BeginRender(w) \/ PublishCompleted(w)
  BY <1>1, SlotsStay
     DEF TakeTask, ExitWorker, BeginRender, PublishCompleted, workerOnly
<1>2. CASE GiveUp(w) \/ FailRender(w) \/ EndRender(w) \/ FinishTile(w)
  <2> DEFINE job == worker[w].job
  <2>1. /\ worker[w].at \notin {"idle", "exited", "publish"}
        /\ UNCHANGED <<version, activeJob>>
    BY <1>2 DEF GiveUp, FailRender, EndRender, FinishTile, workerOnly
  <2>2. /\ job \in Jobs /\ jobs[job] \in RenderJob /\ jobs[job] # Freed
        /\ jobs[job].tilesRemaining >= 1
    BY <2>1, WorkersJob
  <2>3. \/ jobs' = Cancelling({job})
        \/ \E n : jobs' = [jobs EXCEPT ![job].samples = n]
        \/ JobsAre([jobs EXCEPT ![job].tilesRemaining = @ - 1])
    BY <1>2 DEF GiveUp, FailRender, EndRender, FinishTile
  <2> HIDE DEF job
  <2>4. CASE jobs' = Cancelling({job})
    BY <2>1, <2>2, <2>4, KeptCancelling, SlotsKept
  <2>5. CASE \E n : jobs' = [jobs EXCEPT ![job].samples = n]
    BY <2>1, <2>2, <2>5, KeptSamples, SlotsKept
  <2>6. CASE JobsAre([jobs EXCEPT ![job].tilesRemaining = @ - 1])
    BY <2>1, <2>2, <2>6, KeptCounting, SlotsKept
  <2>7. QED
    BY <2>3, <2>4, <2>5, <2>6
<1>3. QED
  BY <1>1, <1>2 DEF WorkerStep

\* The executor is stopped when the scheduler has left its loop.
RunningInv == scheduler # "off" => ~stopRequested

LEMMA StepRunning ==
  ASSUME IInv, RunningInv, [Next]_vars
  PROVE  RunningInv'
<1> USE DEF sharedVars, commandVars, passVars, renderVars, RunningInv
<1>1. CASE UNCHANGED vars
  BY <1>1 DEF vars
<1>2. CASE Control
  BY <1>2 DEF Control, Start, StopScheduler, StopExecutor, JoinWorkers, IInv, Phases
<1>3. CASE Command \/ LeaveLoop \/ EndCommands
  BY <1>3 DEF Command, Play, Pause, Seek, SetViewport, Edit, LeaveLoop, EndCommands
<1>4. CASE SchedulerLoop
  <2>1. stopRequested' = stopRequested /\ scheduler # "off"
    BY <1>4 DEF SchedulerLoop, InvalidateChunk, EndEdit, CollectJob, EndCollect,
         UpdateBackgroundAdmission, BeginPass, ScheduleChunk, EndSchedule,
         BeginMakeRoom, Evict, KeepTile, RetireTile, EndMakeRoom, ScanChunk, EndScan,
         DispatchTile, EndDispatch
  <2>2. QED
    BY <2>1
<1>5. CASE \E w \in Worker : WorkerStep(w)
  BY <1>5 DEF WorkerStep, TakeTask, ExitWorker, BeginRender, GiveUp, EndRender,
       FailRender, FinishTile, PublishCompleted, workerOnly
<1>6. QED
  BY <1>1, <1>2, <1>3, <1>4, <1>5 DEF Next

LEMMA StepSlots ==
  ASSUME IInv, IInv', SlotsInv, [Next]_vars
  PROVE  SlotsInv'
<1>1. CASE UNCHANGED vars
  BY <1>1, SlotsStay DEF vars, sharedVars, renderVars
<1>2. CASE Next
  BY <1>2, ControlSlots, CommandSlots, SchedulerSlots, WorkerSlots DEF Next
<1>3. QED
  BY <1>1, <1>2

-----------------------------------------------------------------------------
(***************************************************************************)
(* A pass over the urgent chunks while playback is requested.              *)
(***************************************************************************)
Admitted(c) == cacheIsCurrent(c) \/ hasCurrent(c)
Waiting(c) == \E i \in DOMAIN work : work[i] = c

UrgentOnly ==
    \A tile \in Items :
        tile.classification.priority = Urgent /\ ~IsCancelled(tile)

\* Urgent tiles alone leave no room.
Full ==
    /\ Len(pending) + Len(buffer) + TilesPerChunk > MaxPendingTiles
    /\ UrgentOnly

\* The tiles makeRoomForUrgentChunk() has still to look at and will keep.
LivePart == {i \in DOMAIN buffer : ~IsCancelled(buffer[i])}

HeadIsUrgent ==
    scheduler \in {"evict", "retire"} =>
        classificationOf(Head(work)).priority = Urgent
WorkDone == scheduler \in {"scan", "dispatch"} => work = <<>>
RoomCounted ==
    scheduler = "evict" => pending = <<>> /\ retained = Cardinality(LivePart)

\* Enough was cancelled for a chunk, or all that is not urgent.
RoomMade ==
    scheduler = "retire" =>
        /\ \A i \in DOMAIN pending : ~IsCancelled(pending[i])
        /\ \/ Len(pending) + Cardinality(LivePart) + TilesPerChunk <= MaxPendingTiles
           \/ \A tile \in Items :
                 tile.classification.priority = Urgent \/ IsCancelled(tile)

NobodyKeptOut ==
    \A c \in UrgentWindow(playhead) :
        \/ Waiting(c) \/ Admitted(c)
        \/ IF scheduler = "dispatch" THEN UrgentOnly ELSE Full

Counting == failures = 0 /\ Policy = "Priority" /\ playRequested /\ InPass

PassParts == HeadIsUrgent /\ WorkDone /\ RoomCounted /\ RoomMade /\ NobodyKeptOut
PassInv == Counting => PassParts

\* The urgent chunks are on the timeline, and the pass looks at each of them.
LEMMA WindowScheduled ==
  ASSUME NEW position \in Boundaries, NEW c \in UrgentWindow(position)
  PROVE  /\ c \in Chunks
         /\ playRequested =>
               \E i \in DOMAIN UrgentChunkSeq(position) :
                   UrgentChunkSeq(position)[i] = c
<1> DEFINE first == frameToChunk(position)
           end == urgentChunkEnd(position)
<1>1. position < TotalFrames /\ c \in first .. end - 1
  BY TimelineAssumption DEF UrgentWindow, Boundaries
<1>2. position # TotalFrames
  BY <1>1, TimelineAssumption DEF Boundaries
<1>3. first \in Nat /\ end \in Int /\ end <= ChunkCount /\ ChunkCount \in Nat
  BY <1>2, UrgentEnd, ChunkFacts
<1>4. playRequested => UrgentChunkSeq(position) = SeqOfChunks(first, end)
  BY <1>2 DEF UrgentChunkSeq
<1> HIDE DEF first, end
<1>5. c \in Int /\ first <= c /\ c < end
  BY <1>1, <1>3
<1>6. c \in Chunks
  BY <1>3, <1>5 DEF Chunks
<1> DEFINE n == Larger(0, end - first)
           i == c - first + 1
<1>7. n \in Nat /\ i \in 1 .. n /\ first + i - 1 = c
  BY <1>3, <1>5 DEF Larger
<1>8. SeqOfChunks(first, end) = [k \in 1 .. n |-> first + k - 1]
  BY DEF SeqOfChunks
<1> HIDE DEF n, i
<1>9. i \in DOMAIN SeqOfChunks(first, end) /\ SeqOfChunks(first, end)[i] = c
  BY <1>7, <1>8
<1>10. QED
  BY <1>4, <1>6, <1>9

LEMMA UrgentPriority ==
  ASSUME playRequested, NEW c
  PROVE  classificationOf(c).priority = Urgent <=> c \in UrgentWindow(playhead)
BY DEF classificationOf, classifyChunk, Urgent, Visible, Background

LEMMA WindowChunks ==
  ASSUME IInv, NEW c \in UrgentWindow(playhead)
  PROVE  c \in Chunks
BY WindowScheduled DEF IInv, Typed

LEMMA AdmittedKept ==
  ASSUME IInv, IInv', NEW c \in Chunks, Admitted(c),
         version'[c] = version[c], cache'[c] = cache[c],
         activeJob'[c] = activeJob[c] \/ cacheIsCurrent(c),
         ~cacheIsCurrent(c) /\ activeJob[c] \in Jobs =>
            Kept(activeJob[c]) /\ FlagKept(activeJob[c])
  PROVE  Admitted(c)'
<1>1. CASE cacheIsCurrent(c)
  BY <1>1 DEF Admitted, cacheIsCurrent
<1>2. CASE ~cacheIsCurrent(c)
  <2>1. /\ activeJob[c] # NoJob /\ jobs[activeJob[c]].version = version[c]
        /\ ~jobs[activeJob[c]].cancelled
        /\ activeJob'[c] = activeJob[c]
    BY <1>2 DEF Admitted, hasCurrent
  <2>2. activeJob[c] \in Jobs /\ jobs'[activeJob[c]] # Freed
    BY <2>1, ActiveJobAfter
  <2>3. /\ jobs'[activeJob[c]].version = jobs[activeJob[c]].version
        /\ jobs'[activeJob[c]].cancelled = jobs[activeJob[c]].cancelled
    BY <1>2, <2>2 DEF Kept, FlagKept
  <2>4. QED
    BY <2>1, <2>3 DEF Admitted, hasCurrent
<1>3. QED
  BY <1>1, <1>2

\* The jobs of the tiles that are left keep their flags.
LEMMA TilesFlagKept ==
  ASSUME IInv, IInv', Items' \subseteq Items, \A j \in Jobs : Kept(j) /\ FlagKept(j)
  PROVE  \A tile \in Items' : IsCancelled(tile)' = IsCancelled(tile)
<1> SUFFICES ASSUME NEW tile \in Items' PROVE IsCancelled(tile)' = IsCancelled(tile)
  OBVIOUS
<1>1. tile.job \in Jobs
  BY ItemFacts
<1>2. tile.job \in Referenced'
  BY DEF Items, Referenced, JobsIn
<1>3. jobs'[tile.job] # Freed
  BY <1>1, <1>2 DEF IInv, NothingDangles
<1>4. QED
  BY <1>1, <1>3 DEF FlagKept, IsCancelled

\* A step that leaves the queues, the slots and the flags alone.
LEMMA PassKept ==
  ASSUME IInv, IInv', PassParts,
         UNCHANGED <<version, cache, activeJob, pending, buffer, work, retained,
                     playhead, playRequested, viewport, scheduler>>,
         \A j \in Jobs : Kept(j) /\ FlagKept(j)
  PROVE  PassParts'
<1>1. Items' = Items /\ \A tile \in Items : IsCancelled(tile)' = IsCancelled(tile)
  BY TilesFlagKept DEF Items
<1>2. \A i \in DOMAIN pending : IsCancelled(pending[i])' = IsCancelled(pending[i])
  BY <1>1 DEF Items
<1>3. \A i \in DOMAIN buffer : IsCancelled(buffer[i])' = IsCancelled(buffer[i])
  BY <1>1 DEF Items
<1>4. LivePart' = LivePart
  BY <1>3 DEF LivePart
<1>5. UrgentOnly' = UrgentOnly
  BY <1>1 DEF UrgentOnly
<1>6. \A c \in Chunks : Admitted(c) => Admitted(c)'
  BY AdmittedKept
<1>7. NobodyKeptOut'
  BY <1>5, <1>6, WindowChunks DEF NobodyKeptOut, PassParts, Waiting, Full
<1>8. HeadIsUrgent' /\ WorkDone'
  BY DEF HeadIsUrgent, WorkDone, PassParts, classificationOf
<1>9. RoomCounted'
  BY <1>4 DEF RoomCounted, PassParts
<1>10. RoomMade'
  BY <1>1, <1>2, <1>4 DEF RoomMade, PassParts
<1>11. QED
  BY <1>7, <1>8, <1>9, <1>10 DEF PassParts

\* A worker gives up only what was cancelled.
LEMMA WorkerPass ==
  ASSUME IInv, IInv', SlotsInv, RunningInv, PassInv, NEW w \in Worker, WorkerStep(w)
  PROVE  PassInv'
<1> USE DEF commandVars, passVars, renderVars
<1> SUFFICES ASSUME Counting' PROVE PassParts'
  BY DEF PassInv
<1>1. UNCHANGED <<version, cache, activeJob, pending, buffer, work, retained,
                  playhead, playRequested, viewport, scheduler>>
  BY DEF WorkerStep, TakeTask, ExitWorker, BeginRender, GiveUp, EndRender,
         FailRender, FinishTile, PublishCompleted, workerOnly
<1>2. failures = 0 /\ ~FailRender(w)
  <2>1. failures' = failures \/ (FailRender(w) /\ failures' = failures + 1)
    BY DEF WorkerStep, TakeTask, ExitWorker, BeginRender, GiveUp, EndRender,
           FailRender, FinishTile, PublishCompleted, workerOnly
  <2>2. failures \in Nat /\ failures' = 0
    BY DEF Counting, IInv, Typed
  <2>3. FailRender(w) => failures' = failures + 1
    BY DEF FailRender
  <2>4. QED
    BY <2>1, <2>2, <2>3
<1>3. PassParts /\ InPass
  BY <1>1, <1>2 DEF PassInv, Counting, InPass
<1>4. \A j \in Jobs : Kept(j) /\ FlagKept(j)
  <2> SUFFICES ASSUME NEW j \in Jobs PROVE Kept(j) /\ FlagKept(j)
    OBVIOUS
  <2>1. CASE TakeTask(w) \/ ExitWorker(w) \/ BeginRender(w) \/ PublishCompleted(w)
    <3>1. jobs' = jobs
      BY <2>1 DEF TakeTask, ExitWorker, BeginRender, PublishCompleted
    <3>2. QED
      BY <3>1, KeptAsIs
  <2>2. CASE EndRender(w) \/ FinishTile(w)
    <3> DEFINE job == worker[w].job
    <3>1. worker[w].at \notin {"idle", "exited", "publish"}
      BY <2>2 DEF EndRender, FinishTile
    <3>2. job \in Jobs /\ jobs[job] \in RenderJob /\ jobs[job].tilesRemaining >= 1
      BY <3>1, WorkersJob
    <3>3. \/ \E n : jobs' = [jobs EXCEPT ![job].samples = n]
          \/ JobsAre([jobs EXCEPT ![job].tilesRemaining = @ - 1])
      BY <2>2 DEF EndRender, FinishTile
    <3> HIDE DEF job
    <3>4. QED
      BY <3>2, <3>3, KeptSamples, KeptCounting
  <2>3. CASE GiveUp(w)
    <3> DEFINE job == worker[w].job
    <3>1. /\ worker[w].at \notin {"idle", "exited", "publish"}
          /\ shouldCancel(job) /\ jobs' = Cancelling({job})
      BY <2>3 DEF GiveUp
    <3>2. /\ job \in Jobs /\ jobs[job] \in RenderJob /\ jobs[job] # Freed
          /\ jobs[job].tilesRemaining >= 1
      BY <3>1, WorkersJob
    <3>3. ~stopRequested
      BY <1>3 DEF RunningInv, InPass
    <3>4. jobs[job].cancelled
      BY <3>1, <3>2, <3>3 DEF shouldCancel, SlotsInv, Live
    <3>5. jobs' \in [Jobs -> RenderJob \cup {Freed}]
      BY DEF IInv, Typed
    <3> HIDE DEF job
    <3>6. Kept(j) /\ (j # job => FlagKept(j))
          /\ (j = job /\ jobs'[j] # Freed => jobs'[j].cancelled)
      <4> DEFINE set == {job}
      <4>1. jobs' = Cancelling(set) /\ \A k \in Jobs : k \in set => jobs[k] # Freed
        BY <3>1, <3>2
      <4>2. j \in set <=> j = job
        OBVIOUS
      <4> HIDE DEF set
      <4>3. QED
        BY <4>1, <4>2, KeptCancelling
    <3>7. CASE j = job
      <4>1. jobs[j].cancelled = TRUE
        BY <3>2, <3>4, <3>7 DEF RenderJob
      <4>2. jobs'[j] # Freed => jobs'[j].cancelled = TRUE
        BY <3>5, <3>6, <3>7 DEF RenderJob
      <4>3. QED
        BY <3>6, <4>1, <4>2 DEF FlagKept
    <3>8. QED
      BY <3>6, <3>7
  <2>4. QED
    BY <1>2, <2>1, <2>2, <2>3 DEF WorkerStep
<1>5. QED
  BY <1>1, <1>3, <1>4, PassKept

\* A new job has the slot of its chunk, and takes it from no other chunk.
LEMMA CreateAdmits ==
  ASSUME IInv, IInv', SlotsInv, NEW chunk \in Chunks, CreateJob(chunk),
         UNCHANGED <<version, cache>>
  PROVE  Admitted(chunk)' /\ \A c \in Chunks : Admitted(c) => Admitted(c)'
<1> PICK job : job = NewJob
  OBVIOUS
<1>1. /\ job \in Jobs /\ jobs[job] = Freed
      /\ activeJob'[chunk] = job
      /\ \A c \in Chunks \ {chunk} : activeJob'[c] = activeJob[c]
      /\ jobs'[job] # Freed => /\ jobs'[job].version = version[chunk]
                               /\ ~jobs'[job].cancelled
      /\ \A j \in Jobs \ {job} : Kept(j) /\ (j # activeJob[chunk] => FlagKept(j))
  BY CreatedJob
<1>2. Admitted(chunk)'
  <2>1. activeJob'[chunk] # NoJob
    BY <1>1, JobsAreNumbers
  <2>2. jobs'[job] # Freed
    BY <1>1, <2>1, ActiveJobAfter
  <2>3. QED
    BY <1>1, <2>1, <2>2 DEF Admitted, hasCurrent
<1>3. ASSUME NEW c \in Chunks, c # chunk, Admitted(c) PROVE Admitted(c)'
  <2>1. activeJob'[c] = activeJob[c]
    BY <1>1, <1>3
  <2>2. ~cacheIsCurrent(c) /\ activeJob[c] \in Jobs =>
           Kept(activeJob[c]) /\ FlagKept(activeJob[c])
    <3> SUFFICES ASSUME ~cacheIsCurrent(c)
                 PROVE  Kept(activeJob[c]) /\ FlagKept(activeJob[c])
      OBVIOUS
    <3>1. activeJob[c] # NoJob
      BY <1>3 DEF Admitted, hasCurrent
    <3>2. activeJob[c] \in Jobs /\ jobs[activeJob[c]] # Freed
      BY <3>1, ActiveJob
    <3>3. activeJob[c] # activeJob[chunk]
      BY <1>3, <3>1 DEF SlotsInv
    <3>4. QED
      BY <1>1, <3>2, <3>3
  <2>3. QED
    BY <1>3, <2>1, <2>2, AdmittedKept
<1>4. QED
  BY <1>2, <1>3

LEMMA WaitingTail ==
  ASSUME work \in Seq(Chunks), work # <<>>, work' = Tail(work), NEW c, Waiting(c)
  PROVE  c = Head(work) \/ Waiting(c)'
<1>1. PICK i \in DOMAIN work : work[i] = c
  BY DEF Waiting
<1>2. CASE i = 1
  BY <1>1, <1>2
<1>3. CASE i # 1
  <2>1. i - 1 \in DOMAIN work' /\ work'[i - 1] = c
    BY <1>1, <1>3
  <2>2. QED
    BY <2>1 DEF Waiting
<1>4. QED
  BY <1>2, <1>3

\* scheduleChunk() leaves an urgent chunk admitted, or the queue full.
LEMMA ChunkScheduled ==
  ASSUME IInv, IInv', SlotsInv, PassParts,
         scheduler \in {"schedule", "retire"}, scheduler' = "schedule",
         work # <<>>, work' = Tail(work), buffer = <<>>,
         UNCHANGED <<version, cache, playhead, buffer>>,
         \/ /\ NoNewJob
            /\ Head(work) \in UrgentWindow(playhead) => Admitted(Head(work)) \/ Full
         \/ CreateJob(Head(work)) /\ HasRoom(MaxPendingTiles)
  PROVE  PassParts'
<1> PICK h : h = Head(work)
  OBVIOUS
<1>1. work \in Seq(Chunks) /\ pending \in Seq(PendingTile)
  BY DEF IInv, Typed
<1>2. h \in Chunks
  BY <1>1
<1>3. ASSUME NEW c \in UrgentWindow(playhead)
      PROVE  Waiting(c)' \/ Admitted(c)' \/ Full'
  <2>1. c \in Chunks
    BY <1>3, WindowChunks
  <2>2. (Waiting(c) /\ c # h) \/ c = h \/ Admitted(c) \/ Full
    BY <1>3 DEF PassParts, NobodyKeptOut
  <2>3. Waiting(c) /\ c # h => Waiting(c)'
    BY <1>1, WaitingTail
  <2>4. CASE NoNewJob /\ (h \in UrgentWindow(playhead) => Admitted(h) \/ Full)
    <3>1. UNCHANGED <<jobs, activeJob, pending>>
      BY <2>4 DEF NoNewJob
    <3>2. Admitted(c)' = Admitted(c)
      BY <3>1 DEF Admitted, cacheIsCurrent, hasCurrent
    <3>3. Full' = Full
      BY <3>1 DEF Full, UrgentOnly, Items, IsCancelled
    <3>4. c = h => Admitted(c) \/ Full
      BY <1>3, <2>4
    <3>5. QED
      BY <2>2, <2>3, <3>2, <3>3, <3>4
  <2>5. CASE CreateJob(h) /\ HasRoom(MaxPendingTiles)
    <3>1. ~Full
      BY <1>1, <2>5, SchedulingAssumption DEF Full, HasRoom
    <3>2. Admitted(h)' /\ (Admitted(c) => Admitted(c)')
      BY <1>2, <2>1, <2>5, CreateAdmits
    <3>3. QED
      BY <2>2, <2>3, <3>1, <3>2
  <2>6. QED
    BY <2>4, <2>5
<1>4. QED
  BY <1>3 DEF PassParts, HeadIsUrgent, WorkDone, RoomCounted, RoomMade, NobodyKeptOut

LEMMA LimitFacts ==
  /\ pendingTileLimit(Urgent) = MaxPendingTiles
  /\ \A priority : pendingTileLimit(priority) \in Int
                   /\ pendingTileLimit(priority) <= MaxPendingTiles
BY SchedulingAssumption DEF pendingTileLimit

LEMMA RoomWithin ==
  ASSUME IInv, NEW priority, HasRoom(pendingTileLimit(priority))
  PROVE  HasRoom(MaxPendingTiles)
<1>1. Len(pending) \in Nat
  BY DEF IInv, Typed
<1>2. pendingTileLimit(priority) \in Int
      /\ pendingTileLimit(priority) <= MaxPendingTiles
  BY LimitFacts
<1>3. QED
  BY <1>1, <1>2, SchedulingAssumption DEF HasRoom

LEMMA ScheduleChunkPass ==
  ASSUME IInv, IInv', SlotsInv, PassParts, Counting, ScheduleChunk
  PROVE  PassParts'
<1> USE DEF commandVars
<1> PICK h : h = Head(work)
  OBVIOUS
<1>1. /\ scheduler = "schedule" /\ scheduler' = "schedule"
      /\ work # <<>> /\ work' = Tail(work) /\ buffer = <<>>
      /\ UNCHANGED <<version, cache, playhead, buffer>>
      /\ ~(NeedsJob(h) /\ NeedsRoom(h))
      /\ IF NeedsJob(h) THEN CreateIfRoom(h) ELSE NoNewJob
  BY DEF ScheduleChunk, IInv, Phases
<1>2. ASSUME CreateJob(h), HasRoom(queueLimit(h)) PROVE HasRoom(MaxPendingTiles)
  BY <1>2, RoomWithin DEF queueLimit
<1>3. ASSUME h \in UrgentWindow(playhead), NeedsJob(h) PROVE HasRoom(queueLimit(h))
  <2>1. classificationOf(h).priority = Urgent
    BY <1>3, UrgentPriority DEF Counting
  <2>2. QED
    BY <1>1, <1>3, <2>1 DEF NeedsRoom, Counting
<1>4. ~NeedsJob(h) => Admitted(h)
  BY DEF NeedsJob, Admitted
<1>5. \/ /\ NoNewJob
         /\ Head(work) \in UrgentWindow(playhead) => Admitted(Head(work)) \/ Full
      \/ CreateJob(Head(work)) /\ HasRoom(MaxPendingTiles)
  BY <1>1, <1>2, <1>3, <1>4 DEF CreateIfRoom
<1>6. QED
  BY <1>1, <1>5, ChunkScheduled

\* What was not cancelled to make room is urgent, and then fills the queue.
LEMMA EndMakeRoomPass ==
  ASSUME IInv, IInv', SlotsInv, PassParts, Counting, EndMakeRoom
  PROVE  PassParts'
<1> USE DEF commandVars
<1> PICK h : h = Head(work)
  OBVIOUS
<1>1. /\ scheduler = "retire" /\ scheduler' = "schedule"
      /\ work # <<>> /\ work' = Tail(work) /\ buffer = <<>>
      /\ UNCHANGED <<version, cache, playhead, buffer>>
      /\ CreateIfRoom(h)
  BY DEF EndMakeRoom, IInv, Phases
<1>2. queueLimit(h) = MaxPendingTiles
  BY <1>1, LimitFacts DEF PassParts, HeadIsUrgent, queueLimit
<1>3. ASSUME ~HasRoom(MaxPendingTiles) PROVE Full
  <2>1. Len(pending) \in Nat /\ Len(buffer) = 0 /\ DOMAIN buffer = {}
    BY <1>1 DEF IInv, Typed
  <2>2. LivePart = {} /\ Cardinality(LivePart) = 0
    BY <2>1, FS_EmptySet DEF LivePart
  <2>3. Len(pending) + Len(buffer) + TilesPerChunk > MaxPendingTiles
    BY <1>3, <2>1, SchedulingAssumption DEF HasRoom
  <2>4. ~(Len(pending) + Cardinality(LivePart) + TilesPerChunk <= MaxPendingTiles)
    BY <2>1, <2>2, <2>3, SchedulingAssumption
  <2>5. \A tile \in Items : tile.classification.priority = Urgent \/ IsCancelled(tile)
    BY <1>1, <2>4 DEF PassParts, RoomMade
  <2>6. \A tile \in Items : ~IsCancelled(tile)
    BY <1>1, <2>1 DEF PassParts, RoomMade, Items
  <2>7. QED
    BY <2>3, <2>5, <2>6 DEF Full, UrgentOnly
<1>4. \/ /\ NoNewJob
         /\ Head(work) \in UrgentWindow(playhead) => Admitted(Head(work)) \/ Full
      \/ CreateJob(Head(work)) /\ HasRoom(MaxPendingTiles)
  BY <1>1, <1>2, <1>3 DEF CreateIfRoom
<1>5. QED
  BY <1>1, <1>4, ChunkScheduled

LEMMA ScanChunkPass ==
  ASSUME IInv, IInv', SlotsInv, PassParts, Counting, ScanChunk
  PROVE  PassParts'
<1> USE DEF commandVars
<1> PICK h : h = scanCursor
  OBVIOUS
<1>1. /\ scheduler = "scan" /\ scheduler' = "scan" /\ work' = work /\ buffer = <<>>
      /\ work = <<>>
      /\ UNCHANGED <<version, cache, playhead, buffer>>
      /\ NoNewJob \/ CreateJob(h)
      /\ HasRoom(MaxPendingTiles)
  <2>1. HasRoom(MaxPendingTiles)
    BY RoomWithin DEF ScanChunk, MayScan
  <2>2. QED
    BY <2>1 DEF ScanChunk, IInv, Phases, PassParts, WorkDone, CreateIfRoom
<1>2. h \in Chunks
  BY DEF IInv, Typed
<1>3. ~Full
  <2>1. Len(pending) \in Nat /\ Len(buffer) = 0
    BY <1>1 DEF IInv, Typed
  <2>2. QED
    BY <1>1, <2>1, SchedulingAssumption DEF Full, HasRoom
<1>4. ASSUME NEW c \in UrgentWindow(playhead) PROVE Admitted(c)'
  <2>1. c \in Chunks /\ Admitted(c)
    BY <1>1, <1>3, <1>4, WindowChunks DEF PassParts, NobodyKeptOut, Waiting
  <2>2. CASE NoNewJob
    BY <1>1, <2>1, <2>2 DEF NoNewJob, Admitted, cacheIsCurrent, hasCurrent
  <2>3. CASE CreateJob(h)
    BY <1>1, <1>2, <2>1, <2>3, CreateAdmits
  <2>4. QED
    BY <1>1, <2>2, <2>3
<1>5. QED
  BY <1>1, <1>4 DEF PassParts, HeadIsUrgent, WorkDone, RoomCounted, RoomMade,
                    NobodyKeptOut

\* The steps that only go from one part of the pass to the next.
LEMMA PassMoves ==
  ASSUME IInv, IInv', PassParts, Counting,
         EndSchedule \/ EndScan \/ BeginMakeRoom \/ DispatchTile
  PROVE  PassParts'
<1> USE DEF sharedVars, commandVars, passVars, renderVars
<1>1. /\ UNCHANGED <<version, cache, playhead, jobs, activeJob, work>>
      /\ buffer = <<>> /\ scheduler \in {"schedule", "scan", "dispatch"}
  BY DEF EndSchedule, EndScan, BeginMakeRoom, DispatchTile, IInv, Phases
<1>2. \A c : /\ Admitted(c)' = Admitted(c)
             /\ Waiting(c)' = Waiting(c)
             /\ classificationOf(c)' = classifyChunk(c, playhead, playRequested', viewport')
  BY <1>1 DEF Admitted, cacheIsCurrent, hasCurrent, Waiting, classificationOf
<1>3. CASE EndSchedule
  <2>1. Full' = Full
    BY <1>3 DEF EndSchedule, Full, UrgentOnly, Items, IsCancelled
  <2>2. QED
    BY <1>1, <1>2, <1>3, <2>1
       DEF EndSchedule, PassParts, HeadIsUrgent, WorkDone, RoomCounted, RoomMade,
           NobodyKeptOut
<1>4. CASE EndScan
  <2>1. UrgentOnly' = UrgentOnly
    BY <1>4 DEF EndScan, UrgentOnly, Items, IsCancelled
  <2>2. QED
    BY <1>1, <1>2, <1>4, <2>1
       DEF EndScan, PassParts, HeadIsUrgent, WorkDone, RoomCounted, RoomMade,
           NobodyKeptOut, Full
<1>5. CASE DispatchTile
  <2>1. Items' \subseteq Items
    BY <1>5, DispatchItems
  <2>2. UrgentOnly => UrgentOnly'
    BY <1>1, <2>1 DEF UrgentOnly, IsCancelled
  <2>3. QED
    BY <1>1, <1>2, <1>5, <2>2
       DEF DispatchTile, PassParts, HeadIsUrgent, WorkDone, RoomCounted, RoomMade,
           NobodyKeptOut
<1>6. CASE BeginMakeRoom
  <2>1. /\ scheduler = "schedule" /\ scheduler' = "evict"
        /\ buffer' = pending /\ pending' = <<>>
        /\ retained' = Cardinality({i \in DOMAIN pending : ~IsCancelled(pending[i])})
        /\ UNCHANGED <<playRequested, viewport>>
        /\ classificationOf(Head(work)).priority = Urgent
    BY <1>6 DEF BeginMakeRoom, NeedsRoom
  <2>2. Items' = Items
    BY <1>1, <2>1 DEF Items
  <2>3. Full' = Full
    <3>1. Len(pending) \in Nat /\ Len(<<>>) = 0
      BY DEF IInv, Typed
    <3>2. Len(pending') + Len(buffer') = Len(pending) + Len(buffer)
      BY <1>1, <2>1, <3>1
    <3>3. UrgentOnly' = UrgentOnly
      BY <1>1, <2>2 DEF UrgentOnly, IsCancelled
    <3>4. QED
      BY <3>2, <3>3 DEF Full
  <2>4. retained' = Cardinality(LivePart')
    BY <1>1, <2>1 DEF LivePart, IsCancelled
  <2>5. HeadIsUrgent'
    BY <1>1, <2>1 DEF HeadIsUrgent, classificationOf
  <2>6. QED
    BY <1>1, <1>2, <2>1, <2>3, <2>4, <2>5
       DEF PassParts, WorkDone, RoomCounted, RoomMade, NobodyKeptOut
<1>7. QED
  BY <1>3, <1>4, <1>5, <1>6

-----------------------------------------------------------------------------
(***************************************************************************)
(* Making room.                                                            *)
(***************************************************************************)
LEMMA ShiftedCount ==
  ASSUME NEW n \in Nat, NEW A, A \subseteq 1 .. n + 1, NEW B,
         \A i : i \in B <=> i \in 1 .. n /\ i + 1 \in A
  PROVE  /\ Cardinality(A) \in Nat /\ Cardinality(B) \in Nat
         /\ Cardinality(A) = Cardinality(B) + (IF 1 \in A THEN 1 ELSE 0)
<1> DEFINE C == A \ {1}
           f == [i \in C |-> i - 1]
<1>1. IsFiniteSet(1 .. n + 1) /\ \A i \in A : i \in 1 .. n + 1
  BY FS_Interval
<1>2. IsFiniteSet(A)
  BY <1>1, FS_Subset
<1>3. /\ IsFiniteSet(C)
      /\ Cardinality(C) = IF 1 \in A THEN Cardinality(A) - 1 ELSE Cardinality(A)
  BY <1>2, FS_RemoveElement
<1>4. f \in [C -> B] /\ \A x, y \in C : f[x] = f[y] => x = y
  BY <1>1
<1>5. \A b \in B : \E a \in C : f[a] = b
  <2> SUFFICES ASSUME NEW b \in B PROVE \E a \in C : f[a] = b
    OBVIOUS
  <2>1. b + 1 \in C /\ f[b + 1] = b
    OBVIOUS
  <2>2. QED
    BY <2>1
<1> HIDE DEF C, f
<1>6. IsFiniteSet(B) /\ Cardinality(B) = Cardinality(C)
  BY <1>3, <1>4, <1>5, SameSize
<1>7. Cardinality(A) \in Nat /\ Cardinality(B) \in Nat
  BY <1>2, <1>6, FS_CardinalityType
<1>8. QED
  BY <1>3, <1>6, <1>7

\* One tile less to look at.
LEMMA TailLive ==
  ASSUME IInv, buffer # <<>>, buffer' = Tail(buffer),
         \A i \in DOMAIN buffer' :
             jobs'[buffer'[i].job].cancelled = jobs[buffer'[i].job].cancelled
  PROVE  /\ Cardinality(LivePart) \in Nat /\ Cardinality(LivePart') \in Nat
         /\ Cardinality(LivePart) = Cardinality(LivePart')
                + (IF IsCancelled(Head(buffer)) THEN 0 ELSE 1)
         /\ Len(buffer') = Len(buffer) - 1 /\ Len(buffer) \in Nat
<1> DEFINE n == Len(buffer) - 1
           A == LivePart
           B == LivePart'
<1>1. /\ n \in Nat /\ DOMAIN buffer = 1 .. n + 1 /\ DOMAIN buffer' = 1 .. n
      /\ Head(buffer) = buffer[1] /\ Len(buffer') = n
      /\ \A i \in 1 .. n : buffer'[i] = buffer[i + 1]
  BY DEF IInv, Typed
<1>2. A \subseteq 1 .. n + 1 /\ (1 \in A <=> ~IsCancelled(Head(buffer)))
  BY <1>1 DEF LivePart
<1>3. \A i : i \in B <=> i \in 1 .. n /\ ~jobs'[buffer'[i].job].cancelled
  BY <1>1 DEF LivePart, IsCancelled
<1>4. \A i : i \in A <=> i \in 1 .. n + 1 /\ ~jobs[buffer[i].job].cancelled
  BY <1>1 DEF LivePart, IsCancelled
<1>5. \A i : i \in B <=> i \in 1 .. n /\ i + 1 \in A
  BY <1>1, <1>3, <1>4
<1> HIDE DEF A, B
<1>6. /\ Cardinality(A) \in Nat /\ Cardinality(B) \in Nat
      /\ Cardinality(A) = Cardinality(B) + (IF 1 \in A THEN 1 ELSE 0)
  BY <1>1, <1>2, <1>5, ShiftedCount
<1>7. Len(buffer) \in Nat
  BY DEF IInv, Typed
<1>8. QED
  BY <1>1, <1>2, <1>6, <1>7 DEF A, B

LEMMA KeepTilePass ==
  ASSUME IInv, IInv', PassParts, Counting, KeepTile
  PROVE  PassParts'
<1> USE DEF sharedVars, commandVars, passVars
<1>1. /\ UNCHANGED <<version, cache, playhead, jobs, activeJob, work,
                     playRequested, viewport, scheduler>>
      /\ scheduler = "retire" /\ buffer # <<>> /\ ~IsCancelled(Head(buffer))
      /\ pending' = Append(pending, Head(buffer)) /\ buffer' = Tail(buffer)
  BY DEF KeepTile
<1>2. Items' \subseteq Items
  BY RetiredItems
<1>3. /\ Cardinality(LivePart) \in Nat /\ Cardinality(LivePart') \in Nat
      /\ Cardinality(LivePart) = Cardinality(LivePart') + 1
      /\ Len(buffer') = Len(buffer) - 1 /\ Len(buffer) \in Nat
  BY <1>1, TailLive
<1>4. pending \in Seq(PendingTile) /\ Head(buffer) \in PendingTile
  BY <1>1 DEF IInv, Typed
<1>5. /\ Len(pending') = Len(pending) + 1 /\ Len(pending) \in Nat
      /\ \A i \in DOMAIN pending' : \/ i \in DOMAIN pending /\ pending'[i] = pending[i]
                                    \/ pending'[i] = Head(buffer)
  BY <1>1, <1>4
<1>6. \A i \in DOMAIN pending' : ~jobs'[pending'[i].job].cancelled
  BY <1>1, <1>5 DEF PassParts, RoomMade, IsCancelled
<1>7. \/ Len(pending') + Cardinality(LivePart') + TilesPerChunk <= MaxPendingTiles
      \/ \A tile \in Items' :
            tile.classification.priority = Urgent \/ IsCancelled(tile)'
  <2>1. CASE Len(pending) + Cardinality(LivePart) + TilesPerChunk <= MaxPendingTiles
    <3>1. Len(pending') + Cardinality(LivePart') = Len(pending) + Cardinality(LivePart)
      BY <1>3, <1>5
    <3>2. QED
      BY <2>1, <3>1
  <2>2. CASE \A tile \in Items :
                tile.classification.priority = Urgent \/ IsCancelled(tile)
    BY <1>1, <1>2, <2>2 DEF IsCancelled
  <2>3. QED
    BY <1>1, <2>1, <2>2 DEF PassParts, RoomMade
<1>8. Full => Full'
  <2>1. Len(pending') + Len(buffer') = Len(pending) + Len(buffer)
    BY <1>3, <1>5
  <2>2. UrgentOnly => UrgentOnly'
    BY <1>1, <1>2 DEF UrgentOnly, IsCancelled
  <2>3. QED
    BY <2>1, <2>2 DEF Full
<1>9. NobodyKeptOut'
  BY <1>1, <1>8 DEF PassParts, NobodyKeptOut, Waiting, Admitted, cacheIsCurrent,
                    hasCurrent
<1>10. RoomMade'
  BY <1>6, <1>7 DEF RoomMade, IsCancelled
<1>11. QED
  BY <1>1, <1>9, <1>10
     DEF PassParts, HeadIsUrgent, WorkDone, RoomCounted, classificationOf

\* A tile that is retired has a cancelled job, which no chunk counts on.
LEMMA RetireTilePass ==
  ASSUME IInv, IInv', PassParts, Counting, RetireTile
  PROVE  PassParts'
<1> USE DEF commandVars, passVars
<1> DEFINE job == Head(buffer).job
<1>1. /\ UNCHANGED <<version, cache, playhead, pending, work, playRequested,
                     viewport, scheduler>>
      /\ scheduler = "retire" /\ buffer # <<>> /\ IsCancelled(Head(buffer))
      /\ buffer' = Tail(buffer) /\ jobs[job].cancelled
      /\ activeJob' = activeJob \/ activeJob' = finishedSlot(job)
      /\ JobsAre([jobs EXCEPT ![job].tilesRemaining = @ - 1])
  BY DEF RetireTile, IsCancelled
<1>2. 1 \in DOMAIN buffer /\ Head(buffer) = buffer[1]
  <2>1. buffer \in Seq(PendingTile) /\ buffer # <<>>
    BY <1>1 DEF IInv, Typed
  <2>2. QED
    BY <2>1
<1>3. /\ job \in Jobs /\ jobs[job] \in RenderJob /\ jobs[job].tilesRemaining >= 1
      /\ Head(buffer) \in Items
  <2>1. Head(buffer) \in Items
    BY <1>2 DEF Items
  <2>2. job \in Jobs /\ jobs[job] \in RenderJob
    BY <1>2, BufferItems
  <2>3. jobs[job].tilesRemaining >= 1
    BY <2>1, ItemOpen
  <2>4. QED
    BY <2>1, <2>2, <2>3
<1> HIDE DEF job
<1>4. \A j \in Jobs : Kept(j) /\ FlagKept(j)
  BY <1>1, <1>3, KeptCounting
<1>5. Items' \subseteq Items /\ \A tile \in Items' : IsCancelled(tile)' = IsCancelled(tile)
  <2>1. Items' \subseteq Items
    BY RetiredItems
  <2>2. QED
    BY <1>4, <2>1, TilesFlagKept
<1>6. /\ Cardinality(LivePart) \in Nat
      /\ Cardinality(LivePart) = Cardinality(LivePart')
  <2>1. \A i \in DOMAIN buffer' :
           jobs'[buffer'[i].job].cancelled = jobs[buffer'[i].job].cancelled
    BY <1>5 DEF Items, IsCancelled
  <2>2. QED
    BY <1>1, <2>1, TailLive
<1>7. \A i \in DOMAIN pending' : ~jobs'[pending'[i].job].cancelled
  <2>1. \A i \in DOMAIN pending' :
           pending'[i] \in Items' /\ ~jobs[pending'[i].job].cancelled
    BY <1>1 DEF PassParts, RoomMade, Items, IsCancelled
  <2>2. QED
    BY <1>5, <2>1 DEF IsCancelled
<1>8. \/ Len(pending') + Cardinality(LivePart') + TilesPerChunk <= MaxPendingTiles
      \/ \A tile \in Items' :
            tile.classification.priority = Urgent \/ IsCancelled(tile)'
  BY <1>1, <1>5, <1>6 DEF PassParts, RoomMade
<1>9. ~Full
  BY <1>1, <1>3 DEF Full, UrgentOnly
<1>10. ASSUME NEW c \in Chunks, Admitted(c) PROVE Admitted(c)'
  <2>1. activeJob'[c] = activeJob[c] \/ cacheIsCurrent(c)
    BY <1>1, <1>10 DEF finishedSlot, Admitted, hasCurrent
  <2>2. QED
    BY <1>1, <1>4, <1>10, <2>1, AdmittedKept
<1>11. NobodyKeptOut'
  BY <1>1, <1>9, <1>10, WindowChunks DEF PassParts, NobodyKeptOut, Waiting
<1>12. RoomMade'
  BY <1>7, <1>8 DEF RoomMade, IsCancelled
<1>13. QED
  BY <1>1, <1>11, <1>12
     DEF PassParts, HeadIsUrgent, WorkDone, RoomCounted, classificationOf

\* One of several tiles has no other of them to be evicted before it.
LEMMA WeakestOf ==
  ASSUME IInv, NEW S, S \subseteq DOMAIN buffer, S # {}
  PROVE  \E k \in S : \A m \in S : ~hasLowerPrecedence(Ranked(m), Ranked(k))
<1> DEFINE lower(i, k) == hasLowerPrecedence(Ranked(i), Ranked(k))
           before == [i \in S |-> {m \in S : lower(m, i)}]
<1>1. IsFiniteSet(S) /\ \A i \in S : i \in Nat
  <2>1. Len(buffer) \in Nat /\ DOMAIN buffer = 1 .. Len(buffer)
    BY DEF IInv, Typed
  <2>2. IsFiniteSet(DOMAIN buffer)
    BY <2>1, FS_Interval
  <2>3. QED
    BY <2>1, <2>2, FS_Subset
<1>2. \A i \in S : Ranked(i) \in RankedTile
  <2> SUFFICES ASSUME NEW i \in S PROVE Ranked(i) \in RankedTile
    OBVIOUS
  <2>1. buffer[i].classification \in Classification
    BY BufferItems DEF PendingTile
  <2>2. QED
    BY <1>1, <2>1 DEF Ranked, RankedTile
<1>3. \A i, k, m \in S : /\ ~lower(i, i)
                         /\ lower(i, k) /\ lower(k, m) => lower(i, m)
  BY <1>2, PrecedenceIsTotal, Zenon
<1> HIDE DEF lower
<1>4. \A i \in S : /\ before[i] \subseteq S /\ i \notin before[i]
                   /\ \A k \in before[i] : before[k] \subseteq before[i]
  BY <1>3
<1>5. \A i \in S, m \in S : before[i] = {} => ~lower(m, i)
  OBVIOUS
<1> HIDE DEF before
<1>6. PICK k \in S : before[k] = {}
  BY <1>1, <1>4, FirstOf
<1>7. QED
  BY <1>5, <1>6 DEF lower

\* makeRoomForUrgentChunk() cancels enough, or all it may.
LEMMA RoomCancelled ==
  ASSUME IInv, Evict, pending = <<>>, retained = Cardinality(LivePart),
         NEW tile \in Items, tile.classification.priority # Urgent,
         ~jobs'[tile.job].cancelled
  PROVE  Cardinality(LivePart') \in Nat
         /\ Cardinality(LivePart') + TilesPerChunk <= MaxPendingTiles
<1> USE DEF renderVars
<1> DEFINE S == {i \in Evictable : buffer[i].job \notin Evicted}
<1>1. jobs' = Cancelling(Evicted) /\ buffer' = buffer
  BY DEF Evict
<1>2. \A i \in DOMAIN buffer :
         /\ jobs[buffer[i].job].cancelled => jobs'[buffer[i].job].cancelled
         /\ buffer[i].job \in Evicted => jobs'[buffer[i].job].cancelled
         /\ buffer[i].job \notin Evicted => jobs'[buffer[i].job] = jobs[buffer[i].job]
  <2> SUFFICES ASSUME NEW i \in DOMAIN buffer
               PROVE  LET j == buffer[i].job
                      IN  /\ jobs[j].cancelled => jobs'[j].cancelled
                          /\ j \in Evicted => jobs'[j].cancelled
                          /\ j \notin Evicted => jobs'[j] = jobs[j]
    OBVIOUS
  <2> DEFINE j == buffer[i].job
  <2>1. j \in Jobs /\ jobs[j] \in RenderJob /\ jobs[j] # Freed
    BY BufferItems, FreedIsNoJob
  <2>2. \A k \in Jobs : k \in Evicted => jobs[k] # Freed
    BY EvictedAllocated
  <2> HIDE DEF j
  <2>3. /\ j \notin Evicted => jobs'[j] = jobs[j]
        /\ j \in Evicted => jobs'[j].cancelled
        /\ KeepsJob(jobs'[j], jobs[j])
    BY <1>1, <2>1, <2>2, CancelFacts DEF IInv
  <2>4. QED
    BY <2>3 DEF KeepsJob, j
<1>3. PICK i \in DOMAIN buffer : buffer[i] = tile
  BY DEF Items
<1>4. i \in S
  BY <1>2, <1>3 DEF Evictable, IsCancelled
<1>5. PICK k \in S : \A m \in S : ~hasLowerPrecedence(Ranked(m), Ranked(k))
  <2>1. S \subseteq DOMAIN buffer /\ S # {}
    BY <1>4 DEF Evictable
  <2> HIDE DEF S
  <2>2. QED
    BY <2>1, WeakestOf
<1> DEFINE T == TakenBefore(k)
<1>6. T \subseteq LivePart /\ \A m \in T : buffer[m].job \in Evicted
  BY <1>5 DEF TakenBefore, Evictable, LivePart
<1>7. LivePart' \subseteq LivePart \ T
  BY <1>1, <1>2, <1>6 DEF LivePart, IsCancelled
<1>8. retained - Cardinality(T) + TilesPerChunk <= MaxPendingTiles
  <2>1. ~(retained - Cardinality(T) + TilesPerChunk > MaxPendingTiles)
    BY <1>5 DEF Evicted
  <2>2. /\ retained \in Int /\ TilesPerChunk \in Int /\ MaxPendingTiles \in Int
        /\ Cardinality(T) \in Int
    <3>1. Len(buffer) \in Nat /\ T \subseteq 1 .. Len(buffer)
      BY <1>6 DEF LivePart, IInv, Typed
    <3> HIDE DEF T
    <3>2. IsFiniteSet(T)
      <4>1. IsFiniteSet(1 .. Len(buffer))
        BY <3>1, IntervalCount
      <4>2. QED
        BY <3>1, <4>1, FS_Subset
    <3>3. Cardinality(T) \in Nat
      BY <3>2, FS_CardinalityType
    <3>4. QED
      BY <3>3, SchedulingAssumption DEF IInv, Typed
  <2> HIDE DEF T
  <2>3. QED
    BY <2>1, <2>2
<1>9. IsFiniteSet(LivePart)
  <2>1. Len(buffer) \in Nat /\ LivePart \subseteq 1 .. Len(buffer)
    BY DEF LivePart, IInv, Typed
  <2>2. IsFiniteSet(1 .. Len(buffer))
    BY <2>1, IntervalCount
  <2>3. QED
    BY <2>1, <2>2, FS_Subset
<1> HIDE DEF S, T
<1> DEFINE L == LivePart
           M == LivePart'
<1>10. /\ IsFiniteSet(L) /\ T \subseteq L /\ M \subseteq L \ T
  BY <1>6, <1>7, <1>9
<1> HIDE DEF L, M
<1>11. IsFiniteSet(T) /\ IsFiniteSet(L \ T)
  BY <1>10, FS_Subset, FS_Difference
<1>12. Cardinality(L \ T) = Cardinality(L) - Cardinality(T)
  <2>1. L \cap T = T
    BY <1>10
  <2>2. QED
    BY <1>10, <2>1, FS_Difference
<1>13. Cardinality(M) <= Cardinality(L \ T)
  BY <1>10, <1>11, FS_Subset
<1>14. /\ Cardinality(M) \in Nat /\ Cardinality(L) \in Nat /\ Cardinality(T) \in Nat
  BY <1>10, <1>11, FS_Subset, FS_CardinalityType
<1>15. retained = Cardinality(L)
  BY DEF L
<1>16. Cardinality(M) \in Nat /\ Cardinality(M) + TilesPerChunk <= MaxPendingTiles
  BY <1>8, <1>12, <1>13, <1>14, <1>15, SchedulingAssumption
<1>17. QED
  BY <1>16 DEF M

LEMMA EvictPass ==
  ASSUME IInv, IInv', SlotsInv, LabelsInv, PassParts, Counting, Evict
  PROVE  PassParts'
<1> USE DEF commandVars, passVars, renderVars
<1>1. /\ UNCHANGED <<version, cache, playhead, activeJob, work, pending, buffer,
                     playRequested, viewport>>
      /\ scheduler = "evict" /\ scheduler' = "retire" /\ jobs' = Cancelling(Evicted)
      /\ pending = <<>> /\ retained = Cardinality(LivePart)
  BY DEF Evict, PassParts, RoomCounted
<1>2. \A j \in Jobs : Kept(j) /\ (j \notin Evicted => FlagKept(j))
  BY <1>1, EvictedAllocated, KeptCancelling
<1>3. RoomMade'
  <2>1. Items' = Items /\ DOMAIN pending' = {} /\ Len(pending') = 0
    BY <1>1 DEF Items
  <2>2. ASSUME NEW tile \in Items, tile.classification.priority # Urgent,
               ~jobs'[tile.job].cancelled
        PROVE  Len(pending') + Cardinality(LivePart') + TilesPerChunk <= MaxPendingTiles
    BY <1>1, <2>1, <2>2, RoomCancelled
  <2>3. QED
    BY <2>1, <2>2 DEF RoomMade, IsCancelled
<1>4. ASSUME NEW c \in UrgentWindow(playhead), Admitted(c) PROVE Admitted(c)'
  <2>1. c \in Chunks
    BY <1>4, WindowChunks
  <2>2. ASSUME ~cacheIsCurrent(c), activeJob[c] \in Jobs PROVE activeJob[c] \notin Evicted
    <3> DEFINE j == activeJob[c]
    <3>1. jobs[j].chunk = c
      BY <1>4, <2>1, <2>2 DEF Admitted, hasCurrent, SlotsInv
    <3>2. classificationOf(jobs[j].chunk).priority = Urgent
      BY <1>4, <3>1, UrgentPriority DEF Counting
    <3>3. ASSUME NEW i \in Evictable, buffer[i].job = j PROVE FALSE
      <4>1. buffer[i] \in Items /\ buffer[i].classification.priority # Urgent
        BY <3>3 DEF Evictable, Items
      <4>2. Labelled(buffer[i])
        BY <1>1, <4>1 DEF LabelsInv, Counting
      <4>3. QED
        BY <3>2, <3>3, <4>1, <4>2 DEF Labelled
    <3>4. QED
      BY <3>3 DEF Evicted
  <2>3. QED
    BY <1>1, <1>2, <1>4, <2>1, <2>2, AdmittedKept
<1>5. Full => Full'
  <2> SUFFICES ASSUME Full PROVE Full'
    OBVIOUS
  <2>1. Evictable = {}
    BY DEF Full, UrgentOnly, Evictable, Items
  <2>2. Evicted = {}
    BY <2>1 DEF Evicted
  <2>3. jobs' = jobs
    BY <1>1, <2>2, CancelNone DEF IInv
  <2>4. QED
    BY <1>1, <2>3 DEF Full, UrgentOnly, Items, IsCancelled
<1>6. NobodyKeptOut'
  BY <1>1, <1>4, <1>5 DEF PassParts, NobodyKeptOut, Waiting
<1>7. QED
  BY <1>1, <1>3, <1>6
     DEF PassParts, HeadIsUrgent, WorkDone, RoomCounted, classificationOf

-----------------------------------------------------------------------------
LEMMA BeginPassPass ==
  ASSUME IInv, Counting', NEW position \in Playheads, BeginPass(position)
  PROVE  PassParts'
<1>1. /\ scheduler' = "schedule" /\ playhead' = position
      /\ playRequested' = playRequested
      /\ work' = UrgentChunkSeq(position) \o VisibleChunks
  BY DEF BeginPass
<1>2. position \in Boundaries /\ playRequested
  BY <1>1, PipelineAssumption DEF Counting
<1> DEFINE urgent == UrgentChunkSeq(position)
           visible == VisibleChunks
<1>3. urgent \in Seq(Chunks) /\ visible \in Seq(Chunks)
  BY <1>2, UrgentSeqTyped, VisibleSeqTyped DEF IInv, Typed
<1>4. ASSUME NEW c \in UrgentWindow(position) PROVE Waiting(c)'
  <2>1. PICK i \in DOMAIN urgent : urgent[i] = c
    BY <1>2, <1>4, WindowScheduled
  <2> HIDE DEF urgent, visible
  <2>2. i \in DOMAIN (urgent \o visible) /\ (urgent \o visible)[i] = c
    BY <1>3, <2>1
  <2>3. QED
    BY <1>1, <2>2 DEF Waiting, urgent, visible
<1>5. QED
  BY <1>1, <1>4
     DEF PassParts, HeadIsUrgent, WorkDone, RoomCounted, RoomMade, NobodyKeptOut

LEMMA StepPass ==
  ASSUME IInv, IInv', SlotsInv, RunningInv, LabelsInv, PassInv, [Next]_vars
  PROVE  PassInv'
<1> USE DEF sharedVars, commandVars, passVars, renderVars
<1> SUFFICES ASSUME Counting' PROVE PassParts'
  BY DEF PassInv
<1>1. CASE UNCHANGED vars
  <2>1. PassParts
    BY <1>1 DEF vars, PassInv, Counting, InPass
  <2>2. \A j \in Jobs : Kept(j) /\ FlagKept(j)
    BY <1>1, KeptAsIs DEF vars
  <2>3. QED
    BY <1>1, <2>1, <2>2, PassKept DEF vars
<1>2. CASE Control
  <2>1. ~InPass'
    BY <1>2 DEF Control, Start, StopScheduler, StopExecutor, JoinWorkers, IInv,
                Phases, InPass
  <2>2. QED
    BY <2>1 DEF Counting
<1>3. CASE Command \/ LeaveLoop \/ EndCommands
  <2>1. ~InPass'
    BY <1>3 DEF Command, Play, Pause, Seek, SetViewport, Edit, LeaveLoop,
                EndCommands, InPass
  <2>2. QED
    BY <2>1 DEF Counting
<1>4. CASE SchedulerLoop
  <2>1. CASE \/ InvalidateChunk \/ EndEdit \/ CollectJob \/ EndCollect \/ EndDispatch
             \/ \E lead \in Leads : UpdateBackgroundAdmission(lead)
    <3>1. ~InPass'
      BY <2>1 DEF InvalidateChunk, EndEdit, CollectJob, EndCollect, EndDispatch,
                  UpdateBackgroundAdmission, InPass
    <3>2. QED
      BY <3>1 DEF Counting
  <2>2. CASE \E position \in Playheads : BeginPass(position)
    BY <2>2, BeginPassPass
  <2>3. CASE \/ ScheduleChunk \/ EndSchedule \/ BeginMakeRoom \/ Evict \/ KeepTile
             \/ RetireTile \/ EndMakeRoom \/ ScanChunk \/ EndScan \/ DispatchTile
    <3>1. /\ UNCHANGED <<failures, playRequested>> /\ InPass
      BY <2>3 DEF ScheduleChunk, EndSchedule, BeginMakeRoom, Evict, KeepTile,
                  RetireTile, EndMakeRoom, ScanChunk, EndScan, DispatchTile, InPass
    <3>2. Counting /\ PassParts
      BY <3>1 DEF Counting, PassInv
    <3>3. QED
      BY <2>3, <3>2, ScheduleChunkPass, EndMakeRoomPass, ScanChunkPass, PassMoves,
         EvictPass, KeepTilePass, RetireTilePass
  <2>4. QED
    BY <1>4, <2>1, <2>2, <2>3 DEF SchedulerLoop
<1>5. CASE \E w \in Worker : WorkerStep(w)
  <2>1. PICK w \in Worker : WorkerStep(w)
    BY <1>5
  <2>2. PassInv'
    BY <2>1, WorkerPass
  <2>3. QED
    BY <2>2 DEF PassInv
<1>6. QED
  BY <1>1, <1>2, <1>3, <1>4, <1>5 DEF Next

-----------------------------------------------------------------------------
AdmitInv == SlotsInv /\ RunningInv /\ PassInv

\* An urgent chunk that is neither cached nor being rendered after the urgent
\* pass waits for other urgent tiles only: makeRoomForUrgentChunk() takes the
\* room of visible and background tiles and of no more than it needs, and leaves
\* the urgent ones alone, for any number of chunks and any queue limit.
THEOREM UrgentChunksAreAdmitted == Spec => []UrgentChunksAdmitted
<1>1. Init => AdmitInv
  <2> SUFFICES ASSUME Init PROVE AdmitInv
    OBVIOUS
  <2>1. SlotsInv
    BY DEF Init, SlotsInv
  <2>2. RunningInv /\ PassInv
    BY DEF Init, RunningInv, PassInv, Counting, InPass
  <2>3. QED
    BY <2>1, <2>2 DEF AdmitInv
<1>2. IInv /\ IInv' /\ LabelsInv /\ AdmitInv /\ [Next]_vars => AdmitInv'
  BY StepSlots, StepRunning, StepPass DEF AdmitInv
<1>3. IInv /\ AdmitInv => UrgentChunksAdmitted
  <2> SUFFICES ASSUME IInv, Counting, PassParts, scheduler \in {"scan", "dispatch"},
                      NEW c \in UrgentWindow(playhead), ~Admitted(c)
               PROVE  /\ scheduler = "scan" => ~HasRoom(MaxPendingTiles)
                      /\ \A i \in DOMAIN pending :
                            /\ pending[i].classification.priority = Urgent
                            /\ ~IsCancelled(pending[i])
    BY DEF AdmitInv, PassInv, Counting, InPass, UrgentChunksAdmitted, Admitted
  <2>1. ~Waiting(c)
    BY DEF PassParts, WorkDone, Waiting
  <2>2. UrgentOnly /\ (scheduler = "scan" => Full)
    BY <2>1 DEF PassParts, NobodyKeptOut, Full
  <2>3. scheduler = "scan" => ~HasRoom(MaxPendingTiles)
    <3>1. Len(pending) \in Nat /\ buffer = <<>> /\ Len(<<>>) = 0
      BY DEF IInv, Typed, Phases
    <3>2. QED
      BY <2>2, <3>1, SchedulingAssumption DEF Full, HasRoom
  <2>4. QED
    BY <2>2, <2>3 DEF UrgentOnly, Items
<1>4. QED
  BY Invariant, LabelsHold, <1>1, <1>2, <1>3, PTL DEF Spec

-----------------------------------------------------------------------------
(***************************************************************************)
(* The jobs that exist.  Every one is referenced, so when the completed    *)
(* jobs have been collected there are no more than slots, pending tiles,   *)
(* queued tasks and workers; until they are collected again a pass creates *)
(* at most three jobs for a chunk.                                         *)
(***************************************************************************)
Existing == Jobs \ FreeJobs
NoLeaks == \A j \in Existing : j \in Referenced

HeldBound == ChunkCount + MaxPendingTiles + TaskCapacity + Cardinality(Worker)
JobBound == HeldBound + 3 * ChunkCount

\* The jobs the pass may still create: one for each chunk it has to look at.
CreationsLeft ==
    IF scheduler \in {"admission", "pass"} THEN 3 * ChunkCount
    ELSE IF scheduler \in {"schedule", "evict", "retire"}
         THEN Len(work) + ChunkCount - checkedChunks
    ELSE IF scheduler = "scan" THEN ChunkCount - checkedChunks
    ELSE 0

BoundInv == Cardinality(Existing) + CreationsLeft <= JobBound

Creates == ScheduleChunk \/ EndMakeRoom \/ ScanChunk

LEMMA ControlKeeps ==
  ASSUME IInv, Control
  PROVE  \A j \in Jobs : Kept(j)
<1>1. CASE Start
  BY <1>1, KeptAsIs DEF Start
<1>2. CASE StopScheduler
  <2> DEFINE set == JobsIn(pending) \cup {activeJob[c] : c \in Chunks}
  <2>1. JobsAre(Cancelling(set))
    BY <1>2 DEF StopScheduler
  <2>2. \A j \in Jobs : j \in set => jobs[j] # Freed
    BY PendingItems, ActiveJob, FreedIsNoJob, JobsAreNumbers DEF JobsIn
  <2> HIDE DEF set
  <2>3. QED
    BY <2>1, <2>2, KeptCancelling
<1>3. CASE StopExecutor
  <2> DEFINE set == JobsIn(tasks)
  <2>1. JobsAre(Cancelling(set))
    BY <1>3 DEF StopExecutor
  <2>2. \A j \in set : j \in Referenced
    BY DEF Referenced
  <2>3. \A j \in Jobs : j \in set => jobs[j] # Freed
    BY <2>2, ReferencedJob, JobsAreNumbers DEF IInv
  <2> HIDE DEF set
  <2>4. QED
    BY <2>1, <2>3, KeptCancelling
<1>4. CASE JoinWorkers
  BY <1>4, KeptAsIs DEF JoinWorkers, sharedVars
<1>5. QED
  BY <1>1, <1>2, <1>3, <1>4 DEF Control

LEMMA LoopKeeps ==
  ASSUME IInv, SchedulerLoop, ~Creates
  PROVE  \A j \in Jobs : Kept(j)
<1>1. CASE InvalidateChunk
  <2>1. /\ work # <<>> /\ work \in Seq(Chunks)
        /\ jobs' = Cancelling({activeJob[Head(work)]})
    BY <1>1 DEF InvalidateChunk, IInv, Typed
  <2>2. Head(work) \in Chunks
    BY <2>1
  <2>3. \A j \in Jobs : j \in {activeJob[Head(work)]} => jobs[j] # Freed
    BY <2>2, ActiveJob, JobsAreNumbers
  <2>4. QED
    BY <2>1, <2>3, KeptCancelling
<1>2. CASE Evict
  BY <1>2, EvictedAllocated, KeptCancelling DEF Evict
<1>3. CASE RetireTile
  <2> DEFINE job == Head(buffer).job
  <2>1. /\ buffer # <<>> /\ buffer \in Seq(PendingTile)
        /\ JobsAre([jobs EXCEPT ![job].tilesRemaining = @ - 1])
    BY <1>3 DEF RetireTile, IInv, Typed
  <2>2. 1 \in DOMAIN buffer /\ job = buffer[1].job
    BY <2>1
  <2>3. job \in Jobs /\ jobs[job] \in RenderJob /\ jobs[job].tilesRemaining >= 1
    BY <2>2, BufferItems, ItemOpen DEF Items
  <2> HIDE DEF job
  <2>4. QED
    BY <2>1, <2>3, KeptCounting
<1>4. CASE CollectJob
  BY <1>4, KeptAsIs DEF CollectJob
<1>5. CASE \/ EndEdit \/ EndCollect \/ EndSchedule \/ EndScan \/ EndDispatch
           \/ \E lead \in Leads : UpdateBackgroundAdmission(lead)
           \/ \E position \in Playheads : BeginPass(position)
           \/ BeginMakeRoom \/ KeepTile \/ DispatchTile
  <2>1. jobs' = jobs
    BY <1>5 DEF sharedVars, EndEdit, EndCollect, EndSchedule, EndScan, EndDispatch,
                UpdateBackgroundAdmission, BeginPass, BeginMakeRoom, KeepTile,
                DispatchTile
  <2>2. QED
    BY <2>1, KeptAsIs
<1>6. QED
  BY <1>1, <1>2, <1>3, <1>4, <1>5 DEF SchedulerLoop, Creates

LEMMA WorkerKeeps ==
  ASSUME IInv, NEW w \in Worker, WorkerStep(w)
  PROVE  \A j \in Jobs : Kept(j)
<1>1. CASE TakeTask(w) \/ ExitWorker(w) \/ BeginRender(w) \/ PublishCompleted(w)
  BY <1>1, KeptAsIs DEF TakeTask, ExitWorker, BeginRender, PublishCompleted
<1>2. CASE GiveUp(w) \/ FailRender(w) \/ EndRender(w) \/ FinishTile(w)
  <2> DEFINE job == worker[w].job
  <2>1. worker[w].at \notin {"idle", "exited", "publish"}
    BY <1>2 DEF GiveUp, FailRender, EndRender, FinishTile
  <2>2. /\ job \in Jobs /\ jobs[job] \in RenderJob /\ jobs[job] # Freed
        /\ jobs[job].tilesRemaining >= 1
    BY <2>1, WorkersJob
  <2>3. \/ jobs' = Cancelling({job})
        \/ \E n : jobs' = [jobs EXCEPT ![job].samples = n]
        \/ JobsAre([jobs EXCEPT ![job].tilesRemaining = @ - 1])
    BY <1>2 DEF GiveUp, FailRender, EndRender, FinishTile
  <2> HIDE DEF job
  <2>4. QED
    BY <2>2, <2>3, KeptCancelling, KeptSamples, KeptCounting
<1>3. QED
  BY <1>1, <1>2 DEF WorkerStep

LEMMA StepKeeps ==
  ASSUME IInv, [Next]_vars, ~Creates
  PROVE  \A j \in Jobs : Kept(j)
<1>1. CASE Command \/ LeaveLoop \/ EndCommands \/ UNCHANGED vars
  <2>1. jobs' = jobs
    BY <1>1 DEF Command, Play, Pause, Seek, SetViewport, Edit, LeaveLoop,
                EndCommands, vars, sharedVars
  <2>2. QED
    BY <2>1, KeptAsIs
<1>2. QED
  BY <1>1, ControlKeeps, LoopKeeps, WorkerKeeps DEF Next

\* References only move, but for those that JobsAre() looks at.
LEMMA ReferencesKept ==
  ASSUME IInv, [Next]_vars
  PROVE  \/ \E written : JobsAre(written)
         \/ \A j \in Jobs : j \in Referenced => j \in Referenced'
<1> DEFINE Stay == \A j \in Jobs : j \in Referenced => j \in Referenced'
<1>1. CASE UNCHANGED <<activeJob, pending, buffer, tasks, completed, worker>>
  BY <1>1 DEF Referenced
<1>2. CASE \/ Start \/ StopScheduler \/ StopExecutor \/ CollectJob \/ RetireTile
           \/ \E w \in Worker : FinishTile(w)
  BY <1>2 DEF Start, StopScheduler, StopExecutor, CollectJob, RetireTile, FinishTile
<1>3. CASE Creates
  BY <1>1, <1>3 DEF Creates, ScheduleChunk, EndMakeRoom, ScanChunk, CreateIfRoom,
                    CreateJob, NoNewJob
<1>4. ASSUME NEW position \in Playheads, BeginPass(position) PROVE Stay
  <2>1. /\ DOMAIN pending' = DOMAIN pending
        /\ \A i \in DOMAIN pending : pending'[i].job = pending[i].job
        /\ UNCHANGED <<activeJob, buffer, tasks, completed, worker>>
    <3>1. \A i \in DOMAIN pending : classified(pending[i], position).job = pending[i].job
      BY PendingItems DEF classified, PendingTile
    <3>2. QED
      BY <1>4, <3>1 DEF BeginPass, sharedVars
  <2>2. JobsIn(pending') = JobsIn(pending)
    BY <2>1 DEF JobsIn
  <2>3. QED
    BY <2>1, <2>2 DEF Referenced
<1>5. CASE BeginMakeRoom
  <2>1. /\ buffer = <<>> /\ buffer' = pending
        /\ UNCHANGED <<activeJob, tasks, completed, worker>>
    BY <1>5 DEF BeginMakeRoom, sharedVars, IInv, Phases
  <2>2. JobsIn(<<>>) = {}
    BY EmptyCount
  <2>3. QED
    BY <2>1, <2>2 DEF Referenced
<1>6. CASE KeepTile
  <2>1. /\ buffer # <<>> /\ buffer \in Seq(PendingTile) /\ pending \in Seq(PendingTile)
        /\ buffer' = Tail(buffer) /\ pending' = Append(pending, Head(buffer))
        /\ UNCHANGED <<activeJob, tasks, completed, worker>>
    BY <1>6 DEF KeepTile, sharedVars, IInv, Typed
  <2>2. /\ JobsIn(buffer) = JobsIn(buffer') \cup {Head(buffer).job}
        /\ Head(buffer) \in PendingTile
    BY <2>1, TailCount
  <2>3. JobsIn(pending') = JobsIn(pending) \cup {Head(buffer).job}
    BY <2>1, <2>2, AppendCount
  <2>4. QED
    BY <2>1, <2>2, <2>3 DEF Referenced
<1>7. CASE DispatchTile
  <2>1. /\ pending # <<>> /\ pending \in Seq(PendingTile)
        /\ pending' = [i \in 1 .. Len(pending) - 1 |->
                          pending[IF i < Top THEN i ELSE i + 1]]
        /\ tasks \in Seq(TaskItem)
        /\ tasks' = Append(tasks, [job |-> pending[Top].job, tile |-> pending[Top].tile])
        /\ UNCHANGED <<activeJob, buffer, completed, worker>>
    BY <1>7 DEF DispatchTile, MayDispatch, IInv, Typed, TaskItem
  <2>2. Top \in DOMAIN pending
    BY <2>1, TopIsPending
  <2>3. pending' \in Seq(PendingTile)
    BY <1>7, DispatchTileHolds DEF IInv, Typed
  <2> PICK top \in DOMAIN pending : top = Top
    BY <2>2
  <2>4. Without(pending', pending, top)
    BY <2>1, <2>3, LenProperties DEF Without
  <2>5. JobsIn(pending) = JobsIn(pending') \cup {pending[top].job}
    <3>1. pending \in Seq(PendingTile)
      BY <2>1
    <3>2. QED
      BY <2>3, <2>4, <3>1, RemoveCount
  <2> DEFINE task == [job |-> pending[top].job, tile |-> pending[top].tile]
  <2>6. task \in TaskItem /\ task.job = pending[top].job
    BY PendingItems DEF TaskItem
  <2>7. tasks \in Seq(TaskItem) /\ tasks' = Append(tasks, task)
    BY <2>1
  <2> HIDE DEF task
  <2>8. JobsIn(tasks') = JobsIn(tasks) \cup {pending[top].job}
    BY <2>6, <2>7, AppendCount
  <2>9. QED
    BY <2>1, <2>5, <2>8 DEF Referenced
<1>8. ASSUME NEW w \in Worker, TakeTask(w) PROVE Stay
  <2>1. /\ worker[w].job = NoJob /\ tasks # <<>> /\ tasks \in Seq(TaskItem)
        /\ tasks' = Tail(tasks) /\ worker'[w].job = Head(tasks).job
        /\ \A v \in Worker \ {w} : worker'[v] = worker[v]
        /\ UNCHANGED <<activeJob, pending, buffer, completed>>
    BY <1>8 DEF TakeTask, renderVars, IInv, WorkersHoldJobs, Typed, TaskItem
  <2>2. JobsIn(tasks) = JobsIn(tasks') \cup {worker'[w].job}
    BY <2>1, TailCount
  <2>3. \A j \in {worker[v].job : v \in Worker} :
            j = NoJob \/ j \in {worker'[v].job : v \in Worker}
    BY <2>1
  <2>4. QED
    BY <2>1, <2>2, <2>3, JobsAreNumbers DEF Referenced
<1>9. ASSUME NEW w \in Worker, PublishCompleted(w) PROVE Stay
  <2>1. /\ completed \in Seq(Jobs) /\ worker[w].job \in Jobs
        /\ completed' = Append(completed, worker[w].job)
        /\ \A v \in Worker \ {w} : worker'[v] = worker[v]
        /\ UNCHANGED <<activeJob, pending, buffer, tasks>>
    BY <1>9, WorkersJob DEF PublishCompleted, renderVars, IInv, Typed
  <2>2. {completed'[i] : i \in DOMAIN completed'}
          = {completed[i] : i \in DOMAIN completed} \cup {worker[w].job}
    BY <2>1
  <2>3. \A j \in {worker[v].job : v \in Worker} :
            j = worker[w].job \/ j \in {worker'[v].job : v \in Worker}
    BY <2>1
  <2>4. QED
    BY <2>1, <2>2, <2>3 DEF Referenced
<1>10. ASSUME NEW w \in Worker, ExitWorker(w) PROVE Stay
  <2>1. /\ worker[w].job = NoJob /\ worker'[w].job = NoJob
        /\ \A v \in Worker \ {w} : worker'[v] = worker[v]
        /\ UNCHANGED <<activeJob, pending, buffer, tasks, completed>>
    BY <1>10 DEF ExitWorker, renderVars, Exited, Idle, IInv, WorkersHoldJobs, Typed
  <2>2. QED
    BY <2>1 DEF Referenced
<1>11. ASSUME NEW w \in Worker,
              BeginRender(w) \/ GiveUp(w) \/ EndRender(w) \/ FailRender(w)
       PROVE  Stay
  <2>1. PICK at \in {"render", "finish"} : worker' = [worker EXCEPT ![w].at = at]
    BY <1>11 DEF BeginRender, GiveUp, EndRender, FailRender
  <2>2. /\ worker[w].at \notin {"idle", "exited"}
        /\ UNCHANGED <<activeJob, pending, buffer, tasks, completed>>
    BY <1>11 DEF BeginRender, GiveUp, EndRender, FailRender, workerOnly, renderVars
  <2>3. /\ worker'[w].job = worker[w].job
        /\ \A v \in Worker \ {w} : worker'[v] = worker[v]
    BY <2>1, <2>2, WorkerTyped DEF IInv
  <2>4. QED
    BY <2>2, <2>3 DEF Referenced
<1>12. CASE \/ JoinWorkers \/ Command \/ LeaveLoop \/ EndCommands \/ UNCHANGED vars
            \/ InvalidateChunk \/ EndEdit \/ EndCollect \/ EndSchedule \/ Evict
            \/ EndScan \/ EndDispatch
            \/ \E lead \in Leads : UpdateBackgroundAdmission(lead)
  <2>1. UNCHANGED <<activeJob, pending, buffer, tasks, completed, worker>>
    BY <1>12 DEF JoinWorkers, Command, Play, Pause, Seek, SetViewport, Edit, LeaveLoop,
                 EndCommands, vars, InvalidateChunk, EndEdit, EndCollect, EndSchedule,
                 Evict, EndScan, EndDispatch, UpdateBackgroundAdmission, sharedVars,
                 renderVars
  <2>2. QED
    BY <1>1, <2>1
<1>13. QED
  BY <1>2, <1>3, <1>4, <1>5, <1>6, <1>7, <1>8, <1>9, <1>10, <1>11, <1>12
     DEF Next, Control, SchedulerLoop, WorkerStep, Creates

LEMMA NoLeakStep ==
  ASSUME IInv, NoLeaks, [Next]_vars
  PROVE  NoLeaks'
<1> SUFFICES ASSUME NEW j \in Jobs, jobs'[j] # Freed PROVE j \in Referenced'
  BY DEF NoLeaks, Existing, FreeJobs
<1>1. CASE \E written : JobsAre(written)
  BY <1>1 DEF JobsAre
<1>2. CASE /\ \A k \in Jobs : k \in Referenced => k \in Referenced'
           /\ ~Creates
  <2>1. jobs[j] # Freed
    BY <1>2, StepKeeps DEF Kept
  <2>2. QED
    BY <1>2, <2>1 DEF NoLeaks, Existing, FreeJobs
<1>3. CASE Creates /\ ~ \E written : JobsAre(written)
  <2>1. UNCHANGED <<jobs, activeJob, pending, buffer, tasks, completed, worker>>
    BY <1>3 DEF Creates, ScheduleChunk, EndMakeRoom, ScanChunk, CreateIfRoom,
                CreateJob, NoNewJob
  <2>2. QED
    BY <2>1 DEF NoLeaks, Existing, FreeJobs, Referenced
<1>4. QED
  BY <1>1, <1>2, <1>3, ReferencesKept

\* A function has no more values than arguments.
LEMMA ImageCount ==
  ASSUME NEW S, IsFiniteSet(S), NEW f, f = [x \in S |-> f[x]]
  PROVE  /\ IsFiniteSet({f[x] : x \in S})
         /\ Cardinality({f[x] : x \in S}) <= Cardinality(S)
<1> DEFINE T == {f[x] : x \in S}
<1>1. f \in Surjection(S, T)
  BY DEF Surjection
<1> HIDE DEF T
<1>2. IsFiniteSet(T) /\ Cardinality(T) <= Cardinality(S)
  BY <1>1, FS_Surjection
<1>3. QED
  BY <1>2 DEF T

LEMMA JoinedCount ==
  ASSUME NEW A, NEW B, IsFiniteSet(A), IsFiniteSet(B),
         NEW a \in Nat, NEW b \in Nat, Cardinality(A) <= a, Cardinality(B) <= b
  PROVE  IsFiniteSet(A \cup B) /\ Cardinality(A \cup B) <= a + b
<1>1. /\ IsFiniteSet(A \cup B)
      /\ Cardinality(A \cup B)
            = Cardinality(A) + Cardinality(B) - Cardinality(A \cap B)
  BY FS_Union
<1>2. IsFiniteSet(A \cap B)
  BY FS_Subset, A \cap B \in SUBSET A
<1>3. Cardinality(A) \in Nat /\ Cardinality(B) \in Nat /\ Cardinality(A \cap B) \in Nat
  BY <1>2, FS_CardinalityType
<1>4. QED
  BY <1>1, <1>3

LEMMA PartCount ==
  ASSUME NEW A, NEW B, IsFiniteSet(B), A \subseteq B
  PROVE  /\ IsFiniteSet(A) /\ Cardinality(A) \in Nat /\ Cardinality(B) \in Nat
         /\ Cardinality(A) <= Cardinality(B)
BY FS_Subset, FS_CardinalityType

\* The jobs of the tiles in a queue are no more than its tiles.
LEMMA QueueCount ==
  ASSUME NEW S, NEW s \in Seq(S)
  PROVE  IsFiniteSet(JobsIn(s)) /\ Cardinality(JobsIn(s)) <= Len(s)
<1> DEFINE f == [i \in 1 .. Len(s) |-> s[i].job]
<1>1. Len(s) \in Nat /\ DOMAIN s = 1 .. Len(s)
  BY LenProperties
<1>2. IsFiniteSet(1 .. Len(s)) /\ Cardinality(1 .. Len(s)) = Len(s)
  BY <1>1, IntervalCount
<1>3. f = [i \in 1 .. Len(s) |-> f[i]]
  OBVIOUS
<1>4. JobsIn(s) = {f[i] : i \in 1 .. Len(s)}
  BY <1>1 DEF JobsIn
<1> HIDE DEF f
<1>5. QED
  BY <1>2, <1>3, <1>4, ImageCount

LEMMA JobsCount ==
  /\ IsFiniteSet(Jobs) /\ Cardinality(Jobs) = MaxJobs
  /\ IsFiniteSet(Existing) /\ Cardinality(Existing) \in Nat
<1>1. IsFiniteSet(Jobs) /\ Cardinality(Jobs) = MaxJobs
  BY IntervalCount, PipelineAssumption DEF Jobs
<1>2. QED
  BY <1>1, PartCount DEF Existing

\* What nobody returns is held by a slot, a tile, a task or a worker.
LEMMA HeldCount ==
  ASSUME IInv, NoLeaks, completed = <<>>
  PROVE  Cardinality(Existing) <= HeldBound
<1> DEFINE slots == {activeJob[c] : c \in Chunks}
           hands == {worker[w].job : w \in Worker}
           carried == [w \in Worker |-> worker[w].job]
<1>1. ChunkCount \in Nat /\ IsFiniteSet(slots) /\ Cardinality(slots) <= ChunkCount
  <2>1. ChunkCount \in Nat \ {0}
    BY ChunkFacts
  <2>2. IsFiniteSet(Chunks) /\ Cardinality(Chunks) = ChunkCount
    BY <2>1, FS_Interval DEF Chunks
  <2>3. activeJob = [c \in Chunks |-> activeJob[c]]
    BY DEF IInv, Typed
  <2>4. QED
    BY <2>1, <2>2, <2>3, ImageCount
<1>2. IsFiniteSet(hands) /\ Cardinality(hands) <= Cardinality(Worker)
      /\ Cardinality(Worker) \in Nat
  <2>1. carried = [w \in Worker |-> carried[w]] /\ hands = {carried[w] : w \in Worker}
    OBVIOUS
  <2> HIDE DEF carried, hands
  <2>2. IsFiniteSet(Worker) /\ Cardinality(Worker) \in Nat
    BY PipelineAssumption, FS_CardinalityType
  <2>3. QED
    BY <2>1, <2>2, ImageCount
<1>3. /\ pending \in Seq(PendingTile) /\ buffer \in Seq(PendingTile)
      /\ tasks \in Seq([job : Jobs, tile : Tiles])
      /\ Len(pending) + Len(buffer) <= MaxPendingTiles /\ Len(tasks) <= TaskCapacity
  BY DEF IInv, Typed
<1>4. Len(pending) \in Nat /\ Len(buffer) \in Nat /\ Len(tasks) \in Nat
      /\ MaxPendingTiles \in Nat /\ TaskCapacity \in Nat
  BY <1>3, LenProperties, SchedulingAssumption, PipelineAssumption
<1>5. IsFiniteSet(JobsIn(pending)) /\ Cardinality(JobsIn(pending)) <= Len(pending)
  BY <1>3, QueueCount
<1>6. IsFiniteSet(JobsIn(buffer)) /\ Cardinality(JobsIn(buffer)) <= Len(buffer)
  BY <1>3, QueueCount
<1>7. IsFiniteSet(JobsIn(tasks)) /\ Cardinality(JobsIn(tasks)) <= Len(tasks)
  BY <1>3, QueueCount
<1>8. Existing \subseteq slots \cup JobsIn(pending) \cup JobsIn(buffer)
                         \cup JobsIn(tasks) \cup hands
  BY DEF NoLeaks, Referenced
<1> HIDE DEF slots, hands
<1>9. /\ IsFiniteSet(slots \cup JobsIn(pending))
      /\ Cardinality(slots \cup JobsIn(pending)) <= ChunkCount + Len(pending)
  BY <1>1, <1>4, <1>5, JoinedCount
<1>10. /\ IsFiniteSet(slots \cup JobsIn(pending) \cup JobsIn(buffer))
       /\ Cardinality(slots \cup JobsIn(pending) \cup JobsIn(buffer))
             <= ChunkCount + Len(pending) + Len(buffer)
  <2>1. ChunkCount + Len(pending) \in Nat
    BY <1>1, <1>4
  <2>2. QED
    BY <1>4, <1>6, <1>9, <2>1, JoinedCount
<1>11. /\ IsFiniteSet(slots \cup JobsIn(pending) \cup JobsIn(buffer) \cup JobsIn(tasks))
       /\ Cardinality(slots \cup JobsIn(pending) \cup JobsIn(buffer) \cup JobsIn(tasks))
             <= ChunkCount + Len(pending) + Len(buffer) + Len(tasks)
  <2>1. ChunkCount + Len(pending) + Len(buffer) \in Nat
    BY <1>1, <1>4
  <2>2. QED
    BY <1>4, <1>7, <1>10, <2>1, JoinedCount
<1> DEFINE all == slots \cup JobsIn(pending) \cup JobsIn(buffer) \cup JobsIn(tasks)
                  \cup hands
<1>12. /\ IsFiniteSet(all)
       /\ Cardinality(all)
             <= ChunkCount + Len(pending) + Len(buffer) + Len(tasks) + Cardinality(Worker)
  <2>1. ChunkCount + Len(pending) + Len(buffer) + Len(tasks) \in Nat
    BY <1>1, <1>4
  <2>2. QED
    BY <1>2, <1>11, <2>1, JoinedCount
<1>13. Cardinality(Existing) <= Cardinality(all)
       /\ Cardinality(Existing) \in Nat /\ Cardinality(all) \in Nat
  <2>1. IsFiniteSet(all) /\ Existing \subseteq all
    BY <1>8, <1>12
  <2> HIDE DEF all
  <2>2. QED
    BY <2>1, PartCount
<1> HIDE DEF all
<1>14. \A c, p, b, t, w, e, a, m, k \in Nat :
          /\ a <= c + p + b + t + w /\ e <= a /\ p + b <= m /\ t <= k
          => e <= c + m + k + w
  OBVIOUS
<1>15. /\ Len(pending) + Len(buffer) <= MaxPendingTiles /\ Len(tasks) <= TaskCapacity
       /\ Cardinality(all)
             <= ChunkCount + Len(pending) + Len(buffer) + Len(tasks) + Cardinality(Worker)
  BY <1>3, <1>12
<1>16. Cardinality(Existing)
          <= ChunkCount + MaxPendingTiles + TaskCapacity + Cardinality(Worker)
  BY ONLY <1>1, <1>2, <1>4, <1>13, <1>14, <1>15
<1>17. QED
  BY <1>16 DEF HeldBound

\* A pass looks at no chunk twice for the window, nor for the viewport.
LEMMA SeqOfChunksLength ==
  ASSUME NEW first \in Nat, NEW end \in Int, end <= ChunkCount
  PROVE  Len(SeqOfChunks(first, end)) <= ChunkCount
<1> DEFINE n == Larger(0, end - first)
<1>1. ChunkCount \in Nat
  BY ChunkFacts
<1>2. n \in Nat /\ n <= ChunkCount
  BY <1>1 DEF Larger
<1>3. SeqOfChunks(first, end) = [i \in 1 .. n |-> first + i - 1]
  BY DEF SeqOfChunks
<1> HIDE DEF n
<1>4. [i \in 1 .. n |-> first + i - 1] \in [1 .. n -> Int]
  BY <1>2
<1>5. QED
  BY <1>2, <1>3, <1>4, SeqOf

LEMMA UrgentSeqLength ==
  ASSUME NEW position \in Boundaries
  PROVE  Len(UrgentChunkSeq(position)) <= ChunkCount
<1>1. ChunkCount \in Nat /\ Len(<<>>) = 0
  BY ChunkFacts
<1>2. CASE ~playRequested \/ position = TotalFrames
  BY <1>1, <1>2 DEF UrgentChunkSeq
<1>3. CASE playRequested /\ position # TotalFrames
  <2>1. UrgentChunkSeq(position)
          = SeqOfChunks(frameToChunk(position), urgentChunkEnd(position))
    BY <1>3 DEF UrgentChunkSeq
  <2>2. QED
    BY <1>3, <2>1, UrgentEnd, SeqOfChunksLength
<1>4. QED
  BY <1>2, <1>3

LEMMA VisibleSeqLength ==
  ASSUME viewport \in Boundaries \X Boundaries
  PROVE  Len(VisibleChunks) <= ChunkCount
<1> DEFINE last == frameToChunk(Smaller(viewport[2], TotalFrames) - 1) + 1
<1>1. ChunkCount \in Nat /\ Len(<<>>) = 0
  BY ChunkFacts
<1>2. CASE viewport[2] <= viewport[1]
  BY <1>1, <1>2 DEF VisibleChunks
<1>3. CASE ~(viewport[2] <= viewport[1])
  <2>1. viewport[1] \in Nat /\ viewport[2] \in Nat \ {0}
        /\ viewport[2] <= TotalFrames /\ TotalFrames \in Nat
    BY <1>3, TimelineAssumption DEF Boundaries
  <2>2. frameToChunk(viewport[1]) \in Nat
    BY <2>1, TimelineAssumption, DivisionFacts DEF frameToChunk
  <2>3. Smaller(viewport[2], TotalFrames) - 1 \in Frames
    BY <2>1 DEF Smaller, Frames
  <2>4. last \in Int
    BY <2>3, ChunkFacts DEF Chunks
  <2>5. VisibleChunks
          = SeqOfChunks(frameToChunk(viewport[1]), Smaller(last, ChunkCount))
    BY <1>3 DEF VisibleChunks
  <2> HIDE DEF last
  <2>6. Smaller(last, ChunkCount) \in Int
        /\ Smaller(last, ChunkCount) <= ChunkCount
    BY <1>1, <2>4 DEF Smaller
  <2>7. QED
    BY <2>2, <2>5, <2>6, SeqOfChunksLength
<1>4. QED
  BY <1>2, <1>3

LEMMA CreationsTyped ==
  ASSUME Typed
  PROVE  CreationsLeft \in Nat
<1>1. ChunkCount \in Nat /\ checkedChunks \in 0 .. ChunkCount
  BY ChunkFacts DEF Typed
<1>2. Len(work) \in Nat
  BY LenProperties DEF Typed
<1>3. QED
  BY <1>1, <1>2 DEF CreationsLeft

\* A step of the pass that creates a job has a chunk less to look at.
LEMMA CreatorCounts ==
  ASSUME IInv, Creates
  PROVE  CreationsLeft' = CreationsLeft - 1
<1>1. ChunkCount \in Nat /\ checkedChunks \in 0 .. ChunkCount
  BY ChunkFacts DEF IInv, Typed
<1>2. CASE ScheduleChunk \/ EndMakeRoom
  <2>1. /\ scheduler \in {"schedule", "retire"} /\ scheduler' = "schedule"
        /\ work' = Tail(work) /\ checkedChunks' = checkedChunks
    BY <1>2 DEF ScheduleChunk, EndMakeRoom
  <2>2. work # <<>>
    BY <1>2, <2>1 DEF ScheduleChunk, EndMakeRoom, IInv, Phases
  <2>3. work \in Seq(Chunks)
    BY DEF IInv, Typed
  <2>4. Len(work') = Len(work) - 1 /\ Len(work) \in Nat
    BY <2>1, <2>2, <2>3, HeadTailProperties
  <2>5. CreationsLeft = Len(work) + ChunkCount - checkedChunks
    BY <2>1 DEF CreationsLeft
  <2>6. CreationsLeft' = Len(work') + ChunkCount - checkedChunks
    BY <2>1 DEF CreationsLeft
  <2>7. QED
    BY <1>1, <2>4, <2>5, <2>6
<1>3. CASE ScanChunk
  <2>1. /\ scheduler = "scan" /\ scheduler' = "scan"
        /\ checkedChunks' = checkedChunks + 1
    BY <1>3 DEF ScanChunk
  <2>2. QED
    BY <1>1, <2>1 DEF CreationsLeft
<1>4. QED
  BY <1>2, <1>3 DEF Creates

\* Only a pass that begins has more chunks to look at.
LEMMA OthersCount ==
  ASSUME IInv, [Next]_vars, ~Creates, ~EndCollect
  PROVE  CreationsLeft' <= CreationsLeft
<1>1. CreationsLeft \in Nat
  BY CreationsTyped DEF IInv
<1>2. ChunkCount \in Nat /\ checkedChunks \in 0 .. ChunkCount
      /\ work \in Seq(Chunks) /\ Len(work) \in Nat
  BY ChunkFacts, LenProperties DEF IInv, Typed
<1>3. CASE UNCHANGED <<scheduler, work, checkedChunks>>
  <2>1. CreationsLeft' = CreationsLeft
    BY <1>3 DEF CreationsLeft
  <2>2. QED
    BY <1>1, <2>1
<1>4. CASE scheduler' \in {"off", "commands", "invalidate", "collect", "dispatch"}
  <2>1. CreationsLeft' = 0
    BY <1>4 DEF CreationsLeft
  <2>2. QED
    BY <1>1, <2>1
<1>5. ASSUME NEW lead \in Leads, UpdateBackgroundAdmission(lead)
      PROVE  CreationsLeft' <= CreationsLeft
  <2>1. scheduler = "admission" /\ scheduler' = "pass"
    BY <1>5 DEF UpdateBackgroundAdmission
  <2>2. CreationsLeft = 3 * ChunkCount /\ CreationsLeft' = 3 * ChunkCount
    BY <2>1 DEF CreationsLeft
  <2>3. QED
    BY <1>2, <2>2
<1>6. ASSUME NEW position \in Playheads, BeginPass(position)
      PROVE  CreationsLeft' <= CreationsLeft
  <2>1. /\ scheduler = "pass" /\ scheduler' = "schedule" /\ checkedChunks' = 0
        /\ work' = UrgentChunkSeq(position) \o VisibleChunks
    BY <1>6 DEF BeginPass
  <2>2. position \in Boundaries /\ viewport \in Boundaries \X Boundaries
    BY PipelineAssumption DEF IInv, Typed
  <2>3. /\ UrgentChunkSeq(position) \in Seq(Chunks) /\ VisibleChunks \in Seq(Chunks)
        /\ Len(UrgentChunkSeq(position)) <= ChunkCount
        /\ Len(VisibleChunks) <= ChunkCount
    BY <2>2, UrgentSeqTyped, VisibleSeqTyped, UrgentSeqLength, VisibleSeqLength
  <2>4. /\ Len(work') = Len(UrgentChunkSeq(position)) + Len(VisibleChunks)
        /\ Len(UrgentChunkSeq(position)) \in Nat /\ Len(VisibleChunks) \in Nat
    BY <2>1, <2>3, ConcatProperties, LenProperties
  <2>5. CreationsLeft = 3 * ChunkCount /\ CreationsLeft' = Len(work') + ChunkCount - 0
    BY <2>1 DEF CreationsLeft
  <2>6. QED
    BY <1>2, <2>3, <2>4, <2>5
<1>7. CASE BeginMakeRoom \/ Evict
  <2>1. /\ scheduler \in {"schedule", "evict", "retire"}
        /\ scheduler' \in {"schedule", "evict", "retire"}
        /\ UNCHANGED <<work, checkedChunks>>
    BY <1>7 DEF BeginMakeRoom, Evict, passVars
  <2>2. /\ CreationsLeft = Len(work) + ChunkCount - checkedChunks
        /\ CreationsLeft' = Len(work) + ChunkCount - checkedChunks
    BY <2>1 DEF CreationsLeft
  <2>3. QED
    BY <1>1, <2>2
<1>8. CASE EndSchedule
  <2>1. /\ scheduler = "schedule" /\ scheduler' = "scan" /\ work = <<>>
        /\ checkedChunks' = checkedChunks
    BY <1>8 DEF EndSchedule, passVars
  <2>2. /\ CreationsLeft = Len(work) + ChunkCount - checkedChunks
        /\ CreationsLeft' = ChunkCount - checkedChunks
    BY <2>1 DEF CreationsLeft
  <2>3. QED
    BY <1>2, <2>2
<1>9. CASE \/ StopScheduler \/ StopExecutor \/ JoinWorkers
           \/ Play \/ Pause \/ Seek \/ \E region \in Viewports : SetViewport(region)
           \/ KeepTile \/ RetireTile
           \/ \E w \in Worker : WorkerStep(w)
           \/ UNCHANGED vars
  BY <1>3, <1>9
     DEF StopScheduler, StopExecutor, JoinWorkers, Play, Pause, Seek, SetViewport,
         KeepTile, RetireTile, WorkerStep, TakeTask, ExitWorker, BeginRender, GiveUp,
         EndRender, FailRender, FinishTile, PublishCompleted, workerOnly, vars, passVars
<1>10. CASE \/ Start \/ \E region \in EditRegions : Edit(region)
            \/ LeaveLoop \/ EndCommands \/ InvalidateChunk \/ EndEdit \/ CollectJob
            \/ EndScan \/ DispatchTile \/ EndDispatch
  BY <1>4, <1>10
     DEF Start, Edit, LeaveLoop, EndCommands, InvalidateChunk, EndEdit, CollectJob,
         EndScan, DispatchTile, EndDispatch
<1>11. QED
  BY <1>5, <1>6, <1>7, <1>8, <1>9, <1>10
     DEF Next, Control, Command, SchedulerLoop, Creates

\* A step creates one job at most.
LEMMA CreatedOne ==
  ASSUME IInv, Creates
  PROVE  \E job : Existing' \subseteq Existing \cup {job}
<1>1. PICK chunk \in Chunks : NoNewJob \/ CreateJob(chunk)
  <2>1. scanCursor \in Chunks /\ work \in Seq(Chunks)
    BY DEF IInv, Typed
  <2>2. ScheduleChunk \/ EndMakeRoom => work # <<>>
    BY DEF ScheduleChunk, EndMakeRoom, IInv, Phases
  <2>3. ScheduleChunk \/ EndMakeRoom => Head(work) \in Chunks
    BY <2>1, <2>2
  <2>4. QED
    BY <2>1, <2>3 DEF Creates, ScheduleChunk, EndMakeRoom, ScanChunk, CreateIfRoom
<1>2. CASE NoNewJob
  BY <1>2 DEF NoNewJob, Existing, FreeJobs
<1>3. CASE CreateJob(chunk)
  <2>1. \A j \in Jobs \ {NewJob} : Kept(j)
    BY <1>3, CreatedJob
  <2>2. QED
    BY <2>1 DEF Kept, Existing, FreeJobs
<1>4. QED
  BY <1>1, <1>2, <1>3

LEMMA BoundStep ==
  ASSUME IInv, IInv', NoLeaks, BoundInv, [Next]_vars
  PROVE  BoundInv'
<1>1. /\ Cardinality(Existing) \in Nat /\ Cardinality(Existing') \in Nat
      /\ IsFiniteSet(Existing) /\ IsFiniteSet(Existing')
  <2>1. (IsFiniteSet(Existing) /\ Cardinality(Existing) \in Nat)'
    BY JobsCount, PTL
  <2>2. QED
    BY <2>1, JobsCount
<1>2. CreationsLeft \in Nat /\ CreationsLeft' \in Nat
  <2>1. Typed /\ Typed'
    BY DEF IInv
  <2>2. (Typed => CreationsLeft \in Nat)'
    BY CreationsTyped, PTL
  <2>3. QED
    BY <2>1, <2>2, CreationsTyped
<1>3. JobBound \in Nat /\ HeldBound \in Nat /\ JobBound = HeldBound + 3 * ChunkCount
  BY ChunkFacts, SchedulingAssumption, PipelineAssumption, FS_CardinalityType
     DEF JobBound, HeldBound
<1>4. Cardinality(Existing) + CreationsLeft <= JobBound
  BY DEF BoundInv
<1>5. CASE ~Creates /\ ~EndCollect
  <2>1. CreationsLeft' <= CreationsLeft
    BY <1>5, OthersCount
  <2>2. Existing' \subseteq Existing
    BY <1>5, StepKeeps DEF Kept, Existing, FreeJobs
  <2>3. Cardinality(Existing') <= Cardinality(Existing)
    BY <1>1, <2>2, PartCount
  <2>4. Cardinality(Existing') + CreationsLeft' <= JobBound
    BY <1>1, <1>2, <1>3, <1>4, <2>1, <2>3
  <2>5. QED
    BY <2>4 DEF BoundInv
<1>6. CASE Creates
  <2>1. CreationsLeft' = CreationsLeft - 1
    BY <1>6, CreatorCounts
  <2>2. PICK job : Existing' \subseteq Existing \cup {job}
    BY <1>6, CreatedOne
  <2>3. Cardinality(Existing) <= Cardinality(Existing) + 1
    BY <1>1
  <2>4. /\ IsFiniteSet(Existing \cup {job})
        /\ Cardinality(Existing \cup {job}) <= Cardinality(Existing) + 1
    BY <1>1, <2>3, FS_AddElement
  <2>5. Cardinality(Existing') <= Cardinality(Existing) + 1
    <3>1. /\ Cardinality(Existing') <= Cardinality(Existing \cup {job})
          /\ Cardinality(Existing \cup {job}) \in Nat
      BY <2>2, <2>4, PartCount
    <3>2. QED
      BY <1>1, <2>4, <3>1
  <2>6. Cardinality(Existing') + CreationsLeft' <= JobBound
    BY <1>1, <1>2, <1>3, <1>4, <2>1, <2>5
  <2>7. QED
    BY <2>6 DEF BoundInv
<1>7. CASE EndCollect
  <2>1. /\ completed = <<>> /\ scheduler' = "admission" /\ jobs' = jobs
    BY <1>7 DEF EndCollect, sharedVars
  <2>2. Cardinality(Existing) <= HeldBound
    BY <2>1, HeldCount
  <2>3. Existing' = Existing
    BY <2>1 DEF Existing, FreeJobs
  <2>4. CreationsLeft' = 3 * ChunkCount
    BY <2>1 DEF CreationsLeft
  <2>5. Cardinality(Existing') + CreationsLeft' <= JobBound
    <3>1. Cardinality(Existing') <= HeldBound
      BY <2>2, <2>3
    <3>2. ChunkCount \in Nat
      BY ChunkFacts
    <3>3. QED
      BY <1>1, <1>3, <2>4, <3>1, <3>2
  <2>6. QED
    BY <2>5 DEF BoundInv
<1>8. QED
  BY <1>5, <1>6, <1>7

LEMMA JobsCounted == Spec => [](NoLeaks /\ BoundInv)
<1>1. Init => NoLeaks /\ BoundInv
  <2> SUFFICES ASSUME Init PROVE NoLeaks /\ BoundInv
    OBVIOUS
  <2>1. Existing = {} /\ CreationsLeft = 0
    BY DEF Init, Existing, FreeJobs, CreationsLeft
  <2>2. Cardinality(Existing) = 0
    BY <2>1, FS_EmptySet
  <2>3. JobBound \in Nat
    BY ChunkFacts, SchedulingAssumption, PipelineAssumption, FS_CardinalityType
       DEF JobBound, HeldBound
  <2>4. QED
    BY <2>1, <2>2, <2>3 DEF NoLeaks, BoundInv
<1>2. IInv /\ IInv' /\ NoLeaks /\ BoundInv /\ [Next]_vars => NoLeaks' /\ BoundInv'
  BY NoLeakStep, BoundStep
<1>3. QED
  BY Invariant, <1>1, <1>2, PTL DEF Spec

\* However many edits, passes and failures: the jobs that exist at a time are
\* bounded.  collectFinishedJobs() empties the completed queue, a pass creates
\* a job for a chunk at most once for the urgent window, the viewport and the
\* scan, and the last reference to a job frees it.
THEOREM JobsAreBounded == Spec => [](Cardinality(Jobs \ FreeJobs) <= JobBound)
<1>1. IInv /\ BoundInv => Cardinality(Jobs \ FreeJobs) <= JobBound
  <2> SUFFICES ASSUME IInv, BoundInv PROVE Cardinality(Existing) <= JobBound
    BY DEF Existing
  <2>1. Cardinality(Existing) \in Nat /\ CreationsLeft \in Nat
    BY JobsCount, CreationsTyped DEF IInv
  <2>2. JobBound \in Nat
    BY ChunkFacts, SchedulingAssumption, PipelineAssumption, FS_CardinalityType
       DEF JobBound, HeldBound
  <2>3. QED
    BY <2>1, <2>2 DEF BoundInv
<1>2. QED
  BY Invariant, JobsCounted, <1>1, PTL

\* The types of all variables, and that a model with more jobs than that bound
\* never keeps scheduleChunk() from creating one.
THEOREM TypesHold ==
  ASSUME MaxJobs > JobBound
  PROVE  Spec => []TypeOK
<1>1. IInv /\ Cardinality(Jobs \ FreeJobs) <= JobBound => TypeOK
  <2> SUFFICES ASSUME IInv, Cardinality(Jobs \ FreeJobs) <= JobBound PROVE TypeOK
    OBVIOUS
  <2>1. Typed
    BY DEF IInv
  <2>2. FreeJobs # {}
    <3> SUFFICES ASSUME FreeJobs = {} PROVE FALSE
      OBVIOUS
    <3>1. Jobs \ FreeJobs = Jobs
      OBVIOUS
    <3>2. MaxJobs <= JobBound /\ MaxJobs \in Nat
      BY <3>1, JobsCount, PipelineAssumption
    <3>3. JobBound \in Nat
      BY ChunkFacts, SchedulingAssumption, PipelineAssumption, FS_CardinalityType
         DEF JobBound, HeldBound
    <3>4. QED
      BY <3>2, <3>3
  <2>3. QED
    BY <2>1, <2>2 DEF TypeOK
<1>2. QED
  BY Invariant, JobsAreBounded, <1>1, PTL

=============================================================================
