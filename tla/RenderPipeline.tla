--------------------------- MODULE RenderPipeline ---------------------------
(***************************************************************************)
(* From a chunk without current content to the render cache: the scheduler *)
(* creates a job, splits it into tiles, queues and dispatches them; a pool *)
(* of workers renders the tiles; the worker of the last tile returns the   *)
(* job, and the scheduler stores it (Scheduler.cpp, ActiveRenderJobs.cpp,  *)
(* RenderCache.cpp, Executor.cpp, RenderTaskProcessor.cpp, Renderer.cpp).  *)
(*                                                                         *)
(* A step of the scheduler touches one chunk, one tile or one completion.  *)
(* The flag, the counter and the versions it shares with the workers may   *)
(* change between any two of its steps.  Playback is seen as a position    *)
(* that every pass reads anew and a lead of published blocks.              *)
(***************************************************************************)
EXTENDS Scheduling, Sequences, FiniteSets

CONSTANTS
    Worker,             \* the threads of the pool
    TaskCapacity,       \* renderTasksQueueCapacity
    Playheads,          \* positions currentFrame() may return to a pass
    Leads,              \* values readyLeadBlocks() may return to the gate
    FirstViewportEnd,   \* the viewport a scheduler is constructed with
    Viewports,          \* the <<first, last>> regions SetViewport names
    EditRegions,        \* the <<first, last>> regions Edit commands name
    MaxJobs,            \* bound on the jobs that exist at a time
    MaxVersion,         \* bound on the edits of a chunk
    MaxFailures         \* bound on the renderer failures

ASSUME PipelineAssumption ==
    /\ Worker # {} /\ IsFiniteSet(Worker)
    /\ TaskCapacity \in Nat \ {0}
    /\ Playheads \subseteq Boundaries
    /\ Leads \subseteq Nat
    /\ FirstViewportEnd \in Boundaries
    /\ Viewports \subseteq Int \X Int
    /\ EditRegions \subseteq Int \X Int
    /\ {MaxJobs, MaxVersion, MaxFailures} \subseteq Nat

VARIABLES
    control,            \* where the control thread is in start() or stop()
    \* shared with the workers
    version,            \* VersionTable
    jobs,               \* the RenderJobs some shared_ptr refers to
    tasks,              \* Executor::_renderTasksQueue
    completed,          \* Executor::_completedJobsQueue
    stopRequested,      \* Executor::_stopRequested
    worker,             \* where each worker is, with which task
    failures,           \* renderer failures so far
    \* owned by the scheduler thread
    scheduler,          \* where it is in schedulerLoop()
    playRequested,
    viewport,
    dirty,              \* _pendingClassificationsDirty
    playhead,           \* the position the last pass read
    gateOpen,           \* BackgroundRenderGate::_allowed
    activeJob,          \* ActiveRenderJobs::_jobs
    cache,              \* RenderCache::_cacheEntries
    pending,            \* _pendingTiles, in order of sequence
    buffer,             \* _reclassificationBuffer
    work,               \* chunks the pass has still to look at, or to invalidate
    retained,           \* makeRoomForUrgentChunk(): retainedTiles
    scanCursor,         \* _timelineScanCursorInChunks
    checkedChunks

sharedVars == <<version, jobs, tasks, completed, stopRequested, worker, failures>>
commandVars == <<playRequested, viewport, dirty>>
passVars == <<playhead, gateOpen, work, retained, scanCursor, checkedChunks>>
renderVars == <<activeJob, cache, pending, buffer>>
vars == <<control, sharedVars, scheduler, commandVars, passVars, renderVars>>

Jobs == 1 .. MaxJobs
NoJob == 0
Tiles == 0 .. TilesPerChunk - 1

\* samples holds the tiles that have been rendered, each with the version it was
\* rendered for.
Samples == SUBSET (Tiles \X Nat)
RenderJob == [chunk : Chunks, version : Nat, tilesRemaining : 0 .. TilesPerChunk,
              cancelled : BOOLEAN, samples : Samples]
Freed == [freed |-> TRUE]
Idle == [at |-> "idle", job |-> NoJob, tile |-> 0]
Exited == [Idle EXCEPT !.at = "exited"]

Init ==
    /\ control = "stopped"
    /\ version = [c \in Chunks |-> 1]
    /\ jobs = [j \in Jobs |-> Freed]
    /\ tasks = <<>>
    /\ completed = <<>>
    /\ stopRequested = FALSE
    /\ worker = [w \in Worker |-> Exited]
    /\ failures = 0
    /\ scheduler = "off"
    /\ playRequested = FALSE
    /\ viewport = <<0, FirstViewportEnd>>
    /\ dirty = TRUE
    /\ playhead = 0
    /\ gateOpen = TRUE
    /\ activeJob = [c \in Chunks |-> NoJob]
    /\ cache = [c \in Chunks |-> [version |-> 0, samples |-> {}]]
    /\ pending = <<>>
    /\ buffer = <<>>
    /\ work = <<>>
    /\ retained = 0
    /\ scanCursor = 0
    /\ checkedChunks = 0

-----------------------------------------------------------------------------
(***************************************************************************)
(* Jobs are shared: a job is freed with the last reference to it.          *)
(***************************************************************************)
JobsIn(seq) == {seq[i].job : i \in DOMAIN seq}
Referenced ==
    {activeJob[c] : c \in Chunks} \cup JobsIn(pending) \cup JobsIn(buffer)
    \cup JobsIn(tasks) \cup {completed[i] : i \in DOMAIN completed}
    \cup {worker[w].job : w \in Worker}

\* The jobs after a step: what it writes to them, less those it lets go of.
JobsAre(written) ==
    jobs' = [j \in Jobs |-> IF j \in Referenced' THEN written[j] ELSE Freed]

FreeJobs == {j \in Jobs : jobs[j] = Freed}
NewJob == CHOOSE j \in FreeJobs : \A k \in FreeJobs : j <= k

\* The jobs with those of a set cancelled.
Cancelling(set) ==
    [j \in Jobs |-> IF j \in set THEN [jobs[j] EXCEPT !.cancelled = TRUE]
                    ELSE jobs[j]]

SeqOfChunks(first, end) == [i \in 1 .. Larger(0, end - first) |-> first + i - 1]

cacheIsCurrent(chunk) == cache[chunk].version = version[chunk]

hasCurrent(chunk) ==
    /\ activeJob[chunk] # NoJob
    /\ jobs[activeJob[chunk]].version = version[chunk]
    /\ ~jobs[activeJob[chunk]].cancelled

\* ActiveRenderJobs::finish: the slot of the chunk is given up, if it is still
\* the job's; the job is usable unless it was cancelled.
finishedSlot(job) ==
    [c \in Chunks |-> IF activeJob[c] = job THEN NoJob ELSE activeJob[c]]
isActive(job) == activeJob[jobs[job].chunk] = job

\* RenderCache::store: samples of an older version are refused.
stored(chunk, ofVersion, samples) ==
    IF ofVersion = version[chunk]
    THEN [cache EXCEPT ![chunk] = [version |-> ofVersion, samples |-> samples]]
    ELSE cache

-----------------------------------------------------------------------------
(***************************************************************************)
(* The control thread: Engine::start and Engine::stop.                     *)
(***************************************************************************)
\* No thread runs.  Executor::start drops what the last run completed.
Start ==
    /\ control = "stopped"
    /\ control' = "running"
    /\ stopRequested' = FALSE
    /\ worker' = [w \in Worker |-> Idle]
    /\ completed' = <<>>
    /\ scheduler' = "commands"
    /\ playRequested' = FALSE
    /\ gateOpen' = TRUE
    /\ dirty' = TRUE
    /\ UNCHANGED <<version, tasks, failures, viewport, playhead, work, retained,
                   scanCursor, checkedChunks, renderVars>>
    /\ JobsAre(jobs)

\* Scheduler::stop, the thread having left its loop: every job that is pending
\* or active is cancelled.
StopScheduler ==
    /\ control = "running"
    /\ scheduler = "off"
    /\ control' = "schedulerStopped"
    /\ pending' = <<>>
    /\ activeJob' = [c \in Chunks |-> NoJob]
    /\ playRequested' = FALSE
    /\ gateOpen' = TRUE
    /\ scanCursor' = 0
    /\ dirty' = TRUE
    /\ UNCHANGED <<version, tasks, completed, stopRequested, worker, failures,
                   scheduler, viewport, playhead, work, retained, checkedChunks,
                   cache, buffer>>
    /\ JobsAre(Cancelling(JobsIn(pending) \cup {activeJob[c] : c \in Chunks}))

\* Executor::stop, up to the join: no queued task is executed any more.
StopExecutor ==
    /\ control = "schedulerStopped"
    /\ control' = "joining"
    /\ stopRequested' = TRUE
    /\ tasks' = <<>>
    /\ UNCHANGED <<version, completed, worker, failures, scheduler, commandVars,
                   passVars, renderVars>>
    /\ JobsAre(Cancelling(JobsIn(tasks)))

JoinWorkers ==
    /\ control = "joining"
    /\ \A w \in Worker : worker[w].at = "exited"
    /\ control' = "stopped"
    /\ UNCHANGED <<sharedVars, scheduler, commandVars, passVars, renderVars>>

Control == Start \/ StopScheduler \/ StopExecutor \/ JoinWorkers

-----------------------------------------------------------------------------
(***************************************************************************)
(* The scheduler thread: commands.                                         *)
(***************************************************************************)
Play ==
    /\ scheduler = "commands"
    /\ playRequested' = TRUE
    /\ dirty' = (dirty \/ ~playRequested)
    /\ UNCHANGED <<control, sharedVars, scheduler, viewport, passVars, renderVars>>

\* A Pause command, or the end of the timeline, which feedAudioQueue() finds.
Pause ==
    /\ scheduler \in {"commands", "admission"}
    /\ playRequested' = FALSE
    /\ dirty' = (dirty \/ playRequested)
    /\ UNCHANGED <<control, sharedVars, scheduler, viewport, passVars, renderVars>>

\* Where the seek leads is read by the next pass.
Seek ==
    /\ scheduler = "commands"
    /\ dirty' = TRUE
    /\ UNCHANGED <<control, sharedVars, scheduler, playRequested, viewport,
                   passVars, renderVars>>

SetViewport(region) ==
    /\ scheduler = "commands"
    /\ viewport' = <<clampTimelineBoundary(region[1]),
                    clampTimelineBoundary(Larger(region[1], region[2]))>>
    /\ dirty' = TRUE
    /\ UNCHANGED <<control, sharedVars, scheduler, playRequested, passVars,
                   renderVars>>

Edit(region) ==
    /\ scheduler = "commands"
    /\ \A c \in InvalidatedChunks(region[1], region[2]) : version[c] < MaxVersion
    /\ scheduler' = "invalidate"
    /\ work' = SeqOfChunks(firstInvalidated(region[1]),
                           lastInvalidated(region[1], region[2]) + 1)
    /\ UNCHANGED <<control, sharedVars, commandVars, playhead, gateOpen, retained,
                   scanCursor, checkedChunks, renderVars>>

\* invalidateVersions(), one chunk at a time.  A worker between the bump and the
\* store of the flag would give the job up as it does after both.
InvalidateChunk ==
    /\ scheduler = "invalidate"
    /\ work # <<>>
    /\ version' = [version EXCEPT ![Head(work)] = @ + 1]
    /\ jobs' = Cancelling({activeJob[Head(work)]})
    /\ work' = Tail(work)
    /\ UNCHANGED <<control, tasks, completed, stopRequested, worker, failures,
                   scheduler, commandVars, playhead, gateOpen, retained,
                   scanCursor, checkedChunks, renderVars>>

EndEdit ==
    /\ scheduler = "invalidate"
    /\ work = <<>>
    /\ scheduler' = "commands"
    /\ UNCHANGED <<control, sharedVars, commandVars, passVars, renderVars>>

\* The command queue is empty and shutdown is not requested.
EndCommands ==
    /\ scheduler = "commands"
    /\ scheduler' = "collect"
    /\ UNCHANGED <<control, sharedVars, commandVars, passVars, renderVars>>

\* Shutdown is requested, by Engine::stop or by a Stop command: the loop is left.
LeaveLoop ==
    /\ scheduler = "commands"
    /\ scheduler' = "off"
    /\ playRequested' = FALSE
    /\ UNCHANGED <<control, sharedVars, viewport, dirty, passVars, renderVars>>

Command ==
    \/ Play \/ Pause \/ Seek
    \/ \E region \in Viewports : SetViewport(region)
    \/ \E region \in EditRegions : Edit(region)

(***************************************************************************)
(* collectFinishedJobs().                                                  *)
(***************************************************************************)
\* Fault: a job that was cancelled is stored like any other.
CollectCancelledToo ==
    /\ scheduler = "collect"
    /\ completed # <<>>
    /\ LET job == Head(completed)
           done == jobs[job]
       IN  /\ cache' = IF isActive(job)
                       THEN stored(done.chunk, done.version, done.samples)
                       ELSE cache
           /\ activeJob' = finishedSlot(job)
    /\ completed' = Tail(completed)
    /\ UNCHANGED <<control, version, tasks, stopRequested, worker, failures,
                   scheduler, commandVars, passVars, pending, buffer>>
    /\ JobsAre(jobs)

\* Fault: whatever is returned is stored as what the chunk holds now.
CollectAsCurrent ==
    /\ scheduler = "collect"
    /\ completed # <<>>
    /\ LET job == Head(completed)
           done == jobs[job]
       IN  /\ cache' = IF isActive(job)
                       THEN stored(done.chunk, version[done.chunk], done.samples)
                       ELSE cache
           /\ activeJob' = finishedSlot(job)
    /\ completed' = Tail(completed)
    /\ UNCHANGED <<control, version, tasks, stopRequested, worker, failures,
                   scheduler, commandVars, passVars, pending, buffer>>
    /\ JobsAre(jobs)

\* A job that still owns its chunk and was not cancelled is stored.
CollectJob ==
    /\ scheduler = "collect"
    /\ completed # <<>>
    /\ LET job == Head(completed)
           done == jobs[job]
           usable == isActive(job) /\ ~done.cancelled
       IN  /\ cache' = IF usable
                       THEN stored(done.chunk, done.version, done.samples)
                       ELSE cache
           /\ activeJob' = finishedSlot(job)
    /\ completed' = Tail(completed)
    /\ UNCHANGED <<control, version, tasks, stopRequested, worker, failures,
                   scheduler, commandVars, passVars, pending, buffer>>
    /\ JobsAre(jobs)

EndCollect ==
    /\ scheduler = "collect"
    /\ completed = <<>>
    /\ scheduler' = "admission"
    /\ UNCHANGED <<control, sharedVars, commandVars, passVars, renderVars>>

\* Fault: a gate that closed while playback was requested stays closed after it.
AdmissionNotReset(readyLeadBlocks) ==
    /\ scheduler = "admission"
    /\ scheduler' = "pass"
    /\ gateOpen' = IF Policy = "Fifo" THEN TRUE
                   ELSE IF ~playRequested THEN gateOpen
                   ELSE GateAfter(gateOpen, readyLeadBlocks)
    /\ UNCHANGED <<control, sharedVars, commandVars, playhead, work, retained,
                   scanCursor, checkedChunks, renderVars>>

\* updateBackgroundAdmission().
UpdateBackgroundAdmission(readyLeadBlocks) ==
    /\ scheduler = "admission"
    /\ scheduler' = "pass"
    /\ gateOpen' = IF Policy = "Fifo" \/ ~playRequested THEN TRUE
                   ELSE GateAfter(gateOpen, readyLeadBlocks)
    /\ UNCHANGED <<control, sharedVars, commandVars, playhead, work, retained,
                   scanCursor, checkedChunks, renderVars>>

(***************************************************************************)
(* scheduleRenderJobs(): pending tiles are classified anew if something    *)
(* changed, then the urgent and the visible chunks are scheduled in order. *)
(***************************************************************************)
classified(tile, position) ==
    [tile EXCEPT !.classification =
        classifyChunk(jobs[tile.job].chunk, position, playRequested, viewport)]

playheadChunk(position) ==
    IF position < TotalFrames THEN frameToChunk(position) ELSE ChunkCount

\* Fault: only commands and a new playhead chunk count as a change.
WindowUnnoticed(position) ==
    dirty \/ playheadChunk(position) # playheadChunk(playhead)

ClassificationChanged(position) ==
    \/ dirty
    \/ playheadChunk(position) # playheadChunk(playhead)
    \/ urgentChunkEnd(position) # urgentChunkEnd(playhead)

VisibleChunks ==
    IF viewport[2] <= viewport[1] THEN <<>>
    ELSE SeqOfChunks(frameToChunk(viewport[1]),
                     Smaller(frameToChunk(Smaller(viewport[2], TotalFrames) - 1) + 1,
                             ChunkCount))

UrgentChunkSeq(position) ==
    IF ~playRequested \/ position = TotalFrames THEN <<>>
    ELSE SeqOfChunks(frameToChunk(position), urgentChunkEnd(position))

BeginPass(position) ==
    /\ scheduler = "pass"
    /\ scheduler' = "schedule"
    /\ pending' = IF Policy = "Priority" /\ ClassificationChanged(position)
                  THEN [i \in DOMAIN pending |-> classified(pending[i], position)]
                  ELSE pending
    /\ dirty' = FALSE
    /\ playhead' = position
    /\ work' = UrgentChunkSeq(position) \o VisibleChunks
    /\ checkedChunks' = 0
    /\ UNCHANGED <<control, sharedVars, playRequested, viewport, gateOpen,
                   retained, scanCursor, activeJob, cache, buffer>>

(***************************************************************************)
(* scheduleChunk().                                                        *)
(***************************************************************************)
classificationOf(chunk) ==
    classifyChunk(chunk, playhead, playRequested, viewport)
queueLimit(chunk) == pendingTileLimit(classificationOf(chunk).priority)

NeedsJob(chunk) == ~cacheIsCurrent(chunk) /\ ~hasCurrent(chunk)

\* Fault: room for a tile is taken for room for a chunk.
HasRoomForTile(limit) == Len(pending) < limit

HasRoom(limit) == Len(pending) + TilesPerChunk <= limit
NeedsRoom(chunk) ==
    /\ Policy = "Priority"
    /\ classificationOf(chunk).priority = Urgent
    /\ ~HasRoom(queueLimit(chunk))

TilesOf(job, chunk) ==
    [i \in 1 .. TilesPerChunk |->
        [job |-> job, tile |-> i - 1, classification |-> classificationOf(chunk)]]

\* The job takes the chunk's slot from a job it cancels.
CreateJob(chunk) ==
    LET job == NewJob
    IN  /\ FreeJobs # {}
        /\ activeJob' = [activeJob EXCEPT ![chunk] = job]
        /\ pending' = pending \o TilesOf(job, chunk)
        /\ JobsAre([Cancelling({activeJob[chunk]}) EXCEPT ![job] =
                      [chunk |-> chunk, version |-> version[chunk],
                       tilesRemaining |-> TilesPerChunk, cancelled |-> FALSE,
                       samples |-> {}]])

NoNewJob == UNCHANGED <<jobs, activeJob, pending>>

CreateIfRoom(chunk) == IF HasRoom(queueLimit(chunk)) THEN CreateJob(chunk)
                       ELSE NoNewJob

\* A chunk of the urgent or the visible pass that needs no room made for it.
ScheduleChunk ==
    /\ scheduler = "schedule"
    /\ work # <<>>
    /\ ~(NeedsJob(Head(work)) /\ NeedsRoom(Head(work)))
    /\ work' = Tail(work)
    /\ UNCHANGED <<control, version, tasks, completed, stopRequested, worker,
                   failures, scheduler, commandVars, playhead, gateOpen,
                   retained, scanCursor, checkedChunks, cache, buffer>>
    /\ IF NeedsJob(Head(work)) THEN CreateIfRoom(Head(work)) ELSE NoNewJob

(***************************************************************************)
(* makeRoomForUrgentChunk(): the tiles that are not cancelled are counted, *)
(* the least important jobs that are not urgent are cancelled until a      *)
(* chunk fits, and the tiles of cancelled jobs are retired.                *)
(***************************************************************************)
Ranked(i) == [classification |-> buffer[i].classification, sequence |-> i]
IsCancelled(tile) == jobs[tile.job].cancelled

BeginMakeRoom ==
    /\ scheduler = "schedule"
    /\ work # <<>>
    /\ NeedsJob(Head(work)) /\ NeedsRoom(Head(work))
    /\ scheduler' = "evict"
    /\ buffer' = pending
    /\ pending' = <<>>
    /\ retained' = Cardinality({i \in DOMAIN pending : ~IsCancelled(pending[i])})
    /\ UNCHANGED <<control, sharedVars, commandVars, playhead, gateOpen, work,
                   scanCursor, checkedChunks, activeJob, cache>>

\* The tiles an eviction may take, and those of them that are taken before the
\* i-th one.  The tiles of a job follow one another in order of precedence.
Evictable ==
    {i \in DOMAIN buffer : ~IsCancelled(buffer[i])
                           /\ buffer[i].classification.priority # Urgent}
TakenBefore(i) ==
    {k \in Evictable : buffer[k].job # buffer[i].job
                       /\ hasLowerPrecedence(Ranked(k), Ranked(i))}

\* Fault: the tiles of the chunk to come are forgotten.
EvictedTooFew ==
    {buffer[i].job : i \in
        {k \in Evictable : retained - Cardinality(TakenBefore(k)) > MaxPendingTiles}}

Evicted ==
    {buffer[i].job : i \in
        {k \in Evictable : retained - Cardinality(TakenBefore(k)) + TilesPerChunk
                             > MaxPendingTiles}}

Evict ==
    /\ scheduler = "evict"
    /\ scheduler' = "retire"
    /\ jobs' = Cancelling(Evicted)
    /\ UNCHANGED <<control, version, tasks, completed, stopRequested, worker,
                   failures, commandVars, passVars, renderVars>>

KeepTile ==
    /\ scheduler = "retire"
    /\ buffer # <<>>
    /\ ~IsCancelled(Head(buffer))
    /\ pending' = Append(pending, Head(buffer))
    /\ buffer' = Tail(buffer)
    /\ UNCHANGED <<control, sharedVars, scheduler, commandVars, passVars,
                   activeJob, cache>>

\* Fault: the tile is forgotten.
ForgetTile ==
    /\ scheduler = "retire"
    /\ buffer # <<>>
    /\ IsCancelled(Head(buffer))
    /\ buffer' = Tail(buffer)
    /\ UNCHANGED <<control, version, tasks, completed, stopRequested, worker,
                   failures, scheduler, commandVars, passVars, activeJob, cache,
                   pending>>
    /\ JobsAre(jobs)

\* A tile that no worker will render is accounted for here; with the last one
\* the job is finished.
RetireTile ==
    /\ scheduler = "retire"
    /\ buffer # <<>>
    /\ IsCancelled(Head(buffer))
    /\ LET job == Head(buffer).job
       IN  /\ activeJob' = IF jobs[job].tilesRemaining = 1 THEN finishedSlot(job)
                           ELSE activeJob
           /\ buffer' = Tail(buffer)
           /\ UNCHANGED <<control, version, tasks, completed, stopRequested,
                          worker, failures, scheduler, commandVars, passVars,
                          cache, pending>>
           /\ JobsAre([jobs EXCEPT ![job].tilesRemaining = @ - 1])

\* Back in scheduleChunk(), which looks again whether there is room.
EndMakeRoom ==
    /\ scheduler = "retire"
    /\ buffer = <<>>
    /\ scheduler' = "schedule"
    /\ work' = Tail(work)
    /\ retained' = 0
    /\ UNCHANGED <<control, version, tasks, completed, stopRequested, worker,
                   failures, commandVars, playhead, gateOpen, scanCursor,
                   checkedChunks, cache, buffer>>
    /\ CreateIfRoom(Head(work))

EndSchedule ==
    /\ scheduler = "schedule"
    /\ work = <<>>
    /\ scheduler' = "scan"
    /\ UNCHANGED <<control, sharedVars, commandVars, passVars, renderVars>>

(***************************************************************************)
(* The round-robin scan fills what is left of the non-urgent capacity.     *)
(***************************************************************************)
MayScan ==
    /\ HasRoom(pendingTileLimit(Background))
    /\ checkedChunks < Smaller(ChunkCount, MaxPendingTiles \div TilesPerChunk)

\* Fault: a scan that finds nothing to do begins at the same chunk again.
ScanChunkAgain ==
    /\ scheduler = "scan"
    /\ MayScan
    /\ scanCursor' = IF NeedsJob(scanCursor) THEN (scanCursor + 1) % ChunkCount
                     ELSE scanCursor
    /\ checkedChunks' = checkedChunks + 1
    /\ UNCHANGED <<control, version, tasks, completed, stopRequested, worker,
                   failures, scheduler, commandVars, playhead, gateOpen, work,
                   retained, cache, buffer>>
    /\ IF NeedsJob(scanCursor) THEN CreateIfRoom(scanCursor) ELSE NoNewJob

ScanChunk ==
    /\ scheduler = "scan"
    /\ MayScan
    /\ scanCursor' = (scanCursor + 1) % ChunkCount
    /\ checkedChunks' = checkedChunks + 1
    /\ UNCHANGED <<control, version, tasks, completed, stopRequested, worker,
                   failures, scheduler, commandVars, playhead, gateOpen, work,
                   retained, cache, buffer>>
    /\ IF NeedsJob(scanCursor) THEN CreateIfRoom(scanCursor) ELSE NoNewJob

EndScan ==
    /\ scheduler = "scan"
    /\ ~MayScan
    /\ scheduler' = "dispatch"
    /\ checkedChunks' = 0
    /\ UNCHANGED <<control, sharedVars, commandVars, playhead, gateOpen, work,
                   retained, scanCursor, renderVars>>

(***************************************************************************)
(* dispatchPendingTiles(): the first tile in order of precedence, as long  *)
(* as the workers can take more.  Only the scheduler adds to the executor's*)
(* queue, so the count it read is an upper bound when it submits.          *)
(***************************************************************************)
RankedPending(i) == [classification |-> pending[i].classification, sequence |-> i]
Top == CHOOSE i \in DOMAIN pending :
          \A k \in DOMAIN pending \ {i} :
              hasLowerPrecedence(RankedPending(k), RankedPending(i))

MayDispatch ==
    /\ pending # <<>>
    /\ Len(tasks) < Cardinality(Worker)
    /\ Len(tasks) < TaskCapacity
    /\ gateOpen \/ pending[Top].classification.priority # Background

DispatchTile ==
    /\ scheduler = "dispatch"
    /\ MayDispatch
    /\ tasks' = Append(tasks, [job |-> pending[Top].job, tile |-> pending[Top].tile])
    /\ pending' = [i \in 1 .. Len(pending) - 1 |->
                      pending[IF i < Top THEN i ELSE i + 1]]
    /\ UNCHANGED <<control, version, jobs, completed, stopRequested, worker,
                   failures, scheduler, commandVars, passVars, activeJob, cache,
                   buffer>>

EndDispatch ==
    /\ scheduler = "dispatch"
    /\ ~MayDispatch
    /\ scheduler' = "commands"
    /\ UNCHANGED <<control, sharedVars, commandVars, passVars, renderVars>>

SchedulerLoop ==
    \/ InvalidateChunk \/ EndEdit
    \/ CollectJob \/ EndCollect
    \/ \E lead \in Leads : UpdateBackgroundAdmission(lead)
    \/ \E position \in Playheads : BeginPass(position)
    \/ ScheduleChunk \/ EndSchedule
    \/ BeginMakeRoom \/ Evict \/ KeepTile \/ RetireTile \/ EndMakeRoom
    \/ ScanChunk \/ EndScan
    \/ DispatchTile \/ EndDispatch

-----------------------------------------------------------------------------
(***************************************************************************)
(* The workers: Executor::workerLoop, RenderTaskProcessor::process and     *)
(* Renderer::renderTile.  The periodic looks for cancellation while a tile *)
(* is rendered find nothing the last one would not find.                   *)
(***************************************************************************)
TakeTask(w) ==
    /\ worker[w].at = "idle"
    /\ ~stopRequested
    /\ tasks # <<>>
    /\ worker' = [worker EXCEPT ![w] = [at |-> "check", job |-> Head(tasks).job,
                                        tile |-> Head(tasks).tile]]
    /\ tasks' = Tail(tasks)
    /\ UNCHANGED <<control, version, jobs, completed, stopRequested, failures,
                   scheduler, commandVars, passVars, renderVars>>

ExitWorker(w) ==
    /\ worker[w].at = "idle"
    /\ stopRequested
    /\ worker' = [worker EXCEPT ![w] = Exited]
    /\ UNCHANGED <<control, version, jobs, tasks, completed, stopRequested,
                   failures, scheduler, commandVars, passVars, renderVars>>

shouldCancel(job) ==
    \/ stopRequested
    \/ jobs[job].cancelled
    \/ version[jobs[job].chunk] # jobs[job].version

workerOnly == <<control, version, tasks, completed, stopRequested, scheduler,
                commandVars, passVars, renderVars>>

\* The look before the tile is rendered, or before the next frames of it are.
BeginRender(w) ==
    /\ worker[w].at = "check"
    /\ ~shouldCancel(worker[w].job)
    /\ worker' = [worker EXCEPT ![w].at = "render"]
    /\ UNCHANGED <<workerOnly, jobs, failures>>

\* Fault: a tile that was given up is tried again.
GiveUpRetrying(w) ==
    /\ worker[w].at \in {"check", "render"}
    /\ shouldCancel(worker[w].job)
    /\ worker' = [worker EXCEPT ![w].at = "check"]
    /\ jobs' = Cancelling({worker[w].job})
    /\ UNCHANGED <<workerOnly, failures>>

GiveUp(w) ==
    /\ worker[w].at \in {"check", "render"}
    /\ shouldCancel(worker[w].job)
    /\ worker' = [worker EXCEPT ![w].at = "finish"]
    /\ jobs' = Cancelling({worker[w].job})
    /\ UNCHANGED <<workerOnly, failures>>

\* The last frame is rendered and the look after it finds nothing.
EndRender(w) ==
    /\ worker[w].at = "render"
    /\ ~shouldCancel(worker[w].job)
    /\ worker' = [worker EXCEPT ![w].at = "finish"]
    /\ jobs' = [jobs EXCEPT ![worker[w].job].samples =
                            @ \cup {<<worker[w].tile, jobs[worker[w].job].version>>}]
    /\ UNCHANGED <<workerOnly, failures>>

\* Fault: the worker survives, but what the renderer threw ends the tile.
FailRenderSilently(w) ==
    /\ worker[w].at = "render"
    /\ failures < MaxFailures
    /\ failures' = failures + 1
    /\ worker' = [worker EXCEPT ![w] = Idle]
    /\ UNCHANGED workerOnly
    /\ JobsAre(jobs)

\* The renderer throws: the job is cancelled, the tile still finishes.
FailRender(w) ==
    /\ worker[w].at = "render"
    /\ failures < MaxFailures
    /\ failures' = failures + 1
    /\ worker' = [worker EXCEPT ![w].at = "finish"]
    /\ jobs' = Cancelling({worker[w].job})
    /\ UNCHANGED workerOnly

\* Fault: the worker of the last tile but one returns the job as well.
FinishTileEarly(w) ==
    /\ worker[w].at = "finish"
    /\ worker' = [worker EXCEPT ![w] =
                     IF jobs[worker[w].job].tilesRemaining <= 2
                     THEN [@ EXCEPT !.at = "publish"] ELSE Idle]
    /\ UNCHANGED <<workerOnly, failures>>
    /\ JobsAre([jobs EXCEPT ![worker[w].job].tilesRemaining = @ - 1])

\* fetch_sub: exactly one worker, or the scheduler, sees the last tile go.
FinishTile(w) ==
    /\ worker[w].at = "finish"
    /\ worker' = [worker EXCEPT ![w] =
                     IF jobs[worker[w].job].tilesRemaining = 1
                     THEN [@ EXCEPT !.at = "publish"] ELSE Idle]
    /\ UNCHANGED <<workerOnly, failures>>
    /\ JobsAre([jobs EXCEPT ![worker[w].job].tilesRemaining = @ - 1])

PublishCompleted(w) ==
    /\ worker[w].at = "publish"
    /\ completed' = Append(completed, worker[w].job)
    /\ worker' = [worker EXCEPT ![w] = Idle]
    /\ UNCHANGED <<control, version, jobs, tasks, stopRequested, failures,
                   scheduler, commandVars, passVars, renderVars>>

WorkerStep(w) ==
    \/ TakeTask(w) \/ ExitWorker(w)
    \/ BeginRender(w) \/ GiveUp(w) \/ EndRender(w) \/ FailRender(w)
    \/ FinishTile(w) \/ PublishCompleted(w)

Next ==
    \/ Control
    \/ Command \/ LeaveLoop \/ EndCommands
    \/ SchedulerLoop
    \/ \E w \in Worker : WorkerStep(w)

Spec == Init /\ [][Next]_vars

(***************************************************************************)
(* Fairness.  The threads are scheduled, and Engine::stop goes on once it  *)
(* has begun.  Commands are not posted faster than they are handled for    *)
(* ever.  A tile that is rendered again and again without being cancelled  *)
(* does not fail for ever: MaxFailures bounds the failures.                *)
(***************************************************************************)
Fairness ==
    /\ WF_vars(SchedulerLoop)
    /\ SF_vars(EndCommands)
    /\ \A w \in Worker : WF_vars(WorkerStep(w))
    /\ WF_vars(StopExecutor \/ JoinWorkers)

FairSpec == Spec /\ Fairness

-----------------------------------------------------------------------------
(***************************************************************************)
(* Properties.                                                             *)
(***************************************************************************)
PendingTile == [job : Jobs, tile : Tiles, classification : Classification]

\* Every variable stays in its type, and the pending queue within the storage
\* that was reserved for it.
Typed ==
    /\ control \in {"stopped", "running", "schedulerStopped", "joining"}
    /\ version \in [Chunks -> Nat]
    /\ jobs \in [Jobs -> RenderJob \cup {Freed}]
    /\ tasks \in Seq([job : Jobs, tile : Tiles]) /\ Len(tasks) <= TaskCapacity
    /\ completed \in Seq(Jobs)
    /\ stopRequested \in BOOLEAN
    /\ worker \in [Worker -> [at : {"idle", "exited", "check", "render", "finish",
                                    "publish"},
                              job : Jobs \cup {NoJob}, tile : Tiles]]
    /\ failures \in Nat
    /\ scheduler \in {"off", "commands", "invalidate", "collect", "admission",
                      "pass", "schedule", "evict", "retire", "scan", "dispatch"}
    /\ playRequested \in BOOLEAN
    /\ viewport \in Boundaries \X Boundaries
    /\ dirty \in BOOLEAN
    /\ playhead \in Boundaries
    /\ gateOpen \in BOOLEAN
    /\ activeJob \in [Chunks -> Jobs \cup {NoJob}]
    /\ cache \in [Chunks -> [version : Nat, samples : Samples]]
    /\ pending \in Seq(PendingTile)
    /\ buffer \in Seq(PendingTile)
    /\ Len(pending) + Len(buffer) <= MaxPendingTiles
    /\ work \in Seq(Chunks)
    /\ retained \in 0 .. MaxPendingTiles
    /\ scanCursor \in Chunks
    /\ checkedChunks \in 0 .. ChunkCount

\* The types, and that MaxJobs bounds nothing: a job is never out of reach.
TypeOK == Typed /\ FreeJobs # {}

\* The tiles of a job that are still to be finished, wherever they are.
TilesIn(seq, job) == Cardinality({i \in DOMAIN seq : seq[i].job = job})
Unfinished(job) ==
    TilesIn(pending, job) + TilesIn(buffer, job) + TilesIn(tasks, job)
    + Cardinality({w \in Worker : worker[w].job = job /\ worker[w].at # "publish"})

\* While the engine runs no tile of a job is lost or finished twice, whoever of
\* the workers, the dispatcher and makeRoomForUrgentChunk() handles it: a job
\* that lost one would block its chunk, one that finished one twice would be
\* stored incomplete.  A shutdown may only lose tiles of cancelled jobs.
TilesAccounted ==
    \A j \in Jobs \ FreeJobs :
        /\ Unfinished(j) <= jobs[j].tilesRemaining
        /\ control = "running" \/ ~jobs[j].cancelled =>
              Unfinished(j) = jobs[j].tilesRemaining

\* A job is returned once, and then no worker writes to the samples the
\* scheduler is about to copy.
CompletedOnce ==
    \A i \in DOMAIN completed :
        /\ Unfinished(completed[i]) = 0
        /\ \A k \in DOMAIN completed \ {i} : completed[k] # completed[i]
        /\ \A w \in Worker : worker[w].job # completed[i]

\* What the cache hands to the publisher as current was rendered completely:
\* no tile of it failed, was given up, or belongs to an older version.
CacheIsComplete ==
    \A c \in Chunks :
        cacheIsCurrent(c) => cache[c].samples = Tiles \X {version[c]}

\* The classification of a pending tile, computed in this pass or an earlier
\* one, is the one the tile has now, up to the distance to the playhead.
ClassificationsAreCurrent ==
    Policy = "Priority"
    /\ scheduler \in {"schedule", "evict", "retire", "scan", "dispatch"} =>
        \A i \in DOMAIN (pending \o buffer) :
            LET tile == (pending \o buffer)[i]
                now == classificationOf(jobs[tile.job].chunk)
            IN  /\ tile.classification.priority = now.priority
                /\ tile.classification.deadlineFrame = now.deadlineFrame

\* After the urgent pass every chunk playback needs soon is cached or being
\* rendered, unless urgent tiles alone leave it no room: background and visible
\* work never keeps it out.  A chunk whose render failed during the pass waits
\* for the next pass, hence failures = 0.
UrgentChunksAdmitted ==
    /\ failures = 0
    /\ Policy = "Priority" /\ playRequested /\ scheduler \in {"scan", "dispatch"}
    => \A c \in UrgentWindow(playhead) :
          \/ cacheIsCurrent(c)
          \/ hasCurrent(c)
          \/ /\ scheduler = "scan" => ~HasRoom(MaxPendingTiles)
             /\ \A i \in DOMAIN pending :
                   /\ pending[i].classification.priority = Urgent
                   /\ ~IsCancelled(pending[i])

\* "The exclusive end must include every chunk touched by the prebuffer range":
\* the urgent window covers what must be published before playback starts.
UrgentWindowCoversPrebuffer ==
    \A f \in playhead .. playhead + prebufferFrames(playhead) - 1 :
        frameToChunk(f) \in UrgentWindow(playhead)

\* A chunk that stays urgent is rendered, whatever is pending before it.
UrgentChunkIsRendered ==
    \A c \in Chunks :
        scheduler # "off" /\ playRequested /\ c \in UrgentWindow(playhead)
            ~> \/ cacheIsCurrent(c)
               \/ scheduler = "off" \/ ~playRequested
               \/ c \notin UrgentWindow(playhead)

\* Every chunk is rendered in time, one that is neither urgent nor visible too,
\* where no gate holds back background work.
BackgroundIsRendered ==
    \A c \in Chunks :
        scheduler # "off" ~> cacheIsCurrent(c) \/ scheduler = "off"

\* Engine::stop returns: every worker gives up what it renders and exits.
StopTerminates == control \in {"schedulerStopped", "joining"} ~> control = "stopped"

=============================================================================
