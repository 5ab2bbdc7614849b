# ANASA in TLA+

ANASA renders audio ahead of playback. A scheduler thread decides which chunks of a finite
timeline to render, a pool of workers renders them tile by tile, and an audio thread plays
them block by block while the user plays, pauses, seeks and edits. This directory holds
TLA+ models of the parts whose correctness depends on how these threads interleave, the
TLC runs that check them on small instances, and TLAPS proofs for every instance.

Paths below are relative to the repository's `src/` directory unless they start with `tests/`.

## 1. The system

### Threads and what they share

| thread | code | owns | shares |
|---|---|---|---|
| control | `engine/Engine.cpp` | lifecycle flags | `SharedState::stop`, `playing` (clears it), the command queue (producer) |
| scheduler | `scheduler/Scheduler.cpp` | play request, publisher position, render cache, active jobs, pending tiles, background gate | `playing`, `targetFrame`, `generation` (writes), the cursor (reads), the command queue (consumer), the ready-audio queue (producer), versions, jobs, the executor's queues |
| audio | `audio/AudioBlockProcessor.cpp`, `audio/simulator/` | adopted generation, expected frame | `nextUnconsumedFrame`, `audioCursorGeneration` (writes), ready-audio queue (consumer) |
| workers | `execution/`, `render/` | the tile in hand | task and completion queues (mutexes), `RenderJob::tilesRemaining`, `cancelled`, `samples`, versions |

### Components, their state and operations

* **SpscQueue** (`utils/queues/SpscQueue.hpp`): two atomic counters that wrap, a slot position
  private to each side. `pushWith`, `front`, `pop`, `reset`. Hard: each side decides on an old
  value of the other's counter. Correct: a bounded FIFO; producer and consumer never in one slot.
* **Playback handshake** (`playback/PlaybackProtocol.cpp`, `PlaybackController.cpp`,
  `SharedState`): `beginGeneration` stores a target and bumps the generation; `currentFrame`
  loads generation, tag and cursor or target; `requestPlay`, `pause`, `startIfReady`. Hard: two
  loads against two stores on both sides; `Engine::stop` and the scheduler both write `playing`.
* **TimelineAudioPublisher**: one position; `reset`, `publish`, `readyLeadBlocks`. Hard: the
  consumer may be ahead of it. Correct: the lead it reports is audio that really is queued.
* **AudioBlockProcessor / AudioSimulator**: adopt a generation, drop stale blocks (at most
  `capacity` of them), play the exact block or silence, advance. Hard: everything may change
  between two of its accesses.
* **Scheduler decisions** (`classifyChunk`, `urgentChunkEnd`, `pendingTileLimit`,
  `scheduler/policies/`, `BackgroundRenderGate`): pure functions and one flag. Correct: the
  urgent window covers the prebuffer.
* **Scheduler passes**: `collectFinishedJobs`, `updateBackgroundAdmission`, urgent, visible and
  round-robin passes, `makeRoomForUrgentChunk`, `dispatchPendingTiles`. Hard: classifications
  kept from older passes, eviction of jobs whose other tiles are being rendered.
* **ActiveRenderJobs, RenderCache, VersionTable**: one job slot, one entry, one version per
  chunk. Correct: what `findCurrent` returns was rendered completely for the current version.
* **Executor, RenderTaskProcessor, Renderer**: two queues, a condition variable, a tile counter
  per job, cancellation, exceptions, sessions. Correct: every accepted tile is counted once or
  dropped by a shutdown, every job returned once and to its own session, no wake-up is lost,
  `stop` ends.
* **Engine**: starts executor, scheduler, audio; stops scheduler, audio, executor; posts
  commands. Hard: each start may throw, a Stop command ends both threads while the engine still
  counts as started, the audio thread makes up for missed periods. Correct: nothing runs after a
  stop or a failed start, and commands are handled in order, once, in their own session.
* Not modelled: `SyntheticRenderKernel`, `AudioBuffer` (sample values), the old queues, the
  benchmarks, metrics and the wall clock.

The hazards this leads to are listed one by one, at their lines, in `PROJECT.json`.

## 2. The modules

```
BoundedFifo   <- implemented by -  SpscQueue    <- SpscQueueProofs
Timeline      <- Playback       <- MCPlayback,  PlaybackProofs (with TimelineLemmas)
Timeline      <- Scheduling     <- RenderPipeline <- MCRenderPipeline,
                                                   RenderJobProofs (with TimelineLemmas)
                                                      <- SchedulerProofs
                                   RenderPipeline <- Streaming <- MCStreaming,
                                                   StreamingProofs (with SchedulerProofs)
Transport     <- implemented by -  Playback     (proved in PlaybackProofs)
Transport     <- implemented by -  Streaming    (proved in StreamingProofs)
WorkerPool    <- implemented by -  Executor     <- ExecutorProofs
Engine        <- EngineProofs
```

**BoundedFifo** is what the queue promises: append while there is room, look at the oldest item,
remove it. **SpscQueue** is the ring: every access to an atomic or to a slot is a step. A load of
the other side's counter may return anything between the last value this side saw and the newest
one (what C++ coherence allows an acquire load). While the producer's fill callback runs its slot
holds `Torn`. `Items` maps the ring to the abstract queue.

**Timeline** has the arithmetic of `PlaybackTimeline.hpp` and `RenderFrameUtils.hpp`, and the
region an edit invalidates.

**Playback** has the three threads of the playback half. `control`, `scheduler` and `audio` say
where each thread is; the other variables are the fields they are named after. Each load or store
of a shared atomic that another thread can tell apart is an action: `StoreTarget` and
`BumpGeneration` are `beginGeneration`; `LoadGeneration`, `LoadTarget`, `StoreCursor`, `StoreTag`
are the adoption; the `...ReadsTag` and `...ReadsFrame` pairs are the calls of `currentFrame`.
Rendering is any set of chunks that may have completed between two passes.

Steps that are merged, and why nothing is lost:

* The ready queue is a sequence. `SpscQueue` implements `BoundedFifo`, so a push or a pop takes
  effect at its counter's store. What a stale load adds is a refusal of a push that would have
  fitted, or an empty front although a block was just published: the same as the same call a
  moment earlier.
* In the drain loop `front()` and `pop()` are one step: only the callback removes blocks, and the
  head it looked at is still the head. The copy out of the block and its `pop()` are one step for
  the same reason; that the producer cannot write the block meanwhile is `NoSlotOverlap`.
* `startIfReady` loads `playing` and stores TRUE in one step. Only `Engine::stop` writes `playing`
  concurrently, and it only clears it: a clear between load and store either is overwritten (the
  order clear-then-step of the model) or finds `playing` set already and is final.
* `_stopRequested` of scheduler and simulator is merged with `stop`, which is set first.
* `version` and `cached` are private to the scheduler in this half, so `Edit` changes them at once.

**Transport** is what playback promises, without threads, generations and queues: one position, how
far audio is published from it, whether playback is requested and enabled, and whether a callback
has been granted a block it will take even if the permission is withdrawn meanwhile. An `Edit`
never skips audio, `Feed` publishes forward and no further than the queue is long, and gives the
permission only when requested and prebuffered. Two slacks of the code are stated there: a callback
that has begun may take one block of the prebuffer, and while the engine stops the permission counts
on what was published before (`JoinScheduler` withdraws it). `Playback` implements it: the position
is the one the current generation is heard at next (`HeardNext`), and a Seek or Edit takes effect
when its target is stored, not when the generation is bumped (`Repositioned`).

**Scheduling** holds the decisions that keep no state. **RenderPipeline** has the scheduler's side
of rendering and the workers. A step of the scheduler touches one chunk, one tile or one
completion; a worker's tile is `TakeTask`, `BeginRender`, `EndRender` (or `GiveUp`, `FailRender`),
`FinishTile` (the `fetch_sub`), `PublishCompleted`. A job exists while something refers to it
(`Referenced`), as its `shared_ptr` count says, so job identities are reused only when the code
could free the job. `samples` records which tiles were rendered for which version; a tile that
was given up or failed is not in it.

Merged here: `InvalidateChunk` bumps a version and sets the job's flag (a worker between the two
gives up because of the version, as it would because of the flag); the cancelling loop of
`makeRoomForUrgentChunk` is one step after the count (`BeginMakeRoom`) has been taken, since only
the scheduler reads the result; the periodic checks inside a tile are the checks before and after
it, which see everything they would. The pending queue is kept in order of submission and ranked
when a tile is chosen, which is what the comparator does with the sequence numbers. A playhead is
any position, the lead any number (`Playheads`, `Leads`): both come from the playback half, and
taking all of them is more than it does. Reaching the end of the timeline pauses like a `Pause`
command.

**Streaming** puts both halves together: it extends `RenderPipeline` by position, publication and
playback, so that the playhead of a pass and the lead the gate sees are those playback has got
to, and what is published is what was rendered. Seen without position and publication it
implements `RenderPipeline` (`ImplementsPipeline`), so what holds there holds here. The handshake
is reduced to its outcome, one position that scheduler and callback agree on; `Playback` has its
steps, and both implement the same `Transport`. One feed of the queue publishes as far as the cache
and the room go. An edit keeps the code's order: `EditCommand` begins it, `InvalidateChunk` bumps
one version at a time, and only `RestartStream` takes back what was published. In between the
callback goes on with the old stream, and what it finds there may be one edit behind:
`ReadyAudioIsCurrent` allows that in the state `invalidate` and nowhere else, and nothing older,
as `CurrentAudioIsUpToDate` does with the same window in `Playback`.

**WorkerPool** is what `IRenderExecutor` promises: phases of a session, what becomes of each tile
(accepted, finished, dropped) and of each job (open, returned, delivered, forgotten).
**Executor** is the code: a critical section of a mutex is a step, a notification is a step of its
own after the mutex is released. A worker is at the mutex (`lock`), asleep on the condition
variable (`waiting`), in a tile (`process`), or on its way to the completion queue (`publish`).
A thread that cannot be created ends a `start` in a `stop`. `Pool` maps queues and threads to the
abstract pool.

**Engine** has the control thread (start, a start that throws at any of the three threads, stop,
post), the scheduler's loop over its command queue, and the audio thread's clock. The pool is on
or off here, a pass is one step, commands are a Stop or another. `due` is the number of periods
that are over when the audio thread wakes. Position and content of a command are in `Playback`.

Lines marked `Fault:` define the mutated form of the definition that follows; they are used by
no specification.

## 3. The runs

| run | states | properties | what it shows |
|---|---|---|---|
| `spsc_queue` | 22 thousand | `TypeOK`, `NoSlotOverlap`, `PopAfterFrontSucceeds`, `ImplementsFifo` | the ring is a bounded FIFO with stale loads and wrapping counters |
| `playback_safety` | 11 million | `TypeOK`, `ReadyAudioIsContiguous`, `CurrentAudioIsUpToDate`, `SilentWhenStopped`, `SchedulerViewAdvances`, `PrebufferedAtStart`, `ImplementsTransport` | three generations, any seek or edit, restarts, callbacks two generations behind: the queue holds what the scheduler counts, and the three threads move one position, one publication and one permission |
| `playback_live` | 0.5 million | `PlayEventuallyStarts`, `PlaybackEventuallyEnds` | with edits that rebuffer, prebuffering cannot stall, and playback ends |
| `playback_underrun` | violation | `UnderrunMeansMissing` | the finding below |
| `pipeline_tiles` | 1.3 million | `TilesAccounted`, `CompletedOnce`, `CacheIsComplete` | two workers race for a job's counter, with a failure, a shutdown that drops tasks, restarts, and eviction of jobs that still wait |
| `pipeline_edits` | 2.7 million | `UrgentChunksAdmitted`, `TilesAccounted`, `CacheIsComplete` | three chunks, room for two: urgent chunks take the room of the others, also of one that has a tile at the worker; edits at any moment, up to a job that is complete for the content of before |
| `pipeline_order` | 2.8 million | `TypeOK`, `ClassificationsAreCurrent` | all passes with gate, changing viewports (one empty), edits and any playhead |
| `pipeline_fifo` | 0.3 million | `UrgentChunkIsRendered`, `BackgroundIsRendered`, `StopTerminates` | in FIFO order urgent chunks get through without eviction, the scan reaches every chunk, and shutdown joins a worker in the middle of a tile |
| `streaming_safety` | 3.8 million | `ReadyAudioIsCurrent`, `AwaitedChunkIsAdmitted`, `ImplementsPipeline` | with the real position and lead, any commands, visible work and a render that fails: what is queued is complete and current but for the edit being handled, the chunk playback waits for is admitted, every step is one `RenderPipeline` allows |
| `streaming_live` | 0.8 million | `RequestedPlaybackEnds`, `BackgroundIsRendered` | with a render that fails, requested playback gets its chunks and ends, and what the gate holds back is rendered in the end |
| `executor` | 0.3 million | `TypeOK`, `NoTaskIsSleptThrough`, `TaskIsServed`, `StopReturns`, `ImplementsPool` | no wake-up is lost, stop returns, the pool is what the scheduler relies on |
| `engine` | 19 thousand | `TypeOK`, `LifecycleOrder`, `CommandsKeepOrder`, `OneLateCallback`, `AcceptedIsHandled`, `ShutdownEndsThreads` | failed starts, shutdown by either thread, refused and dropped commands, missed periods |

### Bounds

* `SpscQueue`: three slots and counters modulo four. The counters may differ by 0 to 3, so every
  difference occurs, the wrap falls at every slot, and the capacity does not divide the modulus.
  The theorems cover every capacity and modulus.
* `Playback`: three blocks in two chunks, the last one shorter; a queue of two blocks, which can
  be full of stale blocks and is as large as the prebuffer. `MaxGeneration` bounds `Seek` and
  `Edit`; two generations reach every race between one reset and the callback, three those of a
  callback that lags by two. Seeks are before, in (unaligned) and after the timeline; edits touch
  one chunk or both. Edits let playback go on in `playback_safety` and rebuffer in
  `playback_live`, which names one seek and one edit. Restarts are unbounded.
* `RenderPipeline`: two chunks of two tiles, the second chunk shorter; in `pipeline_edits` three
  chunks, the least number that lets two urgent chunks meet a third one in the pending queue.
  `MaxPendingTiles` holds less than all chunks where eviction has to happen, and all of them
  elsewhere; `UrgentReservedTiles` is its least value. `MaxJobs` is one more than `JobBound`, which
  bounds the jobs that can exist (`JobsAreBounded`), so it keeps none from being created; `MaxVersion` bounds `Edit`, `MaxFailures` the exceptions. Two workers
  make every race on one job's counter possible. What `pipeline_tiles` evicts still has all its
  tiles pending: with three slots for tiles and two chunks, the chunk that gives way is the one no
  worker has got to. The eviction of a job that is partly dispatched is in `pipeline_edits`, whose
  one worker renders and counts a tile down while the scheduler retires the others. Edits run with
  one worker and failures with two: together, or two workers with evictions of partly dispatched
  jobs, they are beyond the time of a run (more than 15 million states), and the theorems
  (`TilesAreAccounted`, `JobsReturnOnce`, `CacheHoldsWholeChunks`) cover the combination.
  That tiles which are not urgent leave the urgent reserve alone is no invariant: a tile that was
  admitted as urgent keeps its place when it is classified anew. `TypeOK` bounds the total.
* `Streaming`: in `streaming_safety` three frames in two chunks, two commands a session, edits of
  the first chunk, a viewport on the second, and one failure; `MaxJobs` as above. In
  `streaming_live` two chunks of a frame, nothing visible, so that the second chunk is background
  work until it becomes urgent, seeks to it, and one failure. At the start two blocks of lead are
  possible, at the end only one, which is below the high-water mark: the gate has to be opened
  again by the end of playback.
* `Executor`: three workers, two jobs of two tiles, a queue of two. A notification can find none,
  one or two workers asleep, the queue gets full, and two workers race for a job's counter while
  the third sleeps. Sessions are unbounded. The theorems cover any number.
* `Engine`: two slots, four commands a session (`MaxPosts`), so the queue is full while a command
  is held and another follows; three periods due at once (`MaxDue`). Sessions are unbounded.

### Fairness

Each thread is scheduled (weak fairness of its steps), and the control thread finishes a start or
stop it has begun; it need not begin one, and need not post any command. `SF(NoCommand)` and
`SF(EndCommands)` say that commands are not posted faster than the scheduler handles them for
ever: `readCommands` would not return otherwise. `SF(CollectUrgentChunk)` in `Playback` says that
the chunk publication waits for is eventually rendered. `UrgentChunkIsRendered` and
`PrebufferIsUrgent` show why for the other half alone (the chunk is in the urgent window
as long as less than the prebuffer is published), and `RequestedPlaybackEnds` of `Streaming` shows
it without the assumption, with the position and the lead playback really has. In
`RenderPipeline` and `Streaming` a worker that renders a tile finishes it or fails, failures are
finite, and so are the commands of a session.

In `Executor` every thread gets the mutex in the end, the owner finishes a start or stop it has
begun and the client a submit; nobody has to begin one. Spurious wake-ups happen but are not
fair: no task is served thanks to one. In `Engine` each thread runs and the control thread
finishes a call it has begun; post and stop are never due.

### The finding

`AudioBlockProcessor::processBlock` looks at the queue (line 68) before it loads `playing` (line
83). If the scheduler publishes the prebuffer and enables playback between the two, the callback
finds playback enabled and has no head: it reports an underrun and moves on, although the block is
queued. `README.md:106` of the repository calls an underrun "a missing required block". The block
is then dropped as stale, so queue and position stay consistent (`ReadyAudioIsContiguous` holds);
the first block of playback is not heard.

## 4. The proofs

All from the assumptions the modules name (`CapacityAssumption`, `ValueAssumption`,
`TimelineAssumption`, `PlaybackAssumption`, `SchedulingAssumption`, `PipelineAssumption`,
`StreamingAssumption`, `ExecutorAssumption`, `EngineAssumption`: what the constructors check), for every value of the constants.

* **SpscQueueProofs.** `IInv` adds to the types that the number of items never exceeds the
  capacity, that the slot positions differ by that number modulo the capacity, and that a
  remembered counter lies between the other side's counter and its newest value. That last part is
  why an old value is safe, and none of the invariants is inductive without it. From it follow
  `TypeCorrect`, `SlotsDisjoint`, `PopSucceeds`. `Refinement` maps the ring to the sequence of
  items between the counters and shows each step to be one of `BoundedFifo` or a stutter.
* **TimelineLemmas.** Division, alignment, and where clamped positions land.
* **PlaybackProofs.** `TypeInv` strengthens `TypeOK` by alignment of positions (a block that
  starts within the timeline ends within it, so positions never pass the end), by which threads
  are joined in which state of `control`, and by the head a callback has seen still being there.
  `PermissionInv` gives `PlayingRequested` and `StoppedIsSilent`. `CursorInv` is the handshake:
  outside an adoption the tag is the callback's generation, a tag that matches vouches for the
  cursor, and what the scheduler knows never exceeds what it would read next; `ViewIsMonotone`
  follows. `ContentInv` adds that no queued block is of a future generation; `AudioIsUpToDate`
  follows. `AudioIsContiguous`: `Contiguous` says of a queue, a generation and two positions that
  counted from the end the live blocks are the first `LeadFrom(next, position)`, each at the frame
  its place demands. Lemmas about it alone, without the threads, cover the ways a step can move the
  stream: a block is published (`PublishIsContiguous`), the position advances by a block
  (`AdvanceIsContiguous`), a stale head is dropped (`DropIsContiguous`), or nothing is live any more
  (`NothingLiveIsContiguous`); `NextStream` then sorts the steps of the three threads under them.
  `StartHasPrebuffer` rests on `StartInv`: while playback is disabled nobody advances by more than
  the one block of a callback that had begun before, so the lead `startIfReady` counted is short by
  one block at most when it enables playback.
  `TransportRefinement` shows every step of the three threads to be one of `Transport` or a stutter.
  Most steps stutter: adoption, drain, tags and loads change no position that is heard
  (`AudioMoves`: only `Consume` moves the current one). Three facts about the rest carry the proof.
  `RepositionInv`: while the scheduler is on its way to store an Edit's target, callbacks may only
  have moved past it, and for a Seek playback has been disabled first, so no audio is skipped.
  `CursorInv`: what the scheduler read is never ahead of what is heard, so publication lands within
  the queue's reach (`PublicationMoves`; that the lead is no longer than the queue is
  `ReadyAudioIsContiguous`). `StartInv`: `StartIsAllowed`, the permission has its prebuffer.
* **RenderJobProofs.** Decisions first. `WindowCoversPrebuffer` is arithmetic: the prebuffer ends within the
  timeline, so its last frame has a chunk, division keeps the order of frames, and the window ends
  after that chunk. With the invariant that the playhead is a position of the timeline, which only
  `BeginPass` could disturb, it gives `PrebufferIsUrgent`. `PrecedenceIsTotal` is about the
  comparators alone, with deadline, distance and sequence as any numbers.
  Then the life of a job. One inductive invariant, `IInv`, for any number of workers, tiles, chunks,
  jobs and failures, gives `PipelineTypes`, `TilesAreAccounted`, `JobsReturnOnce` and
  `CacheHoldsWholeChunks`. Next to the types its parts are: `WorkersHoldJobs` (a worker has a job
  exactly while it works on a tile) and `Phases` (what a shutdown and each phase of a pass have
  left behind), without which the counts cannot be followed through `stop`; `NothingDangles` (what
  refers to a job finds it allocated, so an identity taken anew is nobody's: `NewJobIsFree`);
  `TilesAccounted` (a job's counter is the number of its tiles in `pending`, the urgent buffer, the
  task queue and the workers' hands); `ReturnedOnce` (a job that is returned or about to be has no
  tile left and is returned in one place); `TilesRendered` (a job nobody cancelled has rendered each
  tile for its own version or has it still to come), from which the last tile makes a chunk
  complete; `CacheIsSound` (no cached chunk is ahead of its version). Lemmas about sequences count
  what a head, an append, a removal in the middle and an eviction do to the tiles of one job
  (`TailCount`, `AppendCount`, `RemoveCount`); there is one lemma per action, and `StepHolds` puts
  them together.
* **SchedulerProofs.** `LabelsInv`: with `dirty` clear each pending or buffered tile has the
  priority and the deadline `classifyChunk` gives now. What moves the playhead, the viewport or the
  request to play within an old classification either sets `dirty` or changes neither the
  playhead's chunk nor the end of the urgent window, and then no chunk is classified differently
  (`SameLabels`); and a job keeps its chunk as long as a tile refers to it (`ChunksKept`).
  `ClassificationsStayCurrent` follows. `UrgentChunksAreAdmitted` adds three invariants. `SlotsInv`:
  a job that has tiles left and was not cancelled has its chunk's slot and the chunk's version, so
  a visible or background tile that is evicted takes no urgent chunk's slot with it. `RunningInv`:
  the executor runs while the scheduler does.
  `PassInv` follows one pass: the room `makeRoomForUrgentChunk` counts is the room there is, once
  it has cancelled tiles there is room for a chunk or only urgent tiles are left, and the urgent
  chunks scheduled before are kept out by urgent tiles only. That an eviction makes the room it
  promises is seen from the tile that would go next (`WeakestOf`): every weaker evictable tile has
  gone, and this one stayed because the room was enough.
  `JobsAreBounded` rests on two more. `NoLeaks`: every job that exists is referenced, the converse
  of `NothingDangles`. `BoundInv`: the jobs that exist and those the pass may still create
  (`CreationsLeft`) are at most `JobBound`: one for each slot, pending tile, queued task and
  worker (`HeldBound`), and three for each chunk, which the urgent window, the viewport and the
  scan may each create in one pass before the completed queue is emptied again. That queue alone
  has no limit of its own; `HeldCount` says what is left when `collectFinishedJobs` has emptied it.
  `TypesHold` concludes that `TypeOK` holds whenever `MaxJobs` exceeds that bound, as it does in
  every run: `MaxJobs` bounds the model only, the code's jobs live on the heap.
* **StreamingProofs.** `PipelineRefinement`: the position a pass reads is a position of the
  timeline and the lead the gate sees is at most the queue's capacity (`PositionInv`: the cursor
  and what is published are aligned, on the timeline, and publication is no more than a queue
  ahead), so each step is one of `RenderPipeline`, and every theorem about that holds of the two
  halves together. On it rest two properties that neither half can state.
  `ReadyAudioStaysCurrent`: blocks are published from current cache entries, which are complete
  (`CacheIsComplete`); nothing is stored while an edit is handled, so an entry that goes out of
  date there keeps its samples and is one version behind. `PublishedInv` says so of every published
  block (`Audible`): its chunk is current, or is no longer among the chunks the edit has yet to
  bump. For "one version" it needs `BumpedOnce`: no chunk is bumped twice for one edit. The window
  ends with `RestartStream`, which empties the published range. `AwaitedChunkAdmitted`:
  while playback waits, less than the prebuffer is published (`WaitInv`), so the frame publication
  waits for is in the prebuffer, its chunk in the urgent window, and `UrgentChunksAdmitted` speaks
  of it.
  `StreamingIsTransport`: what is left out of the handshake does not take `Streaming` beyond what
  `Transport` allows. It needs that nothing is requested or enabled while the scheduler is off
  (`SilenceInv`) and that what playback starts on is the prebuffer or the end of the timeline
  (`LeadHoldsPrebuffer`). No run checks `Streaming`'s `ImplementsTransport`; TLC finds it to hold
  under `MCStreaming_safety.cfg`, too.
* **ExecutorProofs.** `IInv` has four parts besides the types. `PhaseInv`: the queue is empty
  unless the pool serves, and nobody sleeps while `stop` joins. `TileInv`: an accepted task is
  queued, in one worker's hands, or counted, never two of them, and a job's counter is the number
  of its tiles not yet counted; without it the counter could run below zero. `JobInv`: a job is on
  its way back in one place, after its last tile. The last part is `NoTaskIsSleptThrough` itself,
  which is inductive next to them: a submit adds a task and a notification, a notification makes a
  worker awake or finds nobody asleep, a worker that falls asleep has seen the queue empty.
  `Refinement` shows every step to be one of `WorkerPool` or a stutter: taking a task is invisible,
  counting it is `Finish`, the push of the last worker is `Return`.
* **EngineProofs.** `PhaseInv` says which threads run in which phase of the control thread, and
  that a component's `_started` flag says whether its thread exists: with it each `stop` joins
  what has to be joined, also on the path of a failed start (`LifecycleIsOrdered`).
  `CommandInv` is the order of commands with the command in hand and the queue left empty by a
  stop (`CommandsAreInOrder`). `CatchUpInv`: a thread that sleeps or is about to call back has made
  no late callback, and one that has made one sees the request before the next (`CatchUpEnds`).

Every safety property and every refinement the passing runs check is a theorem. `PlayingRequested`
and `PrebufferIsUrgent` are theorems no run repeats: the first follows from `ImplementsTransport`,
the second is what `AwaitedChunkIsAdmitted` rests on. Only model-checked:
the liveness properties, which with ENABLED are out of the prover's reach, as is induction over
what a recursive definition computes.

## 5. Not modelled, and the plan

Not modelled, and why:

* sample values and their storage (`SyntheticRenderKernel`, `AudioBuffer`): pure functions and a
  container, which no control depends on. The models keep for which version a tile was rendered;
* `playbackSnapshot` and the metrics: reads for the caller, nothing in the engine decides on them;
* the 32-bit width of frames: the constructor bounds the timeline, and no position exceeds its
  end (`TypeCorrect` of `Playback`), so no sum leaves the range by more than a block;
* the durations of the audio clock: the models let any number of periods pass;
* a setting with `maxPendingTiles` equal to `urgentReservedTiles`, which never renders visible
  or background chunks: the code accepts it and promises nothing about it;
* the old queues, benchmarks and build files, which are not part of the engine.

What would come next is the refinement of `WorkerPool` by the workers of `RenderPipeline`
(`Executor` implements it already).
