------------------------------ MODULE Playback ------------------------------
(***************************************************************************)
(* The playback handshake.  Three threads meet over the atomics of         *)
(* SharedState and over the ready-audio queue:                             *)
(*                                                                         *)
(*   - the control thread starts and stops the engine (Engine.cpp);        *)
(*   - the scheduler thread handles commands, publishes rendered blocks in *)
(*     timeline order and enables playback (Scheduler.cpp, Playback*.cpp,  *)
(*     TimelineAudioPublisher.cpp);                                        *)
(*   - the audio thread runs one callback after another                    *)
(*     (AudioBlockProcessor.cpp, AudioSimulator.cpp).                      *)
(*                                                                         *)
(* Every load or store of a shared atomic, every push and every pop is a   *)
(* step of its own.  Rendering is seen from the scheduler: between two     *)
(* passes any set of chunks may have been completed.                       *)
(***************************************************************************)
EXTENDS Timeline, Sequences, FiniteSets

CONSTANTS
    PrebufferBlocks,    \* blocks to publish before playback is enabled
    RebufferOnEdit,     \* does an Edit suspend playback until rebuffered?
    ReadyCapacity,      \* capacity of the ready-audio queue
    SeekFrames,         \* the positions Seek commands name
    EditRegions,        \* the <<first, last>> regions Edit commands name
    MaxGeneration       \* bound on the playback generations explored

ASSUME PlaybackAssumption ==
    /\ ReadyCapacity \in Nat \ {0}
    /\ PrebufferBlocks \in 0 .. ReadyCapacity
    /\ RebufferOnEdit \in BOOLEAN
    /\ SeekFrames \subseteq Int
    /\ EditRegions \subseteq Int \X Int
    /\ MaxGeneration \in Nat \ {0}

VARIABLES
    control,                \* where the control thread is in start() or stop()
    \* SharedState: atomics
    stop, playing, generation, targetFrame, nextUnconsumedFrame,
    audioCursorGeneration,
    readyQueue,             \* _readyAudioQueue, oldest block first
    \* owned by the scheduler thread
    scheduler,              \* where it is in schedulerLoop()
    playRequested,          \* PlaybackController::_playRequested
    nextFrameToPublish,     \* TimelineAudioPublisher::_nextFrameToPublish
    frame,                  \* what currentFrame() returned, or a reset target
    tagMatches,             \* currentFrame(): cursorGeneration == generation
    version,                \* VersionTable
    cached,                 \* the chunks findCurrent() finds
    \* owned by the audio thread
    audio,                  \* where it is in processBlock()
    audioGeneration,        \* _audioState.generation
    expected,               \* _audioState.expectedBlockStartFrame
    looks,                  \* iterations of the stale-block loop
    headSeen                \* head != nullptr

sharedVars == <<stop, playing, generation, targetFrame, nextUnconsumedFrame,
                audioCursorGeneration, readyQueue>>
renderVars == <<version, cached>>
schedulerVars == <<scheduler, playRequested, nextFrameToPublish, frame,
                   tagMatches, renderVars>>
audioVars == <<audio, audioGeneration, expected, looks, headSeen>>
vars == <<control, sharedVars, schedulerVars, audioVars>>

Block == [generation : Nat, firstFrame : Frames, version : Nat]

Init ==
    /\ control = "stopped"
    /\ stop = FALSE
    /\ playing = FALSE
    /\ generation = 1
    /\ targetFrame = 0
    /\ nextUnconsumedFrame = 0
    /\ audioCursorGeneration = 1
    /\ readyQueue = <<>>
    /\ scheduler = "off"
    /\ playRequested = FALSE
    /\ nextFrameToPublish = 0
    /\ frame = 0
    /\ tagMatches = FALSE
    /\ version = [c \in Chunks |-> 1]
    /\ cached = {}
    /\ audio = "off"
    /\ audioGeneration = 0
    /\ expected = 0
    /\ looks = 0
    /\ headSeen = FALSE

-----------------------------------------------------------------------------
(***************************************************************************)
(* The control thread: Engine::start and Engine::stop.                     *)
(***************************************************************************)
\* PlaybackProtocol::currentFrame() when no other thread runs.
CurrentFrameAtRest ==
    clampTimelineBoundary(IF audioCursorGeneration = generation
                          THEN nextUnconsumedFrame ELSE targetFrame)

\* No thread runs: the queue is reset and the scheduler thread starts from the
\* position the last run left.
StartScheduler ==
    /\ control = "stopped"
    /\ control' = "starting"
    /\ readyQueue' = <<>>
    /\ stop' = FALSE
    /\ playing' = FALSE
    /\ playRequested' = FALSE
    /\ frame' = CurrentFrameAtRest
    /\ nextFrameToPublish' = CurrentFrameAtRest
    /\ scheduler' = "loop"
    /\ UNCHANGED <<generation, targetFrame, nextUnconsumedFrame,
                   audioCursorGeneration, tagMatches, renderVars, audioVars>>

StartAudio ==
    /\ control = "starting"
    /\ control' = "running"
    /\ audio' = "idle"
    /\ UNCHANGED <<sharedVars, schedulerVars, audioGeneration, expected, looks,
                   headSeen>>

RequestStop ==
    /\ control = "running"
    /\ control' = "silencing"
    /\ stop' = TRUE
    /\ UNCHANGED <<playing, generation, targetFrame, nextUnconsumedFrame,
                   audioCursorGeneration, readyQueue, schedulerVars, audioVars>>

Silence ==
    /\ control = "silencing"
    /\ control' = "joiningScheduler"
    /\ playing' = FALSE
    /\ UNCHANGED <<stop, generation, targetFrame, nextUnconsumedFrame,
                   audioCursorGeneration, readyQueue, schedulerVars, audioVars>>

JoinScheduler ==
    /\ control = "joiningScheduler"
    /\ scheduler = "off"
    /\ control' = "joiningAudio"
    /\ playRequested' = FALSE
    /\ UNCHANGED <<sharedVars, scheduler, nextFrameToPublish, frame, tagMatches,
                   renderVars, audioVars>>

JoinAudio ==
    /\ control = "joiningAudio"
    /\ audio = "off"
    /\ control' = "stopped"
    /\ UNCHANGED <<sharedVars, schedulerVars, audioVars>>

Control == StartScheduler \/ StartAudio \/ RequestStop \/ Silence
           \/ JoinScheduler \/ JoinAudio

-----------------------------------------------------------------------------
(***************************************************************************)
(* The scheduler thread: schedulerLoop() and readCommands().               *)
(***************************************************************************)
ShutdownRequested == stop

\* The part of the state a scheduler step that only moves on leaves alone.
schedulerOnly == <<playRequested, nextFrameToPublish, frame, tagMatches,
                   renderVars>>

\* while (!shutdownRequested()): around the loop or out of it.
LoopTop ==
    /\ scheduler = "loop"
    /\ scheduler' = IF ShutdownRequested THEN "exit" ELSE "commands"
    /\ UNCHANGED <<control, sharedVars, schedulerOnly, audioVars>>

\* readCommands() finds the command queue empty.
NoCommand ==
    /\ scheduler = "commands"
    /\ scheduler' = "check"
    /\ UNCHANGED <<control, sharedVars, schedulerOnly, audioVars>>

\* readCommands() looks for shutdown after each command.
NextCommand ==
    /\ scheduler = "next"
    /\ scheduler' = IF ShutdownRequested THEN "check" ELSE "commands"
    /\ UNCHANGED <<control, sharedVars, schedulerOnly, audioVars>>

\* schedulerLoop() looks for shutdown after readCommands().
CheckShutdown ==
    /\ scheduler = "check"
    /\ scheduler' = IF ShutdownRequested THEN "exit" ELSE "collect"
    /\ UNCHANGED <<control, sharedVars, schedulerOnly, audioVars>>

\* Fault: the thread ends without withdrawing the permission to play.
ExitPlaying ==
    /\ scheduler = "exit"
    /\ scheduler' = "off"
    /\ playRequested' = FALSE
    /\ UNCHANGED <<control, sharedVars, nextFrameToPublish, frame, tagMatches,
                   renderVars, audioVars>>

\* The loop is left and the thread ends with pause().
Exit ==
    /\ scheduler = "exit"
    /\ scheduler' = "off"
    /\ playRequested' = FALSE
    /\ playing' = FALSE
    /\ UNCHANGED <<control, stop, generation, targetFrame, nextUnconsumedFrame,
                   audioCursorGeneration, readyQueue, nextFrameToPublish,
                   frame, tagMatches, renderVars, audioVars>>

(***************************************************************************)
(* handleCommand().  The control thread may have posted any command;       *)
(* SetViewport moves no playback state.                                    *)
(***************************************************************************)
Play ==
    /\ scheduler = "commands"
    /\ scheduler' = "next"
    /\ playRequested' = TRUE
    /\ UNCHANGED <<control, sharedVars, nextFrameToPublish, frame, tagMatches,
                   renderVars, audioVars>>

Pause ==
    /\ scheduler = "commands"
    /\ scheduler' = "next"
    /\ playRequested' = FALSE
    /\ playing' = FALSE
    /\ UNCHANGED <<control, stop, generation, targetFrame, nextUnconsumedFrame,
                   audioCursorGeneration, readyQueue, nextFrameToPublish,
                   frame, tagMatches, renderVars, audioVars>>

\* Seek starts a generation at the block boundary before the position named.
Seek(position) ==
    /\ scheduler = "commands"
    /\ generation < MaxGeneration
    /\ scheduler' = "suspend"
    /\ frame' = SeekTarget(position)
    /\ UNCHANGED <<control, sharedVars, playRequested, nextFrameToPublish,
                   tagMatches, renderVars, audioVars>>

\* Fault: the content changes without a new generation.
EditKeepingStream(region) ==
    /\ scheduler = "commands"
    /\ generation < MaxGeneration
    /\ scheduler' = "next"
    /\ LET changed == InvalidatedChunks(region[1], region[2])
       IN  /\ version' = [c \in Chunks |->
                             version[c] + IF c \in changed THEN 1 ELSE 0]
           /\ cached' = cached \ changed
    /\ UNCHANGED <<control, sharedVars, playRequested, nextFrameToPublish,
                   frame, tagMatches, audioVars>>

\* Edit invalidates the rendered content of the region and the context around
\* it, then starts a generation at currentFrame().
Edit(region) ==
    /\ scheduler = "commands"
    /\ generation < MaxGeneration
    /\ scheduler' = "editTag"
    /\ LET changed == InvalidatedChunks(region[1], region[2])
       IN  /\ version' = [c \in Chunks |->
                             version[c] + IF c \in changed THEN 1 ELSE 0]
           /\ cached' = cached \ changed
    /\ UNCHANGED <<control, sharedVars, playRequested, nextFrameToPublish,
                   frame, tagMatches, audioVars>>

StopCommand ==
    /\ scheduler = "commands"
    /\ scheduler' = "next"
    /\ stop' = TRUE
    /\ UNCHANGED <<control, playing, generation, targetFrame,
                   nextUnconsumedFrame, audioCursorGeneration, readyQueue,
                   schedulerOnly, audioVars>>

Command ==
    \/ Play
    \/ Pause
    \/ \E position \in SeekFrames : Seek(position)
    \/ \E region \in EditRegions : Edit(region)
    \/ StopCommand

(***************************************************************************)
(* PlaybackProtocol::beginGeneration(frame, suspend) and the publisher's   *)
(* reset, one store at a time.                                             *)
(***************************************************************************)
Suspend ==
    /\ scheduler = "suspend"
    /\ scheduler' = "target"
    /\ playing' = FALSE
    /\ UNCHANGED <<control, stop, generation, targetFrame, nextUnconsumedFrame,
                   audioCursorGeneration, readyQueue, schedulerOnly, audioVars>>

StoreTarget ==
    /\ scheduler = "target"
    /\ scheduler' = "bump"
    /\ targetFrame' = frame
    /\ UNCHANGED <<control, stop, playing, generation, nextUnconsumedFrame,
                   audioCursorGeneration, readyQueue, schedulerOnly, audioVars>>

\* Fault: the publisher goes on from where the old generation was.
BumpGenerationOnly ==
    /\ scheduler = "bump"
    /\ scheduler' = "next"
    /\ generation' = generation + 1
    /\ UNCHANGED <<control, stop, playing, targetFrame, nextUnconsumedFrame,
                   audioCursorGeneration, readyQueue, schedulerOnly, audioVars>>

BumpGeneration ==
    /\ scheduler = "bump"
    /\ scheduler' = "next"
    /\ generation' = generation + 1
    /\ nextFrameToPublish' = frame
    /\ UNCHANGED <<control, stop, playing, targetFrame, nextUnconsumedFrame,
                   audioCursorGeneration, readyQueue, playRequested, frame,
                   tagMatches, renderVars, audioVars>>

(***************************************************************************)
(* PlaybackProtocol::currentFrame(): the tag is loaded, then the cursor or *)
(* the target.  The scheduler is the only writer of generation.            *)
(***************************************************************************)
ReadTag(from, to) ==
    /\ scheduler = from
    /\ scheduler' = to
    /\ tagMatches' = (audioCursorGeneration = generation)
    /\ UNCHANGED <<control, sharedVars, playRequested, nextFrameToPublish,
                   frame, renderVars, audioVars>>

CurrentFrame == clampTimelineBoundary(IF tagMatches THEN nextUnconsumedFrame
                                      ELSE targetFrame)

EditReadsTag == ReadTag("editTag", "editFrame")

\* Edit: shouldRebufferOnEdit() decides whether playback is suspended.
EditReadsFrame ==
    /\ scheduler = "editFrame"
    /\ scheduler' = IF playRequested /\ RebufferOnEdit THEN "suspend"
                    ELSE "target"
    /\ frame' = CurrentFrame
    /\ UNCHANGED <<control, sharedVars, playRequested, nextFrameToPublish,
                   tagMatches, renderVars, audioVars>>

(***************************************************************************)
(* collectFinishedJobs() and feedAudioQueue().                             *)
(***************************************************************************)
\* Any set of renderings of current content may have completed.
CollectFinishedJobs(finished) ==
    /\ scheduler = "collect"
    /\ scheduler' = "feedTag"
    /\ cached' = cached \cup finished
    /\ UNCHANGED <<control, sharedVars, playRequested, nextFrameToPublish,
                   frame, tagMatches, version, audioVars>>

FeedReadsTag == ReadTag("feedTag", "feedFrame")

FeedReadsFrame ==
    /\ scheduler = "feedFrame"
    /\ scheduler' = "feed"
    /\ frame' = CurrentFrame
    /\ UNCHANGED <<control, sharedVars, playRequested, nextFrameToPublish,
                   tagMatches, renderVars, audioVars>>

\* Fault: the end of the timeline is not noticed.
TimelineEndUnnoticed ==
    /\ scheduler = "feed"
    /\ frame >= TotalFrames
    /\ scheduler' = "loop"
    /\ UNCHANGED <<control, sharedVars, schedulerOnly, audioVars>>

\* The whole timeline is consumed: publish nothing more and pause.
TimelineEnd ==
    /\ scheduler = "feed"
    /\ frame >= TotalFrames
    /\ scheduler' = "loop"
    /\ nextFrameToPublish' = TotalFrames
    /\ playRequested' = FALSE
    /\ playing' = FALSE
    /\ UNCHANGED <<control, stop, generation, targetFrame, nextUnconsumedFrame,
                   audioCursorGeneration, readyQueue, frame, tagMatches,
                   renderVars, audioVars>>

\* Fault: publication goes back to the cursor instead of forward to it.
BeginPublishAtCursor ==
    /\ scheduler = "feed"
    /\ frame < TotalFrames
    /\ scheduler' = "publish"
    /\ nextFrameToPublish' = frame
    /\ UNCHANGED <<control, sharedVars, playRequested, frame, tagMatches,
                   renderVars, audioVars>>

\* publish(): what the consumer has passed is not published any more.
BeginPublish ==
    /\ scheduler = "feed"
    /\ frame < TotalFrames
    /\ scheduler' = "publish"
    /\ nextFrameToPublish' = Larger(nextFrameToPublish, frame)
    /\ UNCHANGED <<control, sharedVars, playRequested, frame, tagMatches,
                   renderVars, audioVars>>

CanPublish ==
    /\ nextFrameToPublish <= TotalFrames - AudioBlockFrames
    /\ frameToChunk(nextFrameToPublish) \in cached
    /\ Len(readyQueue) < ReadyCapacity

PublishBlock ==
    /\ scheduler = "publish"
    /\ CanPublish
    /\ readyQueue' = Append(readyQueue,
           [generation |-> generation, firstFrame |-> nextFrameToPublish,
            version |-> version[frameToChunk(nextFrameToPublish)]])
    /\ nextFrameToPublish' = nextFrameToPublish + AudioBlockFrames
    /\ UNCHANGED <<control, stop, playing, generation, targetFrame,
                   nextUnconsumedFrame, audioCursorGeneration, scheduler,
                   playRequested, frame, tagMatches, renderVars, audioVars>>

EndPublish ==
    /\ scheduler = "publish"
    /\ ~CanPublish
    /\ scheduler' = "leadTag"
    /\ UNCHANGED <<control, sharedVars, schedulerOnly, audioVars>>

LeadReadsTag == ReadTag("leadTag", "leadFrame")

LeadReadsFrame ==
    /\ scheduler = "leadFrame"
    /\ scheduler' = "start"
    /\ frame' = CurrentFrame
    /\ UNCHANGED <<control, sharedVars, playRequested, nextFrameToPublish,
                   tagMatches, renderVars, audioVars>>

\* Fault: the lead is counted from the start of the timeline.
readyLeadBlocksFromStart(from) == nextFrameToPublish \div AudioBlockFrames

readyLeadBlocks(from) ==
    Larger(0, nextFrameToPublish - from) \div AudioBlockFrames

\* Fault: the end of the timeline cannot be prebuffered.
EnoughPublishedForPrebuffer == readyLeadBlocks(frame) >= PrebufferBlocks

EnoughPublished ==
    \/ readyLeadBlocks(frame) >= PrebufferBlocks
    \/ nextFrameToPublish >= TotalFrames

\* PlaybackController::startIfReady().
StartIfReady ==
    /\ scheduler = "start"
    /\ scheduler' = "loop"
    /\ playing' = (playing \/ (playRequested /\ EnoughPublished))
    /\ UNCHANGED <<control, stop, generation, targetFrame, nextUnconsumedFrame,
                   audioCursorGeneration, readyQueue, schedulerOnly, audioVars>>

Feed ==
    \/ FeedReadsTag \/ FeedReadsFrame \/ TimelineEnd \/ BeginPublish
    \/ PublishBlock \/ EndPublish
    \/ LeadReadsTag \/ LeadReadsFrame \/ StartIfReady

SchedulerLoop ==
    \/ LoopTop \/ NoCommand \/ NextCommand \/ CheckShutdown \/ Exit
    \/ EditReadsTag \/ EditReadsFrame
    \/ Suspend \/ StoreTarget \/ BumpGeneration
    \/ Feed

SchedulerStep ==
    \/ SchedulerLoop
    \/ Command
    \/ \E finished \in SUBSET Chunks : CollectFinishedJobs(finished)

-----------------------------------------------------------------------------
(***************************************************************************)
(* The audio thread: AudioSimulator's clock calls processBlock() again and *)
(* again until the engine stops.                                           *)
(***************************************************************************)
\* The clock finds a callback due and processBlock() finds no shutdown.
BeginCallback ==
    /\ audio = "idle"
    /\ ~stop
    /\ audio' = "generation"
    /\ UNCHANGED <<control, sharedVars, schedulerVars, audioGeneration,
                   expected, looks, headSeen>>

AudioExit ==
    /\ audio = "idle"
    /\ stop
    /\ audio' = "off"
    /\ UNCHANGED <<control, sharedVars, schedulerVars, audioGeneration,
                   expected, looks, headSeen>>

\* A new generation is adopted before anything else.
LoadGeneration ==
    /\ audio = "generation"
    /\ audio' = IF audioGeneration # generation THEN "adopt" ELSE "drain"
    /\ audioGeneration' = generation
    /\ looks' = 0
    /\ headSeen' = FALSE
    /\ UNCHANGED <<control, sharedVars, schedulerVars, expected>>

\* Fault: the tag is stored before the cursor it vouches for.
LoadTargetTagging ==
    /\ audio = "adopt"
    /\ audio' = "cursor"
    /\ expected' = alignFrameToAudioBlock(targetFrame)
    /\ audioCursorGeneration' = audioGeneration
    /\ UNCHANGED <<control, stop, playing, generation, targetFrame,
                   nextUnconsumedFrame, readyQueue, schedulerVars,
                   audioGeneration, looks, headSeen>>

LoadTarget ==
    /\ audio = "adopt"
    /\ audio' = "cursor"
    /\ expected' = alignFrameToAudioBlock(targetFrame)
    /\ UNCHANGED <<control, sharedVars, schedulerVars, audioGeneration, looks,
                   headSeen>>

StoreCursor ==
    /\ audio = "cursor"
    /\ audio' = "tag"
    /\ nextUnconsumedFrame' = expected
    /\ UNCHANGED <<control, stop, playing, generation, targetFrame,
                   audioCursorGeneration, readyQueue, schedulerVars,
                   audioGeneration, expected, looks, headSeen>>

StoreTag ==
    /\ audio = "tag"
    /\ audio' = "drain"
    /\ audioCursorGeneration' = audioGeneration
    /\ UNCHANGED <<control, stop, playing, generation, targetFrame,
                   nextUnconsumedFrame, readyQueue, schedulerVars,
                   audioGeneration, expected, looks, headSeen>>

\* A block of an older stream, or one the cursor has passed.
Stale(block) ==
    \/ block.generation < audioGeneration
    \/ block.generation = audioGeneration /\ block.firstFrame < expected

MayDropHead ==
    /\ looks < ReadyCapacity
    /\ readyQueue # <<>>
    /\ Stale(Head(readyQueue))

\* One turn of the bounded loop: front() finds a stale block and it is popped.
DropStaleBlock ==
    /\ audio = "drain"
    /\ MayDropHead
    /\ readyQueue' = Tail(readyQueue)
    /\ looks' = looks + 1
    /\ UNCHANGED <<control, stop, playing, generation, targetFrame,
                   nextUnconsumedFrame, audioCursorGeneration, schedulerVars,
                   audio, audioGeneration, expected, headSeen>>

\* The loop ends: at a block to keep, at an empty queue, or at its bound.  Only
\* in the first case does head point to a block.
EndDrain ==
    /\ audio = "drain"
    /\ ~MayDropHead
    /\ audio' = "playing"
    /\ headSeen' = (looks < ReadyCapacity /\ readyQueue # <<>>)
    /\ UNCHANGED <<control, sharedVars, schedulerVars, audioGeneration,
                   expected, looks>>

\* Fault: the callback goes on past the end of the timeline.
LoadPlayingOnly ==
    /\ audio = "playing"
    /\ audio' = IF playing THEN "consume" ELSE "idle"
    /\ UNCHANGED <<control, sharedVars, schedulerVars, audioGeneration,
                   expected, looks, headSeen>>

\* A paused callback, or one at the end of the timeline, is silent.
LoadPlaying ==
    /\ audio = "playing"
    /\ audio' = IF playing /\ expected < TotalFrames THEN "consume" ELSE "idle"
    /\ UNCHANGED <<control, sharedVars, schedulerVars, audioGeneration,
                   expected, looks, headSeen>>

IsExactBlock ==
    /\ headSeen
    /\ Head(readyQueue).generation = audioGeneration
    /\ Head(readyQueue).firstFrame = expected

\* The block is copied and popped; one that is missing is an underrun.  Either
\* way the position advances.
Consume ==
    /\ audio = "consume"
    /\ audio' = "advance"
    /\ readyQueue' = IF IsExactBlock THEN Tail(readyQueue) ELSE readyQueue
    /\ expected' = expected + AudioBlockFrames
    /\ UNCHANGED <<control, stop, playing, generation, targetFrame,
                   nextUnconsumedFrame, audioCursorGeneration, schedulerVars,
                   audioGeneration, looks, headSeen>>

StoreAdvance ==
    /\ audio = "advance"
    /\ audio' = "idle"
    /\ nextUnconsumedFrame' = expected
    /\ UNCHANGED <<control, stop, playing, generation, targetFrame,
                   audioCursorGeneration, readyQueue, schedulerVars,
                   audioGeneration, expected, looks, headSeen>>

AudioStep ==
    \/ BeginCallback \/ AudioExit
    \/ LoadGeneration \/ LoadTarget \/ StoreCursor \/ StoreTag
    \/ DropStaleBlock \/ EndDrain
    \/ LoadPlaying \/ Consume \/ StoreAdvance

Next == Control \/ SchedulerStep \/ AudioStep

Spec == Init /\ [][Next]_vars

(***************************************************************************)
(* Fairness.  The three threads are scheduled; the control thread finishes *)
(* a start or stop it has begun but need not begin one.  It does not post  *)
(* commands faster than the scheduler empties the queue for ever.  The     *)
(* chunk publication waits for is eventually rendered: the urgent pass of  *)
(* scheduleRenderJobs() covers it while too little is published to play.   *)
(***************************************************************************)
CollectUrgentChunk ==
    \E finished \in SUBSET Chunks :
        /\ nextFrameToPublish < TotalFrames
        /\ frameToChunk(nextFrameToPublish) \in finished
        /\ CollectFinishedJobs(finished)

Fairness ==
    /\ WF_vars(SchedulerStep)
    /\ SF_vars(NoCommand)
    /\ SF_vars(CollectUrgentChunk)
    /\ WF_vars(AudioStep)
    /\ WF_vars(StartAudio \/ Silence \/ JoinScheduler \/ JoinAudio)

FairSpec == Spec /\ Fairness

-----------------------------------------------------------------------------
(***************************************************************************)
(* Properties.                                                             *)
(***************************************************************************)
\* Every variable stays in its type: positions on the timeline, generations
\* from 1 (0 for the callback before its first run).
TypeOK ==
    /\ control \in {"stopped", "starting", "running", "silencing",
                    "joiningScheduler", "joiningAudio"}
    /\ stop \in BOOLEAN
    /\ playing \in BOOLEAN
    /\ generation \in Nat \ {0}
    /\ targetFrame \in Boundaries
    /\ nextUnconsumedFrame \in Boundaries
    /\ audioCursorGeneration \in Nat \ {0}
    /\ readyQueue \in Seq(Block)
    /\ scheduler \in {"off", "loop", "commands", "next", "check", "exit",
                      "editTag", "editFrame", "suspend", "target", "bump",
                      "collect", "feedTag", "feedFrame", "feed", "publish",
                      "leadTag", "leadFrame", "start"}
    /\ playRequested \in BOOLEAN
    /\ nextFrameToPublish \in Boundaries
    /\ frame \in Boundaries
    /\ tagMatches \in BOOLEAN
    /\ version \in [Chunks -> Nat]
    /\ cached \subseteq Chunks
    /\ audio \in {"off", "idle", "generation", "adopt", "cursor", "tag",
                  "drain", "playing", "consume", "advance"}
    /\ audioGeneration \in Nat
    /\ expected \in Boundaries
    /\ looks \in 0 .. ReadyCapacity
    /\ headSeen \in BOOLEAN

\* Where the current generation is heard next: the callback's own position
\* once it has adopted the generation, the target before that.
AudioPosition ==
    IF audioGeneration = generation /\ audio # "adopt"
    THEN expected ELSE targetFrame

\* A block the callback can still consume in the current generation.
Live(block) ==
    block.generation = generation /\ block.firstFrame >= AudioPosition

Lead == Larger(0, nextFrameToPublish - AudioPosition) \div AudioBlockFrames

\* The lead the scheduler counts is audio that really is in the queue: behind
\* whatever is stale, the blocks from the callback's position up to
\* nextFrameToPublish, each once and in order, whatever the interleaving of
\* publication, underruns, seeks, edits and restarts.
ReadyAudioIsContiguous ==
    scheduler # "bump" =>
        /\ Lead <= Len(readyQueue)
        /\ \A i \in DOMAIN readyQueue :
              LET fromEnd == Len(readyQueue) - i + 1
              IN  /\ Live(readyQueue[i]) <=> fromEnd <= Lead
                  /\ fromEnd <= Lead =>
                        readyQueue[i].firstFrame =
                            nextFrameToPublish - fromEnd * AudioBlockFrames

\* Between invalidating content and starting the generation that rejects it.
ChangingStream ==
    scheduler \in {"editTag", "editFrame", "suspend", "target", "bump"}

\* No block of the current generation carries content an Edit has replaced.
CurrentAudioIsUpToDate ==
    ~ChangingStream =>
        \A i \in DOMAIN readyQueue :
            readyQueue[i].generation = generation =>
                readyQueue[i].version =
                    version[frameToChunk(readyQueue[i].firstFrame)]

\* A stopped engine is not playing, although the scheduler may set playing
\* after Engine::stop() has cleared it.
SilentWhenStopped == control = "stopped" => ~playing /\ ~playRequested

\* Playback is enabled only while it is requested: a Pause, or the end of the
\* timeline, is not undone by work the scheduler had begun.
PlayingIsRequested == playing => playRequested

\* Within a generation the scheduler never sees the callback's position move
\* back, however its two loads fall between the callback's stores.
SchedulerViewAdvances ==
    [][(/\ scheduler \in {"editFrame", "feedFrame", "leadFrame"}
        /\ scheduler' # scheduler) => frame' >= frame]_vars

\* When playback is enabled the prebuffer is in the queue, up to the end of the
\* timeline and less one block at most, which a callback that began before a
\* pause may have taken meanwhile.  Once stop is set no callback begins, and the
\* scheduler may enable what Engine::stop() has just disabled.
PrebufferedAtStart ==
    [][~stop /\ ~playing /\ playing' =>
        LET wanted == Smaller(PrebufferBlocks * AudioBlockFrames,
                              TotalFrames - frame)
        IN  /\ AudioPosition <= frame + AudioBlockFrames
            /\ \A f \in Frames :
                  /\ f >= AudioPosition /\ f < frame + wanted
                  /\ f % AudioBlockFrames = 0
                  => \E i \in DOMAIN readyQueue :
                        Live(readyQueue[i]) /\ readyQueue[i].firstFrame = f]_vars

\* A request to play starts playback unless it is withdrawn: prebuffering does
\* not stall, on a queue full of stale blocks or near the end of the timeline.
PlayEventuallyStarts ==
    playRequested /\ ~stop ~> playing \/ ~playRequested \/ stop

\* Playback ends: at the end of the timeline if no command ends it before.
PlaybackEventuallyEnds == playing ~> ~playing

\* "During active playback, a missing required block produces silence, reports
\* an underrun": a callback that reports an underrun found its block missing.
UnderrunMeansMissing ==
    [][audio = "consume" /\ audio' # audio /\ ~IsExactBlock =>
        ~\E i \in DOMAIN readyQueue :
            /\ readyQueue[i].generation = audioGeneration
            /\ readyQueue[i].firstFrame = expected]_vars

-----------------------------------------------------------------------------
(***************************************************************************)
(* Playback implements Transport.  A reposition takes effect when its      *)
(* target is stored; the stream that ends is not looked at any more.       *)
(***************************************************************************)
Repositioned == scheduler = "bump"

HeardNext == IF Repositioned THEN frame ELSE AudioPosition
PublishedTo == IF Repositioned THEN frame ELSE nextFrameToPublish

\* The callback will advance the current position, whatever happens to playing.
Granted ==
    audio = "consume" /\ audioGeneration = generation /\ ~Repositioned

Moves == INSTANCE Transport WITH
    requested <- playRequested,
    stopping <- stop,
    position <- HeardNext,
    published <- PublishedTo,
    granted <- Granted

\* The three threads together keep the promise of one position: it moves only by
\* a block at a time, under the permission to play, or to where a Seek or Edit
\* put it, an Edit never ahead; publication never falls back nor leads by more
\* than the queue; no permission is given without request and prebuffer; and the
\* end of playback and a restart find the position where the callback left it.
ImplementsTransport == Moves!Spec

=============================================================================
