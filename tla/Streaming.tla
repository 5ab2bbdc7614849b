----------------------------- MODULE Streaming -----------------------------
(***************************************************************************)
(* Both halves together: what RenderPipeline renders is published in       *)
(* timeline order, starts playback, and is consumed by the callback, and   *)
(* the position and the lead that result steer what is rendered next       *)
(* (Scheduler.cpp, TimelineAudioPublisher.cpp, PlaybackController.cpp,     *)
(* AudioBlockProcessor.cpp).                                               *)
(*                                                                         *)
(* RenderPipeline takes any position and any lead in every pass; here they *)
(* are the ones playback has got to.  Of the handshake between scheduler   *)
(* and callback only the outcome is kept, one position both agree on:      *)
(* Playback has its steps.                                                 *)
(***************************************************************************)
EXTENDS RenderPipeline

CONSTANTS
    ReadyCapacity,  \* slots of the ready-audio queue
    SeekFrames,     \* the frames Seek commands name
    RebufferOnEdit,
    MaxCommands     \* bound on the commands of one session

\* What the constructors check, and that the positions and leads RenderPipeline
\* takes cover those playback can get to.
ASSUME StreamingAssumption ==
    /\ ReadyCapacity \in Nat
    /\ {PrebufferBlocks, HighWaterBlocks} \subseteq 0 .. ReadyCapacity
    /\ Boundaries \subseteq Playheads
    /\ 0 .. ReadyCapacity \subseteq Leads
    /\ SeekFrames \subseteq Int
    /\ RebufferOnEdit \in BOOLEAN
    /\ MaxCommands \in Nat

VARIABLES
    cursor,             \* nextUnconsumedFrame
    nextFrameToPublish,
    playing,
    fed,                \* feedAudioQueue() has been called in this pass
    commands            \* commands of this session so far

playbackVars == <<cursor, nextFrameToPublish, playing>>
streamVars == <<vars, playbackVars, fed, commands>>

StreamInit ==
    /\ Init
    /\ cursor = 0
    /\ nextFrameToPublish = 0
    /\ playing = FALSE
    /\ fed = FALSE
    /\ commands = 0

\* A restart goes on from the position playback has got to.
StreamControl ==
    \/ /\ Start
       /\ nextFrameToPublish' = cursor
       /\ playing' = FALSE
       /\ commands' = 0
       /\ UNCHANGED <<cursor, fed>>
    \/ /\ StopScheduler \/ StopExecutor \/ JoinWorkers
       /\ UNCHANGED <<playbackVars, fed, commands>>

-----------------------------------------------------------------------------
PlayCommand == Play /\ UNCHANGED playbackVars

PauseCommand ==
    /\ scheduler = "commands"
    /\ Pause
    /\ playing' = FALSE
    /\ UNCHANGED <<cursor, nextFrameToPublish>>

SeekCommand ==
    /\ Seek
    /\ cursor' \in {SeekTarget(frame) : frame \in SeekFrames}
    /\ nextFrameToPublish' = cursor'
    /\ playing' = FALSE

EditCommand ==
    /\ \E region \in EditRegions : Edit(region)
    /\ UNCHANGED playbackVars

ViewportCommand ==
    /\ \E region \in Viewports : SetViewport(region)
    /\ UNCHANGED playbackVars

StreamCommand ==
    /\ commands < MaxCommands
    /\ commands' = commands + 1
    /\ PlayCommand \/ PauseCommand \/ SeekCommand \/ EditCommand \/ ViewportCommand
    /\ UNCHANGED fed

\* Fault: what is queued of the old content counts as published.
RestartKeepingLead ==
    /\ EndEdit
    /\ playing' = (playing /\ ~(playRequested /\ RebufferOnEdit))
    /\ UNCHANGED <<cursor, nextFrameToPublish, fed, commands>>

\* Every version is bumped: a new stream begins here, and what is queued of the
\* old content is published anew.  Until then callbacks go on with the old stream.
RestartStream ==
    /\ EndEdit
    /\ nextFrameToPublish' = cursor
    /\ playing' = (playing /\ ~(playRequested /\ RebufferOnEdit))
    /\ UNCHANGED <<cursor, fed, commands>>

LeaveStream ==
    /\ LeaveLoop
    /\ playing' = FALSE
    /\ UNCHANGED <<cursor, nextFrameToPublish, fed, commands>>

(***************************************************************************)
(* feedAudioQueue(): at the end of the timeline playback is paused,        *)
(* elsewhere what is cached is published from the position on, as far as   *)
(* the queue has room, and playback starts once enough is.                 *)
(***************************************************************************)
\* Fault: the pending tiles keep the classification of playback.
ReachEndUnnoticed ==
    /\ cursor = TotalFrames
    /\ playRequested' = FALSE
    /\ nextFrameToPublish' = TotalFrames
    /\ playing' = FALSE
    /\ UNCHANGED <<control, sharedVars, scheduler, viewport, dirty, passVars,
                   renderVars>>

ReachEnd ==
    /\ cursor = TotalFrames
    /\ Pause
    /\ nextFrameToPublish' = TotalFrames
    /\ playing' = FALSE

\* The positions publication may reach: each block before them has current content.
Publishable(from) ==
    {end \in Boundaries :
        /\ from <= end /\ end <= Larger(from, cursor + ReadyCapacity * AudioBlockFrames)
        /\ (end - from) % AudioBlockFrames = 0
        /\ \A frame \in from .. end - 1 : cacheIsCurrent(frameToChunk(frame))}

leadBlocks(published) == Larger(0, published - cursor) \div AudioBlockFrames

\* Fault: only the number of blocks counts.
StartsOnLead(published) == leadBlocks(published) >= PrebufferBlocks

Starts(published) ==
    leadBlocks(published) >= PrebufferBlocks \/ published >= TotalFrames

Publish ==
    LET ends == Publishable(Larger(nextFrameToPublish, cursor))
    IN  /\ cursor < TotalFrames
        /\ nextFrameToPublish' \in ends
        /\ \A end \in ends : end <= nextFrameToPublish'
        /\ playing' = (playing \/ (playRequested /\ Starts(nextFrameToPublish')))
        /\ UNCHANGED vars

Feed ==
    /\ scheduler = "admission"
    /\ ~fed
    /\ fed' = TRUE
    /\ ReachEnd \/ Publish
    /\ UNCHANGED <<cursor, commands>>

\* The lead and the position are read anew, after the queue was fed.
Admission == fed /\ UpdateBackgroundAdmission(leadBlocks(nextFrameToPublish))

Rendering ==
    \/ InvalidateChunk
    \/ CollectJob
    \/ Admission
    \/ BeginPass(cursor)
    \/ ScheduleChunk \/ EndSchedule
    \/ BeginMakeRoom \/ Evict \/ KeepTile \/ RetireTile \/ EndMakeRoom
    \/ ScanChunk \/ EndScan
    \/ DispatchTile \/ EndDispatch

StreamLoop ==
    \/ EndCollect /\ fed' = FALSE /\ UNCHANGED <<playbackVars, commands>>
    \/ RestartStream
    \/ Feed
    \/ Rendering /\ UNCHANGED <<playbackVars, fed, commands>>

-----------------------------------------------------------------------------
\* A callback while playback is enabled advances, with or without a block.
Callback ==
    /\ playing
    /\ cursor < TotalFrames
    /\ cursor' = cursor + AudioBlockFrames
    /\ UNCHANGED <<vars, nextFrameToPublish, playing, fed, commands>>

StreamWorker(w) == WorkerStep(w) /\ UNCHANGED <<playbackVars, fed, commands>>

EndStreamCommands == EndCommands /\ UNCHANGED <<playbackVars, fed, commands>>

StreamNext ==
    \/ StreamControl
    \/ StreamCommand \/ LeaveStream \/ EndStreamCommands
    \/ StreamLoop
    \/ Callback
    \/ \E w \in Worker : StreamWorker(w)

(***************************************************************************)
(* Fairness.  Every thread runs, callbacks come, and a stop() that has     *)
(* begun goes on.  The commands of a session are finite.                   *)
(***************************************************************************)
StreamSpec ==
    /\ StreamInit
    /\ [][StreamNext]_streamVars
    /\ WF_streamVars(StreamLoop)
    /\ WF_streamVars(EndStreamCommands)
    /\ WF_streamVars(Callback)
    /\ \A w \in Worker : WF_streamVars(StreamWorker(w))
    /\ WF_streamVars((StopExecutor \/ JoinWorkers)
                     /\ UNCHANGED <<playbackVars, fed, commands>>)

-----------------------------------------------------------------------------
(***************************************************************************)
(* Properties.                                                             *)
(***************************************************************************)
\* Playback that is requested ends: every chunk it waits for, at the start or
\* near the end of the timeline, is rendered, published and consumed, whatever
\* failed or was pending before.
RequestedPlaybackEnds == playRequested ~> ~playRequested

\* The positions and the lead playback really has are ones RenderPipeline allows:
\* what is proved of any position and any lead holds of the two halves together.
ImplementsPipeline == Spec

\* What waits in the ready-audio queue was rendered completely, and for the
\* content the timeline has now; while an edit is handled, for the content it
\* replaces, and nothing older: no edit, seek, eviction or failed render leaves
\* anything else there to be heard.
ReadyAudioIsCurrent ==
    \A frame \in cursor .. nextFrameToPublish - 1 :
        LET c == frameToChunk(frame)
        IN  /\ cache[c].samples = Tiles \X {cache[c].version}
            /\ \/ cacheIsCurrent(c)
               \/ scheduler = "invalidate" /\ cache[c].version + 1 = version[c]

\* While playback waits for its prebuffer, the chunk publication waits for has
\* been rendered or is on its way after each urgent pass, unless other urgent
\* tiles leave it no room: neither visible or background work nor what an older
\* position made urgent keeps playback from starting.
AwaitedChunkIsAdmitted ==
    /\ failures = 0 /\ Policy = "Priority"
    /\ playRequested /\ ~playing
    /\ scheduler \in {"scan", "dispatch"}
    => LET c == frameToChunk(nextFrameToPublish)
       IN  /\ nextFrameToPublish < TotalFrames
           /\ \/ cacheIsCurrent(c)
              \/ hasCurrent(c)
              \/ /\ scheduler = "scan" => ~HasRoom(MaxPendingTiles)
                 /\ \A i \in DOMAIN pending :
                       /\ pending[i].classification.priority = Urgent
                       /\ ~IsCancelled(pending[i])

-----------------------------------------------------------------------------
\* The transport Streaming moves is the one Playback implements: what is left out
\* of the handshake changes nothing a listener or the scheduler could notice.
Moves == INSTANCE Transport WITH
    requested <- playRequested,
    stopping <- FALSE,
    position <- cursor,
    published <- nextFrameToPublish,
    granted <- FALSE

ImplementsTransport == Moves!Spec

=============================================================================
