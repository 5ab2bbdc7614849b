--------------------------- MODULE PlaybackProofs ---------------------------
(***************************************************************************)
(* Proofs about Playback, for every timeline, block size, queue capacity,  *)
(* prebuffer and set of commands.                                          *)
(***************************************************************************)
EXTENDS Playback, TimelineLemmas

-----------------------------------------------------------------------------
(***************************************************************************)
(* Type correctness.  That expected stays on the timeline rests on every   *)
(* position being a block boundary and on the end-of-timeline test.        *)
(***************************************************************************)
PositionsAligned ==
    /\ Aligned(targetFrame)
    /\ Aligned(nextUnconsumedFrame)
    /\ Aligned(nextFrameToPublish)
    /\ Aligned(frame)
    /\ Aligned(expected)

ConsumesOnTimeline == audio = "consume" => expected < TotalFrames

\* head stays valid: only the callback itself pops.
HeadExists ==
    headSeen /\ audio \in {"playing", "consume"} => readyQueue # <<>>

\* What the callback adopts is a generation of the scheduler, not the initial 0.
AdoptsGeneration ==
    audio \in {"adopt", "cursor", "tag"} => audioGeneration # 0

\* start() and stop() join the threads in order.
ThreadsJoined ==
    /\ control \in {"stopped", "starting"} => audio = "off"
    /\ control \in {"stopped", "joiningAudio"} => scheduler = "off"

TypeInv == /\ TypeOK
           /\ ThreadsJoined
           /\ PositionsAligned
           /\ ConsumesOnTimeline
           /\ HeadExists
           /\ AdoptsGeneration

LEMMA EmptyQueueTyped == <<>> \in Seq(Block)
  OBVIOUS

LEMMA InitTypeInv == Init => TypeInv
<1> SUFFICES ASSUME Init PROVE TypeInv
  OBVIOUS
<1>1. TypeOK
  <2>1. /\ 0 \in Boundaries /\ 0 \in 0 .. ReadyCapacity
        /\ [c \in Chunks |-> 1] \in [Chunks -> Nat]
    BY TimelineAssumption, PlaybackAssumption DEF Boundaries
  <2>2. readyQueue \in Seq(Block)
    BY EmptyQueueTyped DEF Init
  <2>3. /\ version \in [Chunks -> Nat] /\ cached \subseteq Chunks
        /\ looks \in 0 .. ReadyCapacity
    BY <2>1 DEF Init
  <2>4. /\ stop \in BOOLEAN /\ playing \in BOOLEAN /\ playRequested \in BOOLEAN
        /\ tagMatches \in BOOLEAN /\ headSeen \in BOOLEAN
    BY DEF Init
  <2>5. /\ generation \in Nat \ {0} /\ audioCursorGeneration \in Nat \ {0}
        /\ audioGeneration \in Nat
    BY DEF Init
  <2>6. /\ targetFrame \in Boundaries /\ nextUnconsumedFrame \in Boundaries
        /\ nextFrameToPublish \in Boundaries /\ frame \in Boundaries
        /\ expected \in Boundaries
    BY <2>1 DEF Init
  <2>7. QED
    BY <2>2, <2>3, <2>4, <2>5, <2>6 DEF Init, TypeOK
<1>2. PositionsAligned
  BY EndsAligned DEF Init, PositionsAligned
<1>3. QED
  BY <1>1, <1>2 DEF Init, TypeInv, ConsumesOnTimeline, HeadExists,
         AdoptsGeneration, ThreadsJoined

\* currentFrame() returns a block boundary.
LEMMA CurrentFrameTyped ==
  ASSUME TypeInv
  PROVE  /\ CurrentFrame \in Boundaries /\ Aligned(CurrentFrame)
         /\ CurrentFrame = IF tagMatches THEN nextUnconsumedFrame
                           ELSE targetFrame
         /\ CurrentFrameAtRest \in Boundaries /\ Aligned(CurrentFrameAtRest)
         /\ CurrentFrameAtRest = IF audioCursorGeneration = generation
                                 THEN nextUnconsumedFrame ELSE targetFrame
<1>1. /\ clampTimelineBoundary(nextUnconsumedFrame) = nextUnconsumedFrame
      /\ clampTimelineBoundary(targetFrame) = targetFrame
  BY ClampFacts DEF TypeInv, TypeOK, Boundaries
<1>2. QED
  BY <1>1 DEF TypeInv, TypeOK, PositionsAligned, CurrentFrame,
              CurrentFrameAtRest

LEMMA NextTypeInv == TypeInv /\ [Next]_vars => TypeInv'
<1> SUFFICES ASSUME TypeInv, [Next]_vars PROVE TypeInv'
  OBVIOUS
<1> USE DEF TypeInv, TypeOK, PositionsAligned, ConsumesOnTimeline,
        HeadExists, AdoptsGeneration, ThreadsJoined, sharedVars, renderVars,
        schedulerVars, schedulerOnly, audioVars
<1>1. CASE StartScheduler
  <2>1. /\ frame' \in Boundaries /\ Aligned(frame')
        /\ nextFrameToPublish' \in Boundaries /\ Aligned(nextFrameToPublish')
    BY <1>1, CurrentFrameTyped DEF StartScheduler
  <2>2. readyQueue' \in Seq(Block)
    BY <1>1, EmptyQueueTyped DEF StartScheduler
  <2>3. TypeOK'
    BY <1>1, <2>1, <2>2 DEF StartScheduler
  <2>4. PositionsAligned'
    BY <1>1, <2>1 DEF StartScheduler
  <2>5. /\ ConsumesOnTimeline' /\ HeadExists' /\ AdoptsGeneration'
      /\ ThreadsJoined'
    BY <1>1 DEF StartScheduler
  <2>6. QED
    BY <2>3, <2>4, <2>5
<1>2. CASE Control
  <2>1. CASE StartAudio
    BY <2>1 DEF StartAudio
  <2>2. CASE RequestStop
    BY <2>2 DEF RequestStop
  <2>3. CASE Silence
    <3>1. playing' \in BOOLEAN
      BY <2>3, Zenon DEF Silence
    <3>2. QED
      BY <2>3, <3>1 DEF Silence
  <2>4. CASE JoinScheduler
    <3>1. playRequested' \in BOOLEAN
      BY <2>4, Zenon DEF JoinScheduler
    <3>2. QED
      BY <2>4, <3>1 DEF JoinScheduler
  <2>5. CASE JoinAudio
    BY <2>5 DEF JoinAudio
  <2>6. QED
    BY <1>1, <1>2, <2>1, <2>2, <2>3, <2>4, <2>5 DEF Control
<1>3. CASE LoopTop \/ NoCommand \/ NextCommand \/ CheckShutdown
  BY <1>3 DEF LoopTop, NoCommand, NextCommand, CheckShutdown
<1>4. CASE Play \/ Pause \/ StopCommand \/ Exit
  <2>1. CASE Play
    <3>1. playRequested' \in BOOLEAN
      BY <2>1, Zenon DEF Play
    <3>2. QED
      BY <2>1, <3>1 DEF Play
  <2>2. CASE Pause
    <3>1. playRequested' \in BOOLEAN /\ playing' \in BOOLEAN
      BY <2>2, Zenon DEF Pause
    <3>2. QED
      BY <2>2, <3>1 DEF Pause
  <2>3. CASE StopCommand
    BY <2>3 DEF StopCommand
  <2>4. CASE Exit
    <3>1. playRequested' \in BOOLEAN /\ playing' \in BOOLEAN
      BY <2>4, Zenon DEF Exit
    <3>2. QED
      BY <2>4, <3>1 DEF Exit
  <2>5. QED
    BY <1>4, <2>1, <2>2, <2>3, <2>4
<1>5. ASSUME NEW position \in SeekFrames, Seek(position) PROVE TypeInv'
  <2>1. SeekTarget(position) \in Boundaries /\ Aligned(SeekTarget(position))
    BY SeekLands, PlaybackAssumption, TimelineAssumption
       DEF Frames, Boundaries
  <2>2. QED
    BY <1>5, <2>1 DEF Seek
<1>6. ASSUME NEW region \in EditRegions, Edit(region) PROVE TypeInv'
  <2>1. version' \in [Chunks -> Nat] /\ cached' \subseteq Chunks
    BY <1>6 DEF Edit
  <2>2. QED
    BY <1>6, <2>1 DEF Edit
<1>7. CASE Suspend \/ StoreTarget \/ BumpGeneration
  <2>1. CASE Suspend
    <3>1. playing' \in BOOLEAN
      BY <2>1, Zenon DEF Suspend
    <3>2. QED
      BY <2>1, <3>1 DEF Suspend
  <2>2. CASE StoreTarget
    BY <2>2 DEF StoreTarget
  <2>3. CASE BumpGeneration
    BY <2>3 DEF BumpGeneration
  <2>4. QED
    BY <1>7, <2>1, <2>2, <2>3
<1>8. CASE EditReadsTag \/ FeedReadsTag \/ LeadReadsTag
  <2>1. CASE EditReadsTag
    BY <2>1 DEF EditReadsTag, ReadTag
  <2>2. CASE FeedReadsTag
    BY <2>2 DEF FeedReadsTag, ReadTag
  <2>3. CASE LeadReadsTag
    BY <2>3 DEF LeadReadsTag, ReadTag
  <2>4. QED
    BY <1>8, <2>1, <2>2, <2>3
<1>9. CASE EditReadsFrame \/ FeedReadsFrame \/ LeadReadsFrame
  <2>1. CASE EditReadsFrame
    BY <2>1, CurrentFrameTyped DEF EditReadsFrame
  <2>2. CASE FeedReadsFrame
    BY <2>2, CurrentFrameTyped DEF FeedReadsFrame
  <2>3. CASE LeadReadsFrame
    BY <2>3, CurrentFrameTyped DEF LeadReadsFrame
  <2>4. QED
    BY <1>9, <2>1, <2>2, <2>3
<1>10. ASSUME NEW finished \in SUBSET Chunks, CollectFinishedJobs(finished)
       PROVE  TypeInv'
  BY <1>10 DEF CollectFinishedJobs
<1>11. CASE TimelineEnd
  <2>1. TotalFrames \in Boundaries
    BY TimelineAssumption DEF Boundaries
  <2>2. playRequested' \in BOOLEAN /\ playing' \in BOOLEAN
    BY <1>11, Zenon DEF TimelineEnd
  <2>3. QED
    BY <1>11, <2>1, <2>2, EndsAligned DEF TimelineEnd
<1>12. CASE BeginPublish
  BY <1>12 DEF BeginPublish, Larger
<1>13. CASE PublishBlock
  <2>1. /\ nextFrameToPublish \in Frames
        /\ version[frameToChunk(nextFrameToPublish)] \in Nat
    BY <1>13, TimelineAssumption
       DEF PublishBlock, CanPublish, Frames, Boundaries
  <2>2. readyQueue' \in Seq(Block)
    BY <1>13, <2>1 DEF PublishBlock, Block
  <2>3. nextFrameToPublish' \in Boundaries /\ Aligned(nextFrameToPublish')
    <3>1. nextFrameToPublish + AudioBlockFrames \in Boundaries
      BY <2>1, BlockFits
    <3>2. Aligned(nextFrameToPublish + AudioBlockFrames)
      BY <2>1, NextAligned, TimelineAssumption DEF Frames
    <3>3. QED
      BY <1>13, <3>1, <3>2 DEF PublishBlock
  <2>4. QED
    BY <1>13, <2>2, <2>3 DEF PublishBlock
<1>14. CASE EndPublish \/ StartIfReady
  <2>1. CASE EndPublish
    BY <2>1 DEF EndPublish
  <2>2. CASE StartIfReady
    BY <2>2 DEF StartIfReady
  <2>3. QED
    BY <1>14, <2>1, <2>2
<1>15. CASE BeginCallback \/ AudioExit \/ LoadGeneration \/ EndDrain
  <2>1. CASE BeginCallback \/ AudioExit
    BY <2>1 DEF BeginCallback, AudioExit
  <2>2. CASE LoadGeneration
    <3>1. looks' \in 0 .. ReadyCapacity
      BY <2>2, PlaybackAssumption DEF LoadGeneration
    <3>2. headSeen' \in BOOLEAN
      BY <2>2, Zenon DEF LoadGeneration
    <3>3. QED
      BY <2>2, <3>1, <3>2 DEF LoadGeneration
  <2>3. CASE EndDrain
    <3>1. headSeen' \in BOOLEAN /\ (headSeen' => readyQueue # <<>>)
      BY <2>3, Zenon DEF EndDrain
    <3>2. /\ audio = "drain" /\ audio' = "playing"
          /\ UNCHANGED <<control, sharedVars, schedulerVars, audioGeneration,
                         expected, looks>>
      BY <2>3, Zenon DEF EndDrain
    <3>3. QED
      BY <3>1, <3>2
  <2>4. QED
    BY <1>15, <2>1, <2>2, <2>3
<1>16. CASE StoreCursor \/ StoreTag \/ StoreAdvance
  <2>1. CASE StoreCursor
    BY <2>1 DEF StoreCursor
  <2>2. CASE StoreTag
    <3>1. TypeOK'
      BY <2>2 DEF StoreTag
    <3>2. QED
      BY <2>2, <3>1 DEF StoreTag
  <2>3. CASE StoreAdvance
    BY <2>3 DEF StoreAdvance
  <2>4. QED
    BY <1>16, <2>1, <2>2, <2>3
<1>17. CASE LoadTarget
  <2>1. /\ alignFrameToAudioBlock(targetFrame) \in Boundaries
        /\ Aligned(alignFrameToAudioBlock(targetFrame))
    BY AlignFacts
  <2>2. QED
    BY <1>17, <2>1 DEF LoadTarget
<1>18. CASE DropStaleBlock
  <2>1. readyQueue' \in Seq(Block)
    BY <1>18 DEF DropStaleBlock, MayDropHead
  <2>2. looks' \in 0 .. ReadyCapacity
    BY <1>18, PlaybackAssumption DEF DropStaleBlock, MayDropHead
  <2>3. QED
    BY <1>18, <2>1, <2>2 DEF DropStaleBlock
<1>19. CASE LoadPlaying
  BY <1>19 DEF LoadPlaying
<1>20. CASE Consume
  <2>1. expected \in Frames
    BY <1>20, TimelineAssumption DEF Consume, Frames, Boundaries
  <2>2. /\ expected + AudioBlockFrames \in Boundaries
        /\ Aligned(expected + AudioBlockFrames)
    BY <1>20, <2>1, BlockFits, NextAligned, TimelineAssumption
       DEF Frames
  <2>3. readyQueue' \in Seq(Block)
    <3>1. CASE IsExactBlock
      <4>1. readyQueue # <<>>
        BY <1>20, <3>1 DEF Consume, IsExactBlock, HeadExists
      <4>2. QED
        BY <1>20, <3>1, <4>1 DEF Consume
    <3>2. CASE ~IsExactBlock
      BY <1>20, <3>2 DEF Consume
    <3>3. QED
      BY <3>1, <3>2
  <2>4. QED
    BY <1>20, <2>2, <2>3 DEF Consume
<1>21. CASE UNCHANGED vars
  BY <1>21 DEF vars
<1>22. QED
  BY <1>1, <1>2, <1>3, <1>4, <1>5, <1>6, <1>7, <1>8, <1>9, <1>10, <1>11,
     <1>12, <1>13, <1>14, <1>15, <1>16, <1>17, <1>18, <1>19, <1>20, <1>21
     DEF Next, Control, SchedulerStep, SchedulerLoop, Feed, Command, AudioStep

\* Every variable stays in its type, whatever the constants.
THEOREM TypeCorrect == Spec => []TypeOK
<1>1. Spec => []TypeInv
  BY InitTypeInv, NextTypeInv, PTL DEF Spec
<1>2. TypeInv => TypeOK
  BY DEF TypeInv
<1>3. QED
  BY <1>1, <1>2, PTL

-----------------------------------------------------------------------------
(***************************************************************************)
(* Permission to play.  The scheduler ends with pause(), so what it enables *)
(* after Engine::stop() has cleared playing is withdrawn before the join.  *)
(***************************************************************************)
OffIsSilent == scheduler = "off" => ~playing /\ ~playRequested

PermissionInv == OffIsSilent /\ PlayingIsRequested

LEMMA NextPermissionInv == TypeInv /\ PermissionInv /\ [Next]_vars => PermissionInv'
<1> SUFFICES ASSUME TypeInv, PermissionInv, [Next]_vars PROVE PermissionInv'
  OBVIOUS
<1> USE DEF PermissionInv, OffIsSilent, PlayingIsRequested, sharedVars,
        renderVars, schedulerVars, schedulerOnly, audioVars
<1>1. CASE Control
  <2>1. CASE StartScheduler
    BY <2>1 DEF StartScheduler
  <2>2. CASE StartAudio \/ RequestStop \/ Silence \/ JoinScheduler \/ JoinAudio
    BY <2>2 DEF StartAudio, RequestStop, Silence, JoinScheduler, JoinAudio
  <2>3. QED
    BY <1>1, <2>1, <2>2 DEF Control
<1>2. CASE LoopTop \/ NoCommand \/ NextCommand \/ CheckShutdown \/ Exit
  BY <1>2 DEF LoopTop, NoCommand, NextCommand, CheckShutdown, Exit
<1>3. CASE Command
  <2>1. CASE Play \/ Pause \/ StopCommand
    BY <2>1 DEF Play, Pause, StopCommand
  <2>2. ASSUME NEW position \in SeekFrames, Seek(position)
        PROVE  PermissionInv'
    BY <2>2 DEF Seek
  <2>3. ASSUME NEW region \in EditRegions, Edit(region) PROVE PermissionInv'
    BY <2>3 DEF Edit
  <2>4. QED
    BY <1>3, <2>1, <2>2, <2>3 DEF Command
<1>4. CASE Suspend \/ StoreTarget \/ BumpGeneration
  BY <1>4 DEF Suspend, StoreTarget, BumpGeneration
<1>5. CASE EditReadsTag \/ EditReadsFrame
  BY <1>5 DEF EditReadsTag, EditReadsFrame, ReadTag
<1>6. CASE Feed
  <2>1. CASE FeedReadsTag \/ FeedReadsFrame \/ LeadReadsTag \/ LeadReadsFrame
    BY <2>1 DEF FeedReadsTag, FeedReadsFrame, LeadReadsTag, LeadReadsFrame,
                ReadTag
  <2>2. CASE TimelineEnd \/ BeginPublish \/ PublishBlock \/ EndPublish
    BY <2>2 DEF TimelineEnd, BeginPublish, PublishBlock, EndPublish
  <2>3. CASE StartIfReady
    BY <2>3 DEF StartIfReady
  <2>4. QED
    BY <1>6, <2>1, <2>2, <2>3 DEF Feed
<1>7. ASSUME NEW finished \in SUBSET Chunks, CollectFinishedJobs(finished)
      PROVE  PermissionInv'
  BY <1>7 DEF CollectFinishedJobs
<1>8. CASE AudioStep
  BY <1>8 DEF AudioStep, BeginCallback, AudioExit, LoadGeneration, LoadTarget,
         StoreCursor, StoreTag, DropStaleBlock, EndDrain, LoadPlaying, Consume,
         StoreAdvance
<1>9. CASE UNCHANGED vars
  BY <1>9 DEF vars
<1>10. QED
  BY <1>1, <1>2, <1>3, <1>4, <1>5, <1>6, <1>7, <1>8, <1>9
     DEF Next, SchedulerStep, SchedulerLoop

\* Playback is enabled only while it is requested.
THEOREM PlayingRequested == Spec => []PlayingIsRequested
<1>1. Init => PermissionInv
  BY DEF Init, PermissionInv, OffIsSilent, PlayingIsRequested
<1>2. PermissionInv => PlayingIsRequested
  BY DEF PermissionInv
<1>3. QED
  BY <1>1, <1>2, InitTypeInv, NextTypeInv, NextPermissionInv, PTL DEF Spec

\* A stopped engine is silent and has forgotten the request to play.
THEOREM StoppedIsSilent == Spec => []SilentWhenStopped
<1>1. Init => PermissionInv
  BY DEF Init, PermissionInv, OffIsSilent, PlayingIsRequested
<1>2. TypeInv /\ PermissionInv => SilentWhenStopped
  BY DEF TypeInv, ThreadsJoined, PermissionInv, OffIsSilent, SilentWhenStopped
<1>3. QED
  BY <1>1, <1>2, InitTypeInv, NextTypeInv, NextPermissionInv, PTL DEF Spec

-----------------------------------------------------------------------------
(***************************************************************************)
(* The cursor handshake.  The callback stores its position and then the    *)
(* generation the position belongs to; the scheduler loads them in the     *)
(* opposite order.  What makes the scheduler's view sound is that a tag    *)
(* equal to the current generation vouches for the position, except before *)
(* the very first adoption, when the initial values agree anyway.          *)
(***************************************************************************)
GenerationsOrdered ==
    audioGeneration <= generation /\ audioCursorGeneration <= generation

Unstarted ==
    \/ audioGeneration = 0
    \/ audioGeneration = 1 /\ audio \in {"adopt", "cursor"}

\* Before the first cursor is stored its initial value is the initial target.
UnstartedCursor ==
    Unstarted => audioCursorGeneration = 1 /\ nextUnconsumedFrame = 0

NotYetRun == audioGeneration = 0 => audio \in {"off", "idle", "generation"}

\* Outside an adoption the tag is the callback's generation; during one it is
\* an older generation, unless the first is being adopted.
TagAgrees ==
    /\ audio \notin {"adopt", "cursor", "tag"} /\ audioGeneration # 0
          => audioCursorGeneration = audioGeneration
    /\ audio \in {"adopt", "cursor", "tag"}
          => \/ audioCursorGeneration < audioGeneration
             \/ audioGeneration = 1 /\ audioCursorGeneration = 1

\* The stored cursor is the callback's position except while it moves.
CursorStored ==
    /\ audioGeneration # 0 /\ audio \notin {"adopt", "cursor", "advance"}
          => nextUnconsumedFrame = expected
    /\ audio = "advance" => nextUnconsumedFrame <= expected

ResetPending == scheduler = "bump" => frame = targetFrame

\* Resetting: between taking a Seek or Edit position and its generation.
Resetting == scheduler \in {"suspend", "target", "bump"}

\* Within a generation the callback, and what it stores, is at or after the
\* target.
TargetReached ==
    scheduler # "bump" =>
        /\ targetFrame <= AudioPosition
        /\ audioCursorGeneration = generation
              => targetFrame <= nextUnconsumedFrame

\* A tag the scheduler has found current stays so until it loads the cursor.
TagFresh ==
    scheduler \in {"editFrame", "feedFrame", "leadFrame"} /\ tagMatches
        => audioCursorGeneration = generation

\* What the scheduler knows of the position never exceeds what it would read.
FrameKnown ==
    ~Resetting =>
        /\ frame <= AudioPosition
        /\ frame <= IF audioCursorGeneration = generation
                    THEN nextUnconsumedFrame ELSE targetFrame
        /\ scheduler \in {"editFrame", "feedFrame", "leadFrame"} /\ ~tagMatches
              => frame <= targetFrame

CursorInv ==
    /\ GenerationsOrdered
    /\ UnstartedCursor
    /\ NotYetRun
    /\ TagAgrees
    /\ CursorStored
    /\ ResetPending
    /\ TargetReached
    /\ TagFresh
    /\ FrameKnown

\* The facts about types that the handshake needs.
LEMMA PositionsTyped ==
  TypeInv => /\ generation \in Nat \ {0} /\ audioCursorGeneration \in Nat \ {0}
             /\ audioGeneration \in Nat
             /\ targetFrame \in Nat /\ nextUnconsumedFrame \in Nat
             /\ nextFrameToPublish \in Nat /\ frame \in Nat /\ expected \in Nat
             /\ AudioBlockFrames \in Nat \ {0}
  BY TimelineAssumption DEF TypeInv, TypeOK, Boundaries

LEMMA InitCursorInv == Init => CursorInv
  BY DEF Init, CursorInv, GenerationsOrdered, UnstartedCursor, Unstarted,
         NotYetRun, TagAgrees, CursorStored, ResetPending, TargetReached,
         TagFresh, FrameKnown, Resetting, AudioPosition

LEMMA NextCursorInv == TypeInv /\ CursorInv /\ [Next]_vars => CursorInv'
<1> SUFFICES ASSUME TypeInv, CursorInv, [Next]_vars PROVE CursorInv'
  OBVIOUS
<1>t. /\ generation \in Nat \ {0} /\ audioCursorGeneration \in Nat \ {0}
      /\ audioGeneration \in Nat
      /\ targetFrame \in Nat /\ nextUnconsumedFrame \in Nat
      /\ nextFrameToPublish \in Nat /\ frame \in Nat /\ expected \in Nat
      /\ AudioBlockFrames \in Nat \ {0}
  BY PositionsTyped
<1> USE <1>t DEF CursorInv, GenerationsOrdered, UnstartedCursor, Unstarted,
        NotYetRun, TagAgrees, CursorStored, ResetPending, TargetReached,
        TagFresh, FrameKnown, Resetting, AudioPosition, sharedVars, renderVars,
        schedulerVars, schedulerOnly, audioVars
<1>1. CASE StartScheduler
  <2>1. frame' = IF audioCursorGeneration = generation
                 THEN nextUnconsumedFrame ELSE targetFrame
    BY <1>1, CurrentFrameTyped DEF StartScheduler
  <2>2. audio = "off" /\ scheduler = "off"
    BY <1>1 DEF StartScheduler, TypeInv, ThreadsJoined
  <2>3. QED
    BY <1>1, <2>1, <2>2 DEF StartScheduler
<1>2. CASE StartAudio
  BY <1>2 DEF StartAudio, TypeInv, ThreadsJoined
<1>3. CASE RequestStop \/ Silence \/ JoinScheduler \/ JoinAudio
  BY <1>3 DEF RequestStop, Silence, JoinScheduler, JoinAudio
<1>4. CASE LoopTop \/ NoCommand \/ NextCommand \/ CheckShutdown \/ Exit
  BY <1>4 DEF LoopTop, NoCommand, NextCommand, CheckShutdown, Exit
<1>5. CASE Play \/ Pause \/ StopCommand
  BY <1>5 DEF Play, Pause, StopCommand
<1>6. ASSUME NEW position \in SeekFrames, Seek(position) PROVE CursorInv'
  BY <1>6 DEF Seek
<1>7. ASSUME NEW region \in EditRegions, Edit(region) PROVE CursorInv'
  BY <1>7 DEF Edit
<1>8. CASE Suspend
  BY <1>8 DEF Suspend
<1>9. CASE StoreTarget
  BY <1>9 DEF StoreTarget
<1>10. CASE BumpGeneration
  BY <1>10 DEF BumpGeneration
<1>11. CASE EditReadsTag \/ FeedReadsTag \/ LeadReadsTag
  <2>1. tagMatches' <=> audioCursorGeneration = generation
    BY <1>11, Zenon DEF EditReadsTag, FeedReadsTag, LeadReadsTag, ReadTag
  <2>2. /\ \/ scheduler = "editTag" /\ scheduler' = "editFrame"
           \/ scheduler = "feedTag" /\ scheduler' = "feedFrame"
           \/ scheduler = "leadTag" /\ scheduler' = "leadFrame"
        /\ UNCHANGED <<control, sharedVars, playRequested, nextFrameToPublish,
                       frame, renderVars, audioVars>>
    BY <1>11, Zenon DEF EditReadsTag, FeedReadsTag, LeadReadsTag, ReadTag
  <2>3. QED
    BY <2>1, <2>2
<1>12. CASE EditReadsFrame \/ FeedReadsFrame \/ LeadReadsFrame
  <2>1. frame' = IF tagMatches THEN nextUnconsumedFrame ELSE targetFrame
    BY <1>12, CurrentFrameTyped
       DEF EditReadsFrame, FeedReadsFrame, LeadReadsFrame
  <2>2. CASE EditReadsFrame
    BY <2>1, <2>2 DEF EditReadsFrame
  <2>3. CASE FeedReadsFrame
    BY <2>1, <2>3 DEF FeedReadsFrame
  <2>4. CASE LeadReadsFrame
    BY <2>1, <2>4 DEF LeadReadsFrame
  <2>5. QED
    BY <1>12, <2>2, <2>3, <2>4
<1>13. ASSUME NEW finished \in SUBSET Chunks, CollectFinishedJobs(finished)
       PROVE  CursorInv'
  BY <1>13 DEF CollectFinishedJobs
<1>14. CASE TimelineEnd \/ BeginPublish \/ PublishBlock \/ EndPublish
            \/ StartIfReady
  BY <1>14 DEF TimelineEnd, BeginPublish, PublishBlock, EndPublish, StartIfReady
<1>15. CASE BeginCallback \/ AudioExit
  BY <1>15 DEF BeginCallback, AudioExit
<1>16. CASE LoadGeneration
  BY <1>16 DEF LoadGeneration
<1>17. CASE LoadTarget
  <2>1. expected' = targetFrame
    BY <1>17, AlignFacts DEF LoadTarget, TypeInv, TypeOK, PositionsAligned
  <2>2. QED
    BY <1>17, <2>1 DEF LoadTarget
<1>18. CASE StoreCursor
  BY <1>18 DEF StoreCursor
<1>19. CASE StoreTag
  BY <1>19 DEF StoreTag
<1>20. CASE DropStaleBlock \/ EndDrain \/ LoadPlaying
  BY <1>20 DEF DropStaleBlock, EndDrain, LoadPlaying
<1>21. CASE Consume
  BY <1>21 DEF Consume
<1>22. CASE StoreAdvance
  BY <1>22 DEF StoreAdvance
<1>23. CASE UNCHANGED vars
  BY <1>23 DEF vars
<1>24. QED
  BY <1>1, <1>2, <1>3, <1>4, <1>5, <1>6, <1>7, <1>8, <1>9, <1>10, <1>11,
     <1>12, <1>13, <1>14, <1>15, <1>16, <1>17, <1>18, <1>19, <1>20, <1>21,
     <1>22, <1>23
     DEF Next, Control, SchedulerStep, SchedulerLoop, Feed, Command, AudioStep

LEMMA CursorInvariant == Spec => [](TypeInv /\ CursorInv)
  BY InitTypeInv, NextTypeInv, InitCursorInv, NextCursorInv, PTL DEF Spec

LEMMA ViewAdvances ==
  TypeInv /\ CursorInv /\ [Next]_vars =>
     ((/\ scheduler \in {"editFrame", "feedFrame", "leadFrame"}
       /\ scheduler' # scheduler) => frame' >= frame)
<1> SUFFICES ASSUME TypeInv, CursorInv, [Next]_vars,
                    scheduler \in {"editFrame", "feedFrame", "leadFrame"},
                    scheduler' # scheduler
             PROVE  frame' >= frame
  OBVIOUS
<1>1. /\ frame \in Nat /\ targetFrame \in Nat /\ nextUnconsumedFrame \in Nat
  BY PositionsTyped
<1>2. CurrentFrame >= frame
  BY <1>1, CurrentFrameTyped DEF CursorInv, FrameKnown, TagFresh, Resetting
<1>3. CASE EditReadsFrame \/ FeedReadsFrame \/ LeadReadsFrame
  BY <1>2, <1>3 DEF EditReadsFrame, FeedReadsFrame, LeadReadsFrame
<1>4. CASE ~(EditReadsFrame \/ FeedReadsFrame \/ LeadReadsFrame)
  <2>1. Control \/ AudioStep \/ UNCHANGED vars
    BY <1>4 DEF Next, SchedulerStep, SchedulerLoop, Feed, Command, LoopTop,
       NoCommand, NextCommand, CheckShutdown, Exit, Play, Pause, StopCommand,
       Seek, Edit, Suspend, StoreTarget, BumpGeneration, EditReadsTag,
       FeedReadsTag, LeadReadsTag, ReadTag, CollectFinishedJobs, TimelineEnd,
       BeginPublish, PublishBlock, EndPublish, StartIfReady
  <2>2. scheduler' = scheduler
    BY <2>1 DEF Control, AudioStep, vars, schedulerVars, StartScheduler,
       StartAudio, RequestStop, Silence, JoinScheduler, JoinAudio, TypeInv,
       ThreadsJoined,
       BeginCallback, AudioExit, LoadGeneration, LoadTarget, StoreCursor,
       StoreTag, DropStaleBlock, EndDrain, LoadPlaying, Consume, StoreAdvance
  <2>3. QED
    BY <2>2
<1>5. QED
  BY <1>3, <1>4

\* Within a generation the position the scheduler sees never moves back.
THEOREM ViewIsMonotone == Spec => SchedulerViewAdvances
<1>1. TypeInv /\ CursorInv /\ TypeInv' /\ CursorInv' /\ [Next]_vars =>
        [(/\ scheduler \in {"editFrame", "feedFrame", "leadFrame"}
          /\ scheduler' # scheduler) => frame' >= frame]_vars
  BY ViewAdvances
<1>2. QED
  BY <1>1, CursorInvariant, PTL DEF Spec, SchedulerViewAdvances

-----------------------------------------------------------------------------
(***************************************************************************)
(* What the ready queue holds.  A block of a generation is published with  *)
(* the content of that generation: an Edit that replaces the content ends  *)
(* the generation before anything else is published.                       *)
(***************************************************************************)
QueueGenerations ==
    \A i \in DOMAIN readyQueue : readyQueue[i].generation <= generation

ContentInv == QueueGenerations /\ CurrentAudioIsUpToDate

\* The callback takes the head of the queue or leaves the queue alone.
LEMMA ConsumePops ==
    ASSUME TypeInv, Consume
    PROVE  /\ \/ readyQueue' = readyQueue
              \/ (readyQueue # <<>> /\ readyQueue' = Tail(readyQueue))
           /\ generation' = generation /\ version' = version
           /\ scheduler' = scheduler
<1>1. generation' = generation /\ version' = version /\ scheduler' = scheduler
  BY DEF Consume, schedulerVars, renderVars
<1>2. headSeen \in BOOLEAN /\ (headSeen => readyQueue # <<>>)
  BY DEF TypeInv, TypeOK, HeadExists, Consume
<1>3. \/ readyQueue' = readyQueue
      \/ (headSeen /\ readyQueue' = Tail(readyQueue))
  BY <1>2 DEF Consume, IsExactBlock
<1>4. QED
  BY <1>1, <1>2, <1>3

LEMMA NextContentInv == TypeInv /\ ContentInv /\ [Next]_vars => ContentInv'
<1> SUFFICES ASSUME TypeInv, ContentInv, [Next]_vars PROVE ContentInv'
  OBVIOUS
<1>t. readyQueue \in Seq(Block) /\ generation \in Nat
  BY DEF TypeInv, TypeOK
<1>b. \A i \in DOMAIN readyQueue : readyQueue[i] \in Block
  BY <1>t
<1> USE <1>t DEF ContentInv, QueueGenerations, CurrentAudioIsUpToDate,
        ChangingStream, sharedVars, renderVars, schedulerVars, schedulerOnly,
        audioVars
<1>1. CASE StartScheduler
  BY <1>1 DEF StartScheduler
<1>2. CASE StartAudio \/ RequestStop \/ Silence \/ JoinScheduler \/ JoinAudio
  BY <1>2 DEF StartAudio, RequestStop, Silence, JoinScheduler, JoinAudio
<1>3. CASE LoopTop \/ NoCommand \/ NextCommand \/ CheckShutdown \/ Exit
  BY <1>3 DEF LoopTop, NoCommand, NextCommand, CheckShutdown, Exit
<1>4. CASE Play \/ Pause \/ StopCommand
  BY <1>4 DEF Play, Pause, StopCommand
<1>5. ASSUME NEW position \in SeekFrames, Seek(position) PROVE ContentInv'
  BY <1>5 DEF Seek
<1>6. ASSUME NEW region \in EditRegions, Edit(region) PROVE ContentInv'
  BY <1>6 DEF Edit
<1>7. CASE Suspend \/ StoreTarget
  BY <1>7 DEF Suspend, StoreTarget
<1>8. CASE BumpGeneration
  BY <1>8, <1>b DEF BumpGeneration, Block
<1>9. CASE EditReadsTag \/ FeedReadsTag \/ LeadReadsTag
  BY <1>9 DEF EditReadsTag, FeedReadsTag, LeadReadsTag, ReadTag
<1>10. CASE EditReadsFrame \/ FeedReadsFrame \/ LeadReadsFrame
  BY <1>10 DEF EditReadsFrame, FeedReadsFrame, LeadReadsFrame
<1>11. ASSUME NEW finished \in SUBSET Chunks, CollectFinishedJobs(finished)
       PROVE  ContentInv'
  BY <1>11 DEF CollectFinishedJobs
<1>12. CASE TimelineEnd \/ BeginPublish \/ EndPublish \/ StartIfReady
  BY <1>12 DEF TimelineEnd, BeginPublish, EndPublish, StartIfReady
<1>13. CASE PublishBlock
  <2> DEFINE new == [generation |-> generation,
                     firstFrame |-> nextFrameToPublish,
                     version |-> version[frameToChunk(nextFrameToPublish)]]
  <2>1. /\ readyQueue' = Append(readyQueue, new)
        /\ generation' = generation /\ version' = version
        /\ scheduler = "publish" /\ scheduler' = "publish"
    BY <1>13 DEF PublishBlock
  <2>2. \A i \in DOMAIN readyQueue' :
           \/ (i \in DOMAIN readyQueue /\ readyQueue'[i] = readyQueue[i])
           \/ readyQueue'[i] = new
    BY <2>1
  <2>3. QED
    BY <2>1, <2>2
<1>14. CASE BeginCallback \/ AudioExit \/ LoadGeneration \/ LoadTarget
            \/ StoreCursor \/ StoreTag \/ EndDrain \/ LoadPlaying
            \/ StoreAdvance
  BY <1>14 DEF BeginCallback, AudioExit, LoadGeneration, LoadTarget,
         StoreCursor, StoreTag, EndDrain, LoadPlaying, StoreAdvance
<1>15. CASE DropStaleBlock \/ Consume
  <2>1. /\ \/ readyQueue' = readyQueue
           \/ (readyQueue # <<>> /\ readyQueue' = Tail(readyQueue))
        /\ generation' = generation /\ version' = version
        /\ scheduler' = scheduler
    <3>1. CASE DropStaleBlock
      BY <3>1 DEF DropStaleBlock, MayDropHead
    <3>2. CASE Consume
      BY <3>2, ConsumePops
    <3>3. QED
      BY <1>15, <3>1, <3>2
  <2>2. \A i \in DOMAIN readyQueue' :
           \E j \in DOMAIN readyQueue : readyQueue'[i] = readyQueue[j]
    BY <2>1
  <2>3. QED
    BY <2>1, <2>2
<1>16. CASE UNCHANGED vars
  BY <1>16 DEF vars
<1>17. QED
  BY <1>1, <1>2, <1>3, <1>4, <1>5, <1>6, <1>7, <1>8, <1>9, <1>10, <1>11,
     <1>12, <1>13, <1>14, <1>15, <1>16
     DEF Next, Control, SchedulerStep, SchedulerLoop, Feed, Command, AudioStep

\* No block of the current generation carries content an Edit has replaced.
THEOREM AudioIsUpToDate == Spec => []CurrentAudioIsUpToDate
<1>1. Init => ContentInv
  BY DEF Init, ContentInv, QueueGenerations, CurrentAudioIsUpToDate
<1>2. ContentInv => CurrentAudioIsUpToDate
  BY DEF ContentInv
<1>3. QED
  BY <1>1, <1>2, InitTypeInv, NextTypeInv, NextContentInv, PTL DEF Spec

-----------------------------------------------------------------------------
(***************************************************************************)
(* The lead is audio that is in the queue.  ReadyAudioIsContiguous relates *)
(* four things: the queue, the generation, what is published next and      *)
(* where the callback is.  Contiguous states it of any four, and each      *)
(* lemma below is one of the ways a step moves them:                       *)
(*                                                                         *)
(*   - a block is published (PublishIsContiguous);                         *)
(*   - the callback goes on by a block, heard or not                       *)
(*     (AdvanceIsContiguous);                                              *)
(*   - a block that is not live leaves the queue (DropIsContiguous): a     *)
(*     stale one, or the one just heard;                                   *)
(*   - publication begins at, or is overtaken by, the callback's position  *)
(*     when nothing is live (NothingLiveIsContiguous).                     *)
(***************************************************************************)
LeadFrom(next, position) == Larger(0, next - position) \div AudioBlockFrames

LiveIn(block, gen, position) ==
    block.generation = gen /\ block.firstFrame >= position

Contiguous(queue, gen, next, position) ==
    /\ LeadFrom(next, position) <= Len(queue)
    /\ \A i \in DOMAIN queue :
          LET fromEnd == Len(queue) - i + 1
          IN  /\ LiveIn(queue[i], gen, position)
                    <=> fromEnd <= LeadFrom(next, position)
              /\ fromEnd <= LeadFrom(next, position) =>
                    queue[i].firstFrame = next - fromEnd * AudioBlockFrames

\* What Contiguous says of the block that is the e-th from the end.
LEMMA ContiguousAt ==
  ASSUME NEW queue, NEW gen, NEW next, NEW position,
         Contiguous(queue, gen, next, position), NEW i \in DOMAIN queue
  PROVE  LET e == Len(queue) - i + 1
         IN  /\ LiveIn(queue[i], gen, position)
                   <=> e <= LeadFrom(next, position)
             /\ e <= LeadFrom(next, position) =>
                   queue[i].firstFrame = next - e * AudioBlockFrames
  BY Zenon DEF Contiguous

\* The lead in frames is a whole number of blocks.
LEMMA LeadFacts ==
  ASSUME NEW next \in Nat, NEW position \in Nat,
         Aligned(next), Aligned(position)
  PROVE  /\ LeadFrom(next, position) \in Nat
         /\ next <= position => LeadFrom(next, position) = 0
         /\ position <= next =>
               LeadFrom(next, position) * AudioBlockFrames = next - position
<1> DEFINE B == AudioBlockFrames
           n == next \div B
           p == position \div B
<1>1. B \in Nat \ {0}
  BY TimelineAssumption
<1>2. next = B * n /\ n \in Nat /\ position = B * p /\ p \in Nat
  BY <1>1, DivisionFacts DEF Aligned
<1>3. LeadFrom(next, position) = Larger(0, next - position) \div B
  BY DEF LeadFrom
<1>4. CASE next <= position
  <2>1. Larger(0, next - position) = 0
    BY <1>4 DEF Larger
  <2>2. 0 \div B = 0
    BY <1>1
  <2>3. QED
    BY <1>1, <1>3, <1>4, <2>1, <2>2
<1>5. CASE position < next
  <2>1. Larger(0, next - position) = next - position
    BY <1>5 DEF Larger
  <2>2. n - p \in Nat /\ next - position = B * (n - p)
    <3> HIDE DEF B, n, p
    <3>1. B * (n - p) = B * n - B * p
      BY <1>1, <1>2
    <3>2. p <= n
      BY <1>1, <1>2, <1>5
    <3>3. QED
      BY <1>2, <3>1, <3>2
  <2>3. (B * (n - p)) \div B = n - p
    <3> HIDE DEF B, n, p
    <3>1. ASSUME NEW k \in Nat PROVE (B * k) \div B = k
      BY <1>1
    <3>2. QED
      BY <2>2, <3>1
  <2>4. LeadFrom(next, position) = n - p
    BY <1>3, <2>1, <2>2, <2>3
  <2>5. (n - p) * B = B * (n - p)
    <3> HIDE DEF B, n, p
    <3>1. QED
      BY <1>1, <2>2
  <2>6. QED
    BY <1>5, <2>2, <2>4, <2>5
<1>6. QED
  BY <1>4, <1>5

\* One block more, one block less.
LEMMA BlockSteps ==
  ASSUME NEW k \in Int
  PROVE  /\ k * AudioBlockFrames \in Int
         /\ (k + 1) * AudioBlockFrames = k * AudioBlockFrames + AudioBlockFrames
         /\ (k - 1) * AudioBlockFrames = k * AudioBlockFrames - AudioBlockFrames
<1> DEFINE B == AudioBlockFrames
<1>1. B \in Nat \ {0}
  BY TimelineAssumption
<1> HIDE DEF B
<1>2. k * B \in Int /\ (k + 1) * B = k * B + B /\ (k - 1) * B = k * B - B
  BY <1>1
<1>3. QED
  BY <1>2 DEF B

\* Multiples of the block size are in the order of their factors.
LEMMA BlockOrder ==
  ASSUME NEW k \in Int, NEW l \in Int
  PROVE  k <= l <=> k * AudioBlockFrames <= l * AudioBlockFrames
<1> DEFINE B == AudioBlockFrames
<1>1. B \in Nat \ {0}
  BY TimelineAssumption
<1> HIDE DEF B
<1>2. k * B \in Int /\ l * B \in Int
  BY <1>1
<1>3. ASSUME k <= l PROVE k * B <= l * B
  BY <1>1, <1>3
<1>4. ASSUME l < k PROVE l * B < k * B
  BY <1>1, <1>4
<1>5. QED
  BY <1>2, <1>3, <1>4 DEF B

\* The lead grows by one with each block published at or after the position,
\* and shrinks by one with each block the callback passes.
LEMMA LeadSteps ==
  ASSUME NEW next \in Nat, NEW position \in Nat,
         Aligned(next), Aligned(position)
  PROVE  /\ position <= next =>
               LeadFrom(next + AudioBlockFrames, position)
                  = LeadFrom(next, position) + 1
         /\ next < position =>
               LeadFrom(next + AudioBlockFrames, position) = 0
         /\ position < next =>
               LeadFrom(next, position + AudioBlockFrames)
                  = LeadFrom(next, position) - 1
         /\ next <= position =>
               LeadFrom(next, position + AudioBlockFrames) = 0
<1> DEFINE B == AudioBlockFrames
<1>1. B \in Nat \ {0}
  BY TimelineAssumption
<1>2. next + B \in Nat /\ Aligned(next + B)
      /\ position + B \in Nat /\ Aligned(position + B)
  BY <1>1, NextAligned
<1>3. LeadFrom(next, position) \in Nat
      /\ LeadFrom(next + B, position) \in Nat
      /\ LeadFrom(next, position + B) \in Nat
  BY <1>2, LeadFacts
<1>4. ASSUME position <= next
      PROVE  LeadFrom(next + B, position) = LeadFrom(next, position) + 1
  <2> DEFINE l == LeadFrom(next, position)
             m == LeadFrom(next + B, position)
  <2>1. l * B = next - position /\ m * B = next + B - position
    BY <1>1, <1>2, <1>4, LeadFacts
  <2>2. (l + 1) * B = l * B + B
    BY <1>3, BlockSteps
  <2>4. l \in Nat /\ m \in Nat
    BY <1>3
  <2> HIDE DEF l, m
  <2>3. /\ m <= l + 1 <=> m * B <= (l + 1) * B
        /\ l + 1 <= m <=> (l + 1) * B <= m * B
    <3>1. l + 1 \in Int /\ m \in Int
      BY <2>4
    <3>2. QED
      BY <3>1, BlockOrder, Zenon
  <2> HIDE DEF B
  <2>5. (l + 1) * B = m * B
    BY <1>1, <2>1, <2>2
  <2>6. m * B \in Int
    BY <1>1, <2>4
  <2>7. m = l + 1
    BY <2>3, <2>4, <2>5, <2>6
  <2>8. QED
    BY <2>7 DEF l, m
<1>5. ASSUME next < position PROVE LeadFrom(next + B, position) = 0
  BY <1>2, <1>5, AlignedGap, LeadFacts
<1>6. ASSUME position < next
      PROVE  LeadFrom(next, position + B) = LeadFrom(next, position) - 1
  <2> DEFINE l == LeadFrom(next, position)
             m == LeadFrom(next, position + B)
  <2>1. position + B <= next
    BY <1>6, AlignedGap
  <2>2. l * B = next - position /\ m * B = next - (position + B)
    BY <1>2, <1>6, <2>1, LeadFacts
  <2>3. (l - 1) * B = l * B - B
    BY <1>3, BlockSteps
  <2>5. l \in Nat /\ m \in Nat
    BY <1>3
  <2> HIDE DEF l, m
  <2>4. /\ m <= l - 1 <=> m * B <= (l - 1) * B
        /\ l - 1 <= m <=> (l - 1) * B <= m * B
    <3>1. l - 1 \in Int /\ m \in Int
      BY <2>5
    <3>2. QED
      BY <3>1, BlockOrder, Zenon
  <2> HIDE DEF B
  <2>6. (l - 1) * B = m * B
    BY <1>1, <2>2, <2>3
  <2>7. m * B \in Int
    BY <1>1, <2>5
  <2>8. m = l - 1
    BY <2>4, <2>5, <2>6, <2>7
  <2>9. QED
    BY <2>8 DEF l, m
<1>7. ASSUME next <= position PROVE LeadFrom(next, position + B) = 0
  BY <1>1, <1>2, <1>7, LeadFacts
<1>8. QED
  BY <1>4, <1>5, <1>6, <1>7

LEMMA NothingLiveIsContiguous ==
  ASSUME NEW queue \in Seq(Block), NEW gen \in Nat,
         NEW next \in Nat, NEW position \in Nat,
         Aligned(next), Aligned(position), next <= position,
         \A i \in DOMAIN queue : ~LiveIn(queue[i], gen, position)
  PROVE  Contiguous(queue, gen, next, position)
<1>1. LeadFrom(next, position) = 0
  BY LeadFacts
<1>2. \A i \in DOMAIN queue : Len(queue) - i + 1 >= 1
  OBVIOUS
<1>3. QED
  BY <1>1, <1>2 DEF Contiguous

\* Once publication is overtaken nothing in the queue is live.
LEMMA OvertakenNothingLive ==
  ASSUME NEW queue \in Seq(Block), NEW gen \in Nat,
         NEW next \in Nat, NEW position \in Nat,
         Aligned(next), Aligned(position), next <= position,
         Contiguous(queue, gen, next, position)
  PROVE  \A i \in DOMAIN queue : ~LiveIn(queue[i], gen, position)
<1>1. LeadFrom(next, position) = 0
  BY LeadFacts
<1>2. \A i \in DOMAIN queue : Len(queue) - i + 1 >= 1
  OBVIOUS
<1>3. QED
  BY <1>1, <1>2 DEF Contiguous

LEMMA PublishIsContiguous ==
  ASSUME NEW queue \in Seq(Block), NEW gen \in Nat,
         NEW next \in Nat, NEW position \in Nat, NEW block \in Block,
         Aligned(next), Aligned(position),
         Contiguous(queue, gen, next, position),
         block.generation = gen, block.firstFrame = next
  PROVE  Contiguous(Append(queue, block), gen, next + AudioBlockFrames,
                    position)
<1> DEFINE B == AudioBlockFrames
           l == LeadFrom(next, position)
           m == LeadFrom(next + B, position)
           q == Append(queue, block)
<1>1. B \in Nat \ {0} /\ l \in Nat
  BY TimelineAssumption, LeadFacts
<1>2. Len(q) = Len(queue) + 1 /\ DOMAIN q = 1 .. Len(queue) + 1
      /\ DOMAIN queue = 1 .. Len(queue) /\ Len(queue) \in Nat
      /\ q[Len(queue) + 1] = block
      /\ \A i \in DOMAIN queue : q[i] = queue[i]
  OBVIOUS
<1>3. CASE position <= next
  <2>1. m = l + 1
    BY <1>3, LeadSteps
  <2>2. m <= Len(q)
    BY <1>1, <1>2, <2>1 DEF Contiguous
  <2>3. ASSUME NEW i \in DOMAIN q
        PROVE  /\ LiveIn(q[i], gen, position) <=> Len(q) - i + 1 <= m
               /\ Len(q) - i + 1 <= m =>
                     q[i].firstFrame = next + B - (Len(q) - i + 1) * B
    <3>1. CASE i = Len(queue) + 1
      <4>1. Len(q) - i + 1 = 1 /\ 1 <= m
        BY <1>1, <1>2, <2>1, <3>1
      <4>2. LiveIn(q[i], gen, position)
        BY <1>2, <1>3, <3>1 DEF LiveIn
      <4>3. q[i].firstFrame = next + B - 1 * B
        BY <1>1, <1>2, <3>1
      <4>4. QED
        BY <4>1, <4>2, <4>3
    <3>2. CASE i \in DOMAIN queue
      <4> DEFINE e == Len(queue) - i + 1
      <4>1. Len(q) - i + 1 = e + 1 /\ e \in Nat /\ q[i] = queue[i]
        BY <1>2, <3>2
      <4>2. /\ LiveIn(queue[i], gen, position) <=> e <= l
            /\ e <= l => queue[i].firstFrame = next - e * B
        BY <3>2, ContiguousAt
      <4> HIDE DEF e, l, m, q
      <4>3. (e + 1) * B = e * B + B /\ e * B \in Int
        <5>1. e \in Int
          BY <4>1
        <5>2. QED
          BY <5>1, BlockSteps, Zenon
      <4> HIDE DEF B
      <4>4. next + B - (e + 1) * B = next - e * B
        BY <1>1, <4>3
      <4>5. e + 1 <= m <=> e <= l
        BY <1>1, <2>1, <4>1
      <4>6. QED
        BY <4>1, <4>2, <4>4, <4>5 DEF LiveIn
    <3>3. QED
      BY <1>2, <3>1, <3>2
  <2>4. QED
    <3>1. q \in Seq(Block)
      OBVIOUS
    <3> HIDE DEF q
    <3>2. Contiguous(q, gen, next + B, position)
      BY <1>1, <1>2, <2>2, <2>3, <3>1 DEF Contiguous
    <3>3. QED
      BY <3>2 DEF q
<1>4. CASE next < position
  <2>1. \A i \in DOMAIN queue : ~LiveIn(queue[i], gen, position)
    BY <1>4, OvertakenNothingLive
  <2>2. ~LiveIn(block, gen, position)
    BY <1>4 DEF LiveIn
  <2>3. \A i \in DOMAIN q : ~LiveIn(q[i], gen, position)
    BY <1>2, <2>1, <2>2
  <2>4. next + B \in Nat /\ Aligned(next + B) /\ next + B <= position
    BY <1>1, <1>4, NextAligned, AlignedGap
  <2>5. q \in Seq(Block)
    OBVIOUS
  <2>6. QED
    BY <2>3, <2>4, <2>5, NothingLiveIsContiguous
<1>5. QED
  BY <1>3, <1>4

LEMMA AdvanceIsContiguous ==
  ASSUME NEW queue \in Seq(Block), NEW gen \in Nat,
         NEW next \in Nat, NEW position \in Nat,
         Aligned(next), Aligned(position),
         Contiguous(queue, gen, next, position)
  PROVE  Contiguous(queue, gen, next, position + AudioBlockFrames)
<1> DEFINE B == AudioBlockFrames
           l == LeadFrom(next, position)
           m == LeadFrom(next, position + B)
<1>1. B \in Nat \ {0} /\ l \in Nat
  BY TimelineAssumption, LeadFacts
<1>2. position + B \in Nat /\ Aligned(position + B)
  BY <1>1, NextAligned
<1>3. \A i \in DOMAIN queue : queue[i].firstFrame \in Nat
  <2>1. \A i \in DOMAIN queue : queue[i] \in Block
    OBVIOUS
  <2>2. QED
    BY <2>1, TimelineAssumption DEF Block, Frames
<1>4. CASE next <= position
  <2>1. \A i \in DOMAIN queue : ~LiveIn(queue[i], gen, position)
    BY <1>4, OvertakenNothingLive
  <2>2. \A i \in DOMAIN queue : ~LiveIn(queue[i], gen, position + B)
    BY <1>1, <1>3, <2>1 DEF LiveIn
  <2>3. next <= position + B
    BY <1>1, <1>4
  <2>4. QED
    BY <1>2, <2>2, <2>3, NothingLiveIsContiguous
<1>5. CASE position < next
  <2>1. m = l - 1 /\ l * B = next - position
    BY <1>5, LeadSteps, LeadFacts
  <2>2. m <= Len(queue)
    BY <1>1, <2>1 DEF Contiguous
  <2>3. ASSUME NEW i \in DOMAIN queue
        PROVE  /\ LiveIn(queue[i], gen, position + B)
                     <=> Len(queue) - i + 1 <= m
               /\ Len(queue) - i + 1 <= m =>
                     queue[i].firstFrame = next - (Len(queue) - i + 1) * B
    <3> DEFINE e == Len(queue) - i + 1
    <3>1. e \in Nat /\ queue[i].firstFrame \in Nat
      BY <1>3
    <3>2. /\ LiveIn(queue[i], gen, position) <=> e <= l
          /\ e <= l => queue[i].firstFrame = next - e * B
      BY ContiguousAt
    <3> HIDE DEF e, l, m
    <3>3. e * B \in Int /\ (e + 1) * B = e * B + B
      <4>1. e \in Int
        BY <3>1
      <4>2. QED
        BY <4>1, BlockSteps, Zenon
    <3>4. e + 1 <= l <=> (e + 1) * B <= l * B
      <4>1. e + 1 \in Int /\ l \in Int
        BY <1>1, <3>1
      <4>2. QED
        BY <4>1, BlockOrder, Zenon
    <3>5. LiveIn(queue[i], gen, position + B)
             <=> LiveIn(queue[i], gen, position)
                 /\ queue[i].firstFrame >= position + B
      BY <1>1, <3>1 DEF LiveIn
    <3> HIDE DEF B
    <3>6. e <= l => (queue[i].firstFrame >= position + B <=> e + 1 <= l)
      BY <1>1, <2>1, <3>1, <3>2, <3>3, <3>4
    <3>7. e <= m <=> e + 1 <= l
      BY <1>1, <2>1, <3>1
    <3>8. e + 1 <= l => e <= l
      BY <1>1, <3>1
    <3>9. QED
      BY <3>2, <3>5, <3>6, <3>7, <3>8 DEF e
  <2>4. QED
    BY <2>2, <2>3 DEF Contiguous
<1>6. QED
  BY <1>4, <1>5

LEMMA DropIsContiguous ==
  ASSUME NEW queue \in Seq(Block), NEW gen \in Nat,
         NEW next \in Nat, NEW position \in Nat,
         Aligned(next), Aligned(position),
         Contiguous(queue, gen, next, position),
         queue # <<>>, ~LiveIn(Head(queue), gen, position)
  PROVE  Contiguous(Tail(queue), gen, next, position)
<1> DEFINE l == LeadFrom(next, position)
           q == Tail(queue)
<1>1. l \in Nat
  BY LeadFacts
<1>2. /\ Len(queue) \in Nat \ {0} /\ DOMAIN queue = 1 .. Len(queue)
      /\ Head(queue) = queue[1]
      /\ Len(q) = Len(queue) - 1 /\ DOMAIN q = 1 .. Len(queue) - 1
      /\ \A i \in DOMAIN q : q[i] = queue[i + 1]
  OBVIOUS
<1>3. l < Len(queue)
  <2>1. ~(Len(queue) - 1 + 1 <= l)
    BY <1>2 DEF Contiguous
  <2>2. QED
    BY <1>1, <1>2, <2>1
<1>4. l <= Len(q)
  BY <1>1, <1>2, <1>3
<1>5. ASSUME NEW i \in DOMAIN q
      PROVE  /\ LiveIn(q[i], gen, position) <=> Len(q) - i + 1 <= l
             /\ Len(q) - i + 1 <= l =>
                   q[i].firstFrame
                      = next - (Len(q) - i + 1) * AudioBlockFrames
  <2>1. /\ i + 1 \in DOMAIN queue /\ q[i] = queue[i + 1]
        /\ Len(queue) - (i + 1) + 1 = Len(q) - i + 1
    BY <1>2
  <2>2. QED
    BY <2>1 DEF Contiguous
<1>6. QED
  BY <1>4, <1>5 DEF Contiguous

StreamContiguous ==
    scheduler # "bump" =>
        Contiguous(readyQueue, generation, nextFrameToPublish, AudioPosition)

LEMMA StreamMeaning == StreamContiguous <=> ReadyAudioIsContiguous
  BY DEF StreamContiguous, ReadyAudioIsContiguous, Contiguous, LiveIn, LeadFrom,
         Live, Lead

LEMMA PositionTyped ==
  TypeInv => /\ readyQueue \in Seq(Block) /\ generation \in Nat
             /\ nextFrameToPublish \in Nat /\ Aligned(nextFrameToPublish)
             /\ AudioPosition \in Nat /\ Aligned(AudioPosition)
             /\ nextFrameToPublish <= TotalFrames
             /\ AudioPosition <= TotalFrames
  BY TimelineAssumption
     DEF TypeInv, TypeOK, PositionsAligned, AudioPosition, Boundaries

LEMMA InitStream == Init => StreamContiguous
<1> SUFFICES ASSUME Init PROVE StreamContiguous
  OBVIOUS
<1>1. /\ readyQueue \in Seq(Block) /\ generation \in Nat
      /\ nextFrameToPublish \in Nat /\ Aligned(nextFrameToPublish)
      /\ AudioPosition \in Nat /\ Aligned(AudioPosition)
  BY InitTypeInv, PositionTyped
<1>2. nextFrameToPublish = AudioPosition
  BY DEF Init, AudioPosition
<1>3. \A i \in DOMAIN readyQueue :
         ~LiveIn(readyQueue[i], generation, AudioPosition)
  BY DEF Init
<1>4. Contiguous(readyQueue, generation, nextFrameToPublish, AudioPosition)
  BY <1>1, <1>2, <1>3, NothingLiveIsContiguous
<1>5. QED
  BY <1>4 DEF StreamContiguous

\* What a step leaves alone keeps the stream as it is.
LEMMA StreamUnchanged ==
  ASSUME StreamContiguous,
         scheduler # "bump" \/ scheduler' = "bump",
         readyQueue' = readyQueue, generation' = generation,
         nextFrameToPublish' = nextFrameToPublish,
         AudioPosition' = AudioPosition
  PROVE  StreamContiguous'
<1>1. CASE scheduler' = "bump"
  BY <1>1 DEF StreamContiguous
<1>2. CASE scheduler # "bump"
  <2>1. Contiguous(readyQueue, generation, nextFrameToPublish, AudioPosition)
    BY <1>2 DEF StreamContiguous
  <2>2. Contiguous(readyQueue, generation, nextFrameToPublish,
                   AudioPosition)'
    BY <2>1 DEF Contiguous, LiveIn, LeadFrom
  <2>3. QED
    BY <2>2 DEF StreamContiguous
<1>3. QED
  BY <1>1, <1>2

LEMMA NextStream ==
  /\ TypeInv /\ CursorInv /\ QueueGenerations /\ StreamContiguous
  /\ [Next]_vars
  => StreamContiguous'
<1> SUFFICES ASSUME TypeInv, CursorInv, QueueGenerations, StreamContiguous,
                    [Next]_vars
             PROVE  StreamContiguous'
  OBVIOUS
<1>i. TypeInv' /\ CursorInv'
  BY NextTypeInv, NextCursorInv
<1>t. /\ generation \in Nat \ {0} /\ audioGeneration \in Nat
      /\ targetFrame \in Nat /\ frame \in Nat /\ expected \in Nat
      /\ AudioBlockFrames \in Nat \ {0}
  BY PositionsTyped
<1>p. /\ readyQueue \in Seq(Block) /\ generation \in Nat
      /\ nextFrameToPublish \in Nat /\ Aligned(nextFrameToPublish)
      /\ AudioPosition \in Nat /\ Aligned(AudioPosition)
      /\ nextFrameToPublish <= TotalFrames /\ AudioPosition <= TotalFrames
  BY PositionTyped
<1>q. /\ readyQueue' \in Seq(Block) /\ generation' \in Nat
      /\ nextFrameToPublish' \in Nat /\ Aligned(nextFrameToPublish')
      /\ AudioPosition' \in Nat /\ Aligned(AudioPosition')
  <2>1. (TypeInv => /\ readyQueue \in Seq(Block) /\ generation \in Nat
                    /\ nextFrameToPublish \in Nat
                    /\ Aligned(nextFrameToPublish)
                    /\ AudioPosition \in Nat /\ Aligned(AudioPosition))'
    BY PositionTyped, PTL
  <2>2. QED
    BY <1>i, <2>1 DEF Aligned
<1>b. \A i \in DOMAIN readyQueue : readyQueue[i] \in Block
  BY <1>p
<1>c. scheduler # "bump" =>
        Contiguous(readyQueue, generation, nextFrameToPublish, AudioPosition)
  BY DEF StreamContiguous
<1>r. ASSUME Contiguous(readyQueue', generation', nextFrameToPublish',
                        AudioPosition')
      PROVE  StreamContiguous'
  BY <1>r DEF StreamContiguous
\* Nothing live, and publication not ahead of the callback, is contiguous.
<1>n. ASSUME nextFrameToPublish' <= AudioPosition',
             \A i \in DOMAIN readyQueue' :
                ~LiveIn(readyQueue'[i], generation', AudioPosition')
      PROVE  StreamContiguous'
  BY <1>n, <1>q, <1>r, NothingLiveIsContiguous
<1>1. CASE StartScheduler
  <2>1. /\ readyQueue' = <<>> /\ frame' = nextFrameToPublish'
        /\ scheduler' = "loop"
    BY <1>1 DEF StartScheduler
  <2>2. nextFrameToPublish' <= AudioPosition'
    BY <1>i, <2>1 DEF CursorInv, FrameKnown, Resetting
  <2>3. QED
    BY <2>1, <2>2, <1>n
<1>2. CASE StartAudio \/ RequestStop \/ Silence \/ JoinScheduler \/ JoinAudio
  BY <1>2, StreamUnchanged DEF StartAudio, RequestStop, Silence, JoinScheduler,
     JoinAudio, sharedVars, schedulerVars, audioVars, AudioPosition, TypeInv,
     ThreadsJoined
<1>3. CASE \/ LoopTop \/ NoCommand \/ NextCommand \/ CheckShutdown \/ Exit
           \/ Play \/ Pause \/ StopCommand
           \/ EditReadsTag \/ EditReadsFrame \/ Suspend \/ StoreTarget
           \/ FeedReadsTag \/ FeedReadsFrame \/ EndPublish
           \/ LeadReadsTag \/ LeadReadsFrame \/ StartIfReady
  <2>1. CASE StoreTarget
    BY <2>1 DEF StoreTarget, StreamContiguous
  <2>2. CASE ~StoreTarget
    <3>1. /\ scheduler # "bump"
          /\ readyQueue' = readyQueue /\ generation' = generation
          /\ nextFrameToPublish' = nextFrameToPublish
          /\ targetFrame' = targetFrame /\ UNCHANGED audioVars
      BY <1>3, <2>2 DEF LoopTop, NoCommand, NextCommand, CheckShutdown, Exit,
         Play, Pause, StopCommand, EditReadsTag, EditReadsFrame, Suspend,
         FeedReadsTag, FeedReadsFrame, EndPublish, LeadReadsTag, LeadReadsFrame,
         ReadTag, StartIfReady, sharedVars, schedulerOnly, renderVars
    <3>2. QED
      BY <3>1, StreamUnchanged DEF AudioPosition, audioVars
  <2>3. QED
    BY <2>1, <2>2
<1>4. ASSUME NEW position \in SeekFrames, Seek(position)
      PROVE  StreamContiguous'
  BY <1>4, StreamUnchanged DEF Seek, sharedVars, audioVars, AudioPosition
<1>5. ASSUME NEW region \in EditRegions, Edit(region) PROVE StreamContiguous'
  BY <1>5, StreamUnchanged DEF Edit, sharedVars, audioVars, AudioPosition
<1>6. ASSUME NEW finished \in SUBSET Chunks, CollectFinishedJobs(finished)
      PROVE  StreamContiguous'
  BY <1>6, StreamUnchanged
     DEF CollectFinishedJobs, sharedVars, audioVars, AudioPosition
<1>7. CASE BumpGeneration
  <2>1. /\ readyQueue' = readyQueue /\ generation' = generation + 1
        /\ nextFrameToPublish' = frame /\ targetFrame' = targetFrame
        /\ scheduler = "bump" /\ UNCHANGED audioVars
    BY <1>7 DEF BumpGeneration
  <2>2. AudioPosition' = targetFrame /\ frame = targetFrame
    BY <1>t, <2>1 DEF AudioPosition, CursorInv, GenerationsOrdered,
       ResetPending, audioVars
  <2>3. \A i \in DOMAIN readyQueue : readyQueue[i].generation \in Nat
    BY <1>b DEF Block
  <2>4. \A i \in DOMAIN readyQueue :
           ~LiveIn(readyQueue[i], generation + 1, AudioPosition')
    BY <1>t, <2>3 DEF LiveIn, QueueGenerations
  <2>5. QED
    BY <1>t, <1>n, <2>1, <2>2, <2>4
<1>8. CASE TimelineEnd
  <2>1. /\ readyQueue' = readyQueue /\ generation' = generation
        /\ nextFrameToPublish' = TotalFrames
        /\ AudioPosition' = AudioPosition
        /\ scheduler = "feed" /\ frame >= TotalFrames
    BY <1>8 DEF TimelineEnd, AudioPosition, audioVars
  <2>2. frame <= AudioPosition
    BY <2>1 DEF CursorInv, FrameKnown, Resetting
  <2>3. AudioPosition = TotalFrames
    BY <1>p, <1>t, <2>1, <2>2, TimelineAssumption
  <2>4. \A i \in DOMAIN readyQueue :
           ~LiveIn(readyQueue[i], generation, AudioPosition)
    BY <1>p, <1>c, <2>1, <2>3, OvertakenNothingLive
  <2>5. QED
    BY <1>p, <1>n, <2>1, <2>3, <2>4
<1>9. CASE BeginPublish
  <2>1. /\ readyQueue' = readyQueue /\ generation' = generation
        /\ nextFrameToPublish' = Larger(nextFrameToPublish, frame)
        /\ AudioPosition' = AudioPosition
        /\ scheduler = "feed"
    BY <1>9 DEF BeginPublish, AudioPosition, sharedVars, audioVars
  <2>2. frame <= AudioPosition
    BY <2>1 DEF CursorInv, FrameKnown, Resetting
  <2>3. CASE nextFrameToPublish >= frame
    BY <2>1, <2>3, StreamUnchanged DEF Larger
  <2>4. CASE ~(nextFrameToPublish >= frame)
    <3>1. nextFrameToPublish <= AudioPosition
          /\ nextFrameToPublish' <= AudioPosition
      BY <1>p, <1>t, <2>1, <2>2, <2>4 DEF Larger
    <3>2. \A i \in DOMAIN readyQueue :
             ~LiveIn(readyQueue[i], generation, AudioPosition)
      BY <1>p, <1>c, <2>1, <3>1, OvertakenNothingLive
    <3>3. QED
      BY <1>n, <2>1, <3>1, <3>2
  <2>5. QED
    BY <2>3, <2>4
<1>10. CASE PublishBlock
  <2> DEFINE new == [generation |-> generation,
                     firstFrame |-> nextFrameToPublish,
                     version |-> version[frameToChunk(nextFrameToPublish)]]
  <2>1. /\ readyQueue' = Append(readyQueue, new) /\ generation' = generation
        /\ nextFrameToPublish' = nextFrameToPublish + AudioBlockFrames
        /\ AudioPosition' = AudioPosition
        /\ scheduler = "publish"
    BY <1>10 DEF PublishBlock, AudioPosition, audioVars
  <2>2. new = readyQueue'[Len(readyQueue')]
    BY <1>p, <2>1
  <2>3. new \in Block
    <3>1. Len(readyQueue') \in DOMAIN readyQueue'
      BY <1>p, <2>1
    <3>2. QED
      BY <1>q, <2>2, <3>1
  <2>4. new.generation = generation /\ new.firstFrame = nextFrameToPublish
    OBVIOUS
  <2> HIDE DEF new
  <2>5. Contiguous(Append(readyQueue, new), generation,
                   nextFrameToPublish + AudioBlockFrames, AudioPosition)
    BY <1>p, <1>c, <2>1, <2>3, <2>4, PublishIsContiguous
  <2>6. QED
    BY <1>r, <2>1, <2>5
<1>11. CASE \/ BeginCallback \/ AudioExit \/ StoreCursor \/ StoreTag
            \/ EndDrain \/ LoadPlaying \/ StoreAdvance
  <2>1. /\ scheduler' = scheduler
        /\ readyQueue' = readyQueue /\ generation' = generation
        /\ nextFrameToPublish' = nextFrameToPublish
        /\ targetFrame' = targetFrame
        /\ audioGeneration' = audioGeneration /\ expected' = expected
        /\ audio # "adopt" /\ audio' # "adopt"
    BY <1>11 DEF BeginCallback, AudioExit, StoreCursor, StoreTag, EndDrain,
       LoadPlaying, StoreAdvance, sharedVars, schedulerVars
  <2>2. QED
    BY <2>1, StreamUnchanged DEF AudioPosition
<1>12. CASE LoadGeneration
  <2>1. /\ scheduler' = scheduler
        /\ readyQueue' = readyQueue /\ generation' = generation
        /\ nextFrameToPublish' = nextFrameToPublish
        /\ targetFrame' = targetFrame
        /\ audioGeneration' = generation /\ expected' = expected
        /\ audio = "generation"
        /\ audio' = IF audioGeneration # generation THEN "adopt" ELSE "drain"
    BY <1>12 DEF LoadGeneration, sharedVars, schedulerVars
  <2>2. AudioPosition' = AudioPosition
    BY <2>1 DEF AudioPosition
  <2>3. QED
    BY <2>1, <2>2, StreamUnchanged
<1>13. CASE LoadTarget
  <2>1. expected' = targetFrame
    BY <1>13, AlignFacts DEF LoadTarget, TypeInv, TypeOK, PositionsAligned
  <2>2. /\ scheduler' = scheduler
        /\ readyQueue' = readyQueue /\ generation' = generation
        /\ nextFrameToPublish' = nextFrameToPublish
        /\ targetFrame' = targetFrame
        /\ audioGeneration' = audioGeneration
        /\ audio = "adopt" /\ audio' = "cursor"
    BY <1>13 DEF LoadTarget, sharedVars, schedulerVars
  <2>3. QED
    BY <2>1, <2>2, StreamUnchanged DEF AudioPosition
<1>14. CASE DropStaleBlock
  <2>1. /\ scheduler' = scheduler /\ audio = "drain"
        /\ readyQueue # <<>> /\ Stale(Head(readyQueue))
        /\ readyQueue' = Tail(readyQueue) /\ generation' = generation
        /\ nextFrameToPublish' = nextFrameToPublish
        /\ AudioPosition' = AudioPosition
    BY <1>14 DEF DropStaleBlock, MayDropHead, schedulerVars, AudioPosition
  <2>2. Head(readyQueue) \in Block
    BY <1>p, <2>1
  <2>3. ~LiveIn(Head(readyQueue), generation, AudioPosition)
    BY <1>t, <2>1, <2>2, TimelineAssumption
       DEF Stale, LiveIn, AudioPosition, CursorInv, GenerationsOrdered, Block,
           Frames
  <2>4. CASE scheduler = "bump"
    BY <2>1, <2>4 DEF StreamContiguous
  <2>5. CASE scheduler # "bump"
    <3>1. Contiguous(Tail(readyQueue), generation, nextFrameToPublish,
                     AudioPosition)
      BY <1>p, <1>c, <2>1, <2>3, <2>5, DropIsContiguous
    <3>2. QED
      BY <1>r, <2>1, <3>1
  <2>6. QED
    BY <2>4, <2>5
<1>15. CASE Consume
  <2>1. /\ scheduler' = scheduler /\ audio = "consume" /\ audio' = "advance"
        /\ readyQueue' = IF IsExactBlock THEN Tail(readyQueue) ELSE readyQueue
        /\ generation' = generation /\ targetFrame' = targetFrame
        /\ nextFrameToPublish' = nextFrameToPublish
        /\ audioGeneration' = audioGeneration
        /\ expected' = expected + AudioBlockFrames
    BY <1>15 DEF Consume, schedulerVars
  <2>2. IsExactBlock => /\ readyQueue # <<>> /\ Head(readyQueue) \in Block
                        /\ Head(readyQueue).generation = audioGeneration
                        /\ Head(readyQueue).firstFrame = expected
    BY <1>p, <2>1 DEF IsExactBlock, TypeInv, HeadExists
  <2>3. CASE scheduler = "bump"
    BY <2>1, <2>3 DEF StreamContiguous
  <2>4. CASE scheduler # "bump" /\ audioGeneration # generation
    <3>1. AudioPosition' = AudioPosition
      BY <2>1, <2>4 DEF AudioPosition
    <3>2. CASE ~IsExactBlock
      BY <2>1, <2>4, <3>1, <3>2, StreamUnchanged
    <3>3. CASE IsExactBlock
      <4>1. ~LiveIn(Head(readyQueue), generation, AudioPosition)
        BY <2>2, <2>4, <3>3 DEF LiveIn
      <4>2. Contiguous(Tail(readyQueue), generation, nextFrameToPublish,
                       AudioPosition)
        BY <1>p, <1>c, <2>2, <2>4, <3>3, <4>1, DropIsContiguous
      <4>3. QED
        BY <1>r, <2>1, <3>1, <3>3, <4>2
    <3>4. QED
      BY <3>2, <3>3
  <2>5. CASE scheduler # "bump" /\ audioGeneration = generation
    <3>1. /\ AudioPosition = expected
          /\ AudioPosition' = AudioPosition + AudioBlockFrames
      BY <2>1, <2>5 DEF AudioPosition
    <3>2. Contiguous(readyQueue, generation, nextFrameToPublish,
                     AudioPosition + AudioBlockFrames)
      BY <1>p, <1>c, <2>5, AdvanceIsContiguous
    <3>3. CASE ~IsExactBlock
      BY <1>r, <2>1, <3>1, <3>2, <3>3
    <3>4. CASE IsExactBlock
      <4>1. ~LiveIn(Head(readyQueue), generation,
                    AudioPosition + AudioBlockFrames)
        BY <1>t, <2>2, <3>1, <3>4 DEF LiveIn
      <4>2. /\ AudioPosition + AudioBlockFrames \in Nat
            /\ Aligned(AudioPosition + AudioBlockFrames)
        BY <1>p, <1>t, NextAligned
      <4>3. Contiguous(Tail(readyQueue), generation, nextFrameToPublish,
                       AudioPosition + AudioBlockFrames)
        BY <1>p, <2>2, <3>2, <3>4, <4>1, <4>2, DropIsContiguous
      <4>4. QED
        BY <1>r, <2>1, <3>1, <3>4, <4>3
    <3>5. QED
      BY <3>3, <3>4
  <2>6. QED
    BY <2>3, <2>4, <2>5
<1>16. CASE UNCHANGED vars
  BY <1>16, StreamUnchanged
     DEF vars, sharedVars, schedulerVars, audioVars, AudioPosition
<1>17. QED
  BY <1>1, <1>2, <1>3, <1>4, <1>5, <1>6, <1>7, <1>8, <1>9, <1>10, <1>11,
     <1>12, <1>13, <1>14, <1>15, <1>16
     DEF Next, Control, SchedulerStep, SchedulerLoop, Feed, Command, AudioStep

LEMMA StreamInvariant == Spec => [](TypeInv /\ StreamContiguous)
<1>1. Init => ContentInv
  BY DEF Init, ContentInv, QueueGenerations, CurrentAudioIsUpToDate
<1>2. ContentInv => QueueGenerations
  BY DEF ContentInv
<1>3. QED
  BY <1>1, <1>2, InitTypeInv, NextTypeInv, InitCursorInv, NextCursorInv,
     NextContentInv, InitStream, NextStream, PTL DEF Spec

\* The lead the scheduler counts is audio that really is in the queue, behind
\* whatever is stale, each block once and in order.
THEOREM AudioIsContiguous == Spec => []ReadyAudioIsContiguous
  BY StreamInvariant, StreamMeaning, PTL

-----------------------------------------------------------------------------
(***************************************************************************)
(* The start of playback.  While playback is disabled and the engine runs  *)
(* on, the callback goes on by one block at most, and only if it had found *)
(* playback enabled before.  So the position the scheduler counts the lead *)
(* from is at most one block behind when it enables playback.              *)
(***************************************************************************)
Muted == ~playing /\ ~stop

StopsFirst ==
    control \in {"silencing", "joiningScheduler", "joiningAudio"} => stop

AdvanceIsOneBlock ==
    audio = "advance" => expected = nextUnconsumedFrame + AudioBlockFrames

\* The target stays until the next generation begins.
FirstTarget == generation = 1 /\ scheduler # "bump" => targetFrame = 0
AdoptsTarget ==
    /\ audio \in {"cursor", "tag"} /\ audioGeneration = generation
    /\ scheduler # "bump"
    => expected = targetFrame

ConsumesCurrent == audio = "consume" /\ audioGeneration = generation

\* What the scheduler knows of the position while playback is disabled: between
\* its two loads, and once it has the position to count from.
UnadoptedIsSilent ==
    scheduler = "leadFrame" /\ ~tagMatches /\ Muted =>
        AudioPosition = targetFrame /\ ~ConsumesCurrent
StartFrameIsClose ==
    scheduler = "start" /\ Muted =>
        /\ AudioPosition <= frame + AudioBlockFrames
        /\ ConsumesCurrent => AudioPosition <= frame

StartInv == /\ StopsFirst
            /\ AdvanceIsOneBlock
            /\ FirstTarget
            /\ AdoptsTarget
            /\ UnadoptedIsSilent
            /\ StartFrameIsClose

LEMMA InitStartInv == Init => StartInv
  BY DEF Init, StartInv, StopsFirst, AdvanceIsOneBlock, FirstTarget,
         AdoptsTarget, UnadoptedIsSilent, StartFrameIsClose

\* The position the scheduler loads while playback is disabled is the callback's
\* or one block behind it.
LEMMA LoadedFrameIsClose ==
  ASSUME TypeInv, CursorInv, StartInv, scheduler = "leadFrame", Muted
  PROVE  /\ AudioPosition <= CurrentFrame + AudioBlockFrames
         /\ ConsumesCurrent => AudioPosition <= CurrentFrame
<1>t. /\ generation \in Nat \ {0} /\ audioCursorGeneration \in Nat \ {0}
      /\ audioGeneration \in Nat
      /\ targetFrame \in Nat /\ nextUnconsumedFrame \in Nat
      /\ expected \in Nat /\ AudioBlockFrames \in Nat \ {0}
  BY PositionsTyped
<1>1. CurrentFrame = IF tagMatches THEN nextUnconsumedFrame ELSE targetFrame
  BY CurrentFrameTyped
<1>2. CASE ~tagMatches
  BY <1>t, <1>1, <1>2 DEF StartInv, UnadoptedIsSilent
<1>3. CASE tagMatches
  <2>1. audioCursorGeneration = generation
    BY <1>3 DEF CursorInv, TagFresh
  <2>2. CASE Unstarted
    <3>1. generation = 1 /\ nextUnconsumedFrame = 0 /\ targetFrame = 0
      BY <2>1, <2>2 DEF CursorInv, UnstartedCursor, StartInv, FirstTarget
    <3>2. AudioPosition = 0
      BY <2>2, <3>1 DEF Unstarted, AudioPosition, StartInv, AdoptsTarget
    <3>3. QED
      BY <1>t, <1>1, <1>3, <3>1, <3>2
  <2>3. CASE ~Unstarted
    <3>1. audioGeneration = generation /\ audio \notin {"adopt", "cursor"}
      BY <1>t, <2>1, <2>3
         DEF CursorInv, TagAgrees, GenerationsOrdered, Unstarted
    <3>2. AudioPosition = expected
      BY <3>1 DEF AudioPosition
    <3>3. \/ expected = nextUnconsumedFrame
          \/ /\ audio = "advance"
             /\ expected = nextUnconsumedFrame + AudioBlockFrames
      BY <1>t, <3>1 DEF CursorInv, CursorStored, StartInv, AdvanceIsOneBlock
    <3>4. QED
      BY <1>t, <1>1, <1>3, <3>2, <3>3 DEF ConsumesCurrent
  <2>4. QED
    BY <2>2, <2>3
<1>4. QED
  BY <1>2, <1>3

LEMMA NextStartInv == TypeInv /\ CursorInv /\ StartInv /\ [Next]_vars => StartInv'
<1> SUFFICES ASSUME TypeInv, CursorInv, StartInv, [Next]_vars PROVE StartInv'
  OBVIOUS
<1>t. /\ generation \in Nat \ {0} /\ audioCursorGeneration \in Nat \ {0}
      /\ audioGeneration \in Nat
      /\ targetFrame \in Nat /\ nextUnconsumedFrame \in Nat
      /\ frame \in Nat /\ expected \in Nat
      /\ AudioBlockFrames \in Nat \ {0}
  BY PositionsTyped
<1>b. stop \in BOOLEAN /\ playing \in BOOLEAN /\ tagMatches \in BOOLEAN
  BY DEF TypeInv, TypeOK
<1> USE <1>t DEF StartInv, StopsFirst, AdvanceIsOneBlock, FirstTarget,
        AdoptsTarget, UnadoptedIsSilent, StartFrameIsClose, Muted,
        ConsumesCurrent, AudioPosition, sharedVars, renderVars, schedulerVars,
        schedulerOnly, audioVars
<1>1. CASE StartScheduler
  BY <1>1 DEF StartScheduler, TypeInv, ThreadsJoined
<1>2. CASE StartAudio
  BY <1>2 DEF StartAudio, TypeInv, ThreadsJoined
<1>3. CASE RequestStop \/ Silence \/ JoinScheduler \/ JoinAudio
  BY <1>3 DEF RequestStop, Silence, JoinScheduler, JoinAudio
<1>4. CASE LoopTop \/ NoCommand \/ NextCommand \/ CheckShutdown \/ Exit
  BY <1>4 DEF LoopTop, NoCommand, NextCommand, CheckShutdown, Exit
<1>5. CASE Play \/ Pause \/ StopCommand
  BY <1>5 DEF Play, Pause, StopCommand
<1>6. ASSUME NEW position \in SeekFrames, Seek(position) PROVE StartInv'
  BY <1>6 DEF Seek
<1>7. ASSUME NEW region \in EditRegions, Edit(region) PROVE StartInv'
  BY <1>7 DEF Edit
<1>8. CASE Suspend \/ StoreTarget
  BY <1>8 DEF Suspend, StoreTarget
<1>9. CASE BumpGeneration
  BY <1>9 DEF BumpGeneration, CursorInv, GenerationsOrdered
<1>10. CASE EditReadsTag \/ FeedReadsTag
  BY <1>10 DEF EditReadsTag, FeedReadsTag, ReadTag
<1>11. CASE LeadReadsTag
  <2>1. /\ scheduler = "leadTag" /\ scheduler' = "leadFrame"
        /\ UNCHANGED <<control, sharedVars, playRequested, nextFrameToPublish,
                       frame, renderVars, audioVars>>
    BY <1>11, Zenon DEF LeadReadsTag, ReadTag
  <2>2. tagMatches' <=> audioCursorGeneration = generation
    BY <1>11, Zenon DEF LeadReadsTag, ReadTag
  <2>3. ASSUME audioCursorGeneration # generation
        PROVE  AudioPosition = targetFrame /\ ~ConsumesCurrent
    BY <2>1, <2>3 DEF CursorInv, TagAgrees
  <2>4. QED
    BY <2>1, <2>2, <2>3
<1>12. CASE EditReadsFrame \/ FeedReadsFrame
  BY <1>12 DEF EditReadsFrame, FeedReadsFrame
<1>13. CASE LeadReadsFrame
  <2>1. /\ scheduler = "leadFrame" /\ scheduler' = "start"
        /\ frame' = CurrentFrame
        /\ UNCHANGED <<control, sharedVars, audioVars>>
    BY <1>13 DEF LeadReadsFrame
  <2>2. Muted => /\ AudioPosition <= CurrentFrame + AudioBlockFrames
                 /\ ConsumesCurrent => AudioPosition <= CurrentFrame
    BY <2>1, LoadedFrameIsClose
  <2>3. QED
    BY <2>1, <2>2
<1>14. ASSUME NEW finished \in SUBSET Chunks, CollectFinishedJobs(finished)
       PROVE  StartInv'
  BY <1>14 DEF CollectFinishedJobs
<1>15. CASE TimelineEnd \/ BeginPublish \/ PublishBlock \/ EndPublish
            \/ StartIfReady
  BY <1>15 DEF TimelineEnd, BeginPublish, PublishBlock, EndPublish, StartIfReady
<1>16. CASE BeginCallback \/ AudioExit
  BY <1>16 DEF BeginCallback, AudioExit
<1>17. CASE LoadGeneration
  BY <1>17 DEF LoadGeneration
<1>18. CASE LoadTarget
  <2>1. expected' = targetFrame
    BY <1>18, AlignFacts DEF LoadTarget, TypeInv, TypeOK, PositionsAligned
  <2>2. QED
    BY <1>18, <2>1 DEF LoadTarget
<1>19. CASE StoreCursor \/ StoreTag
  BY <1>19 DEF StoreCursor, StoreTag
<1>20. CASE DropStaleBlock \/ EndDrain
  BY <1>20 DEF DropStaleBlock, EndDrain
<1>21. CASE LoadPlaying
  BY <1>b, <1>21 DEF LoadPlaying
<1>22. CASE Consume
  <2>1. nextUnconsumedFrame = expected
    BY <1>22 DEF Consume, CursorInv, CursorStored, NotYetRun
  <2>2. QED
    BY <1>22, <2>1 DEF Consume
<1>23. CASE StoreAdvance
  BY <1>23 DEF StoreAdvance
<1>24. CASE UNCHANGED vars
  BY <1>24 DEF vars
<1>25. QED
  BY <1>1, <1>2, <1>3, <1>4, <1>5, <1>6, <1>7, <1>8, <1>9, <1>10, <1>11,
     <1>12, <1>13, <1>14, <1>15, <1>16, <1>17, <1>18, <1>19, <1>20, <1>21,
     <1>22, <1>23, <1>24
     DEF Next, Control, SchedulerStep, SchedulerLoop, Feed, Command, AudioStep

\* Only the scheduler's test enables playback.
LEMMA OnlyStartPlays ==
  ASSUME TypeInv, [Next]_vars, ~playing, playing' PROVE StartIfReady
<1>1. ~UNCHANGED playing
  OBVIOUS
<1>2. CASE Control \/ Command
  BY <1>1, <1>2 DEF Control, StartScheduler, StartAudio, RequestStop, Silence,
     JoinScheduler, JoinAudio, Command, Play, Pause, Seek, Edit, StopCommand,
     sharedVars
<1>3. CASE AudioStep \/ UNCHANGED vars
  BY <1>1, <1>3 DEF AudioStep, vars, sharedVars, BeginCallback, AudioExit,
     LoadGeneration, LoadTarget, StoreCursor, StoreTag, DropStaleBlock,
     EndDrain, LoadPlaying, Consume, StoreAdvance
<1>4. ASSUME NEW finished \in SUBSET Chunks, CollectFinishedJobs(finished)
      PROVE  FALSE
  BY <1>1, <1>4 DEF CollectFinishedJobs, sharedVars
<1>5. CASE SchedulerLoop /\ ~StartIfReady
  BY <1>1, <1>5 DEF SchedulerLoop, Feed, LoopTop, NoCommand, NextCommand,
     CheckShutdown, Exit, EditReadsTag, EditReadsFrame, ReadTag, Suspend,
     StoreTarget, BumpGeneration, FeedReadsTag, FeedReadsFrame, TimelineEnd,
     BeginPublish, PublishBlock, EndPublish, LeadReadsTag, LeadReadsFrame,
     sharedVars
<1>6. QED
  BY <1>2, <1>3, <1>4, <1>5 DEF Next, SchedulerStep

\* Every block position from the callback's to the last published one is in the
\* queue.
LEMMA PublishedIsQueued ==
  ASSUME TypeInv, StreamContiguous, scheduler # "bump",
         NEW f \in Nat, Aligned(f), f >= AudioPosition, f < nextFrameToPublish
  PROVE  \E i \in DOMAIN readyQueue :
            Live(readyQueue[i]) /\ readyQueue[i].firstFrame = f
<1> DEFINE next == nextFrameToPublish
           position == AudioPosition
           k == LeadFrom(next, f)
           lead == LeadFrom(next, position)
           i == Len(readyQueue) - k + 1
<1>1. /\ readyQueue \in Seq(Block) /\ next \in Nat /\ Aligned(next)
      /\ position \in Nat /\ Aligned(position)
      /\ AudioBlockFrames \in Nat \ {0}
  BY PositionTyped, TimelineAssumption
<1>2. Contiguous(readyQueue, generation, next, position)
  BY DEF StreamContiguous
<1>3. /\ k \in Nat /\ k * AudioBlockFrames = next - f
      /\ lead \in Nat /\ lead * AudioBlockFrames = next - position
  BY <1>1, LeadFacts
<1> HIDE DEF next, position, k, lead
<1>4. k <= lead
  <2>1. k * AudioBlockFrames <= lead * AudioBlockFrames
    BY <1>1, <1>3 DEF position
  <2>2. k \in Int /\ lead \in Int
    BY <1>3
  <2>3. QED
    BY <2>1, <2>2, BlockOrder, Zenon
<1>5. k >= 1
  <2>1. k # 0
    BY <1>1, <1>3 DEF next
  <2>2. QED
    BY <1>3, <2>1
<1>6. lead <= Len(readyQueue)
  BY <1>2, Zenon DEF Contiguous, lead
<1>7. i \in DOMAIN readyQueue /\ Len(readyQueue) - i + 1 = k
  BY <1>1, <1>3, <1>4, <1>5, <1>6
<1> HIDE DEF i
<1>8. /\ LiveIn(readyQueue[i], generation, position)
      /\ readyQueue[i].firstFrame = next - k * AudioBlockFrames
  BY <1>2, <1>4, <1>7, ContiguousAt DEF lead
<1>9. readyQueue[i].firstFrame = f
  BY <1>1, <1>3, <1>8
<1>10. QED
  BY <1>7, <1>8, <1>9 DEF Live, LiveIn, position

LEMMA StartIsPrebuffered ==
  ASSUME TypeInv, CursorInv, StartInv, StreamContiguous, [Next]_vars,
         ~stop, ~playing, playing'
  PROVE  LET wanted == Smaller(PrebufferBlocks * AudioBlockFrames,
                               TotalFrames - frame)
         IN  /\ AudioPosition <= frame + AudioBlockFrames
             /\ \A f \in Frames :
                   /\ f >= AudioPosition /\ f < frame + wanted
                   /\ f % AudioBlockFrames = 0
                   => \E i \in DOMAIN readyQueue :
                         Live(readyQueue[i]) /\ readyQueue[i].firstFrame = f
<1> DEFINE pre == PrebufferBlocks * AudioBlockFrames
           wanted == Smaller(pre, TotalFrames - frame)
           l == LeadFrom(nextFrameToPublish, frame)
<1>1. scheduler = "start" /\ EnoughPublished
  BY OnlyStartPlays DEF StartIfReady
<1>2. AudioPosition <= frame + AudioBlockFrames
  BY <1>1 DEF StartInv, StartFrameIsClose, Muted
<1>3. /\ frame \in Nat /\ Aligned(frame) /\ frame <= TotalFrames
      /\ nextFrameToPublish \in Nat /\ Aligned(nextFrameToPublish)
      /\ AudioBlockFrames \in Nat \ {0} /\ TotalFrames \in Nat
      /\ PrebufferBlocks \in Nat
  BY TimelineAssumption, PlaybackAssumption
     DEF TypeInv, TypeOK, PositionsAligned, Boundaries
<1>4. pre \in Nat
  BY <1>3
<1>5. l \in Nat
  BY <1>3, LeadFacts
<1>6. l >= PrebufferBlocks \/ nextFrameToPublish >= TotalFrames
  BY <1>1 DEF EnoughPublished, readyLeadBlocks, LeadFrom
<1>7. l >= PrebufferBlocks => pre <= l * AudioBlockFrames
  <2>1. l \in Int /\ PrebufferBlocks \in Int
        /\ (l >= PrebufferBlocks => PrebufferBlocks <= l)
    BY <1>3, <1>5
  <2>2. QED
    BY <2>1, BlockOrder, Zenon
<1>8. frame <= AudioPosition
  BY <1>1 DEF CursorInv, FrameKnown, Resetting
<1>9. /\ frame <= nextFrameToPublish =>
            l * AudioBlockFrames = nextFrameToPublish - frame
      /\ nextFrameToPublish <= frame => l * AudioBlockFrames = 0
  BY <1>3, LeadFacts
<1> HIDE DEF l, pre
<1>10. ASSUME NEW f \in Frames, f >= AudioPosition, f < frame + wanted,
              f % AudioBlockFrames = 0
       PROVE  \E i \in DOMAIN readyQueue :
                 Live(readyQueue[i]) /\ readyQueue[i].firstFrame = f
  <2>1. f \in Nat /\ Aligned(f) /\ f < TotalFrames
    BY <1>3, <1>10 DEF Frames, Aligned
  <2>2. f >= frame /\ f < frame + pre
    BY <1>3, <1>4, <1>8, <1>10, <2>1, PositionTyped DEF Smaller
  <2>3. f < nextFrameToPublish
    BY <1>3, <1>4, <1>6, <1>7, <1>9, <2>1, <2>2
  <2>4. QED
    BY <1>1, <1>10, <2>1, <2>3, PublishedIsQueued
<1>11. QED
  BY <1>2, <1>10 DEF pre

\* When playback is enabled the prebuffer is in the queue.
THEOREM StartHasPrebuffer == Spec => PrebufferedAtStart
<1>1. /\ TypeInv /\ CursorInv /\ StartInv /\ StreamContiguous
      /\ TypeInv' /\ CursorInv' /\ StartInv' /\ StreamContiguous'
      /\ [Next]_vars
      => [~stop /\ ~playing /\ playing' =>
           LET wanted == Smaller(PrebufferBlocks * AudioBlockFrames,
                                 TotalFrames - frame)
           IN  /\ AudioPosition <= frame + AudioBlockFrames
               /\ \A f \in Frames :
                     /\ f >= AudioPosition /\ f < frame + wanted
                     /\ f % AudioBlockFrames = 0
                     => \E i \in DOMAIN readyQueue :
                           Live(readyQueue[i])
                           /\ readyQueue[i].firstFrame = f]_vars
  BY StartIsPrebuffered
<1>2. Spec => [](TypeInv /\ CursorInv /\ StartInv /\ StreamContiguous)
  BY StreamInvariant, CursorInvariant, InitStartInv, NextStartInv, PTL DEF Spec
<1>3. QED
  BY <1>1, <1>2, PTL DEF Spec, PrebufferedAtStart

-----------------------------------------------------------------------------
(***************************************************************************)
(* Playback implements Transport.  Between taking a Seek or Edit position  *)
(* and storing it, the callback may go on; for an Edit that leaves the     *)
(* position taken behind the one that is heard, for a Seek playback is     *)
(* disabled first.                                                         *)
(***************************************************************************)
FromSeek == \E position \in SeekFrames : frame = SeekTarget(position)

RepositionInv ==
    scheduler \in {"suspend", "target"} =>
        \/ frame <= AudioPosition
        \/ FromSeek /\ (scheduler = "target" => ~playing)

\* The audio thread moves the current position by a block at a time, in Consume.
LEMMA AudioMoves ==
  ASSUME TypeInv, AudioStep
  PROVE  /\ UNCHANGED <<stop, playing, generation, schedulerVars>>
         /\ \/ AudioPosition' = AudioPosition
            \/ /\ Consume /\ audioGeneration = generation
               /\ AudioPosition = expected
               /\ AudioPosition' = AudioPosition + AudioBlockFrames
<1>1. UNCHANGED <<stop, playing, generation, targetFrame, schedulerVars>>
  BY DEF AudioStep, BeginCallback, AudioExit, LoadGeneration, LoadTarget,
     StoreCursor, StoreTag, DropStaleBlock, EndDrain, LoadPlaying, Consume,
     StoreAdvance, sharedVars
<1>2. CASE LoadTarget
  <2>1. expected' = targetFrame
    BY <1>2, AlignFacts DEF LoadTarget, TypeInv, TypeOK, PositionsAligned
  <2>2. QED
    BY <1>1, <1>2, <2>1 DEF LoadTarget, AudioPosition
<1>3. CASE Consume
  BY <1>1, <1>3 DEF Consume, AudioPosition
<1>4. CASE LoadGeneration
  BY <1>1, <1>4 DEF LoadGeneration, AudioPosition
<1>5. CASE \/ BeginCallback \/ AudioExit \/ StoreCursor \/ StoreTag
           \/ DropStaleBlock \/ EndDrain \/ LoadPlaying \/ StoreAdvance
  BY <1>1, <1>5 DEF BeginCallback, AudioExit, StoreCursor, StoreTag,
     DropStaleBlock, EndDrain, LoadPlaying, StoreAdvance, AudioPosition
<1>6. QED
  BY <1>2, <1>3, <1>4, <1>5 DEF AudioStep

LEMMA NextRepositionInv ==
  TypeInv /\ CursorInv /\ RepositionInv /\ [Next]_vars => RepositionInv'
<1> SUFFICES ASSUME TypeInv, CursorInv, RepositionInv, [Next]_vars
             PROVE  RepositionInv'
  OBVIOUS
<1>i. TypeInv'
  BY NextTypeInv
<1>t. /\ generation \in Nat \ {0} /\ audioGeneration \in Nat
      /\ targetFrame \in Nat /\ nextUnconsumedFrame \in Nat
      /\ frame \in Nat /\ expected \in Nat /\ AudioBlockFrames \in Nat \ {0}
      /\ playing \in BOOLEAN
  BY PositionsTyped DEF TypeInv, TypeOK
<1>s. /\ scheduler \in {"suspend", "target"} /\ scheduler' = scheduler
      /\ frame' = frame /\ (playing' => playing)
      /\ AudioPosition <= AudioPosition'
      => RepositionInv'
  <2>1. (TypeInv => AudioPosition \in Nat)'
    BY PositionTyped, PTL
  <2>2. AudioPosition \in Nat /\ AudioPosition' \in Nat
    BY <1>i, <2>1, PositionTyped
  <2>3. frame' = frame => (FromSeek' <=> FromSeek)
    BY DEF FromSeek
  <2>4. frame' = frame /\ AudioPosition <= AudioPosition' =>
           (frame <= AudioPosition => frame' <= AudioPosition')
    BY <1>t, <2>2
  <2>5. QED
    BY <2>3, <2>4, Zenon DEF RepositionInv
<1>q. scheduler' \notin {"suspend", "target"} => RepositionInv'
  BY DEF RepositionInv
<1>1. CASE Control
  <2>1. CASE StartScheduler
    BY <1>q, <2>1 DEF StartScheduler
  <2>2. CASE ~StartScheduler
    <3>1. StartAudio \/ RequestStop \/ Silence \/ JoinScheduler \/ JoinAudio
      BY <1>1, <2>2 DEF Control
    <3>2. /\ scheduler' = scheduler /\ frame' = frame
          /\ playing' => playing
      BY <3>1 DEF StartAudio, RequestStop, Silence, JoinScheduler, JoinAudio,
         sharedVars, schedulerVars
    <3>3. AudioPosition' = AudioPosition
      BY <3>1 DEF StartAudio, RequestStop, Silence, JoinScheduler, JoinAudio,
         sharedVars, audioVars, AudioPosition, TypeInv, ThreadsJoined
    <3>4. AudioPosition <= AudioPosition'
      BY <1>t, <3>3 DEF AudioPosition
    <3>5. QED
      BY <1>s, <1>q, <3>2, <3>4, Zenon
  <2>3. QED
    BY <2>1, <2>2
<1>2. CASE LoopTop \/ NoCommand \/ NextCommand \/ CheckShutdown \/ Exit
  BY <1>q, <1>2 DEF LoopTop, NoCommand, NextCommand, CheckShutdown, Exit
<1>3. CASE Play \/ Pause \/ StopCommand
  BY <1>q, <1>3 DEF Play, Pause, StopCommand
<1>4. ASSUME NEW position \in SeekFrames, Seek(position) PROVE RepositionInv'
  BY <1>4 DEF Seek, RepositionInv, FromSeek
<1>5. ASSUME NEW region \in EditRegions, Edit(region) PROVE RepositionInv'
  BY <1>q, <1>5 DEF Edit
<1>6. CASE EditReadsTag \/ FeedReadsTag \/ LeadReadsTag
  BY <1>q, <1>6, Zenon DEF EditReadsTag, FeedReadsTag, LeadReadsTag, ReadTag
<1>7. CASE EditReadsFrame
  <2>1. /\ frame' = IF tagMatches THEN nextUnconsumedFrame ELSE targetFrame
        /\ scheduler = "editFrame" /\ UNCHANGED <<sharedVars, audioVars>>
    BY <1>7, CurrentFrameTyped DEF EditReadsFrame
  <2>2. AudioPosition' = AudioPosition
    BY <2>1 DEF sharedVars, audioVars, AudioPosition
  <2>3. CASE ~tagMatches
    BY <1>t, <2>1, <2>2, <2>3 DEF CursorInv, TargetReached, RepositionInv
  <2>4. CASE tagMatches
    <3>1. audioCursorGeneration = generation
      BY <2>1, <2>4 DEF CursorInv, TagFresh
    <3>2. nextUnconsumedFrame <= AudioPosition
      BY <1>t, <2>1, <3>1 DEF AudioPosition, CursorInv, TagAgrees, CursorStored,
         UnstartedCursor, Unstarted, GenerationsOrdered, TargetReached,
         NotYetRun, TypeInv, TypeOK
    <3>3. QED
      BY <1>t, <2>1, <2>2, <2>4, <3>2 DEF RepositionInv
  <2>5. QED
    BY <2>3, <2>4
<1>8. CASE Suspend
  <2>1. AudioPosition' = AudioPosition
    BY <1>8 DEF Suspend, audioVars, AudioPosition
  <2>2. QED
    BY <1>8, <2>1 DEF Suspend, schedulerOnly, RepositionInv, FromSeek
<1>9. CASE StoreTarget \/ BumpGeneration
  BY <1>q, <1>9 DEF StoreTarget, BumpGeneration
<1>10. ASSUME NEW finished \in SUBSET Chunks, CollectFinishedJobs(finished)
       PROVE  RepositionInv'
  BY <1>q, <1>10 DEF CollectFinishedJobs
<1>11. CASE Feed
  BY <1>q, <1>11, Zenon
     DEF Feed, FeedReadsTag, ReadTag, FeedReadsFrame, TimelineEnd, BeginPublish,
         PublishBlock, EndPublish, LeadReadsTag, LeadReadsFrame, StartIfReady
<1>12. CASE AudioStep
  <2>1. scheduler' = scheduler /\ frame' = frame /\ playing' = playing
    BY <1>12, AudioMoves DEF schedulerVars
  <2>2. AudioPosition <= AudioPosition'
    BY <1>t, <1>12, AudioMoves DEF AudioPosition
  <2>3. QED
    BY <1>s, <1>q, <2>1, <2>2
<1>13. CASE UNCHANGED vars
  BY <1>13 DEF vars, sharedVars, schedulerVars, audioVars, RepositionInv,
     FromSeek, AudioPosition
<1>14. QED
  BY <1>1, <1>2, <1>3, <1>4, <1>5, <1>6, <1>7, <1>8, <1>9, <1>10, <1>11,
     <1>12, <1>13
     DEF Next, SchedulerStep, SchedulerLoop, Feed, Command

LEMMA MovesStutter ==
  ASSUME playRequested' = playRequested, playing' = playing, stop' = stop,
         HeardNext' = HeardNext, PublishedTo' = PublishedTo, Granted' = Granted
  PROVE  UNCHANGED Moves!vars
  BY Zenon DEF Moves!vars

LEMMA MovesTyped ==
  TypeInv => /\ HeardNext \in Nat /\ HeardNext <= TotalFrames
             /\ HeardNext \in Moves!Positions
             /\ PublishedTo \in Nat /\ PublishedTo <= TotalFrames
             /\ PublishedTo \in Moves!Positions
             /\ TotalFrames \in Nat /\ AudioBlockFrames \in Nat \ {0}
<1> SUFFICES ASSUME TypeInv
             PROVE  /\ HeardNext \in Nat /\ HeardNext <= TotalFrames
                    /\ Aligned(HeardNext)
                    /\ PublishedTo \in Nat /\ PublishedTo <= TotalFrames
                    /\ Aligned(PublishedTo)
                    /\ TotalFrames \in Nat /\ AudioBlockFrames \in Nat \ {0}
  BY DEF Moves!Positions, Moves!Boundaries, Aligned
<1>1. frame \in Nat /\ frame <= TotalFrames /\ Aligned(frame)
  BY TimelineAssumption DEF TypeInv, TypeOK, PositionsAligned, Boundaries
<1>2. QED
  BY <1>1, PositionTyped, TimelineAssumption DEF HeardNext, PublishedTo

LEMMA InitMoves == Init => Moves!Init
  BY DEF Init, Moves!Init, HeardNext, PublishedTo, Granted, Repositioned,
     AudioPosition

\* At rest the position a restart goes on from is the callback's.
LEMMA RestsAtPosition ==
  ASSUME TypeInv, CursorInv, StartInv, control = "stopped"
  PROVE  CurrentFrameAtRest = AudioPosition
<1>1. /\ audio = "off" /\ scheduler = "off"
      /\ generation \in Nat \ {0} /\ audioGeneration \in Nat
      /\ audioCursorGeneration \in Nat
  BY PositionsTyped DEF TypeInv, ThreadsJoined
<1>2. CurrentFrameAtRest = IF audioCursorGeneration = generation
                           THEN nextUnconsumedFrame ELSE targetFrame
  BY CurrentFrameTyped
<1>3. CASE audioGeneration = 0
  BY <1>1, <1>2, <1>3 DEF AudioPosition, CursorInv, UnstartedCursor, Unstarted,
     StartInv, FirstTarget
<1>4. CASE audioGeneration # 0
  <2>1. /\ audioCursorGeneration = audioGeneration
        /\ nextUnconsumedFrame = expected
    BY <1>1, <1>4 DEF CursorInv, TagAgrees, CursorStored
  <2>2. QED
    BY <1>1, <1>2, <2>1 DEF AudioPosition
<1>5. QED
  BY <1>3, <1>4

LEMMA ControlMoves ==
  ASSUME TypeInv, CursorInv, StartInv, PermissionInv, Control
  PROVE  [Moves!Next]_(Moves!vars)
<1>1. CASE StartScheduler
  <2>1. /\ control = "stopped" /\ scheduler = "off" /\ audio = "off"
        /\ ~playing /\ ~playRequested
    BY <1>1 DEF StartScheduler, TypeInv, ThreadsJoined, PermissionInv, OffIsSilent
  <2>2. /\ playing' = FALSE /\ playRequested' = FALSE /\ stop' = FALSE
        /\ scheduler' = "loop" /\ nextFrameToPublish' = CurrentFrameAtRest
        /\ AudioPosition' = AudioPosition /\ audio' = audio
    BY <1>1 DEF StartScheduler, audioVars, AudioPosition
  <2>3. /\ HeardNext = AudioPosition /\ HeardNext' = AudioPosition
        /\ PublishedTo' = AudioPosition
    BY <2>1, <2>2, RestsAtPosition DEF HeardNext, PublishedTo, Repositioned
  <2>4. Granted = FALSE /\ Granted' = FALSE
    BY <2>1, <2>2 DEF Granted
  <2>5. playing = FALSE /\ playRequested = FALSE
    BY <2>1 DEF TypeInv, TypeOK
  <2>6. Moves!Restart
    BY <2>2, <2>3, <2>4, <2>5, Zenon DEF Moves!Restart
  <2>7. QED
    BY <2>6 DEF Moves!Next
<1>2. CASE StartAudio \/ RequestStop \/ Silence \/ JoinScheduler \/ JoinAudio
  <2>1. /\ scheduler' = scheduler /\ frame' = frame
        /\ AudioPosition' = AudioPosition
        /\ nextFrameToPublish' = nextFrameToPublish /\ generation' = generation
        /\ audioGeneration' = audioGeneration
        /\ audio' = "consume" <=> audio = "consume"
    BY <1>2 DEF StartAudio, RequestStop, Silence, JoinScheduler, JoinAudio,
       sharedVars, schedulerVars, audioVars, AudioPosition, TypeInv, ThreadsJoined
  <2>2. HeardNext' = HeardNext /\ PublishedTo' = PublishedTo
    BY <2>1 DEF HeardNext, PublishedTo, Repositioned
  <2>3. Granted' = Granted
    BY <2>1 DEF Granted, Repositioned
  <2>4. CASE StartAudio \/ JoinAudio
    BY <2>2, <2>3, <2>4, MovesStutter
       DEF StartAudio, JoinAudio, sharedVars, schedulerVars
  <2>5. CASE RequestStop
    <3>1. Moves!RequestStop
      BY <2>2, <2>3, <2>5 DEF RequestStop, schedulerVars, Moves!RequestStop
    <3>2. QED
      BY <3>1 DEF Moves!Next
  <2>6. CASE Silence
    <3>1. Moves!Suspend
      BY <2>2, <2>3, <2>6 DEF Silence, schedulerVars, Moves!Suspend
    <3>2. QED
      BY <3>1 DEF Moves!Next
  <2>7. CASE JoinScheduler
    <3>1. playRequested' = FALSE /\ playRequested = FALSE
      BY <2>7 DEF JoinScheduler, PermissionInv, OffIsSilent, TypeInv, TypeOK
    <3>2. playing' = playing /\ stop' = stop
      BY <2>7 DEF JoinScheduler, sharedVars
    <3>3. QED
      BY <2>2, <2>3, <3>1, <3>2, MovesStutter, Zenon
  <2>8. QED
    BY <1>2, <2>4, <2>5, <2>6, <2>7
<1>3. QED
  BY <1>1, <1>2 DEF Control

\* A scheduler step that begins no stream leaves the position and the grant.
LEMMA SameStream ==
  ASSUME ~Repositioned, ~Repositioned', targetFrame' = targetFrame,
         generation' = generation, UNCHANGED audioVars
  PROVE  /\ HeardNext = AudioPosition /\ HeardNext' = HeardNext
         /\ Granted' = Granted
         /\ PublishedTo = nextFrameToPublish
         /\ PublishedTo' = nextFrameToPublish'
  BY DEF HeardNext, PublishedTo, Granted, AudioPosition, audioVars

\* Taking commands: the requests themselves, and what changes nothing yet.
LEMMA CommandMoves ==
  ASSUME TypeInv, SchedulerLoop \/ Command, ~BumpGeneration, ~StoreTarget, ~Feed
  PROVE  [Moves!Next]_(Moves!vars)
<1> DEFINE Keeps == /\ ~Repositioned /\ ~Repositioned'
                    /\ targetFrame' = targetFrame /\ generation' = generation
                    /\ UNCHANGED audioVars
                    /\ nextFrameToPublish' = nextFrameToPublish
<1>1. Keeps => /\ HeardNext' = HeardNext /\ Granted' = Granted
               /\ PublishedTo' = PublishedTo
  BY SameStream
<1>2. Keeps /\ UNCHANGED <<playRequested, playing, stop>>
      => [Moves!Next]_(Moves!vars)
  BY <1>1, MovesStutter, Zenon
<1>3. CASE \/ LoopTop \/ NoCommand \/ NextCommand \/ CheckShutdown
           \/ EditReadsTag \/ EditReadsFrame
  <2>1. Keeps /\ UNCHANGED <<playRequested, playing, stop>>
    BY <1>3 DEF LoopTop, NoCommand, NextCommand, CheckShutdown, EditReadsTag,
       ReadTag, EditReadsFrame, sharedVars, schedulerOnly, Repositioned
  <2>2. QED
    BY <1>2, <2>1
<1>4. CASE Exit \/ Pause
  <2>1. Keeps /\ playRequested' = FALSE /\ playing' = FALSE /\ stop' = stop
    BY <1>4 DEF Exit, Pause, Repositioned
  <2>2. Moves!Withdraw
    BY <1>1, <2>1, Zenon DEF Moves!Withdraw
  <2>3. QED
    BY <2>2 DEF Moves!Next
<1>5. CASE Play
  <2>1. Keeps /\ playRequested' = TRUE /\ UNCHANGED <<playing, stop>>
    BY <1>5 DEF Play, sharedVars, Repositioned
  <2>2. Moves!Request
    BY <1>1, <2>1, Zenon DEF Moves!Request
  <2>3. QED
    BY <2>2 DEF Moves!Next
<1>6. CASE StopCommand
  <2>1. Keeps /\ stop' = TRUE /\ UNCHANGED <<playing, playRequested>>
    BY <1>6 DEF StopCommand, schedulerOnly, Repositioned
  <2>2. Moves!RequestStop
    BY <1>1, <2>1, Zenon DEF Moves!RequestStop
  <2>3. QED
    BY <2>2 DEF Moves!Next
<1>7. CASE Suspend
  <2>1. Keeps /\ playing' = FALSE /\ UNCHANGED <<stop, playRequested>>
    BY <1>7 DEF Suspend, schedulerOnly, Repositioned
  <2>2. Moves!Suspend
    BY <1>1, <2>1, Zenon DEF Moves!Suspend
  <2>3. QED
    BY <2>2 DEF Moves!Next
<1>8. ASSUME NEW position \in SeekFrames, Seek(position)
      PROVE  [Moves!Next]_(Moves!vars)
  <2>1. Keeps /\ UNCHANGED <<playRequested, playing, stop>>
    BY <1>8 DEF Seek, sharedVars, Repositioned
  <2>2. QED
    BY <1>2, <2>1
<1>9. ASSUME NEW region \in EditRegions, Edit(region)
      PROVE  [Moves!Next]_(Moves!vars)
  <2>1. Keeps /\ UNCHANGED <<playRequested, playing, stop>>
    BY <1>9 DEF Edit, sharedVars, Repositioned
  <2>2. QED
    BY <1>2, <2>1
<1>10. QED
  BY <1>3, <1>4, <1>5, <1>6, <1>7, <1>8, <1>9, Zenon DEF SchedulerLoop, Command

\* Storing the target is where a stream begins.
LEMMA StoreTargetMoves ==
  ASSUME TypeInv, RepositionInv, StoreTarget
  PROVE  Moves!Next
<1>1. /\ scheduler = "target" /\ frame' = frame
      /\ UNCHANGED <<playing, playRequested, stop>>
      /\ ~Repositioned /\ Repositioned'
  BY DEF StoreTarget, schedulerOnly, Repositioned
<1>2. /\ HeardNext' = frame /\ PublishedTo' = frame /\ Granted' = FALSE
      /\ HeardNext = AudioPosition
  BY <1>1 DEF HeardNext, PublishedTo, Granted
<1>3. Moves!Reposition(frame)
  BY <1>1, <1>2, Zenon DEF Moves!Reposition
<1>4. CASE frame <= AudioPosition
  <2>1. playing' \in {FALSE, playing}
    BY <1>1
  <2>2. frame \in Moves!Positions
    BY DEF TypeInv, TypeOK, PositionsAligned, Moves!Positions,
       Moves!Boundaries, Boundaries, Aligned
  <2>3. Moves!Edit(frame)
    BY <1>2, <1>3, <1>4, <2>1, Zenon DEF Moves!Edit
  <2>4. QED
    BY <2>2, <2>3, Zenon DEF Moves!Next
<1>5. CASE FromSeek /\ ~playing
  <2>1. PICK position \in SeekFrames : frame = SeekTarget(position)
    BY <1>5 DEF FromSeek
  <2>2. frame = Moves!SeekTarget(position)
    BY <2>1 DEF SeekTarget, Moves!SeekTarget, alignFrameToAudioBlock,
       Moves!alignFrameToAudioBlock, clampTimelineFrame,
       Moves!clampTimelineFrame, Larger, Smaller, Moves!Larger, Moves!Smaller
  <2>3. playing' = FALSE
    BY <1>1, <1>5 DEF TypeInv, TypeOK
  <2>4. Moves!Seek(position)
    BY <1>3, <2>2, <2>3, Zenon DEF Moves!Seek
  <2>5. QED
    BY <2>4, Zenon DEF Moves!Next
<1>6. QED
  BY <1>1, <1>4, <1>5 DEF RepositionInv

\* The generation follows the stream, and nothing can be seen of it.
LEMMA BumpStutters ==
  ASSUME TypeInv, CursorInv, BumpGeneration
  PROVE  UNCHANGED Moves!vars
<1>1. /\ generation \in Nat /\ audioGeneration \in Nat
      /\ audioGeneration <= generation
  BY PositionsTyped DEF CursorInv, GenerationsOrdered
<1>2. /\ Repositioned /\ ~Repositioned' /\ generation' = generation + 1
      /\ nextFrameToPublish' = frame /\ targetFrame' = targetFrame
      /\ UNCHANGED <<playing, stop, playRequested, audioVars>>
  BY DEF BumpGeneration, Repositioned
<1>3. AudioPosition' = targetFrame /\ frame = targetFrame
  BY <1>1, <1>2 DEF AudioPosition, audioVars, CursorInv, ResetPending,
     Repositioned
<1>4. HeardNext' = HeardNext /\ PublishedTo' = PublishedTo
  BY <1>2, <1>3 DEF HeardNext, PublishedTo
<1>5. Granted' = FALSE /\ Granted = FALSE
  BY <1>1, <1>2 DEF Granted, audioVars
<1>6. QED
  BY <1>2, <1>4, <1>5, MovesStutter, Zenon

\* How far publication may reach, of the position and the block boundaries.
LEMMA ReachableFacts ==
  ASSUME TypeInv, NEW end \in Nat, end <= TotalFrames, Aligned(end),
         PublishedTo <= end,
         end <= PublishedTo \/ end <= HeardNext + ReadyCapacity * AudioBlockFrames
  PROVE  end \in Moves!Reachable
<1>1. ReadyCapacity * AudioBlockFrames \in Int
  BY BlockSteps, PlaybackAssumption
<1>2. end \in Moves!Positions
  BY TimelineAssumption
     DEF Moves!Positions, Moves!Boundaries, Aligned
<1>3. end <= Moves!Larger(PublishedTo,
                          HeardNext + ReadyCapacity * AudioBlockFrames)
  BY <1>1, MovesTyped DEF Moves!Larger
<1>4. QED
  BY <1>2, <1>3 DEF Moves!Reachable

LEMMA PublicationMoves ==
  ASSUME TypeInv, TypeInv', CursorInv, StreamContiguous, BeginPublish \/ PublishBlock
  PROVE  Moves!Next
<1>1. /\ ~Repositioned /\ ~Repositioned'
      /\ targetFrame' = targetFrame /\ generation' = generation
      /\ UNCHANGED <<playing, stop, playRequested, audioVars>>
  BY DEF BeginPublish, PublishBlock, sharedVars, Repositioned
<1>2. /\ HeardNext = AudioPosition /\ HeardNext' = HeardNext
      /\ Granted' = Granted
      /\ PublishedTo = nextFrameToPublish
      /\ PublishedTo' = nextFrameToPublish'
  BY <1>1, SameStream
<1>3. /\ nextFrameToPublish \in Nat /\ frame \in Nat
      /\ nextFrameToPublish' \in Nat /\ nextFrameToPublish' <= TotalFrames
      /\ Aligned(nextFrameToPublish')
      /\ AudioPosition \in Nat
      /\ Aligned(nextFrameToPublish) /\ Aligned(AudioPosition)
      /\ AudioBlockFrames \in Nat \ {0}
  <2>1. (TypeInv => nextFrameToPublish \in Nat /\ Aligned(nextFrameToPublish)
                    /\ nextFrameToPublish <= TotalFrames)'
    BY PositionTyped, PTL
  <2>2. QED
    BY <2>1, PositionTyped, PositionsTyped DEF Aligned
<1>4. /\ nextFrameToPublish <= nextFrameToPublish'
      /\ \/ nextFrameToPublish' <= nextFrameToPublish
         \/ nextFrameToPublish'
               <= AudioPosition + ReadyCapacity * AudioBlockFrames
  <2> DEFINE room == ReadyCapacity * AudioBlockFrames
  <2>1. room \in Int /\ room >= AudioBlockFrames
    <3>1. 1 \in Int /\ ReadyCapacity \in Int /\ 1 <= ReadyCapacity
      BY PlaybackAssumption
    <3>2. 1 * AudioBlockFrames <= room
      BY <3>1, BlockOrder, Zenon
    <3>3. QED
      BY <1>3, <3>1, <3>2, BlockSteps
  <2> HIDE DEF room
  <2>2. CASE BeginPublish
    <3>1. /\ nextFrameToPublish' = Larger(nextFrameToPublish, frame)
          /\ frame <= AudioPosition
      BY <2>2 DEF BeginPublish, CursorInv, FrameKnown, Resetting
    <3>2. QED
      BY <1>3, <2>1, <3>1 DEF Larger, room
  <2>3. CASE PublishBlock
    <3>1. /\ nextFrameToPublish' = nextFrameToPublish + AudioBlockFrames
          /\ Len(readyQueue) < ReadyCapacity /\ scheduler = "publish"
          /\ readyQueue \in Seq(Block)
      BY <2>3 DEF PublishBlock, CanPublish, TypeInv, TypeOK
    <3>2. CASE nextFrameToPublish <= AudioPosition
      BY <1>3, <2>1, <3>1, <3>2 DEF room
    <3>3. CASE AudioPosition <= nextFrameToPublish
      <4> DEFINE lead == LeadFrom(nextFrameToPublish, AudioPosition)
      <4>1. /\ lead \in Nat
            /\ lead * AudioBlockFrames = nextFrameToPublish - AudioPosition
        BY <1>3, <3>3, LeadFacts
      <4>2. lead <= Len(readyQueue)
        BY <3>1 DEF StreamContiguous, Contiguous
      <4> HIDE DEF lead
      <4>3. ReadyCapacity \in Int /\ lead + 1 \in Int /\ lead + 1 <= ReadyCapacity
        BY <3>1, <4>1, <4>2, PlaybackAssumption
      <4>4. (lead + 1) * AudioBlockFrames <= room
        BY <4>3, BlockOrder, Zenon DEF room
      <4>5. (lead + 1) * AudioBlockFrames
               = lead * AudioBlockFrames + AudioBlockFrames
        BY <4>1, BlockSteps
      <4>6. QED
        BY <1>3, <2>1, <3>1, <4>1, <4>4, <4>5 DEF room
    <3>4. QED
      BY <1>3, <3>2, <3>3
  <2>4. QED
    BY <2>2, <2>3
<1>5. PublishedTo' \in Moves!Reachable
  BY <1>2, <1>3, <1>4, ReachableFacts
<1>6. playing' \in {playing, playing \/ Moves!MayStart(PublishedTo')}
  BY <1>1
<1>7. Moves!Feed
  BY <1>1, <1>2, <1>5, <1>6, Zenon DEF Moves!Feed
<1>8. QED
  BY <1>7 DEF Moves!Next

\* What is published when playback is enabled is the prebuffer, less the block a
\* callback may have taken.
LEMMA StartIsAllowed ==
  ASSUME TypeInv, CursorInv, StartInv, scheduler = "start", ~playing,
         playRequested, EnoughPublished
  PROVE  Moves!MayStart(nextFrameToPublish)
<1> DEFINE pre == PrebufferBlocks * AudioBlockFrames
           l == LeadFrom(nextFrameToPublish, frame)
<1>1. HeardNext = AudioPosition
  BY DEF HeardNext, Repositioned
<1>2. CASE stop \/ nextFrameToPublish >= TotalFrames
  BY <1>2 DEF Moves!MayStart
<1>3. CASE ~stop /\ ~(nextFrameToPublish >= TotalFrames)
  <2>1. AudioPosition <= frame + AudioBlockFrames
    BY <1>3 DEF StartInv, StartFrameIsClose, Muted
  <2>2. /\ frame \in Nat /\ Aligned(frame)
        /\ nextFrameToPublish \in Nat /\ Aligned(nextFrameToPublish)
        /\ AudioPosition \in Nat /\ AudioBlockFrames \in Nat \ {0}
        /\ PrebufferBlocks \in Nat
    BY PositionTyped, TimelineAssumption, PlaybackAssumption
       DEF TypeInv, TypeOK, PositionsAligned, Boundaries
  <2>3. l >= PrebufferBlocks
    BY <1>3 DEF EnoughPublished, readyLeadBlocks, LeadFrom
  <2>4. /\ l \in Nat
        /\ frame <= nextFrameToPublish =>
              l * AudioBlockFrames = nextFrameToPublish - frame
        /\ nextFrameToPublish <= frame => l = 0
    BY <2>2, LeadFacts
  <2> HIDE DEF l
  <2>5. pre <= l * AudioBlockFrames /\ pre \in Int
    <3>1. l \in Int /\ PrebufferBlocks \in Int /\ PrebufferBlocks <= l
      BY <2>2, <2>3, <2>4
    <3>2. QED
      BY <3>1, BlockOrder, BlockSteps, Zenon
  <2>6. Larger(0, nextFrameToPublish - AudioPosition) + AudioBlockFrames >= pre
    <3>1. CASE frame <= nextFrameToPublish
      BY <2>1, <2>2, <2>4, <2>5, <3>1 DEF Larger
    <3>2. CASE nextFrameToPublish <= frame
      <4>1. l * AudioBlockFrames = 0
        BY <2>2, <2>4, <3>2
      <4>2. QED
        BY <2>2, <2>5, <4>1 DEF Larger
    <3>3. QED
      BY <2>2, <3>1, <3>2
  <2>7. QED
    BY <1>1, <2>6 DEF Moves!MayStart, Moves!Larger, Larger
<1>4. QED
  BY <1>2, <1>3

LEMMA FeedMoves ==
  ASSUME TypeInv, TypeInv', CursorInv, StartInv, StreamContiguous, Feed
  PROVE  [Moves!Next]_(Moves!vars)
<1>1. /\ ~Repositioned /\ ~Repositioned'
      /\ targetFrame' = targetFrame /\ generation' = generation
      /\ stop' = stop /\ UNCHANGED audioVars
  BY Zenon DEF Feed, FeedReadsTag, FeedReadsFrame, TimelineEnd, BeginPublish,
     PublishBlock, EndPublish, LeadReadsTag, LeadReadsFrame, StartIfReady,
     ReadTag, sharedVars, Repositioned
<1>2. /\ HeardNext = AudioPosition /\ HeardNext' = HeardNext
      /\ Granted' = Granted
      /\ PublishedTo = nextFrameToPublish
      /\ PublishedTo' = nextFrameToPublish'
  BY <1>1, SameStream
<1>3. CASE \/ FeedReadsTag \/ FeedReadsFrame \/ EndPublish
           \/ LeadReadsTag \/ LeadReadsFrame
  <2>1. UNCHANGED <<playing, playRequested, nextFrameToPublish>>
    BY <1>3 DEF FeedReadsTag, FeedReadsFrame, EndPublish, LeadReadsTag,
       LeadReadsFrame, ReadTag, sharedVars, schedulerOnly
  <2>2. QED
    BY <1>1, <1>2, <2>1, MovesStutter, Zenon
<1>4. CASE BeginPublish \/ PublishBlock
  BY <1>4, PublicationMoves
<1>5. CASE TimelineEnd
  <2>1. /\ scheduler = "feed" /\ frame >= TotalFrames
        /\ nextFrameToPublish' = TotalFrames
        /\ playRequested' = FALSE /\ playing' = FALSE
    BY <1>5 DEF TimelineEnd
  <2>2. AudioPosition = TotalFrames
    <3>1. frame <= AudioPosition
      BY <2>1 DEF CursorInv, FrameKnown, Resetting
    <3>2. QED
      BY <2>1, <3>1, PositionTyped, PositionsTyped, TimelineAssumption
  <2>3. Moves!End
    BY <1>1, <1>2, <2>1, <2>2, Zenon DEF Moves!End
  <2>4. QED
    BY <2>3 DEF Moves!Next
<1>6. CASE StartIfReady
  <2>1. /\ scheduler = "start"
        /\ playing' = (playing \/ (playRequested /\ EnoughPublished))
        /\ UNCHANGED <<playRequested, nextFrameToPublish>>
    BY <1>6 DEF StartIfReady, schedulerOnly
  <2>2. PublishedTo' = PublishedTo
    BY <1>2, <2>1
  <2>3. PublishedTo' \in Moves!Reachable
    BY <1>2, <2>2, MovesTyped, PositionTyped, ReachableFacts
  <2>4. playing \in BOOLEAN
    BY DEF TypeInv, TypeOK
  <2>5. CASE playing
    <3>1. playing = TRUE
      BY <2>4, <2>5
    <3>2. playing' = TRUE
      BY <2>1, <2>5, Zenon
    <3>3. playing' = playing
      BY <3>1, <3>2
    <3>4. QED
      BY <1>1, <1>2, <2>1, <2>2, <3>3, MovesStutter, Zenon
  <2>6. CASE ~playing
    <3>1. CASE playRequested /\ EnoughPublished
      <4>1. Moves!MayStart(PublishedTo')
        BY <1>2, <2>1, <2>6, <3>1, StartIsAllowed
      <4>2. playing' = (playing \/ Moves!MayStart(PublishedTo'))
        BY <2>1, <3>1, <4>1, Zenon
      <4>3. Moves!Feed
        BY <1>1, <1>2, <2>1, <2>3, <4>2, Zenon DEF Moves!Feed
      <4>4. QED
        BY <4>3 DEF Moves!Next
    <3>2. CASE ~(playRequested /\ EnoughPublished)
      <4>1. playing' = playing
        BY <2>1, <2>4, <2>6, <3>2
      <4>2. QED
        BY <1>1, <1>2, <2>1, <2>2, <4>1, MovesStutter, Zenon
    <3>3. QED
      BY <3>1, <3>2
  <2>7. QED
    BY <2>5, <2>6
<1>7. QED
  BY <1>3, <1>4, <1>5, <1>6 DEF Feed

\* The callback is granted its block when it finds playback enabled, and takes it
\* in Consume; a callback of an older stream moves nothing.
LEMMA AudioStepMoves ==
  ASSUME TypeInv, CursorInv, AudioStep
  PROVE  [Moves!Next]_(Moves!vars)
<1>1. /\ UNCHANGED <<stop, playing, generation, schedulerVars>>
      /\ \/ AudioPosition' = AudioPosition
         \/ /\ Consume /\ audioGeneration = generation
            /\ AudioPosition = expected
            /\ AudioPosition' = AudioPosition + AudioBlockFrames
  BY AudioMoves
<1>2. /\ UNCHANGED <<stop, playing, generation, playRequested>>
      /\ frame' = frame /\ nextFrameToPublish' = nextFrameToPublish
      /\ Repositioned' = Repositioned
  BY <1>1 DEF schedulerVars, Repositioned
<1>3. PublishedTo' = PublishedTo
  BY <1>2 DEF PublishedTo
<1>4. CASE Repositioned
  <2>1. HeardNext' = HeardNext
    BY <1>2, <1>4 DEF HeardNext
  <2>2. Granted' = FALSE /\ Granted = FALSE
    BY <1>2, <1>4 DEF Granted
  <2>3. QED
    BY <1>2, <1>3, <2>1, <2>2, MovesStutter, Zenon
<1>5. CASE ~Repositioned /\ Consume
  <2>1. /\ audio = "consume" /\ audio' = "advance" /\ expected < TotalFrames
        /\ audioGeneration' = audioGeneration
    BY <1>5 DEF Consume, TypeInv, ConsumesOnTimeline
  <2>2. Granted' = FALSE
    BY <2>1 DEF Granted
  <2>3. CASE audioGeneration = generation
    <3>1. Granted /\ HeardNext = expected
      BY <1>5, <2>1, <2>3 DEF Granted, HeardNext, AudioPosition
    <3>2. HeardNext' = HeardNext + AudioBlockFrames
      BY <1>2, <1>5, <2>1, <2>3, <3>1 DEF HeardNext, AudioPosition, Consume
    <3>3. HeardNext < TotalFrames
      BY <2>1, <3>1
    <3>4. Moves!Advance
      BY <1>2, <1>3, <2>2, <3>1, <3>2, <3>3, Zenon DEF Moves!Advance
    <3>5. QED
      BY <3>4 DEF Moves!Next
  <2>4. CASE audioGeneration # generation
    <3>1. Granted = FALSE
      BY <2>4 DEF Granted
    <3>2. HeardNext' = HeardNext
      BY <1>1, <1>2, <1>5, <2>4 DEF HeardNext
    <3>3. QED
      BY <1>2, <1>3, <2>2, <3>1, <3>2, MovesStutter, Zenon
  <2>5. QED
    BY <2>3, <2>4
<1>6. CASE ~Repositioned /\ ~Consume
  <2>1. HeardNext' = HeardNext
    BY <1>1, <1>2, <1>6 DEF HeardNext
  <2>2. Granted = FALSE
    <3>1. audio # "consume"
      BY <1>6 DEF AudioStep, BeginCallback, AudioExit, LoadGeneration,
         LoadTarget, StoreCursor, StoreTag, DropStaleBlock, EndDrain,
         LoadPlaying, StoreAdvance
    <3>2. QED
      BY <3>1 DEF Granted
  <2>3. CASE LoadPlaying /\ Granted'
    <3>1. /\ playing /\ expected < TotalFrames /\ audioGeneration = generation
          /\ audio = "playing"
      BY <1>2, <2>3 DEF LoadPlaying, Granted
    <3>2. HeardNext = expected
      BY <1>6, <3>1 DEF HeardNext, AudioPosition
    <3>3. Granted' = TRUE
      BY <2>3 DEF Granted
    <3>4. HeardNext < TotalFrames
      BY <3>1, <3>2
    <3>5. Moves!Grant
      BY <1>2, <1>3, <2>1, <3>1, <3>3, <3>4, Zenon DEF Moves!Grant
    <3>6. QED
      BY <3>5 DEF Moves!Next
  <2>4. CASE ~(LoadPlaying /\ Granted')
    <3>1. Granted' = FALSE
      <4>1. CASE LoadPlaying
        BY <2>4, <4>1 DEF Granted
      <4>2. CASE ~LoadPlaying
        <5>1. audio' # "consume"
          BY <1>6, <4>2 DEF AudioStep, BeginCallback, AudioExit, LoadGeneration,
             LoadTarget, StoreCursor, StoreTag, DropStaleBlock, EndDrain,
             StoreAdvance
        <5>2. QED
          BY <5>1 DEF Granted
      <4>3. QED
        BY <4>1, <4>2, Zenon
    <3>2. QED
      BY <1>2, <1>3, <2>1, <2>2, <3>1, MovesStutter, Zenon
  <2>5. QED
    BY <2>3, <2>4
<1>7. QED
  BY <1>4, <1>5, <1>6

LEMMA StepMoves ==
  ASSUME TypeInv, TypeInv', CursorInv, PermissionInv, StreamContiguous,
         StartInv, RepositionInv, [Next]_vars
  PROVE  [Moves!Next]_(Moves!vars)
<1>1. CASE Control
  BY <1>1, ControlMoves
<1>2. CASE StoreTarget
  BY <1>2, StoreTargetMoves
<1>3. CASE BumpGeneration
  BY <1>3, BumpStutters
<1>4. CASE Feed
  BY <1>4, FeedMoves
<1>5. CASE SchedulerLoop \/ Command
  BY <1>2, <1>3, <1>4, <1>5, CommandMoves
<1>6. ASSUME NEW finished \in SUBSET Chunks, CollectFinishedJobs(finished)
      PROVE  [Moves!Next]_(Moves!vars)
  <2>1. /\ ~Repositioned /\ ~Repositioned'
        /\ targetFrame' = targetFrame /\ generation' = generation
        /\ UNCHANGED <<stop, playing, playRequested, audioVars>>
        /\ nextFrameToPublish' = nextFrameToPublish
    BY <1>6 DEF CollectFinishedJobs, sharedVars, Repositioned
  <2>2. QED
    BY <2>1, SameStream, MovesStutter
<1>7. CASE AudioStep
  BY <1>7, AudioStepMoves
<1>8. CASE UNCHANGED vars
  BY <1>8 DEF vars, sharedVars, schedulerVars, audioVars, Moves!vars, HeardNext,
     PublishedTo, Granted, Repositioned, AudioPosition
<1>9. QED
  BY <1>1, <1>5, <1>6, <1>7, <1>8, Zenon DEF Next, SchedulerStep

\* However the three threads interleave, playback has one position, one lead and
\* one permission, and they change only as Transport says.
THEOREM TransportRefinement == Spec => ImplementsTransport
<1>1. Init => RepositionInv /\ PermissionInv
  BY DEF Init, RepositionInv, PermissionInv, OffIsSilent, PlayingIsRequested
<1>2. Spec => [](/\ TypeInv /\ CursorInv /\ PermissionInv /\ StreamContiguous
                 /\ StartInv /\ RepositionInv)
  BY <1>1, StreamInvariant, CursorInvariant, NextPermissionInv, InitStartInv,
     NextStartInv, NextRepositionInv, PTL DEF Spec
<1>3. QED
  BY <1>2, InitMoves, StepMoves, PTL DEF Spec, ImplementsTransport, Moves!Spec

=============================================================================
