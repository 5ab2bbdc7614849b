---------------------------- MODULE EngineProofs ----------------------------
(***************************************************************************)
(* The life of the engine, for any number of slots, commands and missed    *)
(* periods: what runs in which phase of start() and stop(), the order of   *)
(* commands, and the end of the catch-up.                                  *)
(***************************************************************************)
EXTENDS Engine, SequenceTheorems, TLAPS

-----------------------------------------------------------------------------
(***************************************************************************)
(* The inductive invariant.                                                *)
(***************************************************************************)
\* Each start() and stop() of a component leaves it as the engine expects it.
PhaseInv ==
    /\ schedulerStarted <=> scheduler # "off"
    /\ audioStarted <=> audio # "off"
    /\ scheduler # "off" => executor = "on"
    /\ control \in {"stopped", "startExecutor", "startScheduler", "stopAudio",
                    "joinAudio", "stopExecutor"} => scheduler = "off"
    /\ control \in {"stopped", "startExecutor", "startScheduler", "startAudio",
                    "stopExecutor"} => audio = "off"
    /\ control \in {"stopped", "startExecutor"} => executor = "off"
    /\ control = "startScheduler" => executor = "on"
    /\ control \in {"startAudio", "running", "posting", "joinScheduler"}
          => scheduler # "off"

\* A command is handled while it is held, and a session leaves none behind.
CommandInv ==
    /\ accepted \in Seq(Command) /\ handled \in Seq(Command)
    /\ commandQueue \in Seq(Command) /\ Len(commandQueue) <= CommandSlots
    /\ command \in {<<>>} \cup {<<c>> : c \in Command}
    /\ scheduler # "handle" => command = <<>>
    /\ scheduler = "off" => commandQueue = <<>>
    /\ scheduler # "off" => accepted = handled \o command \o commandQueue

\* A thread that sleeps or is about to call back has made no late callback.
CatchUpInv ==
    /\ due \in 0 .. MaxDue
    /\ audio = "callback" => due > 0
    /\ late \in {0, 1}
    /\ audio \in {"asleep", "callback"} => late = 0
    /\ audio # "off" /\ late = 1 => stop

FlagsOK ==
    /\ control \in {"stopped", "startExecutor", "startScheduler", "startAudio",
                    "running", "posting", "stopScheduler", "joinScheduler",
                    "stopAudio", "joinAudio", "stopExecutor"}
    /\ executor \in {"off", "on"}
    /\ stop \in BOOLEAN /\ schedulerStarted \in BOOLEAN /\ schedulerStop \in BOOLEAN
    /\ audioStarted \in BOOLEAN /\ audioStop \in BOOLEAN
    /\ scheduler \in {"off", "top", "commands", "handle", "check", "pass", "exited"}
    /\ audio \in {"off", "loop", "asleep", "callback", "catchUp", "exited"}

IInv == FlagsOK /\ PhaseInv /\ CommandInv /\ CatchUpInv

-----------------------------------------------------------------------------
(***************************************************************************)
(* The phases.                                                             *)
(***************************************************************************)
LEMMA InitHolds == Init => IInv
<1> SUFFICES ASSUME Init PROVE IInv
  OBVIOUS
<1> USE DEF Init
<1>1. FlagsOK /\ PhaseInv
  BY DEF FlagsOK, PhaseInv
<1>2. CommandInv
  BY EngineAssumption DEF CommandInv
<1>3. CatchUpInv
  BY EngineAssumption DEF CatchUpInv
<1> QED BY <1>1, <1>2, <1>3 DEF IInv

LEMMA PhaseStep == IInv /\ Next => FlagsOK' /\ PhaseInv'
<1> SUFFICES ASSUME IInv, Next PROVE FlagsOK' /\ PhaseInv'
  OBVIOUS
<1> USE DEF IInv, FlagsOK, PhaseInv, schedulerVars, queueVars, audioVars
<1>1. CASE BeginStart \/ StartExecutor \/ RequestStop \/ BeginPost \/ RefuseFull
  <2>1. stop' \in BOOLEAN
    BY <1>1, Zenon DEF BeginStart, StartExecutor, RequestStop, BeginPost, RefuseFull
  <2>2. /\ UNCHANGED <<schedulerStarted, schedulerStop, scheduler, audioStarted,
                       audioStop, audio>>
        /\ executor' = IF StartExecutor THEN "on" ELSE executor
    BY <1>1 DEF BeginStart, StartExecutor, RequestStop, BeginPost, RefuseFull
  <2>3. /\ BeginStart => control = "stopped" /\ control' = "startExecutor"
        /\ StartExecutor => control = "startExecutor" /\ control' = "startScheduler"
        /\ RequestStop => control = "running" /\ control' = "stopScheduler"
        /\ BeginPost => control = "running" /\ control' = "posting"
        /\ RefuseFull => control = "posting" /\ control' = "running"
    BY DEF BeginStart, StartExecutor, RequestStop, BeginPost, RefuseFull
  <2>4. FlagsOK'
    BY <1>1, <2>1, <2>2, <2>3
  <2>5. PhaseInv'
    BY <1>1, <2>2, <2>3
  <2> QED BY <2>4, <2>5
<1>2. CASE StartScheduler \/ StartAudio
  <2>1. FlagsOK'
    BY <1>2 DEF StartScheduler, StartAudio
  <2>2. PhaseInv'
    BY <1>2 DEF StartScheduler, StartAudio
  <2> QED BY <2>1, <2>2
<1>3. CASE FailStart
  <2>1. /\ control \in {"startExecutor", "startScheduler", "startAudio"}
        /\ control' = "stopScheduler" /\ stop' = TRUE
        /\ UNCHANGED <<executor, schedulerStarted, scheduler, audioStarted, audio>>
    BY <1>3 DEF FailStart
  <2>2. schedulerStop' \in BOOLEAN /\ audioStop' \in BOOLEAN
    BY <1>3, Zenon DEF FailStart
  <2> QED BY <2>1, <2>2
<1>4. CASE StopScheduler \/ StopAudio
  <2>1. schedulerStop' \in BOOLEAN /\ audioStop' \in BOOLEAN
    BY <1>4, Zenon DEF StopScheduler, StopAudio
  <2> QED BY <1>4, <2>1 DEF StopScheduler, StopAudio
<1>5. CASE JoinScheduler \/ JoinAudio \/ StopExecutor
  <2>1. FlagsOK'
    BY <1>5 DEF JoinScheduler, JoinAudio, StopExecutor
  <2>2. PhaseInv'
    BY <1>5 DEF JoinScheduler, JoinAudio, StopExecutor
  <2> QED BY <2>1, <2>2
<1>6. ASSUME NEW c \in Command, Accept(c) PROVE FlagsOK' /\ PhaseInv'
  BY <1>6 DEF Accept
<1>7. CASE LoopTop \/ PopCommand \/ NoCommand \/ CheckShutdown \/ EndPass
  BY <1>7 DEF LoopTop, PopCommand, NoCommand, CheckShutdown, EndPass, schedulerOnly
<1>8. CASE HandleCommand
  <2>1. stop' \in BOOLEAN /\ schedulerStop' \in BOOLEAN
    BY <1>8, Zenon DEF HandleCommand
  <2> QED BY <1>8, <2>1 DEF HandleCommand
<1>9. CASE periodicAudioDeviceClock
  BY <1>9 DEF periodicAudioDeviceClock, Sleep, WakeUp, WakeUpToStop, Callback,
              CatchUp, audioOnly
<1> QED BY <1>1, <1>2, <1>3, <1>4, <1>5, <1>6, <1>7, <1>8, <1>9
        DEF Next, BeginCall, FinishCall, schedulerLoop

-----------------------------------------------------------------------------
(***************************************************************************)
(* The commands.                                                           *)
(***************************************************************************)
\* A step that leaves the queue alone and begins no session.
LEMMA SameCommands ==
    ASSUME CommandInv, UNCHANGED queueVars,
           scheduler' # "handle" \/ scheduler = "handle",
           scheduler' = "off" <=> scheduler = "off",
           scheduler # "handle" \/ scheduler' = "handle"
    PROVE  CommandInv'
BY DEF CommandInv, queueVars

\* What is held is a sequence, too.
LEMMA CommandIsSeq ==
    ASSUME CommandInv
    PROVE  command \in Seq(Command)
<1>1. CASE command = <<>>
  BY <1>1
<1>2. ASSUME NEW c \in Command, command = <<c>> PROVE command \in Seq(Command)
  BY <1>2
<1> QED BY <1>1, <1>2 DEF CommandInv

LEMMA CommandStep == IInv /\ Next => CommandInv'
<1> SUFFICES ASSUME IInv, Next PROVE CommandInv'
  OBVIOUS
<1> USE DEF IInv
<1>1. CASE BeginStart \/ StartExecutor \/ StartAudio \/ FailStart \/ RequestStop
           \/ StopScheduler \/ StopAudio \/ JoinAudio \/ StopExecutor \/ BeginPost
           \/ RefuseFull
  <2>1. UNCHANGED <<queueVars, scheduler>>
    BY <1>1 DEF BeginStart, StartExecutor, StartAudio, FailStart, RequestStop,
                StopScheduler, StopAudio, JoinAudio, StopExecutor, BeginPost,
                RefuseFull, schedulerVars, queueVars
  <2> QED BY <2>1, SameCommands
<1>2. CASE StartScheduler
  <2>1. scheduler = "off" /\ commandQueue = <<>> /\ command = <<>>
    BY <1>2 DEF StartScheduler, PhaseInv, CommandInv
  <2>2. <<>> \o <<>> \o <<>> = <<>>
    BY ConcatEmptySeq, EmptySeq
  <2> QED BY <1>2, <2>1, <2>2, EngineAssumption DEF StartScheduler, CommandInv
<1>3. CASE JoinScheduler
  BY <1>3, EngineAssumption DEF JoinScheduler, CommandInv, PhaseInv
<1>4. ASSUME NEW c \in Command, Accept(c) PROVE CommandInv'
  <2>1. accepted = handled \o command \o commandQueue /\ scheduler # "off"
    BY <1>4 DEF Accept, PhaseInv, CommandInv
  <2>2. /\ handled \in Seq(Command) /\ command \in Seq(Command)
        /\ commandQueue \in Seq(Command) /\ <<c>> \in Seq(Command)
    BY CommandIsSeq DEF CommandInv
  <2>3. /\ Append(accepted, c) = accepted \o <<c>> /\ Append(accepted, c) \in Seq(Command)
        /\ Append(commandQueue, c) = commandQueue \o <<c>>
        /\ Append(commandQueue, c) \in Seq(Command)
        /\ Len(Append(commandQueue, c)) = Len(commandQueue) + 1
    BY AppendIsConcat, AppendProperties DEF CommandInv
  <2>4. handled \o command \in Seq(Command)
    BY <2>2, ConcatProperties
  <2>5. ((handled \o command) \o commandQueue) \o <<c>>
           = (handled \o command) \o (commandQueue \o <<c>>)
    <3>1. \A s, t, u \in Seq(Command) : (s \o t) \o u = s \o (t \o u)
      BY ConcatAssociative
    <3> QED BY <2>2, <2>4, <3>1
  <2>6. accepted' = handled' \o command' \o commandQueue'
    BY <1>4, <2>1, <2>3, <2>5 DEF Accept
  <2>7. Len(commandQueue') <= CommandSlots
    BY <1>4, <2>2, <2>3, EngineAssumption DEF Accept
  <2> QED BY <1>4, <2>1, <2>3, <2>6, <2>7 DEF Accept, CommandInv
<1>5. CASE LoopTop \/ NoCommand \/ CheckShutdown \/ EndPass
  <2>1. /\ UNCHANGED queueVars
        /\ scheduler \notin {"off", "handle"} /\ scheduler' \notin {"off", "handle"}
    BY <1>5 DEF LoopTop, NoCommand, CheckShutdown, EndPass
  <2> QED BY <2>1, SameCommands
<1>6. CASE PopCommand
  <2>1. /\ scheduler = "commands" /\ commandQueue # <<>> /\ command = <<>>
        /\ handled \in Seq(Command) /\ commandQueue \in Seq(Command)
        /\ accepted = handled \o command \o commandQueue
    BY <1>6 DEF PopCommand, CommandInv
  <2>2. /\ Head(commandQueue) \in Command /\ Tail(commandQueue) \in Seq(Command)
        /\ <<Head(commandQueue)>> \in Seq(Command)
        /\ Len(Tail(commandQueue)) = Len(commandQueue) - 1
        /\ commandQueue = <<Head(commandQueue)>> \o Tail(commandQueue)
    BY <2>1, HeadTailProperties
  <2>3. (handled \o <<Head(commandQueue)>>) \o Tail(commandQueue)
           = handled \o (<<Head(commandQueue)>> \o Tail(commandQueue))
    BY <2>1, <2>2, ConcatAssociative
  <2>4. handled \o <<>> = handled
    BY <2>1, ConcatEmptySeq
  <2>5. accepted' = handled' \o command' \o commandQueue'
    BY <1>6, <2>1, <2>2, <2>3, <2>4 DEF PopCommand
  <2>6. Len(commandQueue') <= CommandSlots
    BY <1>6, <2>1, <2>2, EngineAssumption DEF PopCommand, CommandInv
  <2> QED BY <1>6, <2>1, <2>2, <2>5, <2>6 DEF PopCommand, CommandInv, schedulerOnly
<1>7. CASE HandleCommand
  <2>1. /\ scheduler = "handle" /\ scheduler' \in {"check", "commands"}
        /\ handled' = handled \o command /\ command' = <<>>
        /\ UNCHANGED <<accepted, commandQueue>>
    BY <1>7 DEF HandleCommand
  <2>2. handled \in Seq(Command) /\ command \in Seq(Command)
    BY CommandIsSeq DEF CommandInv
  <2>3. handled \o command \in Seq(Command)
    BY <2>2, ConcatProperties
  <2>4. (handled \o command) \o <<>> = handled \o command
    BY <2>3, ConcatEmptySeq
  <2>5. accepted = handled \o command \o commandQueue
    BY <2>1 DEF CommandInv
  <2> QED BY <2>1, <2>3, <2>4, <2>5 DEF CommandInv
<1>8. CASE periodicAudioDeviceClock
  <2>1. UNCHANGED <<queueVars, scheduler>>
    BY <1>8 DEF periodicAudioDeviceClock, Sleep, WakeUp, WakeUpToStop, Callback,
                CatchUp, audioOnly, schedulerVars
  <2> QED BY <2>1, SameCommands
<1> QED BY <1>1, <1>2, <1>3, <1>4, <1>5, <1>6, <1>7, <1>8
        DEF Next, BeginCall, FinishCall, schedulerLoop

-----------------------------------------------------------------------------
(***************************************************************************)
(* The catch-up.                                                           *)
(***************************************************************************)
LEMMA CatchUpStep == IInv /\ Next => CatchUpInv'
<1> SUFFICES ASSUME IInv, Next PROVE CatchUpInv'
  OBVIOUS
<1> USE DEF IInv, CatchUpInv
<1>1. CASE BeginStart
  BY <1>1 DEF BeginStart, PhaseInv, audioVars
<1>2. CASE StartExecutor \/ StartScheduler \/ RequestStop \/ FailStart
           \/ StopScheduler \/ JoinScheduler \/ StopAudio \/ StopExecutor
           \/ BeginPost \/ RefuseFull \/ (\E c \in Command : Accept(c))
  BY <1>2 DEF StartExecutor, StartScheduler, RequestStop, FailStart, StopScheduler,
              JoinScheduler, StopAudio, StopExecutor, BeginPost, RefuseFull, Accept,
              audioVars
<1>3. CASE StartAudio \/ JoinAudio
  BY <1>3 DEF StartAudio, JoinAudio
<1>4. CASE schedulerLoop
  <2>1. UNCHANGED audioVars /\ (stop => stop')
    BY <1>4 DEF schedulerLoop, LoopTop, PopCommand, NoCommand, HandleCommand,
                CheckShutdown, EndPass, schedulerOnly
  <2> QED BY <2>1 DEF audioVars
<1>5. CASE Sleep \/ WakeUp \/ WakeUpToStop
  BY <1>5, EngineAssumption DEF Sleep, WakeUp, WakeUpToStop, AudioStopRequested,
                                audioOnly
<1>6. CASE Callback
  BY <1>6, EngineAssumption DEF Callback, audioOnly
<1>7. CASE CatchUp
  BY <1>7, EngineAssumption DEF CatchUp, AudioStopRequested, audioOnly
<1> QED BY <1>1, <1>2, <1>3, <1>4, <1>5, <1>6, <1>7
        DEF Next, BeginCall, FinishCall, periodicAudioDeviceClock

-----------------------------------------------------------------------------
(***************************************************************************)
(* The invariants.                                                         *)
(***************************************************************************)
LEMMA Invariant == Spec => []IInv
<1>1. IInv /\ UNCHANGED vars => IInv'
  BY DEF IInv, FlagsOK, PhaseInv, CommandInv, CatchUpInv, vars, schedulerVars,
         queueVars, audioVars
<1>2. IInv /\ [Next]_vars => IInv'
  BY <1>1, PhaseStep, CommandStep, CatchUpStep DEF IInv
<1> QED BY InitHolds, <1>2, PTL DEF Spec

\* Every variable stays in its type, for any number of command slots.
THEOREM TypeCorrect == Spec => []TypeOK
<1>1. IInv => TypeOK
  BY DEF IInv, FlagsOK, CommandInv, CatchUpInv, TypeOK
<1> QED BY Invariant, <1>1, PTL

\* Whichever thread could not be had, a start() that threw and a stop() leave
\* nothing running, and the scheduler makes no pass without a pool.
THEOREM LifecycleIsOrdered == Spec => []LifecycleOrder
<1>1. IInv => LifecycleOrder
  BY DEF IInv, PhaseInv, LifecycleOrder
<1> QED BY Invariant, <1>1, PTL

\* What post() accepted in a session is handled in order and once; nothing of an
\* older session is handled.
THEOREM CommandsAreInOrder == Spec => []CommandsKeepOrder
<1>1. IInv => CommandsKeepOrder
  BY DEF IInv, CommandInv, CommandsKeepOrder
<1> QED BY Invariant, <1>1, PTL

\* At most one callback begins after a shutdown was requested, for any number of
\* periods the audio thread has to make up for.
THEOREM CatchUpEnds == Spec => []OneLateCallback
<1>1. IInv => OneLateCallback
  BY DEF IInv, CatchUpInv, OneLateCallback
<1> QED BY Invariant, <1>1, PTL

=============================================================================
