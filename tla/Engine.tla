------------------------------- MODULE Engine -------------------------------
(***************************************************************************)
(* The life of the engine: the control thread starts and stops the pool,   *)
(* the scheduler thread and the audio thread, any of which may fail to     *)
(* start, and posts commands; the scheduler thread reads them, and a Stop  *)
(* command ends both threads; the audio thread follows a periodic clock    *)
(* (engine/Engine.cpp, the loop and the commands of scheduler/             *)
(* Scheduler.cpp, audio/simulator/AudioSimulator.cpp).                     *)
(*                                                                         *)
(* What the threads do in between is in Playback and RenderPipeline, and   *)
(* how the pool starts and stops its workers in Executor: here it is on or *)
(* off.  Time is not counted: the audio thread may wake late by any number *)
(* of deadlines up to MaxDue.                                              *)
(***************************************************************************)
EXTENDS Naturals, Sequences

CONSTANTS
    CommandSlots,   \* commandQueueSlots
    MaxDue,         \* bound on the deadlines that are due when the thread wakes
    MaxPosts        \* bound on the commands accepted in one session

ASSUME EngineAssumption ==
    /\ CommandSlots \in Nat \ {0}
    /\ MaxDue \in Nat \ {0}
    /\ MaxPosts \in Nat

VARIABLES
    control,            \* where the control thread is
    stop,               \* SharedState::stop
    executor,           \* whether the pool runs
    \* Scheduler
    schedulerStarted,   \* _started
    schedulerStop,      \* _stopRequested
    scheduler,          \* where the thread is in schedulerLoop()
    commandQueue,       \* _commandQueue
    command,            \* the command that was popped, until it is handled
    accepted,           \* history: what post() accepted in this session
    handled,            \* history: what was handled in this session
    \* AudioSimulator
    audioStarted,       \* _started
    audioStop,          \* _stopRequested
    audio,              \* where the thread is in periodicAudioDeviceClock()
    due,                \* deadlines not later than wakeTime and not yet served
    late                \* history: callbacks begun after stop was set

queueVars == <<commandQueue, command, accepted, handled>>
schedulerVars == <<schedulerStarted, schedulerStop, scheduler, queueVars>>
audioVars == <<audioStarted, audioStop, audio, due, late>>
vars == <<control, stop, executor, schedulerVars, audioVars>>

\* The scheduler tells a Stop from the others; those end here.
Command == {"Stop", "other"}

Init ==
    /\ control = "stopped"
    /\ stop = FALSE
    /\ executor = "off"
    /\ schedulerStarted = FALSE /\ schedulerStop = FALSE /\ scheduler = "off"
    /\ commandQueue = <<>> /\ command = <<>> /\ accepted = <<>> /\ handled = <<>>
    /\ audioStarted = FALSE /\ audioStop = FALSE /\ audio = "off"
    /\ due = 0 /\ late = 0

-----------------------------------------------------------------------------
(***************************************************************************)
(* The control thread: Engine::start.                                      *)
(***************************************************************************)
\* The ready queue is reset and the shutdown request withdrawn.
BeginStart ==
    /\ control = "stopped"
    /\ control' = "startExecutor"
    /\ stop' = FALSE
    /\ UNCHANGED <<executor, schedulerVars, audioVars>>

StartExecutor ==
    /\ control = "startExecutor"
    /\ control' = "startScheduler"
    /\ executor' = "on"
    /\ UNCHANGED <<stop, schedulerVars, audioVars>>

StartScheduler ==
    /\ control = "startScheduler"
    /\ control' = "startAudio"
    /\ schedulerStarted' = TRUE
    /\ schedulerStop' = FALSE
    /\ scheduler' = "top"
    /\ accepted' = <<>>
    /\ handled' = <<>>
    /\ UNCHANGED <<stop, executor, commandQueue, command, audioVars>>

StartAudio ==
    /\ control = "startAudio"
    /\ control' = "running"
    /\ audioStarted' = TRUE
    /\ audioStop' = FALSE
    /\ audio' = "loop"
    /\ late' = 0
    /\ UNCHANGED <<stop, executor, schedulerVars, due>>

\* Fault: what runs already is forgotten.
FailStartForgetting ==
    /\ control \in {"startExecutor", "startScheduler", "startAudio"}
    /\ control' = "stopExecutor"
    /\ stop' = TRUE
    /\ UNCHANGED <<executor, schedulerVars, audioVars>>

\* A thread cannot be started: Scheduler::start undoes what it has set,
\* AudioSimulator::start has not set it yet, and what runs already is stopped in
\* the order of stop().
FailStart ==
    /\ control \in {"startExecutor", "startScheduler", "startAudio"}
    /\ control' = "stopScheduler"
    /\ stop' = TRUE
    /\ schedulerStop' = IF control = "startScheduler" THEN TRUE ELSE schedulerStop
    /\ audioStop' = IF control = "startAudio" THEN FALSE ELSE audioStop
    /\ UNCHANGED <<executor, schedulerStarted, scheduler, queueVars, audioStarted,
                   audio, due, late>>

(***************************************************************************)
(* Engine::stop, and the handler of a failed start.  stop() of a component *)
(* that is not started returns at once.                                    *)
(***************************************************************************)
RequestStop ==
    /\ control = "running"
    /\ control' = "stopScheduler"
    /\ stop' = TRUE
    /\ UNCHANGED <<executor, schedulerVars, audioVars>>

StopScheduler ==
    /\ control = "stopScheduler"
    /\ control' = IF schedulerStarted THEN "joinScheduler" ELSE "stopAudio"
    /\ schedulerStop' = (schedulerStop \/ schedulerStarted)
    /\ UNCHANGED <<stop, executor, schedulerStarted, scheduler, queueVars, audioVars>>

\* Fault: what is left in the command queue stays there.
JoinSchedulerOnly ==
    /\ control = "joinScheduler"
    /\ scheduler \in {"exited", "off"}
    /\ control' = "stopAudio"
    /\ scheduler' = "off"
    /\ schedulerStarted' = FALSE
    /\ UNCHANGED <<stop, executor, schedulerStop, queueVars, audioVars>>

\* The commands nobody has read are dropped, by the control thread.
JoinScheduler ==
    /\ control = "joinScheduler"
    /\ scheduler \in {"exited", "off"}
    /\ control' = "stopAudio"
    /\ scheduler' = "off"
    /\ schedulerStarted' = FALSE
    /\ commandQueue' = <<>>
    /\ UNCHANGED <<stop, executor, schedulerStop, command, accepted, handled,
                   audioVars>>

StopAudio ==
    /\ control = "stopAudio"
    /\ control' = IF audioStarted THEN "joinAudio" ELSE "stopExecutor"
    /\ audioStop' = (audioStop \/ audioStarted)
    /\ UNCHANGED <<stop, executor, schedulerVars, audioStarted, audio, due, late>>

JoinAudio ==
    /\ control = "joinAudio"
    /\ audio \in {"exited", "off"}
    /\ control' = "stopExecutor"
    /\ audio' = "off"
    /\ audioStarted' = FALSE
    /\ UNCHANGED <<stop, executor, schedulerVars, audioStop, due, late>>

StopExecutor ==
    /\ control = "stopExecutor"
    /\ control' = "stopped"
    /\ executor' = "off"
    /\ UNCHANGED <<stop, schedulerVars, audioVars>>

(***************************************************************************)
(* Engine::post.  The flags are looked at before the queue is: a shutdown  *)
(* may begin in between.  A refusal changes nothing.                       *)
(***************************************************************************)
BeginPost ==
    /\ control = "running"
    /\ schedulerStarted /\ ~schedulerStop /\ ~stop
    /\ control' = "posting"
    /\ UNCHANGED <<stop, executor, schedulerVars, audioVars>>

\* Fault: one command too many fits.
AcceptOneMore(c) ==
    /\ control = "posting"
    /\ control' = "running"
    /\ Len(accepted) < MaxPosts
    /\ Len(commandQueue) <= CommandSlots
    /\ commandQueue' = Append(commandQueue, c)
    /\ accepted' = Append(accepted, c)
    /\ UNCHANGED <<stop, executor, schedulerStarted, schedulerStop, scheduler,
                   command, handled, audioVars>>

Accept(c) ==
    /\ control = "posting"
    /\ control' = "running"
    /\ Len(accepted) < MaxPosts
    /\ Len(commandQueue) < CommandSlots
    /\ commandQueue' = Append(commandQueue, c)
    /\ accepted' = Append(accepted, c)
    /\ UNCHANGED <<stop, executor, schedulerStarted, schedulerStop, scheduler,
                   command, handled, audioVars>>

RefuseFull ==
    /\ control = "posting"
    /\ Len(commandQueue) = CommandSlots \/ Len(accepted) = MaxPosts
    /\ control' = "running"
    /\ UNCHANGED <<stop, executor, schedulerVars, audioVars>>

\* What the control thread does once it has begun, and what it may begin.
FinishCall ==
    \/ StartExecutor \/ StartScheduler \/ StartAudio
    \/ StopScheduler \/ JoinScheduler \/ StopAudio \/ JoinAudio \/ StopExecutor
    \/ RefuseFull \/ \E c \in Command : Accept(c)
BeginCall == BeginStart \/ FailStart \/ RequestStop \/ BeginPost

-----------------------------------------------------------------------------
(***************************************************************************)
(* The scheduler thread.                                                   *)
(***************************************************************************)
shutdownRequested == schedulerStop \/ stop

schedulerOnly == <<control, stop, executor, schedulerStarted, schedulerStop, audioVars>>

LoopTop ==
    /\ scheduler = "top"
    /\ scheduler' = IF shutdownRequested THEN "exited" ELSE "commands"
    /\ UNCHANGED <<schedulerOnly, queueVars>>

PopCommand ==
    /\ scheduler = "commands"
    /\ commandQueue # <<>>
    /\ scheduler' = "handle"
    /\ command' = <<Head(commandQueue)>>
    /\ commandQueue' = Tail(commandQueue)
    /\ UNCHANGED <<schedulerOnly, accepted, handled>>

NoCommand ==
    /\ scheduler = "commands"
    /\ commandQueue = <<>>
    /\ scheduler' = "check"
    /\ UNCHANGED <<schedulerOnly, queueVars>>

\* Fault: a Stop command ends the scheduler thread alone.
HandleStopLocally ==
    /\ scheduler = "handle"
    /\ schedulerStop' = (schedulerStop \/ command = <<"Stop">>)
    /\ scheduler' = IF schedulerStop' \/ stop THEN "check" ELSE "commands"
    /\ handled' = handled \o command
    /\ command' = <<>>
    /\ UNCHANGED <<control, stop, executor, schedulerStarted, commandQueue,
                   accepted, audioVars>>

HandleCommand ==
    /\ scheduler = "handle"
    /\ stop' = (stop \/ command = <<"Stop">>)
    /\ schedulerStop' = (schedulerStop \/ command = <<"Stop">>)
    /\ scheduler' = IF schedulerStop' \/ stop' THEN "check" ELSE "commands"
    /\ handled' = handled \o command
    /\ command' = <<>>
    /\ UNCHANGED <<control, executor, schedulerStarted, commandQueue, accepted,
                   audioVars>>

CheckShutdown ==
    /\ scheduler = "check"
    /\ scheduler' = IF shutdownRequested THEN "exited" ELSE "pass"
    /\ UNCHANGED <<schedulerOnly, queueVars>>

\* Fault: the next pass follows without a look at the commands.
EndPassKeepingOn ==
    /\ scheduler = "pass"
    /\ scheduler' = "check"
    /\ UNCHANGED <<schedulerOnly, queueVars>>

\* Collect, publish, schedule and dispatch: the pool and the ready queue are used.
EndPass ==
    /\ scheduler = "pass"
    /\ scheduler' = "top"
    /\ UNCHANGED <<schedulerOnly, queueVars>>

schedulerLoop ==
    \/ LoopTop \/ PopCommand \/ NoCommand \/ HandleCommand \/ CheckShutdown
    \/ EndPass

-----------------------------------------------------------------------------
(***************************************************************************)
(* The audio thread.                                                       *)
(***************************************************************************)
AudioStopRequested == audioStop \/ stop

audioOnly == <<control, stop, executor, schedulerVars, audioStarted, audioStop>>

Sleep ==
    /\ audio = "loop"
    /\ audio' = IF AudioStopRequested THEN "exited" ELSE "asleep"
    /\ UNCHANGED <<audioOnly, due, late>>

WakeUp ==
    /\ audio = "asleep"
    /\ ~AudioStopRequested
    /\ audio' = "callback"
    /\ due' \in 1 .. MaxDue
    /\ UNCHANGED <<audioOnly, late>>

WakeUpToStop ==
    /\ audio = "asleep"
    /\ AudioStopRequested
    /\ audio' = "exited"
    /\ UNCHANGED <<audioOnly, due, late>>

\* A callback, and the clock advanced by one period.
Callback ==
    /\ audio = "callback"
    /\ audio' = "catchUp"
    /\ due' = due - 1
    /\ late' = IF stop THEN late + 1 ELSE late
    /\ UNCHANGED audioOnly

\* Fault: periods that were missed are made up for, whatever is requested.
CatchUpAll ==
    /\ audio = "catchUp"
    /\ audio' = IF due > 0 THEN "callback" ELSE "loop"
    /\ UNCHANGED <<audioOnly, due, late>>

CatchUp ==
    /\ audio = "catchUp"
    /\ audio' = IF due > 0 /\ ~AudioStopRequested THEN "callback" ELSE "loop"
    /\ UNCHANGED <<audioOnly, due, late>>

periodicAudioDeviceClock ==
    Sleep \/ WakeUp \/ WakeUpToStop \/ Callback \/ CatchUp

Next == BeginCall \/ FinishCall \/ schedulerLoop \/ periodicAudioDeviceClock

Spec == Init /\ [][Next]_vars

(***************************************************************************)
(* Fairness.  Every thread runs; the control thread finishes what it has   *)
(* begun, and need not begin anything.                                     *)
(***************************************************************************)
FairSpec ==
    /\ Spec
    /\ WF_vars(FinishCall)
    /\ WF_vars(schedulerLoop)
    /\ WF_vars(periodicAudioDeviceClock)

-----------------------------------------------------------------------------
(***************************************************************************)
(* Properties.                                                             *)
(***************************************************************************)
\* Every variable stays in its type, the command queue within its slots.
TypeOK ==
    /\ control \in {"stopped", "startExecutor", "startScheduler", "startAudio",
                    "running", "posting", "stopScheduler", "joinScheduler",
                    "stopAudio", "joinAudio", "stopExecutor"}
    /\ executor \in {"off", "on"}
    /\ {stop, schedulerStarted, schedulerStop, audioStarted, audioStop} \subseteq BOOLEAN
    /\ scheduler \in {"off", "top", "commands", "handle", "check", "pass", "exited"}
    /\ commandQueue \in Seq(Command) /\ Len(commandQueue) <= CommandSlots
    /\ command \in {<<>>} \cup {<<c>> : c \in Command}
    /\ accepted \in Seq(Command) /\ handled \in Seq(Command)
    /\ audio \in {"off", "loop", "asleep", "callback", "catchUp", "exited"}
    /\ due \in 0 .. MaxDue
    /\ late \in Nat

\* After stop(), and after a start() that threw, whichever thread could not be
\* had, nothing runs: the ready queue may be reset, the metrics may be read and
\* the engine may be started again or destroyed.  In between "Executor must exist
\* before Scheduler starts dispatching", and as long as it may.
LifecycleOrder ==
    /\ control \in {"stopped", "startExecutor"} =>
          /\ scheduler = "off" /\ ~schedulerStarted
          /\ audio = "off" /\ ~audioStarted
          /\ executor = "off"
    /\ scheduler = "pass" => executor = "on"

\* Commands are handled in the order post() accepted them, none twice, and none
\* that was accepted before a shutdown is handled after a restart.
CommandsKeepOrder ==
    scheduler # "off" => accepted = handled \o command \o commandQueue

\* "Without this check the thread would execute one additional callback after
\* stop() had been requested": however many periods it has to make up for, at
\* most the callback that was about to begin begins after the request.
OneLateCallback == late <= 1

\* What post() accepted is handled, unless a shutdown is requested first.
AcceptedIsHandled ==
    \A n \in 1 .. MaxPosts :
        scheduler # "off" /\ Len(accepted) >= n
            ~> Len(handled) >= n \/ shutdownRequested

\* A shutdown request, also one by a Stop command while the control thread does
\* nothing, ends both threads.
ShutdownEndsThreads ==
    shutdownRequested
        ~> scheduler \in {"off", "exited"} /\ audio \in {"off", "exited"}

=============================================================================
