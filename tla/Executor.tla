------------------------------ MODULE Executor ------------------------------
(***************************************************************************)
(* The worker pool (execution/Executor.cpp): its owner starts and stops    *)
(* it, its client submits tiles and collects jobs, and workers sleep on a  *)
(* condition variable while there is nothing to do.                        *)
(*                                                                         *)
(* A critical section of _taskMutex or _completedMutex is a step.  The     *)
(* notifications are steps of their own, outside the lock as in the code.  *)
(* A worker at "lock" is about to take the mutex and to evaluate the       *)
(* predicate it waits with; one that is "waiting" gets there when it is    *)
(* notified, or spuriously.  What rendering a tile does is in              *)
(* RenderPipeline; here it ends, one way or the other.                     *)
(***************************************************************************)
EXTENDS Naturals, Sequences, FiniteSets

CONSTANTS
    Worker,         \* the threads; workerCount of them
    TaskCapacity,   \* renderTasksQueueCapacity
    Job,
    Tile            \* the tiles of a job

ASSUME ExecutorAssumption ==
    /\ IsFiniteSet(Worker) /\ Worker # {}
    /\ TaskCapacity \in Nat \ {0}
    /\ IsFiniteSet(Tile) /\ Tile # {}

VARIABLES
    owner,          \* where the owner is in start() or stop()
    client,         \* where the client is in submit()
    stopRequested,  \* _stopRequested
    tasks,          \* _renderTasksQueue
    completed,      \* _completedJobsQueue
    worker,         \* where each thread is
    holds,          \* the task it has taken
    tilesRemaining, \* RenderJob::tilesRemaining of each job
    cancelled,      \* the jobs with RenderJob::cancelled set
    submitted,      \* history: the tasks that were accepted
    finished,       \* history: the tasks that were counted
    collected       \* history: the jobs popCompleted() has returned

jobVars == <<tilesRemaining, cancelled, finished>>
workerVars == <<worker, holds>>
vars == <<owner, client, stopRequested, tasks, completed, workerVars, jobVars,
          submitted, collected>>

Task == Job \X Tile
NoTask == <<>>

\* start() sets the flag and does not clear it before stop() is through.
started == owner # "stopped"

Queued == {tasks[i] : i \in DOMAIN tasks}
Held == {holds[w] : w \in {v \in Worker : worker[v] = "process"}}
Waiting == {w \in Worker : worker[w] = "waiting"}
Awake == {w \in Worker : worker[w] = "lock"}

Init ==
    /\ owner = "stopped"
    /\ client = "idle"
    /\ stopRequested = FALSE
    /\ tasks = <<>>
    /\ completed = <<>>
    /\ worker = [w \in Worker |-> "none"]
    /\ holds = [w \in Worker |-> NoTask]
    /\ tilesRemaining = [j \in Job |-> Cardinality(Tile)]
    /\ cancelled = {}
    /\ submitted = {}
    /\ finished = {}
    /\ collected = {}

-----------------------------------------------------------------------------
(***************************************************************************)
(* The owner: start() and stop().                                          *)
(***************************************************************************)
BeginStart ==
    /\ owner = "stopped"
    /\ owner' = "starting"
    /\ stopRequested' = FALSE
    /\ UNCHANGED <<client, tasks, completed, workerVars, jobVars, submitted,
                   collected>>

\* Fault: completions of the older session stay.
KeepCompletions ==
    /\ owner = "starting"
    /\ owner' = "spawning"
    /\ UNCHANGED <<client, stopRequested, tasks, completed, workerVars, jobVars,
                   submitted, collected>>

DiscardCompletions ==
    /\ owner = "starting"
    /\ owner' = "spawning"
    /\ completed' = <<>>
    /\ UNCHANGED <<client, stopRequested, tasks, workerVars, jobVars, submitted,
                   collected>>

SpawnWorker ==
    /\ owner = "spawning"
    /\ \E w \in Worker :
          /\ worker[w] = "none"
          /\ worker' = [worker EXCEPT ![w] = "lock"]
    /\ UNCHANGED <<owner, client, stopRequested, tasks, completed, holds, jobVars,
                   submitted, collected>>

EndStart ==
    /\ owner = "spawning"
    /\ \A w \in Worker : worker[w] # "none"
    /\ owner' = "running"
    /\ UNCHANGED <<client, stopRequested, tasks, completed, workerVars, jobVars,
                   submitted, collected>>

\* A thread, or the room for one, cannot be had: start() calls stop() and throws.
FailStart ==
    /\ owner = "spawning"
    /\ \E w \in Worker : worker[w] = "none"
    /\ owner' = "failed"
    /\ UNCHANGED <<client, stopRequested, tasks, completed, workerVars, jobVars,
                   submitted, collected>>

\* Fault: the workers are joined without being woken.
BeginStopUnnotified ==
    /\ owner \in {"running", "failed"}
    /\ owner' = "joining"
    /\ stopRequested' = TRUE
    /\ cancelled' = cancelled \cup {t[1] : t \in Queued}
    /\ tasks' = <<>>
    /\ UNCHANGED <<client, completed, workerVars, tilesRemaining, finished,
                   submitted, collected>>

\* What has not been taken is cancelled and dropped.
BeginStop ==
    /\ owner \in {"running", "failed"}
    /\ owner' = "notifying"
    /\ stopRequested' = TRUE
    /\ cancelled' = cancelled \cup {t[1] : t \in Queued}
    /\ tasks' = <<>>
    /\ UNCHANGED <<client, completed, workerVars, tilesRemaining, finished,
                   submitted, collected>>

NotifyAll ==
    /\ owner = "notifying"
    /\ owner' = "joining"
    /\ worker' = [w \in Worker |-> IF w \in Waiting THEN "lock" ELSE worker[w]]
    /\ UNCHANGED <<client, stopRequested, tasks, completed, holds, jobVars,
                   submitted, collected>>

JoinWorkers ==
    /\ owner = "joining"
    /\ \A w \in Worker : worker[w] \in {"none", "exited"}
    /\ owner' = "stopped"
    /\ worker' = [w \in Worker |-> "none"]
    /\ UNCHANGED <<client, stopRequested, tasks, completed, holds, jobVars,
                   submitted, collected>>

Owner ==
    \/ BeginStart \/ DiscardCompletions \/ SpawnWorker \/ EndStart \/ FailStart
    \/ BeginStop \/ NotifyAll \/ JoinWorkers

-----------------------------------------------------------------------------
(***************************************************************************)
(* The client: submit() and popCompleted().  A refusal changes nothing.    *)
(***************************************************************************)
\* Fault: one task too many fits.
SubmitOneMore(task) ==
    /\ client = "idle"
    /\ started /\ ~stopRequested
    /\ Len(tasks) <= TaskCapacity
    /\ task \notin submitted
    /\ tasks' = Append(tasks, task)
    /\ submitted' = submitted \cup {task}
    /\ client' = "notify"
    /\ UNCHANGED <<owner, stopRequested, completed, workerVars, jobVars, collected>>

\* Fault: no worker is notified.
SubmitQuietly(task) ==
    /\ client = "idle"
    /\ started /\ ~stopRequested
    /\ Len(tasks) < TaskCapacity
    /\ task \notin submitted
    /\ tasks' = Append(tasks, task)
    /\ submitted' = submitted \cup {task}
    /\ UNCHANGED <<owner, client, stopRequested, completed, workerVars, jobVars,
                   collected>>

\* "The caller must not resubmit an accepted tile of the same job."
Submit(task) ==
    /\ client = "idle"
    /\ started /\ ~stopRequested
    /\ Len(tasks) < TaskCapacity
    /\ task \notin submitted
    /\ tasks' = Append(tasks, task)
    /\ submitted' = submitted \cup {task}
    /\ client' = "notify"
    /\ UNCHANGED <<owner, stopRequested, completed, workerVars, jobVars, collected>>

NotifyOne ==
    /\ client = "notify"
    /\ client' = "idle"
    /\ IF Waiting = {}
         THEN UNCHANGED worker
         ELSE \E w \in Waiting : worker' = [worker EXCEPT ![w] = "lock"]
    /\ UNCHANGED <<owner, stopRequested, tasks, completed, holds, jobVars,
                   submitted, collected>>

PopCompleted ==
    /\ client = "idle"
    /\ completed # <<>>
    /\ collected' = collected \cup {Head(completed)}
    /\ completed' = Tail(completed)
    /\ UNCHANGED <<owner, client, stopRequested, tasks, workerVars, jobVars,
                   submitted>>

Client == (\E task \in Task : Submit(task)) \/ NotifyOne \/ PopCompleted

-----------------------------------------------------------------------------
(***************************************************************************)
(* The workers.                                                            *)
(***************************************************************************)
\* Fault: the worker goes to sleep without looking at the queue first.
WaitBlindly(w) ==
    /\ worker[w] = "lock"
    /\ ~stopRequested
    /\ worker' = [worker EXCEPT ![w] = "waiting"]
    /\ UNCHANGED <<owner, client, stopRequested, tasks, completed, holds, jobVars,
                   submitted, collected>>

Wait(w) ==
    /\ worker[w] = "lock"
    /\ ~stopRequested
    /\ tasks = <<>>
    /\ worker' = [worker EXCEPT ![w] = "waiting"]
    /\ UNCHANGED <<owner, client, stopRequested, tasks, completed, holds, jobVars,
                   submitted, collected>>

WakeSpuriously(w) ==
    /\ worker[w] = "waiting"
    /\ worker' = [worker EXCEPT ![w] = "lock"]
    /\ UNCHANGED <<owner, client, stopRequested, tasks, completed, holds, jobVars,
                   submitted, collected>>

Leave(w) ==
    /\ worker[w] = "lock"
    /\ stopRequested
    /\ worker' = [worker EXCEPT ![w] = "exited"]
    /\ UNCHANGED <<owner, client, stopRequested, tasks, completed, holds, jobVars,
                   submitted, collected>>

TakeTask(w) ==
    /\ worker[w] = "lock"
    /\ ~stopRequested
    /\ tasks # <<>>
    /\ worker' = [worker EXCEPT ![w] = "process"]
    /\ holds' = [holds EXCEPT ![w] = Head(tasks)]
    /\ tasks' = Tail(tasks)
    /\ UNCHANGED <<owner, client, stopRequested, completed, jobVars, submitted,
                   collected>>

\* RenderTaskProcessor::process: a tile that is given up, or that the renderer
\* throws on, cancels its job and counts like one that was rendered.
Process(w) ==
    LET job == holds[w][1]
    IN  /\ worker[w] = "process"
        /\ cancelled' \in {cancelled, cancelled \cup {job}}
        /\ tilesRemaining' = [tilesRemaining EXCEPT ![job] = @ - 1]
        /\ finished' = finished \cup {holds[w]}
        /\ worker' = [worker EXCEPT ![w] =
                         IF tilesRemaining[job] = 1 THEN "publish" ELSE "lock"]
        /\ holds' = [holds EXCEPT ![w] = IF tilesRemaining[job] = 1
                                         THEN holds[w] ELSE NoTask]
        /\ UNCHANGED <<owner, client, stopRequested, tasks, completed, submitted,
                       collected>>

Publish(w) ==
    /\ worker[w] = "publish"
    /\ completed' = Append(completed, holds[w][1])
    /\ worker' = [worker EXCEPT ![w] = "lock"]
    /\ holds' = [holds EXCEPT ![w] = NoTask]
    /\ UNCHANGED <<owner, client, stopRequested, tasks, jobVars, submitted,
                   collected>>

workerLoop(w) == Wait(w) \/ Leave(w) \/ TakeTask(w) \/ Process(w) \/ Publish(w)

Next ==
    \/ Owner
    \/ Client
    \/ \E w \in Worker : workerLoop(w) \/ WakeSpuriously(w)

Spec == Init /\ [][Next]_vars

(***************************************************************************)
(* Fairness.  Every thread runs and gets the mutex in the end; the owner   *)
(* finishes a start() or stop() it has begun, the client a submit().  No   *)
(* one has to start, stop or submit, and nothing wakes up by itself.       *)
(***************************************************************************)
FinishOwner ==
    \/ DiscardCompletions \/ SpawnWorker \/ EndStart
    \/ (owner = "failed" /\ BeginStop)
    \/ NotifyAll \/ JoinWorkers

Fairness ==
    /\ WF_vars(FinishOwner)
    /\ WF_vars(NotifyOne)
    /\ \A w \in Worker : WF_vars(workerLoop(w))

FairSpec == Spec /\ Fairness

-----------------------------------------------------------------------------
(***************************************************************************)
(* Properties.                                                             *)
(***************************************************************************)
\* Every variable stays in its type, and the task queue within its capacity.
TypeOK ==
    /\ owner \in {"stopped", "starting", "spawning", "running", "failed",
                  "notifying", "joining"}
    /\ client \in {"idle", "notify"}
    /\ stopRequested \in BOOLEAN
    /\ tasks \in Seq(Task) /\ Len(tasks) <= TaskCapacity
    /\ completed \in Seq(Job)
    /\ worker \in [Worker -> {"none", "lock", "waiting", "process", "publish",
                              "exited"}]
    /\ holds \in [Worker -> Task \cup {NoTask}]
    /\ \A w \in Worker : worker[w] \in {"process", "publish"} => holds[w] \in Task
    /\ tilesRemaining \in [Job -> Nat]
    /\ cancelled \subseteq Job
    /\ submitted \subseteq Task
    /\ finished \subseteq Task
    /\ collected \subseteq Job

\* No lost wake-up: while a worker sleeps, every queued task has a worker that is
\* on its way to the queue, or is about to be notified of.  One notify_one() for
\* each task is enough, although it is sent after the mutex is released and may
\* find nobody asleep.
NoTaskIsSleptThrough ==
    Waiting # {} =>
        Len(tasks) <= Cardinality(Awake) + (IF client = "notify" THEN 1 ELSE 0)

\* An accepted task is taken or, by stop(), dropped, while the pool may be
\* started, fail to start, and be stopped at any moment.
TaskIsServed == \A task \in Task : task \in Queued ~> task \notin Queued

\* stop() returns: every worker wakes and leaves.
StopReturns == owner \in {"failed", "notifying", "joining"} ~> owner = "stopped"

(***************************************************************************)
(* The pool implements WorkerPool.                                         *)
(***************************************************************************)
Phase ==
    CASE owner = "stopped" -> "closed"
      [] owner = "starting" -> "opening"
      [] owner \in {"spawning", "running", "failed"} -> "serving"
      [] owner \in {"notifying", "joining"} -> "closing"

TileStatus(task) ==
    CASE task \notin submitted -> "client"
      [] task \in finished -> "finished"
      [] task \in (Queued \cup Held) \ finished -> "accepted"
      [] OTHER -> "dropped"

Returning(j) == \E w \in Worker : worker[w] = "publish" /\ holds[w][1] = j

JobResult(j) ==
    CASE j \in collected -> "delivered"
      [] j \notin collected /\ \E i \in DOMAIN completed : completed[i] = j
           -> "returned"
      [] OTHER -> IF Returning(j) \/ ~({j} \X Tile \subseteq finished)
                  THEN "open" ELSE "forgotten"

Pool == INSTANCE WorkerPool WITH
    phase <- Phase,
    tile <- [task \in Task |-> TileStatus(task)],
    result <- [j \in Job |-> JobResult(j)]

\* What the scheduler relies on: no accepted tile is lost, rendered twice or left
\* over after stop(), a job comes back once, after its last tile, and never from
\* an older session, and a job that lost a tile to a shutdown is cancelled.
ImplementsPool == Pool!Spec

=============================================================================
