--------------------------- MODULE ExecutorProofs ---------------------------
(***************************************************************************)
(* The worker pool for any number of workers, jobs and tiles: no wake-up   *)
(* is lost, and the pool implements WorkerPool.                            *)
(***************************************************************************)
EXTENDS Executor, FiniteSetTheorems, TLAPS

-----------------------------------------------------------------------------
(***************************************************************************)
(* The inductive invariant.                                                *)
(***************************************************************************)
Items(s) == {s[i] : i \in DOMAIN s}

Distinct(s) == \A i, k \in DOMAIN s : s[i] = s[k] => i = k

Unfinished(j) == {i \in Tile : <<j, i>> \notin finished}

\* What the phase of start() and stop() says of the threads and the queue.
PhaseInv ==
    /\ owner \in {"starting", "spawning", "running", "failed"} => ~stopRequested
    /\ owner \in {"notifying", "joining"} => stopRequested
    /\ owner \in {"stopped", "notifying", "joining"} => tasks = <<>>
    /\ owner \in {"stopped", "starting"} => \A w \in Worker : worker[w] = "none"
    /\ owner = "joining" => \A w \in Worker : worker[w] # "waiting"

\* A task that was accepted is in one place, and counted once.
TileInv ==
    /\ Distinct(tasks)
    /\ finished \subseteq submitted
    /\ \A t \in Items(tasks) : t \in submitted /\ t \notin finished
    /\ \A w \in Worker : worker[w] = "process" =>
          /\ holds[w] \in submitted
          /\ holds[w] \notin finished
          /\ holds[w] \notin Items(tasks)
    /\ \A v, w \in Worker :
          worker[v] = "process" /\ worker[w] = "process" /\ holds[v] = holds[w]
             => v = w
    /\ \A j \in Job : tilesRemaining[j] = Cardinality(Unfinished(j))

\* A job is on its way back once, and only when every tile was counted.
JobInv ==
    /\ Distinct(completed)
    /\ \A j \in collected \cup Items(completed) : Unfinished(j) = {}
    /\ \A j \in Items(completed) : j \notin collected
    /\ \A w \in Worker : worker[w] = "publish" =>
          /\ Unfinished(holds[w][1]) = {}
          /\ holds[w][1] \notin collected
          /\ holds[w][1] \notin Items(completed)
    /\ \A v, w \in Worker :
          worker[v] = "publish" /\ worker[w] = "publish"
          /\ holds[v][1] = holds[w][1] => v = w

IInv == TypeOK /\ PhaseInv /\ TileInv /\ JobInv /\ NoTaskIsSleptThrough

-----------------------------------------------------------------------------
(***************************************************************************)
(* Sequences without repetition.                                           *)
(***************************************************************************)
\* An item that is new may be appended.
LEMMA AppendItems ==
    ASSUME NEW S, NEW s \in Seq(S), NEW x \in S
    PROVE  /\ Items(Append(s, x)) = Items(s) \cup {x}
           /\ Distinct(s) /\ x \notin Items(s) => Distinct(Append(s, x))
<1>1. /\ Append(s, x) \in Seq(S) /\ Len(Append(s, x)) = Len(s) + 1
      /\ \A i \in 1 .. Len(s) : Append(s, x)[i] = s[i]
      /\ Append(s, x)[Len(s) + 1] = x
  OBVIOUS
<1>2. /\ Len(s) \in Nat
      /\ DOMAIN s = 1 .. Len(s) /\ DOMAIN Append(s, x) = 1 .. Len(s) + 1
  BY <1>1
<1>3. Items(Append(s, x)) = Items(s) \cup {x}
  BY <1>1, <1>2 DEF Items
<1>4. Distinct(s) /\ x \notin Items(s) => Distinct(Append(s, x))
  BY <1>1, <1>2 DEF Items, Distinct
<1> QED BY <1>3, <1>4

\* The first item leaves and the others stay.
LEMMA TailItems ==
    ASSUME NEW S, NEW s \in Seq(S), s # <<>>
    PROVE  /\ Head(s) \in Items(s) /\ Head(s) \in S
           /\ Tail(s) \in Seq(S) /\ Len(Tail(s)) = Len(s) - 1
           /\ Items(Tail(s)) \subseteq Items(s)
           /\ Items(s) = Items(Tail(s)) \cup {Head(s)}
           /\ Distinct(s) => Distinct(Tail(s)) /\ Head(s) \notin Items(Tail(s))
<1>1. /\ Len(s) \in Nat \ {0} /\ DOMAIN s = 1 .. Len(s)
      /\ Head(s) = s[1] /\ Tail(s) \in Seq(S) /\ Len(Tail(s)) = Len(s) - 1
      /\ \A i \in 1 .. Len(s) - 1 : Tail(s)[i] = s[i + 1]
  OBVIOUS
<1>2. DOMAIN Tail(s) = 1 .. Len(s) - 1
  BY <1>1
<1>3. Head(s) \in Items(s) /\ Head(s) \in S
  BY <1>1 DEF Items
<1>4. Items(Tail(s)) \subseteq Items(s)
  BY <1>1, <1>2 DEF Items
<1>5. Items(s) \subseteq Items(Tail(s)) \cup {Head(s)}
  <2> SUFFICES ASSUME NEW i \in 1 .. Len(s), i # 1
               PROVE  s[i] \in Items(Tail(s))
    BY <1>1 DEF Items
  <2>1. i - 1 \in 1 .. Len(s) - 1 /\ Tail(s)[i - 1] = s[i]
    BY <1>1
  <2> QED BY <2>1, <1>2 DEF Items
<1>6. Distinct(s) => Distinct(Tail(s)) /\ Head(s) \notin Items(Tail(s))
  BY <1>1, <1>2 DEF Items, Distinct
<1> QED BY <1>1, <1>3, <1>4, <1>5, <1>6

\* Nothing is in the empty sequence.
LEMMA EmptyItems == Items(<<>>) = {} /\ Distinct(<<>>)
BY DEF Items, Distinct

\* The queue in these terms.
LEMMA QueuedItems == Queued = Items(tasks)
BY DEF Queued, Items

-----------------------------------------------------------------------------
(***************************************************************************)
(* Types and phases.                                                       *)
(***************************************************************************)
LEMMA InitHolds == Init => IInv
<1> SUFFICES ASSUME Init PROVE IInv
  OBVIOUS
<1> USE DEF Init
<1>1. Cardinality(Tile) \in Nat
  BY ExecutorAssumption, FS_CardinalityType
<1>2. TypeOK
  <2>1. tilesRemaining \in [Job -> Nat]
    BY <1>1
  <2>2. tasks \in Seq(Task) /\ Len(tasks) <= TaskCapacity /\ completed \in Seq(Job)
    BY ExecutorAssumption
  <2>3. holds \in [Worker -> Task \cup {NoTask}]
    OBVIOUS
  <2> QED BY <2>1, <2>2, <2>3 DEF TypeOK
<1>3. PhaseInv
  BY DEF PhaseInv
<1>4. \A j \in Job : Unfinished(j) = Tile
  BY DEF Unfinished
<1>5. TileInv
  BY <1>4, EmptyItems DEF TileInv
<1>6. JobInv
  BY EmptyItems DEF JobInv
<1>7. NoTaskIsSleptThrough
  BY DEF NoTaskIsSleptThrough, Waiting
<1> QED BY <1>2, <1>3, <1>5, <1>6, <1>7 DEF IInv

\* The tile a worker counts is the last one of its job when the counter says so.
LEMMA CounterCounts ==
    ASSUME IInv, NEW w \in Worker, worker[w] = "process"
    PROVE  \E j \in Job, i \in Tile :
              /\ holds[w] \in Task /\ holds[w] = <<j, i>> /\ holds[w][1] = j
              /\ i \in Unfinished(j)
              /\ tilesRemaining[j] \in Nat \ {0}
              /\ Cardinality(Unfinished(j) \ {i}) = tilesRemaining[j] - 1
              /\ tilesRemaining[j] = 1 <=> Unfinished(j) \ {i} = {}
<1> DEFINE j == holds[w][1]
           i == holds[w][2]
<1>1. holds[w] \in Task /\ holds[w] = <<j, i>> /\ j \in Job /\ i \in Tile
  BY DEF IInv, TypeOK, Task
<1>2. i \in Unfinished(j)
  BY <1>1 DEF IInv, TileInv, Unfinished
<1>3. tilesRemaining[j] = Cardinality(Unfinished(j))
  BY <1>1 DEF IInv, TileInv
<1>4. IsFiniteSet(Unfinished(j))
  BY ExecutorAssumption, FS_Subset DEF Unfinished
<1>5. Cardinality(Unfinished(j) \ {i}) = Cardinality(Unfinished(j)) - 1
  BY <1>2, <1>4, FS_RemoveElement
<1>6. IsFiniteSet(Unfinished(j) \ {i})
  BY <1>4, FS_Subset
<1>7. /\ Cardinality(Unfinished(j) \ {i}) \in Nat
      /\ Cardinality(Unfinished(j)) \in Nat
      /\ Cardinality(Unfinished(j) \ {i}) = 0 <=> Unfinished(j) \ {i} = {}
  BY <1>4, <1>6, FS_CardinalityType, FS_EmptySet
<1> HIDE DEF j, i
<1>8. tilesRemaining[j] \in Nat \ {0} /\ (tilesRemaining[j] = 1 <=> Unfinished(j) \ {i} = {})
  BY <1>3, <1>5, <1>7
<1>9. holds[w][1] = j
  BY DEF j
<1>10. Cardinality(Unfinished(j) \ {i}) = tilesRemaining[j] - 1
  BY <1>3, <1>5
<1> QED BY <1>1, <1>2, <1>8, <1>9, <1>10, Zenon

LEMMA TypeStep == IInv /\ Next => TypeOK'
<1> SUFFICES ASSUME IInv, Next PROVE TypeOK'
  OBVIOUS
<1> USE DEF IInv, TypeOK
<1>1. CASE BeginStart
  BY <1>1 DEF BeginStart, workerVars, jobVars
<1>2. CASE DiscardCompletions
  BY <1>2 DEF DiscardCompletions, workerVars, jobVars
<1>3. CASE SpawnWorker
  BY <1>3 DEF SpawnWorker, jobVars
<1>4. CASE EndStart \/ FailStart
  BY <1>4 DEF EndStart, FailStart, workerVars, jobVars
<1>5. CASE BeginStop
  <2>1. cancelled' \subseteq Job
    BY <1>5, QueuedItems DEF BeginStop, Items, Task
  <2>2. tasks' \in Seq(Task) /\ Len(tasks') <= TaskCapacity
    BY <1>5, ExecutorAssumption DEF BeginStop
  <2> QED BY <1>5, <2>1, <2>2 DEF BeginStop, workerVars
<1>6. CASE NotifyAll
  BY <1>6 DEF NotifyAll, jobVars
<1>7. CASE JoinWorkers
  BY <1>7 DEF JoinWorkers, jobVars
<1>8. ASSUME NEW t \in Task, Submit(t) PROVE TypeOK'
  <2>1. tasks' \in Seq(Task) /\ Len(tasks') <= TaskCapacity
    BY <1>8, ExecutorAssumption DEF Submit
  <2> QED BY <1>8, <2>1 DEF Submit, workerVars, jobVars
<1>9. CASE NotifyOne
  BY <1>9 DEF NotifyOne, Waiting, jobVars
<1>10. CASE PopCompleted
  BY <1>10, TailItems DEF PopCompleted, workerVars, jobVars
<1>11. ASSUME NEW w \in Worker, Wait(w) \/ WakeSpuriously(w) \/ Leave(w) PROVE TypeOK'
  BY <1>11 DEF Wait, WakeSpuriously, Leave, jobVars
<1>12. ASSUME NEW w \in Worker, TakeTask(w) PROVE TypeOK'
  <2>1. Head(tasks) \in Task /\ tasks' \in Seq(Task) /\ Len(tasks') <= TaskCapacity
    BY <1>12, TailItems, ExecutorAssumption DEF TakeTask
  <2> QED BY <1>12, <2>1 DEF TakeTask, jobVars
<1>13. ASSUME NEW w \in Worker, Process(w) PROVE TypeOK'
  <2>1. /\ holds[w] \in Task /\ holds[w][1] \in Job
        /\ tilesRemaining[holds[w][1]] \in Nat \ {0}
    BY <1>13, CounterCounts DEF Process
  <2>2. tilesRemaining' \in [Job -> Nat]
    BY <1>13, <2>1 DEF Process
  <2>3. cancelled' \subseteq Job /\ finished' \subseteq Task
    BY <1>13, <2>1 DEF Process
  <2>4. /\ worker' \in [Worker -> {"none", "lock", "waiting", "process", "publish",
                                   "exited"}]
        /\ holds' \in [Worker -> Task \cup {NoTask}]
        /\ \A v \in Worker : worker'[v] \in {"process", "publish"} => holds'[v] \in Task
    BY <1>13, <2>1 DEF Process
  <2> QED BY <1>13, <2>2, <2>3, <2>4 DEF Process
<1>14. ASSUME NEW w \in Worker, Publish(w) PROVE TypeOK'
  <2>1. holds[w][1] \in Job
    BY <1>14 DEF Publish, Task
  <2> QED BY <1>14, <2>1 DEF Publish, jobVars
<1> QED BY <1>1, <1>2, <1>3, <1>4, <1>5, <1>6, <1>7, <1>8, <1>9, <1>10, <1>11,
           <1>12, <1>13, <1>14 DEF Next, Owner, Client, workerLoop

LEMMA PhaseStep == IInv /\ Next => PhaseInv'
<1> SUFFICES ASSUME IInv, Next PROVE PhaseInv'
  OBVIOUS
<1> USE DEF IInv, TypeOK, PhaseInv
<1>1. CASE BeginStart \/ DiscardCompletions \/ EndStart \/ FailStart \/ BeginStop
  BY <1>1 DEF BeginStart, DiscardCompletions, EndStart, FailStart, BeginStop,
              workerVars
<1>2. CASE SpawnWorker \/ NotifyAll \/ JoinWorkers
  BY <1>2 DEF SpawnWorker, NotifyAll, JoinWorkers, Waiting
<1>3. ASSUME NEW t \in Task, Submit(t) PROVE PhaseInv'
  BY <1>3 DEF Submit, started, workerVars
<1>4. CASE NotifyOne \/ PopCompleted
  BY <1>4 DEF NotifyOne, PopCompleted, Waiting, workerVars
<1>5. ASSUME NEW w \in Worker,
             Wait(w) \/ WakeSpuriously(w) \/ Leave(w) \/ Process(w) \/ Publish(w)
      PROVE  PhaseInv'
  BY <1>5 DEF Wait, WakeSpuriously, Leave, Process, Publish
<1>6. ASSUME NEW w \in Worker, TakeTask(w) PROVE PhaseInv'
  BY <1>6 DEF TakeTask
<1> QED BY <1>1, <1>2, <1>3, <1>4, <1>5, <1>6 DEF Next, Owner, Client, workerLoop

-----------------------------------------------------------------------------
(***************************************************************************)
(* Tiles.                                                                  *)
(***************************************************************************)
LEMMA TileStep == IInv /\ Next => TileInv'
<1> SUFFICES ASSUME IInv, Next PROVE TileInv'
  OBVIOUS
<1> USE DEF IInv, TileInv
<1>1. CASE BeginStart \/ DiscardCompletions \/ EndStart \/ FailStart \/ PopCompleted
  BY <1>1 DEF BeginStart, DiscardCompletions, EndStart, FailStart, PopCompleted,
              workerVars, jobVars, Unfinished
<1>2. CASE SpawnWorker \/ NotifyAll \/ JoinWorkers \/ NotifyOne
  <2>1. /\ UNCHANGED <<tasks, submitted, holds, tilesRemaining, finished>>
        /\ \A w \in Worker : worker'[w] = "process" => worker[w] = "process"
    BY <1>2 DEF SpawnWorker, NotifyAll, JoinWorkers, NotifyOne, Waiting, jobVars, TypeOK
  <2> QED BY <2>1 DEF Unfinished
<1>3. CASE BeginStop
  BY <1>3, EmptyItems DEF BeginStop, workerVars, Unfinished
<1>4. ASSUME NEW t \in Task, Submit(t) PROVE TileInv'
  <2>1. t \notin Items(tasks)
    BY <1>4 DEF Submit
  <2>2. Items(tasks') = Items(tasks) \cup {t} /\ Distinct(tasks')
    BY <1>4, <2>1, AppendItems DEF Submit, TypeOK
  <2> QED BY <1>4, <2>2 DEF Submit, workerVars, jobVars, Unfinished
<1>5. ASSUME NEW w \in Worker, Wait(w) \/ WakeSpuriously(w) \/ Leave(w) PROVE TileInv'
  <2>1. /\ UNCHANGED <<tasks, submitted, holds, tilesRemaining, finished>>
        /\ \A v \in Worker : worker'[v] = "process" => worker[v] = "process"
    BY <1>5 DEF Wait, WakeSpuriously, Leave, jobVars, TypeOK
  <2> QED BY <2>1 DEF Unfinished
<1>6. ASSUME NEW w \in Worker, TakeTask(w) PROVE TileInv'
  <2>1. /\ Head(tasks) \in Items(tasks) /\ Head(tasks) \notin Items(tasks')
        /\ Items(tasks') \subseteq Items(tasks) /\ Distinct(tasks')
    BY <1>6, TailItems DEF TakeTask, TypeOK
  <2>2. /\ UNCHANGED <<submitted, tilesRemaining, finished>>
        /\ holds'[w] = Head(tasks)
        /\ \A v \in Worker \ {w} : holds'[v] = holds[v] /\ worker'[v] = worker[v]
    BY <1>6 DEF TakeTask, jobVars, TypeOK
  <2> QED BY <2>1, <2>2 DEF Unfinished
<1>7. ASSUME NEW w \in Worker, Process(w) PROVE TileInv'
  <2>1. PICK j \in Job, i \in Tile :
           /\ holds[w] = <<j, i>> /\ holds[w][1] = j /\ i \in Unfinished(j)
           /\ tilesRemaining[j] \in Nat \ {0}
           /\ Cardinality(Unfinished(j) \ {i}) = tilesRemaining[j] - 1
    <3>1. worker[w] = "process"
      BY <1>7 DEF Process
    <3> HIDE DEF IInv, TileInv
    <3> QED BY <3>1, CounterCounts, Zenon
  <2>2. /\ UNCHANGED <<tasks, submitted>>
        /\ finished' = finished \cup {holds[w]}
        /\ worker'[w] # "process"
        /\ \A v \in Worker \ {w} : holds'[v] = holds[v] /\ worker'[v] = worker[v]
        /\ tilesRemaining' = [tilesRemaining EXCEPT ![j] = @ - 1]
    BY <1>7, <2>1 DEF Process, TypeOK
  <2>3. /\ Unfinished(j)' = Unfinished(j) \ {i}
        /\ \A k \in Job \ {j} : Unfinished(k)' = Unfinished(k)
    BY <2>1, <2>2 DEF Unfinished
  <2>4. \A k \in Job : tilesRemaining'[k] = Cardinality(Unfinished(k)')
    <3> SUFFICES ASSUME NEW k \in Job
                 PROVE  tilesRemaining'[k] = Cardinality(Unfinished(k)')
      OBVIOUS
    <3>1. CASE k = j
      <4>1. tilesRemaining'[j] = tilesRemaining[j] - 1
        BY <2>2 DEF TypeOK
      <4> QED BY <2>1, <2>3, <3>1, <4>1
    <3>2. CASE k # j
      BY <2>2, <2>3, <3>2 DEF TypeOK
    <3> QED BY <3>1, <3>2
  <2>5. holds[w] \in submitted /\ holds[w] \notin Items(tasks)
    BY <1>7 DEF Process
  <2>6. \A v \in Worker \ {w} : worker[v] = "process" => holds[v] # holds[w]
    BY <1>7 DEF Process
  <2>7. finished' \subseteq submitted'
    BY <2>2, <2>5
  <2>8. \A t \in Items(tasks') : t \in submitted' /\ t \notin finished'
    BY <2>2, <2>5
  <2>9. \A v \in Worker : worker'[v] = "process" =>
           /\ holds'[v] \in submitted'
           /\ holds'[v] \notin finished'
           /\ holds'[v] \notin Items(tasks')
    BY <2>2, <2>6
  <2>10. \A u, v \in Worker :
            worker'[u] = "process" /\ worker'[v] = "process" /\ holds'[u] = holds'[v]
               => u = v
    BY <2>2
  <2>11. Distinct(tasks')
    BY <2>2
  <2> QED BY <2>4, <2>7, <2>8, <2>9, <2>10, <2>11
<1>8. ASSUME NEW w \in Worker, Publish(w) PROVE TileInv'
  <2>1. /\ UNCHANGED <<tasks, submitted, tilesRemaining, finished>>
        /\ worker'[w] # "process"
        /\ \A v \in Worker \ {w} : holds'[v] = holds[v] /\ worker'[v] = worker[v]
    BY <1>8 DEF Publish, jobVars, TypeOK
  <2> QED BY <2>1 DEF Unfinished
<1> QED BY <1>1, <1>2, <1>3, <1>4, <1>5, <1>6, <1>7, <1>8
        DEF Next, Owner, Client, workerLoop

-----------------------------------------------------------------------------
(***************************************************************************)
(* Jobs.                                                                   *)
(***************************************************************************)
LEMMA JobStep == IInv /\ Next => JobInv'
<1> SUFFICES ASSUME IInv, Next PROVE JobInv'
  OBVIOUS
<1> USE DEF IInv, JobInv
<1>1. CASE BeginStart \/ EndStart \/ FailStart
  BY <1>1 DEF BeginStart, EndStart, FailStart, workerVars, jobVars, Unfinished
<1>2. CASE SpawnWorker \/ NotifyAll \/ JoinWorkers \/ NotifyOne
  <2>1. /\ UNCHANGED <<completed, collected, holds, finished>>
        /\ \A w \in Worker : worker'[w] = "publish" => worker[w] = "publish"
    BY <1>2 DEF SpawnWorker, NotifyAll, JoinWorkers, NotifyOne, Waiting, jobVars, TypeOK
  <2> QED BY <2>1 DEF Unfinished
<1>3. CASE DiscardCompletions
  BY <1>3, EmptyItems DEF DiscardCompletions, workerVars, jobVars, Unfinished
<1>4. CASE BeginStop
  BY <1>4 DEF BeginStop, workerVars, Unfinished
<1>5. ASSUME NEW t \in Task, Submit(t) PROVE JobInv'
  BY <1>5 DEF Submit, workerVars, jobVars, Unfinished
<1>6. CASE PopCompleted
  <2>1. /\ Head(completed) \in Items(completed)
        /\ Head(completed) \notin Items(completed')
        /\ Items(completed') \subseteq Items(completed) /\ Distinct(completed')
    BY <1>6, TailItems DEF PopCompleted, TypeOK
  <2> QED BY <1>6, <2>1 DEF PopCompleted, workerVars, jobVars, Unfinished
<1>7. ASSUME NEW w \in Worker, Wait(w) \/ WakeSpuriously(w) \/ Leave(w) PROVE JobInv'
  <2>1. /\ UNCHANGED <<completed, collected, holds, finished>>
        /\ \A v \in Worker : worker'[v] = "publish" => worker[v] = "publish"
    BY <1>7 DEF Wait, WakeSpuriously, Leave, jobVars, TypeOK
  <2> QED BY <2>1 DEF Unfinished
<1>8. ASSUME NEW w \in Worker, TakeTask(w) PROVE JobInv'
  <2>1. /\ UNCHANGED <<completed, collected, finished>>
        /\ worker'[w] # "publish"
        /\ \A v \in Worker \ {w} : holds'[v] = holds[v] /\ worker'[v] = worker[v]
    BY <1>8 DEF TakeTask, jobVars, TypeOK
  <2> QED BY <2>1 DEF Unfinished
<1>9. ASSUME NEW w \in Worker, Process(w) PROVE JobInv'
  <2>1. PICK j \in Job, i \in Tile :
           /\ holds[w] = <<j, i>> /\ holds[w][1] = j /\ i \in Unfinished(j)
           /\ tilesRemaining[j] = 1 <=> Unfinished(j) \ {i} = {}
    <3>1. worker[w] = "process"
      BY <1>9 DEF Process
    <3> HIDE DEF IInv, JobInv
    <3> QED BY <3>1, CounterCounts, Zenon
  <2>2. /\ UNCHANGED <<completed, collected>>
        /\ finished' = finished \cup {holds[w]}
        /\ \A v \in Worker \ {w} : holds'[v] = holds[v] /\ worker'[v] = worker[v]
        /\ worker'[w] = "publish" => tilesRemaining[j] = 1 /\ holds'[w] = holds[w]
    BY <1>9, <2>1 DEF Process, TypeOK
  <2>3. Unfinished(j) # {} /\ Unfinished(j)' = Unfinished(j) \ {i}
    BY <2>1, <2>2 DEF Unfinished
  <2>4. \A k : Unfinished(k)' \subseteq Unfinished(k)
    BY <2>2 DEF Unfinished
  <2>5. \A v \in Worker \ {w} : worker'[v] = "publish" => holds'[v][1] # j
    BY <2>2, <2>3
  <2>6. j \notin collected /\ j \notin Items(completed)
    BY <2>3
  <2>7. worker'[w] = "publish" => holds'[w][1] = j /\ Unfinished(j)' = {}
    BY <2>1, <2>2, <2>3
  <2>8. Distinct(completed')
    BY <2>2
  <2>9. /\ \A k \in collected' \cup Items(completed') : Unfinished(k)' = {}
        /\ \A k \in Items(completed') : k \notin collected'
    BY <2>2, <2>4
  <2>10. \A v \in Worker : worker'[v] = "publish" =>
            /\ Unfinished(holds[v][1])' = {}
            /\ holds'[v][1] \notin collected'
            /\ holds'[v][1] \notin Items(completed')
    BY <2>2, <2>4, <2>6, <2>7
  <2>11. \A u, v \in Worker :
            worker'[u] = "publish" /\ worker'[v] = "publish"
            /\ holds'[u][1] = holds'[v][1] => u = v
    BY <2>2, <2>5, <2>7
  <2> QED BY <2>8, <2>9, <2>10, <2>11
<1>10. ASSUME NEW w \in Worker, Publish(w) PROVE JobInv'
  <2>1. holds[w][1] \in Job /\ completed \in Seq(Job)
    BY <1>10 DEF Publish, TypeOK, Task
  <2>2. /\ Items(completed') = Items(completed) \cup {holds[w][1]}
        /\ Distinct(completed')
    BY <1>10, <2>1, AppendItems DEF Publish
  <2>3. /\ UNCHANGED <<collected, finished>>
        /\ worker'[w] # "publish"
        /\ \A v \in Worker \ {w} : holds'[v] = holds[v] /\ worker'[v] = worker[v]
    BY <1>10 DEF Publish, jobVars, TypeOK
  <2>4. \A v \in Worker \ {w} : worker[v] = "publish" => holds[v][1] # holds[w][1]
    BY <1>10 DEF Publish
  <2>5. Unfinished(holds[w][1]) = {} /\ holds[w][1] \notin collected
    BY <1>10 DEF Publish
  <2> QED BY <2>2, <2>3, <2>4, <2>5 DEF Unfinished
<1> QED BY <1>1, <1>2, <1>3, <1>4, <1>5, <1>6, <1>7, <1>8, <1>9, <1>10
        DEF Next, Owner, Client, workerLoop

-----------------------------------------------------------------------------
(***************************************************************************)
(* Wake-ups.                                                               *)
(***************************************************************************)
\* The workers on their way to the queue are counted one by one.
LEMMA AwakeChanges ==
    ASSUME NEW w \in Worker, \A v \in Worker \ {w} : worker'[v] = worker[v]
    PROVE  /\ Cardinality(Awake) \in Nat
           /\ worker[w] # "lock" => Cardinality(Awake') =
                 IF worker'[w] = "lock" THEN Cardinality(Awake) + 1
                 ELSE Cardinality(Awake)
           /\ worker[w] = "lock" => Cardinality(Awake') =
                 IF worker'[w] = "lock" THEN Cardinality(Awake)
                 ELSE Cardinality(Awake) - 1
<1>1. IsFiniteSet(Awake) /\ Cardinality(Awake) \in Nat
  BY ExecutorAssumption, FS_Subset, FS_CardinalityType DEF Awake
<1>2. CASE worker[w] # "lock" /\ worker'[w] = "lock"
  <2>1. Awake' = Awake \cup {w} /\ w \notin Awake
    BY <1>2 DEF Awake
  <2> QED BY <1>1, <1>2, <2>1, FS_AddElement
<1>3. CASE worker[w] = "lock" /\ worker'[w] # "lock"
  <2>1. Awake' = Awake \ {w} /\ w \in Awake
    BY <1>3 DEF Awake
  <2> QED BY <1>1, <1>3, <2>1, FS_RemoveElement
<1>4. CASE worker[w] = "lock" <=> worker'[w] = "lock"
  <2>1. Awake' = Awake
    BY <1>4 DEF Awake
  <2> QED BY <1>1, <1>4, <2>1
<1> QED BY <1>2, <1>3, <1>4

LEMMA WakeStep == IInv /\ Next => NoTaskIsSleptThrough'
<1> SUFFICES ASSUME IInv, Next, Waiting' # {}
             PROVE  Len(tasks') <= Cardinality(Awake')
                                   + (IF client' = "notify" THEN 1 ELSE 0)
  BY DEF NoTaskIsSleptThrough
<1> DEFINE Covered == Len(tasks') <= Cardinality(Awake')
                                     + (IF client' = "notify" THEN 1 ELSE 0)
<1>1. /\ tasks \in Seq(Task) /\ Len(tasks) \in Nat /\ Cardinality(Awake) \in Nat
      /\ worker \in [Worker -> {"none", "lock", "waiting", "process", "publish",
                                "exited"}]
  <2>1. IsFiniteSet(Awake)
    BY ExecutorAssumption, FS_Subset DEF Awake
  <2> QED BY <2>1, FS_CardinalityType DEF IInv, TypeOK
<1>2. Waiting # {} =>
         Len(tasks) <= Cardinality(Awake) + (IF client = "notify" THEN 1 ELSE 0)
  BY DEF IInv, NoTaskIsSleptThrough
<1>3. CASE BeginStart \/ DiscardCompletions \/ EndStart \/ FailStart \/ PopCompleted
  <2>1. UNCHANGED <<worker, tasks>> /\ (client' = client)
    BY <1>3 DEF BeginStart, DiscardCompletions, EndStart, FailStart, PopCompleted,
                workerVars
  <2> QED BY <1>2, <2>1 DEF Waiting, Awake
<1>4. CASE SpawnWorker
  <2>1. PICK w \in Worker : worker[w] = "none" /\ worker' = [worker EXCEPT ![w] = "lock"]
    BY <1>4 DEF SpawnWorker
  <2>2. Cardinality(Awake') = Cardinality(Awake) + 1
    BY <1>1, <2>1, AwakeChanges
  <2>3. Waiting = Waiting' /\ UNCHANGED <<tasks, client>>
    BY <1>1, <1>4, <2>1 DEF SpawnWorker, Waiting
  <2> QED BY <1>1, <1>2, <2>2, <2>3
<1>5. CASE BeginStop
  BY <1>1, <1>5 DEF BeginStop, workerVars, Awake
<1>6. CASE NotifyAll \/ JoinWorkers
  BY <1>1, <1>6 DEF NotifyAll, JoinWorkers, Waiting
<1>7. ASSUME NEW t \in Task, Submit(t) PROVE Covered
  <2>1. UNCHANGED worker /\ client = "idle" /\ client' = "notify" /\ Len(tasks') = Len(tasks) + 1
    BY <1>1, <1>7 DEF Submit, workerVars
  <2>2. Waiting # {} /\ Awake' = Awake
    BY <2>1 DEF Waiting, Awake
  <2> QED BY <1>1, <1>2, <2>1, <2>2
<1>8. CASE NotifyOne
  <2>1. Waiting # {}
    BY <1>8 DEF NotifyOne, Waiting
  <2>2. PICK w \in Waiting : worker' = [worker EXCEPT ![w] = "lock"]
    BY <1>8, <2>1 DEF NotifyOne
  <2>3. Cardinality(Awake') = Cardinality(Awake) + 1
    BY <1>1, <2>2, AwakeChanges DEF Waiting
  <2>4. client = "notify" /\ client' = "idle" /\ UNCHANGED tasks
    BY <1>8 DEF NotifyOne
  <2> QED BY <1>1, <1>2, <2>1, <2>3, <2>4
<1>9. ASSUME NEW w \in Worker, Wait(w) PROVE Covered
  <2>1. Cardinality(Awake') \in Nat
    BY <1>9, ExecutorAssumption, FS_Subset, FS_CardinalityType DEF Awake
  <2> QED BY <1>9, <2>1 DEF Wait
<1>10. ASSUME NEW w \in Worker, Leave(w) PROVE Covered
  <2>1. Cardinality(Awake') \in Nat
    BY <1>10, ExecutorAssumption, FS_Subset, FS_CardinalityType DEF Awake
  <2>2. tasks = <<>>
    BY <1>10 DEF Leave, IInv, PhaseInv, TypeOK
  <2> QED BY <1>10, <2>1, <2>2 DEF Leave
<1>11. ASSUME NEW w \in Worker, WakeSpuriously(w) PROVE Covered
  <2>1. Cardinality(Awake') = Cardinality(Awake) + 1
    BY <1>1, <1>11, AwakeChanges DEF WakeSpuriously
  <2> QED BY <1>1, <1>2, <1>11, <2>1 DEF WakeSpuriously, Waiting
<1>12. ASSUME NEW w \in Worker, TakeTask(w) PROVE Covered
  <2>1. Cardinality(Awake') = Cardinality(Awake) - 1
    BY <1>1, <1>12, AwakeChanges DEF TakeTask
  <2>2. Len(tasks') = Len(tasks) - 1 /\ client' = client
    BY <1>1, <1>12 DEF TakeTask
  <2>3. Waiting # {}
    BY <1>1, <1>12 DEF TakeTask, Waiting
  <2> QED BY <1>1, <1>2, <2>1, <2>2, <2>3
<1>13. ASSUME NEW w \in Worker, Process(w) \/ Publish(w) PROVE Covered
  <2>1. /\ worker[w] # "lock" /\ worker'[w] # "waiting"
        /\ \A v \in Worker \ {w} : worker'[v] = worker[v]
        /\ UNCHANGED <<tasks, client>>
    BY <1>1, <1>13 DEF Process, Publish
  <2>2. Cardinality(Awake') \in {Cardinality(Awake), Cardinality(Awake) + 1}
    BY <2>1, AwakeChanges
  <2>3. Waiting # {}
    BY <2>1 DEF Waiting
  <2> QED BY <1>1, <1>2, <2>1, <2>2, <2>3
<1> QED BY <1>3, <1>4, <1>5, <1>6, <1>7, <1>8, <1>9, <1>10, <1>11, <1>12, <1>13
        DEF Next, Owner, Client, workerLoop

-----------------------------------------------------------------------------
(***************************************************************************)
(* The invariants.                                                         *)
(***************************************************************************)
LEMMA StutterHolds == IInv /\ UNCHANGED vars => IInv'
<1> SUFFICES ASSUME IInv, UNCHANGED vars PROVE IInv'
  OBVIOUS
<1> USE DEF IInv, vars, workerVars, jobVars
<1>1. TypeOK'
  BY DEF TypeOK
<1>2. PhaseInv'
  BY DEF PhaseInv
<1>3. TileInv'
  BY DEF TileInv, Unfinished
<1>4. JobInv'
  BY DEF JobInv, Unfinished
<1>5. NoTaskIsSleptThrough'
  BY DEF NoTaskIsSleptThrough, Waiting, Awake
<1> QED BY <1>1, <1>2, <1>3, <1>4, <1>5

LEMMA Invariant == Spec => []IInv
<1>1. IInv /\ [Next]_vars => IInv'
  BY TypeStep, PhaseStep, TileStep, JobStep, WakeStep, StutterHolds DEF IInv
<1> QED BY InitHolds, <1>1, PTL DEF Spec

\* Every variable stays in its type and the queue within its capacity, for any
\* number of workers: no tile counter runs below zero.
THEOREM TypeCorrect == Spec => []TypeOK
<1>1. IInv => TypeOK
  BY DEF IInv
<1> QED BY Invariant, <1>1, PTL

\* No wake-up is lost: for each queued task a worker is awake or notify_one() is
\* still to come, while any worker sleeps.
THEOREM NoWakeUpIsLost == Spec => []NoTaskIsSleptThrough
<1>1. IInv => NoTaskIsSleptThrough
  BY DEF IInv
<1> QED BY Invariant, <1>1, PTL

\* "Every sleeping worker must wake, observe stopRequested and exit": none is
\* asleep while stop() joins them, nor falls asleep again.
THEOREM NobodySleepsWhenJoined ==
    Spec => [](owner = "joining" => Waiting = {})
<1>1. IInv => (owner = "joining" => Waiting = {})
  BY DEF IInv, PhaseInv, Waiting
<1> QED BY Invariant, <1>1, PTL

\* Between two sessions, and before the workers of the next one exist, the pool
\* holds no task.
THEOREM NothingIsLeftOver ==
    Spec => [](owner = "stopped" => Queued = {} /\ Held = {})
<1>1. IInv => (owner = "stopped" => Queued = {} /\ Held = {})
  BY EmptyItems, QueuedItems DEF IInv, PhaseInv, Held
<1> QED BY Invariant, <1>1, PTL

-----------------------------------------------------------------------------
(***************************************************************************)
(* The refinement: what the abstract pool sees of a tile and of a job.     *)
(***************************************************************************)
LEMMA JobIsDone ==
    ASSUME NEW j
    PROVE  {j} \X Tile \subseteq finished <=> Unfinished(j) = {}
BY DEF Unfinished

LEMMA SameTiles ==
    ASSUME UNCHANGED <<submitted, finished>>,
           Queued' \cup Held' = Queued \cup Held
    PROVE  \A t \in Task : TileStatus(t)' = TileStatus(t)
BY DEF TileStatus

LEMMA SameResults ==
    ASSUME UNCHANGED <<collected, completed, finished>>,
           \A j \in Job : Returning(j)' <=> Returning(j)
    PROVE  \A j \in Job : JobResult(j)' = JobResult(j)
BY DEF JobResult

\* A step that changes none of this is a stutter of the pool.
LEMMA PoolStutters ==
    ASSUME Phase' = Phase, cancelled' = cancelled,
           \A t \in Task : TileStatus(t)' = TileStatus(t),
           \A j \in Job : JobResult(j)' = JobResult(j)
    PROVE  UNCHANGED Pool!vars
BY DEF Pool!vars

\* What the workers hold and bring back, when no thread takes or gives a tile.
LEMMA SameWork ==
    ASSUME UNCHANGED holds,
           \A w \in Worker : worker'[w] = "process" <=> worker[w] = "process",
           \A w \in Worker : worker'[w] = "publish" <=> worker[w] = "publish"
    PROVE  Held' = Held /\ \A j \in Job : Returning(j)' <=> Returning(j)
BY DEF Held, Returning

LEMMA InitRefines == Init => Pool!Init
<1> SUFFICES ASSUME Init PROVE Pool!Init
  OBVIOUS
<1>1. Phase = "closed" /\ cancelled = {}
  BY DEF Init, Phase
<1> submitted = {} /\ finished = {} /\ collected = {} /\ completed = <<>>
  BY DEF Init
<1> Queued = {} /\ Held = {}
  BY EmptyItems, QueuedItems DEF Init, Held
<1>2. \A t \in Task : TileStatus(t) = "client"
  BY DEF TileStatus
<1>3. ASSUME NEW j \in Job PROVE JobResult(j) = "open"
  <2>1. Unfinished(j) # {}
    BY ExecutorAssumption DEF Unfinished
  <2>2. ~({j} \X Tile \subseteq finished)
    BY <2>1, JobIsDone
  <2> QED BY <2>2 DEF JobResult
<1> QED BY <1>1, <1>2, <1>3 DEF Pool!Init, Task

\* The owner's steps.
LEMMA OwnerRefines == IInv /\ Owner => [Pool!Next]_(Pool!vars)
<1> SUFFICES ASSUME IInv, Owner PROVE [Pool!Next]_(Pool!vars)
  OBVIOUS
<1>1. CASE BeginStart
  <2>1. Phase = "closed" /\ Phase' = "opening" /\ cancelled' = cancelled
    BY <1>1 DEF BeginStart, Phase, jobVars
  <2>2. \A t \in Task : TileStatus(t)' = TileStatus(t)
    BY <1>1, SameTiles DEF BeginStart, workerVars, jobVars, Queued, Held
  <2>3. \A j \in Job : JobResult(j)' = JobResult(j)
    BY <1>1, SameResults DEF BeginStart, workerVars, jobVars, Returning
  <2>4. Pool!Open
    BY <2>1, <2>2, <2>3 DEF Pool!Open
  <2> QED BY <2>4 DEF Pool!Next
<1>2. CASE DiscardCompletions
  <2>1. Phase = "opening" /\ Phase' = "serving" /\ cancelled' = cancelled
    BY <1>2 DEF DiscardCompletions, Phase, jobVars
  <2>2. \A t \in Task : TileStatus(t)' = TileStatus(t)
    BY <1>2, SameTiles DEF DiscardCompletions, workerVars, jobVars, Queued, Held
  <2>3. ASSUME NEW j \in Job
        PROVE  JobResult(j)' = IF JobResult(j) = "returned" THEN "forgotten"
                               ELSE JobResult(j)
    <3>1. /\ ~Returning(j) /\ ~Returning(j)'
          /\ UNCHANGED <<collected, finished>> /\ completed' = <<>>
      BY <1>2 DEF DiscardCompletions, IInv, PhaseInv, Returning, workerVars, jobVars
    <3>2. j \in Items(completed) => {j} \X Tile \subseteq finished
      BY JobIsDone DEF IInv, JobInv
    <3>3. j \in Items(completed) <=> \E i \in DOMAIN completed : completed[i] = j
      BY DEF Items
    <3> QED BY <3>1, <3>2, <3>3 DEF JobResult
  <2>4. Pool!Serve
    BY <2>1, <2>2, <2>3 DEF Pool!Serve
  <2> QED BY <2>4 DEF Pool!Next
<1>3. CASE SpawnWorker \/ EndStart \/ FailStart \/ NotifyAll
  <2>1. /\ Phase' = Phase /\ Queued' = Queued
        /\ UNCHANGED <<cancelled, submitted, finished, collected, completed, holds>>
    BY <1>3 DEF SpawnWorker, EndStart, FailStart, NotifyAll, workerVars, jobVars,
                Phase, Queued
  <2>2. \A w \in Worker : /\ worker'[w] = "process" <=> worker[w] = "process"
                          /\ worker'[w] = "publish" <=> worker[w] = "publish"
    BY <1>3 DEF SpawnWorker, EndStart, FailStart, NotifyAll, workerVars, Waiting,
                IInv, TypeOK
  <2>3. Held' = Held /\ \A j \in Job : Returning(j)' <=> Returning(j)
    BY <2>1, <2>2, SameWork
  <2> QED BY <2>1, <2>3, SameTiles, SameResults, PoolStutters
<1>4. CASE BeginStop
  <2>1. /\ Phase = "serving" /\ Phase' = "closing"
        /\ cancelled' = cancelled \cup {t[1] : t \in Queued}
        /\ tasks' = <<>>
        /\ UNCHANGED <<submitted, finished, collected, completed, workerVars>>
    BY <1>4 DEF BeginStop, Phase
  <2>2. Held' = Held /\ Queued' = {}
    BY <2>1 DEF Held, Queued, workerVars
  <2>3. \A t \in Task : t \in Queued => t \in submitted \ finished /\ t \notin Held
    BY QueuedItems DEF IInv, TileInv, Held
  <2>4. \A t \in Task : TileStatus(t)' =
            IF t \in Queued THEN "dropped" ELSE TileStatus(t)
    BY <2>1, <2>2, <2>3 DEF TileStatus
  <2>5. \A j \in Job : JobResult(j)' = JobResult(j)
    BY <2>1, SameResults DEF workerVars, Returning
  <2>6. Queued \in SUBSET Task /\ \A t \in Queued : TileStatus(t) = "accepted"
    BY <2>3, QueuedItems DEF IInv, TypeOK, Items, TileStatus
  <2>7. Queued \in SUBSET Pool!Accepted
    BY <2>6 DEF Pool!Accepted, Task
  <2>8. Pool!Close
    BY <2>1, <2>4, <2>5, <2>7 DEF Pool!Close, Task
  <2> QED BY <2>8 DEF Pool!Next
<1>5. CASE JoinWorkers
  <2>1. /\ Phase = "closing" /\ Phase' = "closed" /\ Queued' = Queued
        /\ UNCHANGED <<cancelled, submitted, finished, collected, completed, holds>>
    BY <1>5 DEF JoinWorkers, jobVars, Phase, Queued
  <2>2. \A w \in Worker :
            /\ worker[w] \in {"none", "exited"} /\ worker'[w] = "none"
    BY <1>5 DEF JoinWorkers
  <2>3. /\ Held = {} /\ Held' = {} /\ Queued = {}
        /\ \A j \in Job : ~Returning(j) /\ ~Returning(j)'
    BY <1>5, <2>2, EmptyItems, QueuedItems DEF JoinWorkers, Held, Returning, IInv, PhaseInv
  <2>4. /\ \A t \in Task : TileStatus(t)' = TileStatus(t)
        /\ \A j \in Job : JobResult(j)' = JobResult(j)
    BY <2>1, <2>3, SameTiles, SameResults
  <2>5. \A t \in Task : TileStatus(t) # "accepted"
    BY <2>3 DEF TileStatus
  <2>6. Pool!Accepted = {}
    BY <2>5 DEF Pool!Accepted, Task
  <2>7. ASSUME NEW j \in Job, \A i \in Tile : TileStatus(<<j, i>>) = "finished"
        PROVE  JobResult(j) # "open"
    <3>1. \A i \in Tile : <<j, i>> \in finished
      BY <2>7 DEF TileStatus
    <3> QED BY <2>3, <3>1 DEF JobResult
  <2>8. \A j \in Job : Pool!Done(j) => JobResult(j) # "open"
    BY <2>7 DEF Pool!Done, Task
  <2>9. Pool!Closed
    BY <2>1, <2>4, <2>6, <2>8 DEF Pool!Closed
  <2> QED BY <2>9 DEF Pool!Next
<1> QED BY <1>1, <1>2, <1>3, <1>4, <1>5 DEF Owner

\* The client's steps.
LEMMA ClientRefines == IInv /\ Client => [Pool!Next]_(Pool!vars)
<1> SUFFICES ASSUME IInv, Client PROVE [Pool!Next]_(Pool!vars)
  OBVIOUS
<1>1. ASSUME NEW t \in Task, Submit(t) PROVE Pool!Next
  <2>1. /\ Phase \in {"opening", "serving"} /\ Phase' = Phase
        /\ cancelled' = cancelled
    BY <1>1 DEF Submit, started, Phase, jobVars, IInv, TypeOK, PhaseInv
  <2>2. /\ t \notin submitted /\ t \notin finished
        /\ submitted' = submitted \cup {t} /\ finished' = finished
    BY <1>1 DEF Submit, jobVars, IInv, TileInv
  <2>3. /\ Queued' = Queued \cup {t} /\ Held' = Held
        /\ t \notin Queued \cup Held
    <3>1. tasks' = Append(tasks, t) /\ UNCHANGED workerVars
      BY <1>1 DEF Submit
    <3>2. Items(tasks') = Items(tasks) \cup {t}
      BY <3>1, AppendItems DEF IInv, TypeOK
    <3>3. Queued' = Items(tasks')
      BY DEF Queued, Items
    <3>4. t \notin Queued \cup Held
      BY <2>2, QueuedItems DEF Held, IInv, TileInv
    <3> QED BY <3>1, <3>2, <3>3, <3>4, QueuedItems DEF Held, workerVars
  <2>4. TileStatus(t) = "client" /\ TileStatus(t)' = "accepted"
    BY <2>2, <2>3 DEF TileStatus
  <2>5. \A u \in Task \ {t} : TileStatus(u)' = TileStatus(u)
    BY <2>2, <2>3 DEF TileStatus
  <2>6. \A j \in Job : JobResult(j)' = JobResult(j)
    BY <1>1, SameResults DEF Submit, workerVars, jobVars, Returning
  <2>7. Pool!Accept(t)
    BY <2>1, <2>4, <2>5, <2>6 DEF Pool!Accept, Task
  <2> QED BY <2>7 DEF Pool!Next, Task
<1>2. CASE NotifyOne
  <2>1. /\ Phase' = Phase /\ Queued' = Queued
        /\ UNCHANGED <<cancelled, submitted, finished, collected, completed, holds>>
    BY <1>2 DEF NotifyOne, jobVars, Phase, Queued
  <2>2. \A w \in Worker : /\ worker'[w] = "process" <=> worker[w] = "process"
                          /\ worker'[w] = "publish" <=> worker[w] = "publish"
    BY <1>2 DEF NotifyOne, Waiting, IInv, TypeOK
  <2>3. Held' = Held /\ \A j \in Job : Returning(j)' <=> Returning(j)
    BY <2>1, <2>2, SameWork
  <2> QED BY <2>1, <2>3, SameTiles, SameResults, PoolStutters
<1>3. CASE PopCompleted
  <2>1. /\ Phase' = Phase /\ cancelled' = cancelled
        /\ \A t \in Task : TileStatus(t)' = TileStatus(t)
    BY <1>3, SameTiles DEF PopCompleted, workerVars, jobVars, Phase, Queued, Held
  <2> DEFINE j == Head(completed)
  <2>2. /\ j \in Job /\ j \notin collected
        /\ Items(completed) = Items(completed') \cup {j}
        /\ j \in Items(completed) /\ j \notin Items(completed')
    BY <1>3, TailItems DEF PopCompleted, IInv, TypeOK, JobInv
  <2>3. /\ collected' = collected \cup {j}
        /\ UNCHANGED finished
        /\ \A k \in Job : Returning(k)' <=> Returning(k)
    BY <1>3 DEF PopCompleted, workerVars, jobVars, Returning
  <2>4. \A k : /\ k \in Items(completed) <=> \E i \in DOMAIN completed : completed[i] = k
               /\ k \in Items(completed') <=> \E i \in DOMAIN completed' : completed'[i] = k
    BY DEF Items
  <2> HIDE DEF j
  <2>5. JobResult(j) = "returned"
    BY <2>2, <2>4 DEF JobResult
  <2>6. ASSUME NEW k \in Job
        PROVE  JobResult(k)' = IF k = j THEN "delivered" ELSE JobResult(k)
    BY <2>2, <2>3, <2>4 DEF JobResult
  <2>7. Pool!Deliver(j)
    BY <2>1, <2>2, <2>5, <2>6 DEF Pool!Deliver, Task
  <2> QED BY <2>2, <2>7 DEF Pool!Next
<1> QED BY <1>1, <1>2, <1>3 DEF Client

\* The workers' steps.
LEMMA WorkerRefines ==
    ASSUME IInv, NEW w \in Worker, workerLoop(w) \/ WakeSpuriously(w)
    PROVE  [Pool!Next]_(Pool!vars)
<1>1. CASE Wait(w) \/ Leave(w) \/ WakeSpuriously(w)
  <2>1. /\ Phase' = Phase /\ Queued' = Queued
        /\ UNCHANGED <<cancelled, submitted, finished, collected, completed, holds>>
    BY <1>1 DEF Wait, Leave, WakeSpuriously, jobVars, Phase, Queued
  <2>2. \A v \in Worker : /\ worker'[v] = "process" <=> worker[v] = "process"
                          /\ worker'[v] = "publish" <=> worker[v] = "publish"
    BY <1>1 DEF Wait, Leave, WakeSpuriously, IInv, TypeOK
  <2>3. Held' = Held /\ \A j \in Job : Returning(j)' <=> Returning(j)
    BY <2>1, <2>2, SameWork
  <2> QED BY <2>1, <2>3, SameTiles, SameResults, PoolStutters
<1>2. CASE TakeTask(w)
  <2>1. /\ Phase' = Phase
        /\ UNCHANGED <<cancelled, submitted, finished, collected, completed>>
        /\ worker[w] = "lock" /\ worker'[w] = "process" /\ holds'[w] = Head(tasks)
        /\ \A v \in Worker \ {w} : holds'[v] = holds[v] /\ worker'[v] = worker[v]
    BY <1>2 DEF TakeTask, jobVars, Phase, IInv, TypeOK
  <2>2. Queued = Queued' \cup {Head(tasks)}
    <3>1. tasks # <<>> /\ tasks' = Tail(tasks)
      BY <1>2 DEF TakeTask
    <3>2. Items(tasks) = Items(tasks') \cup {Head(tasks)}
      BY <3>1, TailItems DEF IInv, TypeOK
    <3>3. Queued' = Items(tasks')
      BY DEF Queued, Items
    <3> QED BY <3>2, <3>3, QueuedItems
  <2>3. Held' = Held \cup {Head(tasks)}
    BY <2>1 DEF Held
  <2>4. \A j \in Job : Returning(j)' <=> Returning(j)
    BY <2>1 DEF Returning
  <2> QED BY <2>1, <2>2, <2>3, <2>4, SameTiles, SameResults, PoolStutters
<1>3. CASE Process(w)
  <2>1. PICK j \in Job, i \in Tile :
           /\ holds[w] = <<j, i>> /\ holds[w][1] = j /\ i \in Unfinished(j)
           /\ tilesRemaining[j] = 1 <=> Unfinished(j) \ {i} = {}
    <3>1. worker[w] = "process"
      BY <1>3 DEF Process
    <3> QED BY <3>1, CounterCounts, Zenon
  <2> DEFINE t == <<j, i>>
  <2>2. /\ Phase \in {"serving", "closing"} /\ Phase' = Phase
        /\ cancelled' \in {cancelled, cancelled \cup {t[1]}}
        /\ UNCHANGED <<submitted, collected, completed, tasks>>
        /\ finished' = finished \cup {t}
    BY <1>3, <2>1 DEF Process, Phase, IInv, TypeOK, PhaseInv
  <2>3. /\ worker[w] = "process" /\ worker'[w] # "process"
        /\ worker'[w] = "publish" <=> Unfinished(j) \ {i} = {}
        /\ worker'[w] = "publish" => holds'[w] = t
        /\ \A v \in Worker \ {w} : holds'[v] = holds[v] /\ worker'[v] = worker[v]
    BY <1>3, <2>1 DEF Process, IInv, TypeOK
  <2>4. t \in Held /\ t \in Task /\ t \in submitted /\ t \notin finished
    BY <2>1, <2>3 DEF Held, Task, IInv, TileInv
  <2>5. Queued' = Queued /\ Held \ {t} \subseteq Held' /\ Held' \subseteq Held
    BY <2>1, <2>2, <2>3 DEF Held, Queued
  <2>6. TileStatus(t) = "accepted" /\ TileStatus(t)' = "finished"
    BY <2>2, <2>4 DEF TileStatus
  <2>7. \A u \in Task \ {t} : TileStatus(u)' = TileStatus(u)
    BY <2>2, <2>5 DEF TileStatus
  <2>8. /\ Unfinished(j) # {} /\ Unfinished(j)' = Unfinished(j) \ {i}
        /\ \A k \in Job \ {j} : Unfinished(k)' = Unfinished(k)
    BY <2>1, <2>2 DEF Unfinished
  <2>9. /\ \A k \in Job \ {j} : Returning(k)' <=> Returning(k)
        /\ Unfinished(j)' = {} => Returning(j)'
    BY <2>3, <2>8 DEF Returning
  <2>10. \A k \in Job : /\ {k} \X Tile \subseteq finished <=> Unfinished(k) = {}
                        /\ {k} \X Tile \subseteq finished' <=> Unfinished(k)' = {}
    BY DEF Unfinished
  <2>11. j \notin collected /\ ~\E n \in DOMAIN completed : completed[n] = j
    BY <2>8 DEF IInv, JobInv, Items
  <2>12. \A k \in Job : JobResult(k)' = JobResult(k)
    <3>1. JobResult(j)' = JobResult(j)
      BY <2>2, <2>8, <2>9, <2>10, <2>11 DEF JobResult
    <3>2. \A k \in Job \ {j} : JobResult(k)' = JobResult(k)
      BY <2>2, <2>8, <2>9, <2>10 DEF JobResult
    <3> QED BY <3>1, <3>2
  <2>13. Pool!Finish(t)
    BY <2>2, <2>4, <2>6, <2>7, <2>12 DEF Pool!Finish, Task
  <2> QED BY <2>4, <2>13 DEF Pool!Next, Task
<1>4. CASE Publish(w)
  <2>1. PICK j \in Job : holds[w][1] = j
    BY <1>4 DEF Publish, IInv, TypeOK, Task
  <2>2. /\ Phase' = Phase
        /\ UNCHANGED <<cancelled, submitted, finished, collected, tasks>>
        /\ worker[w] = "publish" /\ worker'[w] = "lock"
        /\ \A v \in Worker \ {w} : holds'[v] = holds[v] /\ worker'[v] = worker[v]
        /\ completed' = Append(completed, j)
    BY <1>4, <2>1 DEF Publish, jobVars, Phase, IInv, TypeOK
  <2>3. Items(completed') = Items(completed) \cup {j}
    BY <2>2, AppendItems DEF IInv, TypeOK
  <2>4. Queued' = Queued /\ Held' = Held
    BY <2>2 DEF Held, Queued
  <2>5. \A t \in Task : TileStatus(t)' = TileStatus(t)
    BY <2>2, <2>4, SameTiles
  <2>6. Returning(j) /\ \A k \in Job \ {j} : Returning(k)' <=> Returning(k)
    BY <2>1, <2>2 DEF Returning
  <2>7. \A k : /\ k \in Items(completed) <=> \E i \in DOMAIN completed : completed[i] = k
               /\ k \in Items(completed') <=> \E i \in DOMAIN completed' : completed'[i] = k
    BY DEF Items
  <2>8. Unfinished(j) = {} /\ j \notin collected /\ j \notin Items(completed)
    BY <2>1, <2>2 DEF IInv, JobInv
  <2>9. JobResult(j) = "open" /\ JobResult(j)' = "returned"
    BY <2>2, <2>3, <2>6, <2>7, <2>8 DEF JobResult
  <2>10. \A k \in Job \ {j} : JobResult(k)' = JobResult(k)
    BY <2>2, <2>3, <2>6, <2>7 DEF JobResult
  <2>11. \A i \in Tile : TileStatus(<<j, i>>) = "finished"
    <3>1. \A i \in Tile : <<j, i>> \in finished /\ <<j, i>> \in submitted
      BY <2>8 DEF Unfinished, IInv, TileInv
    <3> QED BY <3>1 DEF TileStatus
  <2>12. Pool!Return(j)
    BY <2>2, <2>5, <2>9, <2>10, <2>11 DEF Pool!Return, Pool!Done, Task
  <2> QED BY <2>12 DEF Pool!Next
<1> QED BY <1>1, <1>2, <1>3, <1>4 DEF workerLoop

\* The pool with its queues, mutex, condition variable and threads implements
\* IRenderExecutor's contract: an accepted tile is finished once or dropped by
\* stop(), and a job comes back once, from its own session.
THEOREM Refinement == Spec => ImplementsPool
<1>1. IInv /\ [Next]_vars => [Pool!Next]_(Pool!vars)
  <2>1. IInv /\ Next => [Pool!Next]_(Pool!vars)
    BY OwnerRefines, ClientRefines, WorkerRefines DEF Next
  <2>2. UNCHANGED vars => UNCHANGED Pool!vars
    BY DEF vars, workerVars, jobVars, Pool!vars, Phase, TileStatus, JobResult,
           Returning, Queued, Held
  <2> QED BY <2>1, <2>2
<1> QED BY InitRefines, Invariant, <1>1, PTL DEF Spec, ImplementsPool, Pool!Spec

=============================================================================
